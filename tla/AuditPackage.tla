---------------------------- MODULE AuditPackage ----------------------------
(***************************************************************************)
(* The report package that src/package.rs builds of a verified dossier: an *)
(* inventory of documents with their digests, each document a projection  *)
(* of the dossier.  A document's text is modelled by what it says: the set *)
(* of its rows, which identifiers tell apart, with the same names as in    *)
(* the dossier.  Titles, prose and escaping are left out.                  *)
(***************************************************************************)
EXTENDS Engagement

Treated(x) == x.disposition \in {"remediated", "compensatingControl"}

-----------------------------------------------------------------------------
\* The documents

\* The number of all exceptions is not among what the report shows.
ReportText(d) ==
    {[mode |-> d.engagement.mode, phase |-> d.engagement.phase, conclusion |-> d.conclusion,
      summary |-> Restrict(d.summary, DOMAIN d.summary \ {"exceptions"}),
      scope |-> d.engagement.scope, period |-> d.engagement.period,
      frameworks |-> d.engagement.frameworks, recipients |-> d.engagement.recipients]}

ControlsText(d) ==
    {[rule |-> c.rule, severity |-> c.severity, automated |-> c.automated, status |-> c.status,
      paper |-> c.paper, reviewer |-> c.reviewer, sample |-> c.sample,
      evidence |-> Cardinality(c.evidence), exceptions |-> Cardinality(c.exceptions)] :
        c \in d.controls}

\* An observation's id and the digest of its facts stand for the observation.
EvidenceText(d) == {[observation |-> i.observation, rules |-> i.referencedBy] : i \in d.index}

RequestsText(d) ==
    {[id |-> q.id, owner |-> q.owner, status |-> q.status, rules |-> q.rules,
      evidence |-> Cardinality(q.evidence)] : q \in d.engagement.requests}

SamplingText(d) ==
    {[id |-> s.id, rule |-> s.rule, population |-> s.population, method |-> s.method,
      size |-> s.size, selected |-> Len(s.selected)] : s \in d.engagement.samples}

WorkpapersText(d) ==
    {[id |-> w.id, rule |-> w.rule, preparer |-> w.preparer, preparedAt |-> w.preparedAt,
      design |-> w.design, operating |-> w.operating, evidence |-> Cardinality(w.evidence),
      exceptions |-> Cardinality(w.exceptions),
      reviewer |-> IF w.signoff = None THEN None ELSE w.signoff.reviewer,
      review |-> IF w.signoff = None THEN "pending" ELSE w.signoff.conclusion] :
        w \in d.engagement.papers}

\* Mutant: an exception that was treated is no longer a finding.
ExceptionsTextOpen(d) ==
    {[rule |-> r.rule, paper |-> r.paper, response |-> r.response,
      exception |-> [id |-> r.exception.id, class |-> r.exception.class,
                     disposition |-> r.exception.disposition]] :
        r \in {s \in d.exceptions : ~Treated(s.exception)}}

\* That no response is recorded is said of untreated exceptions only.
ExceptionsText(d) ==
    {[rule |-> r.rule, paper |-> r.paper, response |-> r.response,
      exception |-> [id |-> r.exception.id, class |-> r.exception.class,
                     disposition |-> r.exception.disposition]] : r \in d.exceptions}

TrailText(d) == Range(d.trail)

CrosswalkText(d) ==
    UNION {{[rule |-> c.rule, status |-> c.status, framework |-> f] : f \in c.mappings} :
             c \in d.controls}

-----------------------------------------------------------------------------
\* build_audit_package and verify_audit_package.  A digest is what it digests.

Document(name, content) == [name |-> name, sha |-> content, content |-> content]

Metadata(document) == [name |-> document.name, sha |-> document.sha]

PackageId(dossier, inventory) == <<dossier, inventory>>

Sealed(dossier, documents) ==
    LET inventory == [i \in DOMAIN documents |-> Metadata(documents[i])] IN
    [manifest |-> [id |-> PackageId(dossier, inventory), dossier |-> dossier,
                   documents |-> inventory],
     documents |-> documents]

BuildAuditPackage(d) ==
    Sealed(d, <<Document("report", ReportText(d)), Document("controls", ControlsText(d)),
                Document("evidence", EvidenceText(d)), Document("requests", RequestsText(d)),
                Document("sampling", SamplingText(d)), Document("workpapers", WorkpapersText(d)),
                Document("exceptions", ExceptionsText(d)), Document("trail", TrailText(d)),
                Document("crosswalk", CrosswalkText(d)), Document("dossier", {d})>>)

VerifyAuditPackage(p) ==
    /\ Len(p.manifest.documents) = Len(p.documents)
    /\ IsInjective([i \in DOMAIN p.documents |-> p.documents[i].name])
    /\ \A i \in DOMAIN p.documents :
         /\ p.manifest.documents[i] = Metadata(p.documents[i])
         /\ p.documents[i].sha = p.documents[i].content
    /\ p.manifest.id = PackageId(p.manifest.dossier, p.manifest.documents)

-----------------------------------------------------------------------------
\* What a package becomes by losing a document with its line in the inventory, or
\* by the contents of two documents changing places.
Damaged(p) ==
    LET docs == p.documents
        Exchanged(i, j) ==
            [docs EXCEPT ![i].content = docs[j].content, ![j].content = docs[i].content]
    IN  {[p EXCEPT !.documents = RemoveAt(@, i), !.manifest.documents = RemoveAt(@, i)] :
            i \in DOMAIN docs}
        \cup {[p EXCEPT !.documents = Exchanged(ij[1], ij[2])] :
                ij \in {k \in (DOMAIN docs) \X (DOMAIN docs) :
                           docs[k[1]].content # docs[k[2]].content}}

=============================================================================
