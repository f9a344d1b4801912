------------------------------- MODULE Audit --------------------------------
(***************************************************************************)
(* The audit command: src/audit.rs over the assessment (Engine) and the    *)
(* engagement record (Engagement), with the exit code of app.rs and the    *)
(* verification that package performs on a dossier it is given.            *)
(*                                                                         *)
(* Between runs the people of the engagement edit its record in any order, *)
(* forwards and backwards, and collectors deliver evidence; the edits are  *)
(* the environment, RunAudit and Package are the program.                  *)
(***************************************************************************)
EXTENDS Engine, AuditPackage

CONSTANTS
    Manifest, Program,
    Drafts,         \* engagement records the work may begin with
    Papers, Requests, Responses, Observations,  \* what the edits may put in
    FailOn,         \* the --fail-on values tried
    NoDossier

ASSUME AuditAssumption ==
    /\ IsFiniteSet(Program.rules)
    /\ \A rule \in Program.rules : rule.severity \in Nat
    /\ \A e \in Drafts :
         /\ {"papers", "actors", "requests"} \subseteq DOMAIN e /\ None \notin ActorIds(e)
         /\ IsFiniteSet(e.papers) /\ IsFiniteSet(e.requests)
    /\ \A w \in Papers \cup UNION {e.papers : e \in Drafts} : PaperTyped(w)

VARIABLES
    eng,        \* the engagement record
    evidence,   \* the evidence bundle
    dossier,    \* what the audit of these two wrote
    exit,       \* how that command ended, and under which --fail-on
    packaged    \* what package made of the dossier: how it ended, and the package

vars == <<eng, evidence, dossier, exit, packaged>>

-----------------------------------------------------------------------------
\* run_audit

AuditStatus(finding, w) ==
    IF w = None THEN "notReviewed"
    ELSE IF finding.status = "unknown" \/ ~Tested(w) THEN "evidenceGap"
    ELSE IF \/ finding.status = "fail"
            \/ "ineffective" \in {w.design, w.operating}
            \/ w.exceptions # {} THEN "exception"
    ELSE "satisfactory"

PaperOf(e, rule) ==
    IF \E w \in e.papers : w.rule = rule THEN CHOOSE w \in e.papers : w.rule = rule ELSE None

\* Mutant: whoever signed off counts as the reviewer, whatever was concluded.
ControlAnySignoff(e, f) ==
    LET w == PaperOf(e, f.rule) IN
    [rule |-> f.rule, severity |-> f.severity, automated |-> f.status,
     status |-> AuditStatus(f, w), evidence |-> f.evidence,
     mappings |-> f.mappings,
     paper |-> IF w = None THEN None ELSE w.id, sample |-> IF w = None THEN None ELSE w.sample,
     reviewer |-> IF w # None /\ w.signoff # None THEN w.signoff.reviewer ELSE None,
     exceptions |-> IF w = None THEN {} ELSE {x.id : x \in w.exceptions}]

Control(e, f) ==
    LET w == PaperOf(e, f.rule) IN
    [rule |-> f.rule, severity |-> f.severity, automated |-> f.status,
     status |-> AuditStatus(f, w), evidence |-> f.evidence,
     mappings |-> f.mappings,
     paper |-> IF w = None THEN None ELSE w.id, sample |-> IF w = None THEN None ELSE w.sample,
     reviewer |-> IF w # None /\ Approved(w) THEN w.signoff.reviewer ELSE None,
     exceptions |-> IF w = None THEN {} ELSE {x.id : x \in w.exceptions}]

Controls(e, report) == {Control(e, f) : f \in report.findings}

ResponseTo(e, x) ==
    IF Answered(e, x) THEN CHOOSE r \in e.responses : r.exception = x.id ELSE None

ExceptionRecords(e) ==
    UNION {{[rule |-> w.rule, paper |-> w.id, exception |-> x, response |-> ResponseTo(e, x)] :
              x \in w.exceptions} : w \in e.papers}

EvidenceIndex(b, report) ==
    {[observation |-> o, referencedBy |-> {f.rule : f \in {g \in report.findings : o \in g.evidence}}] :
        o \in Range(b.observations)}

\* An entry's digest binds its event to the digest before it, so it stands for
\* all the events up to there.
Trail(events) ==
    [i \in DOMAIN events |->
        [event |-> events[i],
         previous |-> IF i = 1 THEN None ELSE SubSeq(events, 1, i - 1),
         entry |-> SubSeq(events, 1, i)]]

BasisPoints(n, d) == IF d = 0 THEN 0 ELSE (n * 10000) \div d

DossierSummary(e, controls, records) ==
    LET Count(s) == Cardinality({c \in controls : c.status = s}) IN
    [total |-> Cardinality(controls),
     satisfactory |-> Count("satisfactory"), exception |-> Count("exception"),
     evidenceGap |-> Count("evidenceGap"), notReviewed |-> Count("notReviewed"),
     evidenceCoverage |->
        BasisPoints(Cardinality({c \in controls : c.evidence # {}}), Cardinality(controls)),
     reviewCoverage |->
        BasisPoints(Cardinality({c \in controls : c.reviewer # None}), Cardinality(controls)),
     openRequests |-> Cardinality({q \in e.requests : ~Settled(q)}),
     exceptions |-> Cardinality(records),
     openExceptions |-> Cardinality({r \in records : ~Treated(r.exception)}),
     responses |-> Cardinality({r \in records : r.response # None})]

Unfinished(e, controls) ==
    \/ e.phase # "finalized"
    \/ \E c \in controls : c.status \in {"evidenceGap", "notReviewed"}
    \/ \E q \in e.requests : ~Settled(q)

Material(controls, records) ==
    \/ \E c \in controls : c.status = "exception" /\ c.severity >= High
    \/ \E r \in records : r.exception.class = "major" /\ ~Treated(r.exception)

\* Mutant: exceptions that were treated are forgotten.
ConclusionForgetful(e, controls, records) ==
    IF Unfinished(e, controls) THEN "incomplete"
    ELSE IF Material(controls, records) THEN "unsatisfactory"
    ELSE IF \E r \in records : ~Treated(r.exception) THEN "satisfactoryWithExceptions"
    ELSE "satisfactory"

Conclusion(e, controls, records) ==
    IF Unfinished(e, controls) THEN "incomplete"
    ELSE IF Material(controls, records) THEN "unsatisfactory"
    ELSE IF (\E c \in controls : c.status = "exception") \/ records # {}
         THEN "satisfactoryWithExceptions"
    ELSE "satisfactory"

AuditAccepts(e, b) ==
    /\ ValidAgainst(e, Manifest, Range(ExternalIds(b)), RuleIds(Program))
    /\ Accepts(Manifest, b, Program)

\* Mutant: the treated exceptions are left out once the counts are made.
DossierOfOpenExceptions(e, b) ==
    LET report == Report(Manifest, b, Program)
        controls == Controls(e, report)
        records == ExceptionRecords(e)
    IN  [engagement |-> e, report |-> report, controls |-> controls,
         exceptions |-> {r \in records : ~Treated(r.exception)},
         index |-> EvidenceIndex(b, report), trail |-> Trail(e.events),
         summary |-> DossierSummary(e, controls, records),
         conclusion |-> Conclusion(e, controls, records)]

Dossier(e, b) ==
    LET report == Report(Manifest, b, Program)
        controls == Controls(e, report)
        records == ExceptionRecords(e)
    IN  [engagement |-> e, report |-> report, controls |-> controls, exceptions |-> records,
         index |-> EvidenceIndex(b, report), trail |-> Trail(e.events),
         summary |-> DossierSummary(e, controls, records),
         conclusion |-> Conclusion(e, controls, records)]

\* verify_dossier; dossierId digests the record itself.
VerifyDossier(d) ==
    /\ Valid(d.engagement) /\ VerifyReport(d.report)
    /\ Trail(d.engagement.events) = d.trail
    /\ DossierSummary(d.engagement, d.controls, d.exceptions) = d.summary
    /\ Conclusion(d.engagement, d.controls, d.exceptions) = d.conclusion

\* --fail-on: a severity from Info to Critical, "never", or neither of these.
Info == 0
Critical == 4
Never == 5
Misspelt == 6

\* Mutant: the threshold itself does not count.
CrossedAbove(d, minimum) == \E c \in d.controls : c.status = "exception" /\ c.severity > minimum

Crossed(d, minimum) == \E c \in d.controls : c.status = "exception" /\ c.severity >= minimum

\* The end of audit_command: --fail-on is looked at when the output is written.
ExitCode(d, failOn) ==
    IF failOn = Misspelt THEN "error"
    ELSE IF failOn # Never /\ Crossed(d, failOn) THEN "threshold" ELSE "success"

-----------------------------------------------------------------------------

NotRun == [code |-> "none", failOn |-> Never]

NotPackaged == [outcome |-> "none", package |-> {}]

Init ==
    /\ eng \in Drafts
    /\ evidence = [tenant |-> Manifest.tenant, scope |-> Manifest.scope, observations |-> <<>>]
    /\ dossier = NoDossier /\ exit = NotRun /\ packaged = NotPackaged

\* An input changes, and what was made of the old one is put aside.
Discard == dossier' = NoDossier /\ exit' = NotRun /\ packaged' = NotPackaged

Put(S, x) == {y \in S : y.id # x.id} \cup {x}

EditPaper ==
    /\ \E w \in Papers : eng' = [eng EXCEPT !.papers = Put(@, w)]
    /\ Discard /\ UNCHANGED evidence

EditRequest ==
    /\ \E q \in Requests : eng' = [eng EXCEPT !.requests = Put(@, q)]
    /\ Discard /\ UNCHANGED evidence

EditResponse ==
    /\ \E r \in Responses : eng' = [eng EXCEPT !.responses = Put(@, r)]
    /\ Discard /\ UNCHANGED evidence

\* The phase is a field like another: nothing makes it go forwards only.
MovePhase ==
    /\ \E ph \in {"fieldwork", "finalized"} : eng' = [eng EXCEPT !.phase = ph]
    /\ Discard /\ UNCHANGED evidence

\* A collector's observation is merged in.
Collect ==
    /\ \E o \in Observations :
         evidence' = [evidence EXCEPT !.observations = InExternalOrder(Range(@) \cup {o})]
    /\ Discard /\ UNCHANGED eng

RunAudit ==
    /\ exit = NotRun
    /\ \E f \in FailOn :
         IF AuditAccepts(eng, evidence)
         THEN /\ dossier' = Dossier(eng, evidence)
              /\ exit' = [code |-> ExitCode(dossier', f), failOn |-> f]
         ELSE /\ dossier' = NoDossier
              /\ exit' = [code |-> "error", failOn |-> f]
    /\ UNCHANGED <<eng, evidence, packaged>>

\* The dossier is read as any input is: audit writes one of any size, package reads
\* none that is longer than MAX_INPUT_BYTES.
Package ==
    /\ dossier # NoDossier /\ packaged = NotPackaged
    /\ \/ packaged' = [outcome |-> "unreadable", package |-> {}]
       \/ /\ VerifyDossier(dossier)
          /\ packaged' = [outcome |-> "written", package |-> {BuildAuditPackage(dossier)}]
       \/ ~VerifyDossier(dossier) /\ packaged' = [outcome |-> "refused", package |-> {}]
    /\ UNCHANGED <<eng, evidence, dossier, exit>>

Next ==
    \/ EditPaper \/ EditRequest \/ EditResponse \/ MovePhase \/ Collect
    \/ RunAudit \/ Package

Spec == Init /\ [][Next]_vars

-----------------------------------------------------------------------------

HasDossier == dossier # NoDossier

\* A satisfactory conclusion is earned: whatever was edited in whatever order,
\* every rule of the program has current evidence that passed, a workpaper that
\* found it effective and without exception, approved by somebody other than
\* its preparer; no request is open; and a full audit has an independent lead
\* or reviewer.
SatisfactoryIsEarned ==
    HasDossier /\ dossier.conclusion = "satisfactory" =>
        /\ dossier.engagement.phase = "finalized"
        /\ \A rule \in Program.rules :
             /\ Status(Manifest, rule, evidence) = "pass"
             /\ \E w \in dossier.engagement.papers :
                  /\ w.rule = rule.id /\ w.exceptions = {}
                  /\ {w.design, w.operating} \subseteq {"effective", "notApplicable"}
                  /\ Approved(w) /\ w.signoff.reviewer # w.preparer
        /\ \A q \in dossier.engagement.requests : Settled(q) /\ q.evidence # {}
        /\ dossier.engagement.mode = "fullAudit" => IndependentLead(dossier.engagement)

\* A finalized dossier is incomplete for one reason only, a rule that current
\* evidence does not decide: everything else that makes a record incomplete is
\* refused before a dossier is made.
FinalizedIncompleteOnlyFromEvidence ==
    HasDossier /\ dossier.engagement.phase = "finalized" =>
        (dossier.conclusion = "incomplete" <=>
            \E rule \in Program.rules : Status(Manifest, rule, evidence) = "unknown")

\* An exception that was not treated is never covered up: a major one makes the
\* conclusion unsatisfactory or incomplete, and any exception, treated or not,
\* keeps it from being satisfactory.
ExceptionsAreNotCoveredUp ==
    HasDossier =>
        \A x \in AllExceptions(dossier.engagement) :
            /\ dossier.conclusion # "satisfactory"
            /\ x.class = "major" /\ ~Treated(x) =>
                 dossier.conclusion \in {"unsatisfactory", "incomplete"}

\* A quiet exit may hide an unsatisfactory conclusion in one way only: under a
\* threshold of high or below, the conclusion came from an untreated major
\* exception on a control below the threshold.
QuietUnsatisfactory ==
    /\ HasDossier /\ exit.code = "success" /\ exit.failOn \in Info..High
    /\ dossier.conclusion = "unsatisfactory"
    => \E r \in dossier.exceptions :
         /\ r.exception.class = "major" /\ ~Treated(r.exception)
         /\ \A rule \in Program.rules : rule.id = r.rule => rule.severity < exit.failOn

\* Review coverage is all 10000 basis points exactly when every rule has an
\* approved workpaper, and every finalized dossier reports so.
ReviewCoverageIsHonest ==
    HasDossier =>
        /\ dossier.summary.reviewCoverage = 10000 <=>
             \A id \in RuleIds(Program) :
                \E w \in dossier.engagement.papers : w.rule = id /\ Approved(w)
        /\ dossier.engagement.phase = "finalized" => dossier.summary.reviewCoverage = 10000

\* package never refuses a dossier that audit wrote, and what it makes of it
\* passes the package's own verification, which a loss or an exchange does not.
PackagesWhatAuditWrote ==
    /\ packaged.outcome # "refused"
    /\ \A p \in packaged.package :
         VerifyAuditPackage(p) /\ \A q \in Damaged(p) : ~VerifyAuditPackage(q)

\* Whoever has only the documents finds one audit in them: the report's counts and
\* conclusion are those of its registers, a control's reviewer, exceptions, sample
\* and evidence are those of the workpapers, the exceptions, the sampling and the
\* evidence manifest.
DocumentsAgree ==
    \A p \in packaged.package :
        LET Rows(name) == UNION {t.content : t \in {u \in Range(p.documents) : u.name = name}}
            controls == {[c EXCEPT !.evidence = 1..c.evidence] : c \in Rows("controls")}
        IN  /\ \A r \in Rows("report") :
                 LET e == [phase |-> r.phase, requests |-> Rows("requests")]
                     summary == DossierSummary(e, controls, Rows("exceptions"))
                 IN  /\ r.summary = Restrict(summary, DOMAIN r.summary)
                     /\ r.conclusion = Conclusion(e, controls, Rows("exceptions"))
            /\ \A c \in Rows("controls") :
                 LET papers == {w \in Rows("workpapers") : w.id = c.paper} IN
                 /\ {c.reviewer} \ {None} = {w.reviewer : w \in {v \in papers : v.review = "approved"}}
                 /\ \A w \in papers : w.rule = c.rule /\ w.exceptions = c.exceptions
                 /\ c.exceptions = Cardinality({x \in Rows("exceptions") : x.paper = c.paper})
                 /\ c.evidence = Cardinality({i \in Rows("evidence") : c.rule \in i.rules})
                 /\ c.sample # None =>
                      \E s \in Rows("sampling") : s.id = c.sample /\ s.rule = c.rule

\* src/audit.rs:71: "Tests with one or more exceptions."  A test that was not
\* finished is counted as a gap, with its exceptions.
CountsTestsWithExceptions ==
    HasDossier =>
        dossier.summary.exception >= Cardinality({c \in dossier.controls : c.exceptions # {}})

=============================================================================
