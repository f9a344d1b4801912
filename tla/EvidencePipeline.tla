-------------------------- MODULE EvidencePipeline --------------------------
(***************************************************************************)
(* Evidence on its way to a report.  Independent collectors deliver        *)
(* bundles in any order, and the same bundle possibly more than once; what *)
(* has arrived is merged (src/evidence_merge.rs) and assessed, or one      *)
(* bundle is assessed as it came (canonical-auditor assess).  Runs are     *)
(* repeated, so that the outcome of one can be compared with another's.    *)
(***************************************************************************)
EXTENDS Adapters

CONSTANTS
    Manifest,       \* the company manifest every run assesses
    Program,        \* the assessment program
    Feeds,          \* sets of collections: what the collectors of a company bring
    MaxBundles,     \* bound: deliveries in a run
    MaxRuns,        \* bound: runs
    NoBundle

\* A collection is a report of some lane with the context it was made in, or a
\* bundle that somebody wrote by hand.  What becomes of it:
ToEvidence(k) ==
    CASE k.lane = "external" -> ExternalScanToEvidence(k.context, k.report)
      [] k.lane = "native" -> NativeReadinessToEvidence(k.context, k.report)
      [] k.lane = "operational" -> OperationalReadinessToEvidence(k.context, k.report)
      [] k.lane = "agentEval" -> AgentEvalReceiptToEvidence(k.context, k.report)
      [] k.lane = "manual" -> k.bundle

\* The bundles there are to deliver: a report that is refused gives none.
Bundles(F) == {ToEvidence(k) : k \in F} \ {Rejected}

ObservationsIn(F) == UNION {Range(b.observations) : b \in Bundles(F)}

AdapterTags ==
    {"external-scanner-run", "external-scanner-finding",
     "native-readiness-run", "native-readiness-check", "native-readiness-finding",
     "operational-readiness-run", "operational-readiness-evidence",
     "operational-readiness-finding", "agent-eval-run", "agent-eval-case"}

IsList(s) == s \in Seq(Range(s))

\* What serde makes of the documents: rows are lists, a status is one of the enum,
\* a field that is not optional is there.
ReportTyped(k) ==
    CASE k.lane = "external" -> IsList(k.report.findings)
      [] k.lane = "native" -> IsList(k.report.checks) /\ IsList(k.report.findings)
      [] k.lane = "operational" -> IsList(k.report.evidence) /\ IsList(k.report.findings)
      [] k.lane = "agentEval" ->
            /\ k.report = [field \in DOMAIN k.report |-> k.report[field]]
            /\ "receiptSha256" \in DOMAIN k.report /\ k.report.receiptSha256 # None
            /\ IsList(k.report.cases)
            /\ \A row \in Range(k.report.cases) : row.id # None /\ row.status \in CaseStatuses
      [] k.lane = "manual" -> IsList(k.bundle.observations)

\* Who writes evidence by hand does not sign as an adapter, and does not hit one
\* of the digests an adapter makes.
OwnHand(b) ==
    \A o \in Range(b.observations) :
        /\ o.source.connector = <<"manual">> /\ o.external[1] \notin AdapterTags
        /\ o.type \notin {"agent_eval.run", "agent_eval.case"}

\* Ids have an order, and what stands for none is neither a status nor a bundle.
ASSUME PipelineAssumption ==
    /\ MaxObservations \in Nat
    /\ None \notin CaseStatuses /\ NoBundle # Rejected
    /\ \A F \in Feeds :
         /\ \A k \in F :
              /\ k.lane \in {"external", "native", "operational", "agentEval", "manual"}
              /\ ReportTyped(k)
              /\ k.lane = "manual" => OwnHand(k.bundle)
         /\ \A o, q \in ObservationsIn(F) :
              /\ ExternalRank[o.external] \in Int
              /\ ExternalRank[o.external] = ExternalRank[q.external] => o.external = q.external
         /\ Rejected \notin [tenant : {b.tenant : b \in Bundles(F)},
                             scope : {b.scope : b \in Bundles(F)},
                             observations : Seq(ObservationsIn(F))]

VARIABLES
    feed,       \* what the collectors bring
    inbox,      \* the bundles delivered in this run, in order
    merged,     \* what merge_evidence_bundles returned in this run
    past        \* the runs so far: what went in and what came out

vars == <<feed, inbox, merged, past>>

Init == feed \in Feeds /\ inbox = <<>> /\ merged = NoBundle /\ past = {}

\* A collector delivers.  The library sees whatever list its caller makes.
Deliver ==
    /\ merged = NoBundle
    /\ Len(inbox) < MaxBundles /\ Cardinality(past) < MaxRuns
    /\ \E b \in Bundles(feed) : inbox' = Append(inbox, b)
    /\ UNCHANGED <<feed, merged, past>>

Merge ==
    /\ merged = NoBundle /\ Cardinality(past) < MaxRuns
    /\ merged' = IF Mergeable(inbox) THEN Merged(inbox) ELSE Rejected
    /\ UNCHANGED <<feed, inbox, past>>

Outcome(bundle) ==
    IF bundle = Rejected THEN Rejected
    ELSE IF Accepts(Manifest, bundle, Program) THEN Report(Manifest, bundle, Program)
    ELSE Rejected

Conclude(how, bundle) ==
    /\ past' = past \cup {[how |-> how, inbox |-> inbox, outcome |-> Outcome(bundle)]}
    /\ inbox' = <<>>
    /\ merged' = NoBundle
    /\ UNCHANGED feed

AssessMerged == merged # NoBundle /\ Conclude("merged", merged)

AssessAsDelivered ==
    /\ merged = NoBundle /\ Len(inbox) = 1 /\ Cardinality(past) < MaxRuns
    /\ Conclude("asDelivered", inbox[1])

Next == Deliver \/ Merge \/ AssessMerged \/ AssessAsDelivered

Spec == Init /\ [][Next]_vars

-----------------------------------------------------------------------------

Reports == {run \in past : run.outcome # Rejected}
MergedRuns == {run \in past : run.how = "merged"}

RulesWith(run, statuses) == {f.rule : f \in {g \in run.outcome.findings : g.status \in statuses}}

\* Neither the order in which collectors finish nor a bundle delivered twice
\* makes a difference: the same bundles give the same outcome, and the same
\* observations, however they were bundled, give the same report.
ArrivalDoesNotMatter ==
    \A a, c \in MergedRuns :
        /\ Range(a.inbox) = Range(c.inbox) => a.outcome = c.outcome
        /\ /\ a \in Reports /\ c \in Reports
           /\ AllObservations(a.inbox) = AllObservations(c.inbox)
           => a.outcome = c.outcome

\* A merge that succeeds has lost nothing, has taken no side between two
\* contents for one external id, and gives a bundle the engine can validate.
MergeKeepsEverything ==
    merged \notin {NoBundle, Rejected} =>
        /\ Range(merged.observations) = AllObservations(inbox)
        /\ BundleValid(merged)

\* More evidence never takes a pass away and never turns a decided test back
\* into a gap: a collector that delivers more cannot make a company look worse
\* than a contradiction nobody has answered.
EvidenceOnlyHelps ==
    \A a, c \in Reports :
        AllObservations(a.inbox) \subseteq AllObservations(c.inbox) =>
            /\ RulesWith(a, {"pass"}) \subseteq RulesWith(c, {"pass"})
            /\ RulesWith(a, {"pass", "fail"}) \subseteq RulesWith(c, {"pass", "fail"})

\* Every observation a report cites came in a bundle of the manifest's tenant
\* and scope and is current at the end of the assessment period.
CitesOwnCurrentEvidence ==
    \A run \in Reports : \A f \in run.outcome.findings : \A o \in f.evidence :
        /\ o.collected <= Manifest.ends /\ Manifest.ends <= o.validUntil
        /\ \A b \in Range(run.inbox) :
             o \in Range(b.observations) => b.tenant = Manifest.tenant /\ b.scope = Manifest.scope

\* q says what o says, imported under another context.
ReimportOf(o, q) ==
    q = [o EXCEPT !.source = q.source, !.collected = q.collected, !.validUntil = q.validUntil]

\* docs/readiness-evidence-pipeline.md, Composition: what different collectors
\* report can become one evidence set.  A merge of valid bundles of one tenant and
\* scope, within the limits, is refused only when one source spoke twice of the same
\* second, when one evaluation receipt was imported under two contexts (another time,
\* validity or adapter version: the observations say the same but for these), or when
\* a hand used one id twice.  Lanes never collide, nor do two receipts.
LanesCompose ==
    /\ merged = Rejected /\ inbox # <<>>
    /\ \A b \in Range(inbox) :
         BundleValid(b) /\ b.tenant = inbox[1].tenant /\ b.scope = inbox[1].scope
    /\ Cardinality(AllObservations(inbox)) <= MaxObservations
    => \E o, q \in AllObservations(inbox) :
          /\ o # q /\ o.external = q.external /\ o.source.connector = q.source.connector
          /\ \/ o.source.connector = <<"manual">>
             \/ o.source.connector = <<"agent-eval">> /\ ReimportOf(o, q)
             \/ /\ o.source.connector[1] \notin {"manual", "agent-eval"}
                /\ o.collected = q.collected

\* A merged set keeps every case of an evaluation, passed or not: what a run says
\* of its cases is what the cases say.
ReceiptCountsHold ==
    merged \notin {NoBundle, Rejected} =>
        LET Of(type) == {o \in Range(merged.observations) : o.type = type} IN
        \A run \in Of("agent_eval.run") :
            LET cases == {o \in Of("agent_eval.case") :
                            Fact(o, "evaluationReceiptSha256") = Fact(run, "receiptSha256")}
                passed == {o \in cases : Fact(o, "status") = "passed"}
            IN  /\ Cardinality(cases) = Fact(run, "declaredCaseCount")
                /\ Cardinality(passed) = Fact(run, "passingCaseCount")
                /\ Cardinality(cases \ passed) = Fact(run, "nonPassingCaseCount")

\* Scanner signals only grow with the evidence, and a scan that is repeated and
\* finds the same is recognized: it adds no fingerprint, whenever it was made.
SignalsOnlyGrow ==
    \A a, c \in Reports :
        LET less == SummarizeScannerResources(a.outcome.evidenceDigest)
            more == SummarizeScannerResources(c.outcome.evidenceDigest)
            Contents(run) == {o.facts : o \in ScannerFindings(run.outcome.evidenceDigest)}
        IN  less # Rejected /\ more # Rejected =>
            /\ Contents(a) \subseteq Contents(c) =>
                 \A p \in DOMAIN less :
                    /\ p \in DOMAIN more
                    /\ less[p].tools \subseteq more[p].tools
                    /\ less[p].fingerprints \subseteq more[p].fingerprints
                    /\ less[p].highest <= more[p].highest
            /\ Contents(a) = Contents(c) =>
                 \A p \in DOMAIN less : less[p].fingerprints = more[p].fingerprints

\* docs/architecture.md:38: "input order cannot alter a report".  The digest of
\* the bundle is taken in input order, and the report carries it.
InputOrderCannotAlterReport ==
    \A a, c \in Reports :
        AllObservations(a.inbox) = AllObservations(c.inbox) => a.outcome = c.outcome

SameType(v, w) == v.sort = w.sort \/ (Number(v) /\ Number(w))

\* THREAT_MODEL.md:44: missing, stale or type-incompatible evidence is unknown,
\* never fail.  equals has no type-incompatible answer.
TypeIncompatibleIsUnknown ==
    \A run \in Reports : \A rule \in Program.rules :
        (\A o \in Relevant(Manifest, rule, run.outcome.evidenceDigest) :
            rule.condition.fact \in DOMAIN o.facts =>
                ~SameType(o.facts[rule.condition.fact], rule.condition.expected))
        => rule.id \notin RulesWith(run, {"fail"})

=============================================================================
