------------------------------- MODULE Adapters -------------------------------
(***************************************************************************)
(* The adapters, which turn one report of a collector into one evidence    *)
(* bundle: src/external_evidence.rs, src/native_readiness_evidence.rs,     *)
(* src/operational_evidence.rs and src/agent_eval_evidence.rs; and the     *)
(* summary of scanner findings, src/scanner_signals.rs.                    *)
(*                                                                         *)
(* What matters is what an external id is the digest of: it is a part of   *)
(* an observation only, so that two reports may give one id two contents.  *)
(* A report is a record of the fields that are kept; those that an adapter *)
(* drops, and the counts and sizes that are handled like others, are left  *)
(* out.  An optional field that is absent is None.                         *)
(***************************************************************************)
EXTENDS Engine

CONSTANTS
    ApprovedTools, NativeProviders, ReadOnlyTransports,
    UntrimmedTexts,     \* texts with white space at an end or control characters
    MaxRecords,         \* how many rows of a kind a report may have
    MaxValidity,        \* lane -> the longest validity its evidence may claim
    MaxTime,            \* the last moment an i64 can hold
    Rejected, None

Severities == <<"info", "low", "medium", "high", "critical">>

Fit(t) == t # "" /\ t \notin UntrimmedTexts

\* The facts of an observation: the texts there are, and counts.
Facts(texts, counts) ==
    [k \in {t \in DOMAIN texts : texts[t] # None} \cup DOMAIN counts |->
        IF k \in DOMAIN counts THEN [sort |-> "integer", is |-> counts[k]]
        ELSE [sort |-> "string", is |-> texts[k]]]

NoCounts == <<>>

-----------------------------------------------------------------------------
\* What the adapters share.  A context is the caller's: tenant, scope, the time
\* of the collection, the seconds its evidence is valid and the adapter's version.

Timely(c, lane) ==
    /\ 0 <= c.at /\ c.seconds \in 1..MaxValidity[lane]
    /\ c.at + c.seconds <= MaxTime

\* The boundary comes first in what every external id digests, with the time.
Id(tag, c, parts) == <<tag, c.tenant, c.scope, c.at>> \o parts

\* The version is in the source but in no id.
Observation(c, connector, id, type, facts) ==
    [external |-> id, type |-> type, subject |-> c.scope,
     source |-> [connector |-> connector, version |-> c.version],
     collected |-> c.at, validUntil |-> c.at + c.seconds, facts |-> facts]

\* The bundle of some observations, if it validates: ids must not repeat.
BundleOf(c, observations) ==
    LET b == [tenant |-> c.tenant, scope |-> c.scope, observations |-> observations]
    IN  IF BundleValid(b) THEN b ELSE Rejected

FewRows(rows) == Len(rows) <= MaxRecords

-----------------------------------------------------------------------------
\* Approved external scanners.

ExternalReportFit(r) ==
    /\ r.tool \in ApprovedTools /\ r.readOnly
    /\ r.status \in {"completed", "completed-with-nonzero-exit"}
    /\ FewRows(r.findings)
    /\ \A f \in Range(r.findings) :
         "" \notin {f.id, f.title, f.detail} /\ f.severity \in Range(Severities)

ExternalRun(c, r) ==
    Observation(c, <<"external", r.tool>>,
        Id("external-scanner-run", c, <<r.tool, r.provider, r.status, r.counts.totalRecords>>),
        "scanner.run",
        Facts([tool |-> r.tool, status |-> r.status, provider |-> r.provider], r.counts))

\* Mutant: the finding's id does not say which scanner found it.
ExternalFindingOfAnyTool(c, r, f) ==
    Observation(c, <<"external", r.tool>>,
        Id("external-scanner-finding", c, <<r.provider, f.id, f.severity, f.title, f.resource>>),
        "scanner.finding",
        Facts([tool |-> r.tool, provider |-> r.provider, scannerFindingId |-> f.id,
               severity |-> f.severity, title |-> f.title, detail |-> f.detail,
               resource |-> f.resource], NoCounts))

ExternalFinding(c, r, f) ==
    Observation(c, <<"external", r.tool>>,
        Id("external-scanner-finding", c,
           <<r.tool, r.provider, f.id, f.severity, f.title, f.resource>>),
        "scanner.finding",
        Facts([tool |-> r.tool, provider |-> r.provider, scannerFindingId |-> f.id,
               severity |-> f.severity, title |-> f.title, detail |-> f.detail,
               resource |-> f.resource], NoCounts))

ExternalScanToEvidence(c, r) ==
    IF ~Timely(c, "external") \/ ~ExternalReportFit(r) THEN Rejected
    ELSE BundleOf(c, <<ExternalRun(c, r)>>
                     \o [i \in DOMAIN r.findings |-> ExternalFinding(c, r, r.findings[i])])

-----------------------------------------------------------------------------
\* The native provider scanner and operational telemetry.

FindingFit(f) ==
    /\ Fit(f.id) /\ Fit(f.category) /\ Fit(f.title) /\ Fit(f.detail)
    /\ f.severity \in Range(Severities)
    /\ f.resource = None \/ Fit(f.resource)

CheckFit(k) == Fit(k.check) /\ Fit(k.status) /\ Fit(k.summary)

\* A finding of either; source is the provider for the one and None for the other.
CategorizedFinding(c, connector, tag, type, by, f) ==
    Observation(c, connector, Id(tag, c, by \o <<f.id, f.severity, f.category, f.resource>>), type,
        Facts([provider |-> IF by = <<>> THEN None ELSE by[1], scannerFindingId |-> f.id,
               severity |-> f.severity, category |-> f.category, title |-> f.title,
               detail |-> f.detail, resource |-> f.resource], NoCounts))

NativeReportFit(r) ==
    /\ r.provider \in NativeProviders /\ r.transport \in ReadOnlyTransports
    /\ Fit(r.auth) /\ r.scope # ""
    /\ FewRows(r.checks) /\ FewRows(r.findings)
    /\ \A k \in Range(r.checks) : CheckFit(k)
    /\ \A f \in Range(r.findings) : FindingFit(f)

NativeReadinessToEvidence(c, r) ==
    LET connector == <<"native", r.provider>>
        run == Observation(c, connector,
                   Id("native-readiness-run", c, <<r.provider, r.scope, r.transport>>),
                   "readiness.run",
                   Facts([provider |-> r.provider, providerScope |-> r.scope,
                          transport |-> r.transport, authStatus |-> r.auth],
                         [scannerScore |-> r.score]))
        Check(k) == Observation(c, connector,
                   Id("native-readiness-check", c, <<r.provider, k.check, k.status, k.summary>>),
                   "readiness.check",
                   Facts([provider |-> r.provider, check |-> k.check, status |-> k.status,
                          summary |-> k.summary], NoCounts))
        Found(f) == CategorizedFinding(c, connector, "native-readiness-finding",
                                       "readiness.finding", <<r.provider>>, f)
    IN  IF ~Timely(c, "native") \/ ~NativeReportFit(r) THEN Rejected
        ELSE BundleOf(c, <<run>> \o [i \in DOMAIN r.checks |-> Check(r.checks[i])]
                                 \o [i \in DOMAIN r.findings |-> Found(r.findings[i])])

\* The thresholds are percentages of any precision; whole ones stand for them.
OperationalReportFit(r) ==
    /\ Fit(r.prometheus) /\ Fit(r.opencost)
    /\ \A k \in DOMAIN r.thresholds : r.thresholds[k] \in 0..100
    /\ FewRows(r.evidence) /\ FewRows(r.findings)
    /\ \A k \in Range(r.evidence) : k.source \in {"prometheus", "opencost"} /\ CheckFit(k)
    /\ \A f \in Range(r.findings) : FindingFit(f)

OperationalReadinessToEvidence(c, r) ==
    LET connector == <<"operational">>
        run == Observation(c, connector,
                   Id("operational-readiness-run", c, <<r.prometheus, r.opencost, r.thresholds>>),
                   "operations.readiness_run",
                   Facts([prometheusStatus |-> r.prometheus, openCostStatus |-> r.opencost],
                         r.thresholds))
        Check(k) == Observation(c, connector,
                   Id("operational-readiness-evidence", c,
                      <<k.source, k.check, k.status, k.summary>>),
                   "operations.check",
                   Facts([source |-> k.source, check |-> k.check, status |-> k.status,
                          summary |-> k.summary], NoCounts))
        Found(f) == CategorizedFinding(c, connector, "operational-readiness-finding",
                                       "operations.finding", <<>>, f)
    IN  IF ~Timely(c, "operational") \/ ~OperationalReportFit(r) THEN Rejected
        ELSE BundleOf(c, <<run>> \o [i \in DOMAIN r.evidence |-> Check(r.evidence[i])]
                                 \o [i \in DOMAIN r.findings |-> Found(r.findings[i])])

-----------------------------------------------------------------------------
\* Receipts of coding-agent evaluations.  A receipt's digest stands for all of it
\* but the digest itself; repository is the repository with its base revision.

ReceiptDigest(r) == [k \in DOMAIN r \ {"receiptSha256"} |-> r[k]]

CaseFit(k) == Fit(k.id) /\ (k.status = "passed" => None \notin {k.tree, k.verifier})

CasesWith(r, statuses) == Cardinality({i \in DOMAIN r.cases : r.cases[i].status \in statuses})

CaseStatuses == {"passed", "failed", "skipped", "flaky", "infra_failed", "invalid_case"}

\* Mutant: the receipt's own counts are believed.
ReceiptFitUncounted(c, r) ==
    /\ r.repository = c.repository /\ Fit(r.suite)
    /\ r.cases # <<>> /\ FewRows(r.cases) /\ \A k \in Range(r.cases) : CaseFit(k)
    /\ IsInjective([i \in DOMAIN r.cases |-> r.cases[i].id])
    /\ r.receiptSha256 = ReceiptDigest(r)

ReceiptFit(c, r) ==
    /\ r.repository = c.repository /\ Fit(r.suite)
    /\ r.cases # <<>> /\ FewRows(r.cases) /\ \A k \in Range(r.cases) : CaseFit(k)
    /\ IsInjective([i \in DOMAIN r.cases |-> r.cases[i].id])
    /\ r.counts = [declaredCaseCount |-> Len(r.cases),
                   executedCaseCount |-> CasesWith(r, CaseStatuses \ {"skipped", "invalid_case"}),
                   passingCaseCount |-> CasesWith(r, {"passed"}),
                   nonPassingCaseCount |-> CasesWith(r, CaseStatuses \ {"passed"})]
    /\ r.receiptSha256 = ReceiptDigest(r)

\* The ids of these observations do not digest the time: Boundary, not Id.
Boundary(tag, c) == <<tag, c.tenant, c.scope>>

AgentEvalReceiptToEvidence(c, r) ==
    LET connector == <<"agent-eval">>
        run == Observation(c, connector,
                   Boundary("agent-eval-run", c) \o <<r.repository, r.suite, r.receiptSha256>>,
                   "agent_eval.run",
                   Facts([repository |-> r.repository, benchmarkSuite |-> r.suite,
                          receiptSha256 |-> r.receiptSha256],
                         r.counts))
        Case(k) == Observation(c, connector,
                   Boundary("agent-eval-case", c)
                       \o <<r.receiptSha256, k.id, k.status, k.tree, k.verifier>>,
                   "agent_eval.case",
                   Facts([caseId |-> k.id, status |-> k.status, candidateTreeSha |-> k.tree,
                          verifierReceiptSha256 |-> k.verifier,
                          evaluationReceiptSha256 |-> r.receiptSha256],
                         [durationMs |-> k.durationMs]))
    IN  IF ~Timely(c, "agentEval") \/ ~ReceiptFit(c, r) THEN Rejected
        ELSE BundleOf(c, <<run>> \o [i \in DOMAIN r.cases |-> Case(r.cases[i])])

-----------------------------------------------------------------------------
\* summarize_scanner_resources.

ScannerFindings(b) == {o \in Range(b.observations) : o.type = "scanner.finding"}

\* What a fact is; a null (sort "null", is None) is as good as absent.
Fact(o, key) == IF key \in DOMAIN o.facts THEN o.facts[key].is ELSE None

\* A finding without a fact it must have, or with no text or an empty one for a
\* fact it has.  Its severity is looked at only if it has a resource.
Malformed(o) ==
    LET Named(key) == /\ key \in DOMAIN o.facts
                      /\ o.facts[key].sort = "string" /\ o.facts[key].is # ""
    IN  \/ \E key \in {"tool", "scannerFindingId", "title"} : ~Named(key)
        \/ \E key \in {"provider", "resource"} : Fact(o, key) # None /\ ~Named(key)
        \/ Fact(o, "resource") # None /\ ~Named("severity")

Fingerprint(o) ==
    <<Fact(o, "tool"), Fact(o, "provider"), Fact(o, "scannerFindingId"), Fact(o, "resource"),
      Fact(o, "title")>>

SeverityRank(o) ==
    IF \E i \in DOMAIN Severities : Severities[i] = Fact(o, "severity")
    THEN CHOOSE i \in DOMAIN Severities : Severities[i] = Fact(o, "severity")
    ELSE 0

\* Mutant: the severity of the finding that comes last.
HighestOfLast(group) ==
    SeverityRank(CHOOSE o \in group : \A q \in group :
                    ExternalRank[q.external] <= ExternalRank[o.external])

Highest(group) == Max({SeverityRank(o) : o \in group})

SummarizeScannerResources(b) ==
    LET located == {o \in ScannerFindings(b) : Fact(o, "resource") # None}
        Place(o) == <<Fact(o, "provider"), Fact(o, "resource")>>
        Signals(group) ==
            [tools |-> {Fact(o, "tool") : o \in group}, highest |-> Highest(group),
             findings |-> Cardinality(group),
             fingerprints |-> {Fingerprint(o) : o \in group},
             observations |-> {o.external : o \in group}]
    IN  IF ~BundleValid(b) \/ \E o \in ScannerFindings(b) : Malformed(o) THEN Rejected
        ELSE [p \in {Place(o) : o \in located} |-> Signals({o \in located : Place(o) = p})]

=============================================================================
