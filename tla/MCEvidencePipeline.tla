------------------------- MODULE MCEvidencePipeline -------------------------
(* Instances of EvidencePipeline for TLC. *)
EXTENDS EvidencePipeline

Value(sort, is) == [sort |-> sort, is |-> is]

Manual == [connector |-> <<"manual">>, version |-> None]

Obs(ext, type, subject, from, until, v) ==
    [external |-> <<ext>>, type |-> type, subject |-> subject, source |-> Manual,
     collected |-> from, validUntil |-> until, facts |-> ("fact" :> v)]

\* One boolean test and two numeric ones, one of them of what a scanner counted.
MCProgram ==
    [frameworks |-> {"nist", "iso"},
     rules |-> {[id |-> "mfa", type |-> "identity", severity |-> 3, mappings |-> {"nist", "iso"},
                 condition |-> [fact |-> "fact", operator |-> "equals",
                                expected |-> Value("boolean", 1)]],
                [id |-> "patch", type |-> "vulnerability", severity |-> 2, mappings |-> {"iso"},
                 condition |-> [fact |-> "fact", operator |-> "atMost",
                                expected |-> Value("integer", 7)]],
                [id |-> "scan", type |-> "scanner.run", severity |-> 3, mappings |-> {"nist"},
                 condition |-> [fact |-> "failed", operator |-> "atMost",
                                expected |-> Value("integer", 0)]]}]

MCManifest ==
    [tenant |-> "acme", scope |-> <<"org">>, frameworks |-> <<"nist">>, starts |-> 0, ends |-> 2]

MfaOn == Obs("e1", "identity", <<"org", "staff">>, 1, 3, Value("boolean", 1))
MfaOff == Obs("e2", "identity", <<"org", "vendors">>, 2, 2, Value("boolean", 0))
MfaConflict == [MfaOn EXCEPT !.facts = ("fact" :> Value("boolean", 0))]
MfaStale == Obs("e3", "identity", <<"org">>, 0, 1, Value("boolean", 1))
MfaText == Obs("e4", "identity", <<"org">>, 1, 3, Value("string", 4))
PatchLate == Obs("e5", "vulnerability", <<"org", "web">>, 1, 3, Value("float", 9))
PatchText == Obs("e6", "vulnerability", <<"org", "db">>, 1, 3, Value("string", 2))
PatchGood == Obs("e7", "vulnerability", <<"org", "api">>, 2, 4, Value("integer", 7))
PatchFuture == Obs("e8", "vulnerability", <<"org">>, 3, 4, Value("integer", 1))
Elsewhere == Obs("e9", "identity", <<"orgs">>, 1, 3, Value("boolean", 1))

Bundle(scope, obs) ==
    [lane |-> "manual",
     bundle |-> [tenant |-> "acme", scope |-> scope, observations |-> obs]]

\* Two collectors, the second one's bundle in two orders; a contradiction and a
\* conflict; stale, future and type-incompatible evidence; a bundle of another
\* scope that speaks of ours, and one of ours that speaks of another.
MCBundles ==
    {Bundle(<<"org">>, <<MfaOn>>),
     Bundle(<<"org">>, <<MfaOff, PatchLate>>), Bundle(<<"org">>, <<PatchLate, MfaOff>>),
     Bundle(<<"org">>, <<MfaConflict>>),
     Bundle(<<"org">>, <<MfaStale, PatchFuture, PatchText>>),
     Bundle(<<"org", "web">>, <<PatchGood>>)}

\* The contexts of collections at 1 and at 2, and of one in the last second there is.
At(time, seconds) ==
    [tenant |-> "acme", scope |-> <<"org">>, at |-> time, seconds |-> seconds,
     version |-> "1", repository |-> "acme/app@1"]

\* The same context with an adapter that was updated.
Updated(context) == [context EXCEPT !.version = "2"]

Scan(tool, failed, severity, resource) ==
    [tool |-> tool, provider |-> "aws", status |-> "completed", readOnly |-> TRUE,
     counts |-> [failed |-> failed, totalRecords |-> 1],
     findings |-> <<[id |-> "iam.1", severity |-> severity, title |-> "Public", detail |-> tool,
                     resource |-> resource]>>]

NativeReport ==
    [provider |-> "aws", scope |-> None, transport |-> "GET", auth |-> "ok", score |-> 8,
     checks |-> <<[check |-> "vm", status |-> "pass", summary |-> "fine"]>>,
     findings |-> <<[id |-> "iam.1", severity |-> "high", category |-> "iam", title |-> "Public",
                     detail |-> "d", resource |-> "role"]>>]

OperationalReport ==
    [prometheus |-> "ok", opencost |-> "ok", thresholds |-> [cpuHighPercent |-> 80],
     evidence |-> <<[source |-> "prometheus", check |-> "cpu", status |-> "ok", summary |-> "s"]>>,
     findings |-> <<[id |-> "cpu", severity |-> "low", category |-> "capacity", title |-> "Hot",
                     detail |-> "d", resource |-> None]>>]

\* One case passed and one skipped, with these counts in the receipt.
Receipt(passing) ==
    LET payload ==
        [repository |-> "acme/app@1", suite |-> "s",
         cases |-> <<[id |-> "c1", status |-> "passed", tree |-> "t", verifier |-> "v",
                      durationMs |-> 1],
                     [id |-> "c2", status |-> "skipped", tree |-> None, verifier |-> None,
                      durationMs |-> 0]>>,
         counts |-> [declaredCaseCount |-> 2, executedCaseCount |-> 1,
                     passingCaseCount |-> passing, nonPassingCaseCount |-> 2 - passing]]
    IN  payload @@ [receiptSha256 |-> payload]

Collection(lane, context, report) == [lane |-> lane, context |-> context, report |-> report]

\* A finding that somebody wrote down, of no provider.
Noted ==
    [external |-> <<"e10">>, type |-> "scanner.finding", subject |-> <<"org">>,
     source |-> Manual, collected |-> 1, validUntil |-> 3,
     facts |-> [tool |-> Value("string", "prowler"), provider |-> Value("null", None),
                scannerFindingId |-> Value("string", "iam.1"), title |-> Value("string", "Public"),
                severity |-> Value("string", "high"), resource |-> Value("string", "role")]]

\* A scan and its repetition, which found it more severe; another tool that found
\* the same, and one that named nothing; and what was noted by hand.
Scans ==
    {Collection("external", At(1, 2), Scan("prowler", 1, "medium", "role")),
     Collection("external", At(2, 2), Scan("prowler", 0, "high", "role")),
     Collection("external", At(1, 2), Scan("trivy", 1, "medium", "role")),
     Collection("external", At(2, 1), Scan("trivy", 0, "low", "")),
     Bundle(<<"org">>, <<Noted>>)}

\* One report of each other lane; a receipt again later, telemetry again with another
\* version of the adapter, and a false receipt; evidence that would be valid after the
\* end of time.
OtherLanes ==
    {Collection("native", At(1, 2), NativeReport),
     Collection("operational", At(2, 1), OperationalReport),
     Collection("agentEval", At(1, 2), Receipt(1)),
     Collection("agentEval", At(2, 2), Receipt(1)),
     Collection("operational", Updated(At(2, 1)), OperationalReport),
     Collection("agentEval", At(2, 2), Receipt(2)),
     Collection("operational", At(9, 2), OperationalReport)}

MCFeeds == {MCBundles, Scans, OtherLanes}

MoreFeeds == {{Bundle(<<"org">>, <<Elsewhere>>), Bundle(<<"org">>, <<MfaText>>),
    Bundle(<<"org">>, <<MfaOff, PatchLate>>), Bundle(<<"org">>, <<PatchLate, MfaOff>>)}}

-----------------------------------------------------------------------------
\* Some order of ids and another of digests.

Known == UNION {ObservationsIn(F) : F \in MCFeeds \cup MoreFeeds}

InSomeOrder(set) ==
    LET list == FoldSet(LAMBDA e, seq : Append(seq, e), <<>>, set)
    IN  [e \in set |-> CHOOSE i \in DOMAIN list : list[i] = e]

MCExternalRank == InSomeOrder({o.external : o \in Known})

\* Backwards in time, and then as it comes.
MCDigestRank ==
    LET rank == InSomeOrder(Known) IN
    [o \in Known |-> rank[o] + 100 * (9 - o.collected)]

MCLanes == [lane \in {"external", "native", "operational", "agentEval"} |-> 2]

=============================================================================
