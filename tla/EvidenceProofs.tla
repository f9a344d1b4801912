--------------------------- MODULE EvidenceProofs ----------------------------
(***************************************************************************)
(* Proofs about EvidencePipeline, for any collectors, programs, limits and *)
(* any number of deliveries and runs: that the merge loses nothing and     *)
(* forgets the order of arrival, and what that means for the reports; that *)
(* the lanes' ids say who found what, so that lanes compose and receipts   *)
(* agree with their cases; and that scanner signals only grow.             *)
(***************************************************************************)
EXTENDS EvidencePipeline, SortingProofs, SequenceTheorems, TLAPS

-----------------------------------------------------------------------------
\* Lists

LEMMA SingleList == ASSUME NEW x PROVE IsList(<<x>>) /\ Range(<<x>>) = {x}
<1>1. <<x>> \in Seq({x}) /\ DOMAIN <<x>> = {1} /\ <<x>>[1] = x
  OBVIOUS
<1>2. Range(<<x>>) = {x}
  BY <1>1 DEF Range
<1> QED BY <1>1, <1>2 DEF IsList

LEMMA ListRange ==
    ASSUME NEW S, NEW s \in Seq(S)
    PROVE  IsList(s) /\ Range(s) \subseteq S
BY SeqOfRange, RangeOfSeq DEF IsList

LEMMA ChainedLists ==
    ASSUME NEW s, NEW t, IsList(s), IsList(t)
    PROVE  IsList(s \o t) /\ Range(s \o t) = Range(s) \cup Range(t)
<1> DEFINE S == Range(s) \cup Range(t)
<1>1. s \in Seq(S) /\ t \in Seq(S)
  BY DEF IsList
<1> HIDE DEF S
<1>2. Range(s \o t) = Range(s) \cup Range(t)
  BY <1>1, RangeConcatenation
<1>3. s \o t \in Seq(S)
  BY <1>1, ConcatProperties
<1> QED BY <1>2, <1>3 DEF S, IsList

\* Rows become observations one by one.
LEMMA MappedList ==
    ASSUME NEW rows, IsList(rows), NEW V, NEW g \in [DOMAIN rows -> V]
    PROVE  /\ IsList(g) /\ Range(g) \subseteq V
           /\ \A i \in DOMAIN rows : g[i] \in Range(g)
<1>1. DOMAIN rows = 1..Len(rows) /\ Len(rows) \in Nat
  BY DEF IsList
<1>2. \A i \in DOMAIN rows : g[i] \in Range(g)
  BY DEF Range
<1>3. g \in Seq(V)
  BY <1>1
<1> QED BY <1>2, <1>3, ListRange

-----------------------------------------------------------------------------
\* What the adapters make

LEMMA StartOfChain ==
    ASSUME NEW s, NEW t, IsList(s), IsList(t)
    PROVE  /\ Len(s) \in Nat /\ Len(t) \in Nat
           /\ \A i \in 1..Len(s) : (s \o t)[i] = s[i]
           /\ t # <<>> => (s \o t)[Len(s) + 1] = t[1]
<1> DEFINE S == Range(s) \cup Range(t)
<1>1. s \in Seq(S) /\ t \in Seq(S)
  BY DEF IsList
<1> HIDE DEF S
<1>2. Len(s) \in Nat /\ Len(t) \in Nat /\ (t # <<>> => Len(t) >= 1)
  BY <1>1
<1>3. \A i \in 1..Len(s) + Len(t) :
        (s \o t)[i] = IF i <= Len(s) THEN s[i] ELSE t[i - Len(s)]
  BY <1>1, ConcatProperties
<1> DEFINE chain == s \o t
<1> HIDE DEF chain
<1>4. ASSUME NEW i \in 1..Len(s)
      PROVE  chain[i] = s[i]
  <2>1. i \in 1..Len(s) + Len(t) /\ i <= Len(s)
    BY <1>2
  <2> QED BY <1>3, <2>1 DEF chain
<1>5. ASSUME t # <<>>
      PROVE  chain[Len(s) + 1] = t[1]
  <2>1. /\ Len(s) + 1 \in 1..Len(s) + Len(t) /\ ~(Len(s) + 1 <= Len(s))
        /\ Len(s) + 1 - Len(s) = 1
    BY <1>2, <1>5
  <2>2. chain[Len(s) + 1] = t[Len(s) + 1 - Len(s)]
    BY <1>3, <2>1 DEF chain
  <2> QED BY <2>1, <2>2
<1> QED BY <1>2, <1>4, <1>5 DEF chain

\* An id can be read: the tag, the time, and what it says first.
LEMMA IdOpens ==
    ASSUME NEW tag, NEW c, NEW parts, IsList(parts)
    PROVE  /\ Id(tag, c, parts)[1] = tag /\ Id(tag, c, parts)[4] = c.at
           /\ parts # <<>> => Id(tag, c, parts)[5] = parts[1]
<1> DEFINE start == <<tag, c.tenant, c.scope, c.at>>
<1>1. start \in Seq({tag, c.tenant, c.scope, c.at})
  OBVIOUS
<1>2. Len(start) = 4 /\ start[1] = tag /\ start[4] = c.at
  OBVIOUS
<1>3. IsList(start)
  BY <1>1, ListRange
<1>4. Id(tag, c, parts) = start \o parts
  BY DEF Id
<1> HIDE DEF start
<1>5. /\ \A i \in 1..Len(start) : (start \o parts)[i] = start[i]
      /\ parts # <<>> => (start \o parts)[Len(start) + 1] = parts[1]
  BY <1>3, StartOfChain
<1>6. 1 \in 1..Len(start) /\ 4 \in 1..Len(start) /\ Len(start) + 1 = 5
  BY <1>2
<1>7. (start \o parts)[1] = tag /\ (start \o parts)[4] = c.at
  BY <1>2, <1>5, <1>6, Zenon
<1>8. parts # <<>> => (start \o parts)[5] = parts[1]
  BY <1>5, <1>6, Zenon
<1> QED BY <1>4, <1>7, <1>8, Zenon

LEMMA BoundaryOpens ==
    ASSUME NEW tag, NEW c, NEW parts, IsList(parts)
    PROVE  (Boundary(tag, c) \o parts)[1] = tag
<1> DEFINE start == <<tag, c.tenant, c.scope>>
<1>1. start \in Seq({tag, c.tenant, c.scope})
  OBVIOUS
<1>2. Len(start) = 3 /\ start[1] = tag
  OBVIOUS
<1>3. IsList(start)
  BY <1>1, ListRange
<1>4. Boundary(tag, c) = start
  BY DEF Boundary
<1> HIDE DEF start
<1>5. \A i \in 1..Len(start) : (start \o parts)[i] = start[i]
  BY <1>3, StartOfChain
<1>6. 1 \in 1..Len(start)
  BY <1>2
<1> QED BY <1>2, <1>4, <1>5, <1>6, Zenon

\* What an id says of who reported it, and when.
ExternalTags == {"external-scanner-run", "external-scanner-finding"}
NativeTags == {"native-readiness-run", "native-readiness-check", "native-readiness-finding"}
OperationalTags ==
    {"operational-readiness-run", "operational-readiness-evidence",
     "operational-readiness-finding"}
AgentTags == {"agent-eval-run", "agent-eval-case"}
AgentTypes == {"agent_eval.run", "agent_eval.case"}

SignedBy(lane, o) ==
    \/ /\ lane = "external" /\ o.external[1] \in ExternalTags
       /\ o.source.connector = <<"external", o.external[5]>> /\ o.collected = o.external[4]
       /\ o.type \notin AgentTypes
    \/ /\ lane = "native" /\ o.external[1] \in NativeTags
       /\ o.source.connector = <<"native", o.external[5]>> /\ o.collected = o.external[4]
       /\ o.type \notin AgentTypes
    \/ /\ lane = "operational" /\ o.external[1] \in OperationalTags
       /\ o.source.connector = <<"operational">> /\ o.collected = o.external[4]
       /\ o.type \notin AgentTypes
    \/ /\ lane = "agentEval" /\ o.external[1] \in AgentTags
       /\ o.source.connector = <<"agent-eval">>
    \/ /\ lane = "manual" /\ o.external[1] \notin AdapterTags
       /\ o.source.connector = <<"manual">> /\ o.type \notin AgentTypes

\* An adapter returns a valid bundle of signed observations, or none.
Delivers(k) ==
    ToEvidence(k) # Rejected =>
        /\ IsList(ToEvidence(k).observations)
        /\ \A o \in Range(ToEvidence(k).observations) : SignedBy(k.lane, o)

LEMMA BundleMade ==
    ASSUME NEW c, NEW obs, BundleOf(c, obs) # Rejected
    PROVE  /\ BundleOf(c, obs).observations = obs
           /\ BundleOf(c, obs).tenant = c.tenant /\ BundleOf(c, obs).scope = c.scope
           /\ BundleValid(BundleOf(c, obs))
BY DEF BundleOf

LEMMA ExternalDelivers ==
    ASSUME NEW k, k.lane = "external", ReportTyped(k)
    PROVE  Delivers(k)
<1> DEFINE c == k.context
           r == k.report
           rows == [i \in DOMAIN r.findings |-> ExternalFinding(c, r, r.findings[i])]
           obs == <<ExternalRun(c, r)>> \o rows
<1> SUFFICES ASSUME ToEvidence(k) # Rejected
             PROVE  /\ IsList(ToEvidence(k).observations)
                    /\ \A o \in Range(ToEvidence(k).observations) : SignedBy(k.lane, o)
  BY DEF Delivers
<1>1. ToEvidence(k) = ExternalScanToEvidence(c, r)
  BY DEF ToEvidence
<1>2. ExternalScanToEvidence(c, r) = BundleOf(c, obs)
  BY <1>1 DEF ExternalScanToEvidence
<1>3. IsList(r.findings)
  BY DEF ReportTyped
<1> DEFINE V == {ExternalFinding(c, r, r.findings[i]) : i \in DOMAIN r.findings}
<1>4. rows \in [DOMAIN r.findings -> V]
  OBVIOUS
<1>7. SignedBy("external", ExternalRun(c, r))
  <2> DEFINE parts == <<r.tool, r.provider, r.status, r.counts.totalRecords>>
  <2>0. parts \in Seq({r.tool, r.provider, r.status, r.counts.totalRecords})
    OBVIOUS
  <2>1. IsList(parts)
        /\ parts # <<>> /\ parts[1] = r.tool
    BY <2>0, ListRange
  <2>2. /\ ExternalRun(c, r).external = Id("external-scanner-run", c, parts)
        /\ ExternalRun(c, r).source.connector = <<"external", r.tool>>
        /\ ExternalRun(c, r).type = "scanner.run"
        /\ ExternalRun(c, r).collected = c.at
    BY DEF ExternalRun, Observation
  <2> HIDE DEF parts
  <2> QED BY <2>1, <2>2, IdOpens DEF SignedBy, ExternalTags, AgentTypes
<1>8. \A f : SignedBy("external", ExternalFinding(c, r, f))
  <2> TAKE f
  <2> DEFINE parts == <<r.tool, r.provider, f.id, f.severity, f.title, f.resource>>
  <2>0. parts \in Seq({r.tool, r.provider, f.id, f.severity, f.title, f.resource})
    OBVIOUS
  <2>1. IsList(parts)
        /\ parts # <<>> /\ parts[1] = r.tool
    BY <2>0, ListRange
  <2>2. /\ ExternalFinding(c, r, f).external = Id("external-scanner-finding", c, parts)
        /\ ExternalFinding(c, r, f).source.connector = <<"external", r.tool>>
        /\ ExternalFinding(c, r, f).type = "scanner.finding"
        /\ ExternalFinding(c, r, f).collected = c.at
    BY DEF ExternalFinding, Observation
  <2> HIDE DEF parts
  <2> QED BY <2>1, <2>2, IdOpens DEF SignedBy, ExternalTags, AgentTypes
<1>5. \A o \in V : SignedBy("external", o)
  BY <1>8
<1> HIDE DEF rows, V
<1>6. IsList(rows) /\ Range(rows) \subseteq V
  BY <1>3, <1>4, MappedList
<1>9. IsList(rows) /\ \A o \in Range(rows) : SignedBy("external", o)
  BY <1>5, <1>6
<1>10. IsList(obs) /\ Range(obs) = {ExternalRun(c, r)} \cup Range(rows)
  BY <1>9, SingleList, ChainedLists
<1> HIDE DEF obs
<1>11. ToEvidence(k).observations = obs
  BY <1>1, <1>2, BundleMade
<1> QED BY <1>7, <1>9, <1>10, <1>11

LEMMA CategorizedSigned ==
    ASSUME NEW c, NEW connector, NEW tag, NEW type, NEW by, NEW f, IsList(by)
    PROVE  LET o == CategorizedFinding(c, connector, tag, type, by, f)
           IN  /\ o.external[1] = tag /\ o.external[4] = c.at
               /\ by # <<>> => o.external[5] = by[1]
               /\ o.source.connector = connector /\ o.type = type /\ o.collected = c.at
<1> DEFINE o == CategorizedFinding(c, connector, tag, type, by, f)
           rest == <<f.id, f.severity, f.category, f.resource>>
           parts == by \o rest
<1>1. rest \in Seq({f.id, f.severity, f.category, f.resource}) /\ Len(rest) = 4
  OBVIOUS
<1>2. /\ o.external = Id(tag, c, parts) /\ o.source.connector = connector /\ o.type = type
      /\ o.collected = c.at
  BY DEF CategorizedFinding, Observation
<1> HIDE DEF rest, o
<1>3. IsList(rest)
  BY <1>1, ListRange
<1>4. IsList(parts) /\ Len(by) \in Nat /\ (by # <<>> => Len(by) >= 1)
  BY <1>3, ChainedLists DEF IsList
<1>5. by # <<>> => parts # <<>> /\ parts[1] = by[1]
  <2> SUFFICES ASSUME by # <<>>
               PROVE  parts # <<>> /\ parts[1] = by[1]
    OBVIOUS
  <2>1. parts[1] = by[1]
    BY <1>3, <1>4, StartOfChain
  <2>2. Range(by) \subseteq Range(parts) /\ Range(by) # {}
    BY <1>3, <1>4, ChainedLists DEF IsList, Range
  <2>3. parts # <<>>
    BY <2>2 DEF Range
  <2> QED BY <2>1, <2>3
<1> HIDE DEF parts
<1> QED BY <1>2, <1>4, <1>5, IdOpens DEF o

\* The bundles of the two lanes that report checks and findings.
LEMMA ReadinessDelivers ==
    ASSUME NEW k, NEW c, NEW checks, NEW found, NEW run,
           IsList(checks), IsList(found),
           ToEvidence(k) = BundleOf(c, <<run>> \o checks \o found),
           SignedBy(k.lane, run), \A o \in Range(checks) \cup Range(found) : SignedBy(k.lane, o)
    PROVE  Delivers(k)
<1> DEFINE obs == <<run>> \o checks \o found
<1>1. IsList(<<run>> \o checks) /\ Range(<<run>> \o checks) = {run} \cup Range(checks)
  BY SingleList, ChainedLists
<1>2. IsList(obs) /\ Range(obs) = {run} \cup Range(checks) \cup Range(found)
  BY <1>1, ChainedLists
<1> HIDE DEF obs
<1>3. ToEvidence(k) = BundleOf(c, obs)
  BY DEF obs
<1>4. ToEvidence(k) # Rejected => ToEvidence(k).observations = obs
  BY <1>3, BundleMade
<1> QED BY <1>2, <1>4 DEF Delivers

LEMMA NativeDelivers ==
    ASSUME NEW k, k.lane = "native", ReportTyped(k)
    PROVE  Delivers(k)
<1> DEFINE c == k.context
           r == k.report
           connector == <<"native", r.provider>>
           run == Observation(c, connector,
                      Id("native-readiness-run", c, <<r.provider, r.scope, r.transport>>),
                      "readiness.run",
                      Facts([provider |-> r.provider, providerScope |-> r.scope,
                             transport |-> r.transport, authStatus |-> r.auth],
                            [scannerScore |-> r.score]))
           Check(row) == Observation(c, connector,
                      Id("native-readiness-check", c,
                         <<r.provider, row.check, row.status, row.summary>>),
                      "readiness.check",
                      Facts([provider |-> r.provider, check |-> row.check, status |-> row.status,
                             summary |-> row.summary], NoCounts))
           Found(f) == CategorizedFinding(c, connector, "native-readiness-finding",
                                          "readiness.finding", <<r.provider>>, f)
           checks == [i \in DOMAIN r.checks |-> Check(r.checks[i])]
           found == [i \in DOMAIN r.findings |-> Found(r.findings[i])]
<1>1. CASE ToEvidence(k) = Rejected
  BY <1>1 DEF Delivers
<1>2. CASE ToEvidence(k) # Rejected
  <2>1. ToEvidence(k) = NativeReadinessToEvidence(c, r)
    BY DEF ToEvidence
  <2>2. NativeReadinessToEvidence(c, r) = BundleOf(c, <<run>> \o checks \o found)
    BY <1>2, <2>1 DEF NativeReadinessToEvidence
  <2>3. SignedBy("native", run)
    <3> DEFINE parts == <<r.provider, r.scope, r.transport>>
    <3>0. parts \in Seq({r.provider, r.scope, r.transport})
      OBVIOUS
    <3>1. IsList(parts) /\ parts # <<>> /\ parts[1] = r.provider
      BY <3>0, ListRange
    <3>2. /\ run.external = Id("native-readiness-run", c, parts) /\ run.source.connector = connector
          /\ run.type = "readiness.run" /\ run.collected = c.at
      BY DEF Observation
    <3> HIDE DEF parts, run
    <3> QED BY <3>1, <3>2, IdOpens DEF SignedBy, NativeTags, AgentTypes
  <2>4. \A row : SignedBy("native", Check(row))
    <3> TAKE row
    <3> DEFINE parts == <<r.provider, row.check, row.status, row.summary>>
    <3>0. parts \in Seq({r.provider, row.check, row.status, row.summary})
      OBVIOUS
    <3>1. IsList(parts)
          /\ parts # <<>> /\ parts[1] = r.provider
      BY <3>0, ListRange
    <3>2. /\ Check(row).external = Id("native-readiness-check", c, parts)
          /\ Check(row).source.connector = connector
          /\ Check(row).type = "readiness.check" /\ Check(row).collected = c.at
      BY DEF Observation
    <3> HIDE DEF parts, Check
    <3> QED BY <3>1, <3>2, IdOpens DEF SignedBy, NativeTags, AgentTypes
  <2>5. \A f : SignedBy("native", Found(f))
    <3> TAKE f
    <3>1. IsList(<<r.provider>>) /\ <<r.provider>> # <<>> /\ <<r.provider>>[1] = r.provider
      BY SingleList
    <3>2. /\ Found(f).external[1] = "native-readiness-finding"
          /\ Found(f).external[4] = c.at /\ Found(f).external[5] = r.provider
          /\ Found(f).source.connector = connector /\ Found(f).type = "readiness.finding"
          /\ Found(f).collected = c.at
      BY <3>1, CategorizedSigned
    <3> HIDE DEF Found
    <3> QED BY <3>2 DEF SignedBy, NativeTags, AgentTypes
  <2>6. IsList(r.checks) /\ IsList(r.findings)
    BY DEF ReportTyped
  <2> DEFINE C == {Check(r.checks[i]) : i \in DOMAIN r.checks}
             V == {Found(r.findings[i]) : i \in DOMAIN r.findings}
  <2>7. checks \in [DOMAIN r.checks -> C] /\ found \in [DOMAIN r.findings -> V]
    OBVIOUS
  <2> HIDE DEF run, Check, Found, checks, found
  <2>8. (\A o \in C : SignedBy("native", o)) /\ (\A o \in V : SignedBy("native", o))
    BY <2>4, <2>5
  <2> HIDE DEF C, V
  <2>9. IsList(checks) /\ Range(checks) \subseteq C
    BY <2>6, <2>7, MappedList
  <2>10. IsList(found) /\ Range(found) \subseteq V
    BY <2>6, <2>7, MappedList
  <2>11. \A o \in Range(checks) \cup Range(found) : SignedBy("native", o)
    BY <2>8, <2>9, <2>10
  <2> QED BY <2>1, <2>2, <2>3, <2>9, <2>10, <2>11, ReadinessDelivers
<1> QED BY <1>1, <1>2

LEMMA OperationalDelivers ==
    ASSUME NEW k, k.lane = "operational", ReportTyped(k)
    PROVE  Delivers(k)
<1> DEFINE c == k.context
           r == k.report
           connector == <<"operational">>
           run == Observation(c, connector,
                      Id("operational-readiness-run", c, <<r.prometheus, r.opencost, r.thresholds>>),
                      "operations.readiness_run",
                      Facts([prometheusStatus |-> r.prometheus, openCostStatus |-> r.opencost],
                            r.thresholds))
           Check(row) == Observation(c, connector,
                      Id("operational-readiness-evidence", c,
                         <<row.source, row.check, row.status, row.summary>>),
                      "operations.check",
                      Facts([source |-> row.source, check |-> row.check, status |-> row.status,
                             summary |-> row.summary], NoCounts))
           Found(f) == CategorizedFinding(c, connector, "operational-readiness-finding",
                                          "operations.finding", <<>>, f)
           checks == [i \in DOMAIN r.evidence |-> Check(r.evidence[i])]
           found == [i \in DOMAIN r.findings |-> Found(r.findings[i])]
<1>1. CASE ToEvidence(k) = Rejected
  BY <1>1 DEF Delivers
<1>2. CASE ToEvidence(k) # Rejected
  <2>1. ToEvidence(k) = OperationalReadinessToEvidence(c, r)
    BY DEF ToEvidence
  <2>2. OperationalReadinessToEvidence(c, r) = BundleOf(c, <<run>> \o checks \o found)
    BY <1>2, <2>1 DEF OperationalReadinessToEvidence
  <2>3. SignedBy("operational", run)
    <3> DEFINE parts == <<r.prometheus, r.opencost, r.thresholds>>
    <3>0. parts \in Seq({r.prometheus, r.opencost, r.thresholds})
      OBVIOUS
    <3>1. IsList(parts)
      BY <3>0, ListRange
    <3>2. /\ run.external = Id("operational-readiness-run", c, parts) /\ run.source.connector = connector
          /\ run.type = "operations.readiness_run" /\ run.collected = c.at
      BY DEF Observation
    <3> HIDE DEF parts, run
    <3> QED BY <3>1, <3>2, IdOpens DEF SignedBy, OperationalTags, AgentTypes
  <2>4. \A row : SignedBy("operational", Check(row))
    <3> TAKE row
    <3> DEFINE parts == <<row.source, row.check, row.status, row.summary>>
    <3>0. parts \in Seq({row.source, row.check, row.status, row.summary})
      OBVIOUS
    <3>1. IsList(parts)
      BY <3>0, ListRange
    <3>2. /\ Check(row).external = Id("operational-readiness-evidence", c, parts)
          /\ Check(row).source.connector = connector
          /\ Check(row).type = "operations.check" /\ Check(row).collected = c.at
      BY DEF Observation
    <3> HIDE DEF parts, Check
    <3> QED BY <3>1, <3>2, IdOpens DEF SignedBy, OperationalTags, AgentTypes
  <2>5. \A f : SignedBy("operational", Found(f))
    <3> TAKE f
    <3>0. <<>> \in Seq({})
      OBVIOUS
    <3>1. IsList(<<>>)
      BY <3>0, ListRange
    <3>2. /\ Found(f).external[1] = "operational-readiness-finding"
          /\ Found(f).external[4] = c.at
          /\ Found(f).source.connector = connector /\ Found(f).type = "operations.finding"
          /\ Found(f).collected = c.at
      BY <3>1, CategorizedSigned
    <3> HIDE DEF Found
    <3> QED BY <3>2 DEF SignedBy, OperationalTags, AgentTypes
  <2>6. IsList(r.evidence) /\ IsList(r.findings)
    BY DEF ReportTyped
  <2> DEFINE C == {Check(r.evidence[i]) : i \in DOMAIN r.evidence}
             V == {Found(r.findings[i]) : i \in DOMAIN r.findings}
  <2>7. checks \in [DOMAIN r.evidence -> C] /\ found \in [DOMAIN r.findings -> V]
    OBVIOUS
  <2> HIDE DEF run, Check, Found, checks, found
  <2>8. (\A o \in C : SignedBy("operational", o)) /\ (\A o \in V : SignedBy("operational", o))
    BY <2>4, <2>5
  <2> HIDE DEF C, V
  <2>9. IsList(checks) /\ Range(checks) \subseteq C
    BY <2>6, <2>7, MappedList
  <2>10. IsList(found) /\ Range(found) \subseteq V
    BY <2>6, <2>7, MappedList
  <2>11. \A o \in Range(checks) \cup Range(found) : SignedBy("operational", o)
    BY <2>8, <2>9, <2>10
  <2> QED BY <2>1, <2>2, <2>3, <2>9, <2>10, <2>11, ReadinessDelivers
<1> QED BY <1>1, <1>2

AgentRun(c, r) ==
    Observation(c, <<"agent-eval">>,
        Boundary("agent-eval-run", c) \o <<r.repository, r.suite, r.receiptSha256>>,
        "agent_eval.run",
        Facts([repository |-> r.repository, benchmarkSuite |-> r.suite,
               receiptSha256 |-> r.receiptSha256], r.counts))

AgentCase(c, r, row) ==
    Observation(c, <<"agent-eval">>,
        Boundary("agent-eval-case", c)
            \o <<r.receiptSha256, row.id, row.status, row.tree, row.verifier>>,
        "agent_eval.case",
        Facts([caseId |-> row.id, status |-> row.status, candidateTreeSha |-> row.tree,
               verifierReceiptSha256 |-> row.verifier,
               evaluationReceiptSha256 |-> r.receiptSha256],
              [durationMs |-> row.durationMs]))

\* A receipt that is accepted becomes one run and its cases.
LEMMA AgentBundle ==
    ASSUME NEW k, k.lane = "agentEval", ReportTyped(k), ToEvidence(k) # Rejected
    PROVE  LET c == k.context
               r == k.report
               b == ToEvidence(k)
           IN  /\ ReceiptFit(c, r)
               /\ b.tenant = c.tenant /\ b.scope = c.scope
               /\ IsList(b.observations)
               /\ Range(b.observations)
                    = {AgentRun(c, r)} \cup {AgentCase(c, r, r.cases[i]) : i \in 1..Len(r.cases)}
<1> DEFINE c == k.context
           r == k.report
           cases == [i \in DOMAIN r.cases |-> AgentCase(c, r, r.cases[i])]
           obs == <<AgentRun(c, r)>> \o cases
<1>1. ToEvidence(k) = AgentEvalReceiptToEvidence(c, r)
  BY DEF ToEvidence
<1>2. ReceiptFit(c, r) /\ AgentEvalReceiptToEvidence(c, r) = BundleOf(c, obs)
  BY <1>1 DEF AgentEvalReceiptToEvidence, AgentRun, AgentCase
<1>3. IsList(r.cases)
  BY DEF ReportTyped
<1>4. DOMAIN r.cases = 1..Len(r.cases)
  BY <1>3 DEF IsList
<1> DEFINE V == {AgentCase(c, r, r.cases[i]) : i \in DOMAIN r.cases}
<1>5. /\ cases \in [DOMAIN r.cases -> V]
      /\ \A i \in DOMAIN r.cases : cases[i] = AgentCase(c, r, r.cases[i])
  OBVIOUS
<1> HIDE DEF cases, V
<1>6. IsList(cases) /\ Range(cases) = {AgentCase(c, r, r.cases[i]) : i \in 1..Len(r.cases)}
  <2>1. IsList(cases) /\ Range(cases) \subseteq V /\ \A i \in DOMAIN r.cases : cases[i] \in Range(cases)
    BY <1>3, <1>5, MappedList
  <2>2. V \subseteq Range(cases)
    BY <1>5, <2>1 DEF V
  <2> QED BY <1>4, <2>1, <2>2 DEF V
<1>7. /\ IsList(obs)
      /\ Range(obs) = {AgentRun(c, r)}
                        \cup {AgentCase(c, r, r.cases[i]) : i \in 1..Len(r.cases)}
  BY <1>6, SingleList, ChainedLists
<1> HIDE DEF obs
<1>8. /\ ToEvidence(k).observations = obs
      /\ ToEvidence(k).tenant = c.tenant /\ ToEvidence(k).scope = c.scope
  BY <1>1, <1>2, BundleMade
<1> QED BY <1>2, <1>7, <1>8

LEMMA AgentSigned ==
    ASSUME NEW c, NEW r
    PROVE  /\ SignedBy("agentEval", AgentRun(c, r)) /\ AgentRun(c, r).type = "agent_eval.run"
           /\ \A row : /\ SignedBy("agentEval", AgentCase(c, r, row))
                       /\ AgentCase(c, r, row).type = "agent_eval.case"
<1>1. SignedBy("agentEval", AgentRun(c, r)) /\ AgentRun(c, r).type = "agent_eval.run"
  <2> DEFINE parts == <<r.repository, r.suite, r.receiptSha256>>
             o == AgentRun(c, r)
  <2>0. parts \in Seq({r.repository, r.suite, r.receiptSha256})
    OBVIOUS
  <2>1. IsList(parts)
    BY <2>0, ListRange
  <2>2. /\ o.external = Boundary("agent-eval-run", c) \o parts
        /\ o.source.connector = <<"agent-eval">> /\ o.type = "agent_eval.run"
    BY DEF AgentRun, Observation
  <2> HIDE DEF parts, o
  <2>3. (Boundary("agent-eval-run", c) \o parts)[1] = "agent-eval-run"
    BY <2>1, BoundaryOpens, Zenon
  <2>4. o.external[1] = "agent-eval-run"
    BY <2>2, <2>3, Zenon
  <2> QED BY <2>2, <2>4 DEF SignedBy, AgentTags, AgentTypes, o
<1>2. ASSUME NEW row
      PROVE  SignedBy("agentEval", AgentCase(c, r, row)) /\ AgentCase(c, r, row).type = "agent_eval.case"
  <2> DEFINE parts == <<r.receiptSha256, row.id, row.status, row.tree, row.verifier>>
             o == AgentCase(c, r, row)
  <2>0. parts \in Seq({r.receiptSha256, row.id, row.status, row.tree, row.verifier})
    OBVIOUS
  <2>1. IsList(parts)
    BY <2>0, ListRange
  <2>2. /\ o.external = Boundary("agent-eval-case", c) \o parts
        /\ o.source.connector = <<"agent-eval">> /\ o.type = "agent_eval.case"
    BY DEF AgentCase, Observation
  <2> HIDE DEF parts, o
  <2>3. (Boundary("agent-eval-case", c) \o parts)[1] = "agent-eval-case"
    BY <2>1, BoundaryOpens, Zenon
  <2>4. o.external[1] = "agent-eval-case"
    BY <2>2, <2>3, Zenon
  <2> QED BY <2>2, <2>4 DEF SignedBy, AgentTags, AgentTypes, o
<1> QED BY <1>1, <1>2

\* Whatever the lane: what is delivered is a list of observations that say who made
\* them, and what an adapter made is valid.
LEMMA CollectionsDeliver ==
    ASSUME NEW F \in Feeds, NEW k \in F
    PROVE  Delivers(k)
<1>1. /\ k.lane \in {"external", "native", "operational", "agentEval", "manual"}
      /\ ReportTyped(k)
      /\ k.lane = "manual" => OwnHand(k.bundle)
  BY PipelineAssumption
<1>2. CASE k.lane = "external"
  BY <1>1, <1>2, ExternalDelivers
<1>3. CASE k.lane = "native"
  BY <1>1, <1>3, NativeDelivers
<1>4. CASE k.lane = "operational"
  BY <1>1, <1>4, OperationalDelivers
<1>5. CASE k.lane = "agentEval"
  <2>1. CASE ToEvidence(k) = Rejected
    BY <2>1 DEF Delivers
  <2>2. CASE ToEvidence(k) # Rejected
    BY <1>1, <1>5, <2>2, AgentBundle, AgentSigned DEF Delivers
  <2> QED BY <2>1, <2>2
<1>6. CASE k.lane = "manual"
  <2>1. ToEvidence(k) = k.bundle
    BY <1>6 DEF ToEvidence
  <2>2. IsList(k.bundle.observations)
    BY <1>1, <1>6 DEF ReportTyped
  <2>3. \A o \in Range(k.bundle.observations) : SignedBy("manual", o)
    BY <1>1, <1>6 DEF OwnHand, SignedBy, AgentTypes
  <2> QED BY <1>6, <2>1, <2>2, <2>3 DEF Delivers
<1> QED BY <1>1, <1>2, <1>3, <1>4, <1>5, <1>6

LEMMA BundlesSigned ==
    ASSUME NEW F \in Feeds, NEW b \in Bundles(F)
    PROVE  /\ b \in {ToEvidence(k) : k \in F} /\ b # Rejected
           /\ IsList(b.observations)
           /\ \A o \in Range(b.observations) : \E lane : SignedBy(lane, o)
<1>1. b \in {ToEvidence(k) : k \in F} /\ b # Rejected
  BY DEF Bundles
<1>2. PICK k \in F : b = ToEvidence(k)
  BY <1>1
<1> QED BY <1>1, <1>2, CollectionsDeliver DEF Delivers

-----------------------------------------------------------------------------
\* Merging

\* What a sequence lists is finite, and so is what the bundles in it hold.
LEMMA RangeFinite ==
    ASSUME NEW S, NEW s \in Seq(S)
    PROVE  IsFiniteSet(Range(s)) /\ Range(s) \subseteq S
<1>1. IsFiniteSet(1..Len(s))
  BY FS_Interval
<1>2. s \in Surjection(1..Len(s), Range(s))
  BY DEF Surjection, Range
<1> QED BY <1>1, <1>2, FS_Surjection DEF Range

LEMMA ObservationsFinite ==
    ASSUME NEW F \in Feeds, NEW bundles \in Seq(Bundles(F))
    PROVE  /\ IsFiniteSet(AllObservations(bundles))
           /\ AllObservations(bundles) \subseteq ObservationsIn(F)
<1> DEFINE sets == {Range(b.observations) : b \in Range(bundles)}
           of == [b \in Range(bundles) |-> Range(b.observations)]
<1>1. IsFiniteSet(Range(bundles)) /\ Range(bundles) \subseteq Bundles(F)
  BY RangeFinite
<1>2. of \in Surjection(Range(bundles), sets)
  BY DEF Surjection
<1>3. IsFiniteSet(sets)
  BY <1>1, <1>2, FS_Surjection
<1>4. \A T \in sets : IsFiniteSet(T)
  <2> TAKE T \in sets
  <2>1. PICK b \in Range(bundles) : T = Range(b.observations)
    OBVIOUS
  <2>2. b.observations \in Seq(Range(b.observations))
    BY <1>1, BundlesSigned DEF IsList
  <2> QED BY <2>1, <2>2, RangeFinite
<1>5. IsFiniteSet(UNION sets)
  BY <1>3, <1>4, FS_UNION
<1> QED BY <1>1, <1>5 DEF AllObservations, ObservationsIn

\* Merging bundles that may be merged loses nothing, and the result is valid.
LEMMA MergeLosesNothing ==
    ASSUME NEW F \in Feeds, NEW bundles \in Seq(Bundles(F)), Mergeable(bundles)
    PROVE  /\ Range(Merged(bundles).observations) = AllObservations(bundles)
           /\ BundleValid(Merged(bundles))
           /\ Merged(bundles) # Rejected
<1> DEFINE obs == AllObservations(bundles)
           key == [o \in obs |-> ExternalRank[o.external]]
           list == Sorted(obs, key)
<1>1. IsFiniteSet(obs) /\ obs \subseteq ObservationsIn(F)
  BY ObservationsFinite
<1>2. \A o, q \in obs : o.external = q.external => o = q
  BY DEF Mergeable
<1>3. \A o \in obs : ExternalRank[o.external] \in Int
  BY <1>1, PipelineAssumption
<1>4. \A o, q \in obs : ExternalRank[o.external] = ExternalRank[q.external] => o.external = q.external
  BY <1>1, PipelineAssumption
<1>5. /\ \A e \in obs : key[e] \in Int
      /\ \A e, f \in obs : key[e] = key[f] => e = f
  BY <1>2, <1>3, <1>4
<1>6. Cardinality(obs) \in Nat /\ Cardinality(obs) <= MaxObservations
  BY <1>1, FS_CardinalityType DEF Mergeable
<1>7. \A o \in obs : ObservationValid(o)
  BY DEF AllObservations, Mergeable, BundleValid
<1>8. Merged(bundles).observations = list
  BY DEF Merged, InExternalOrder
<1> HIDE DEF key, obs
<1>9. list \in [1..Cardinality(obs) -> obs] /\ Range(list) = obs /\ IsInjective(list)
  BY <1>1, <1>5, SortedOnce
<1> HIDE DEF list
<1>10. Len(list) = Cardinality(obs) /\ DOMAIN list = 1..Cardinality(obs)
  BY <1>6, <1>9
<1>11. IsInjective([i \in DOMAIN list |-> list[i].external])
  BY <1>2, <1>9, <1>10 DEF IsInjective
<1>12. BundleValid(Merged(bundles))
  BY <1>6, <1>7, <1>8, <1>9, <1>10, <1>11 DEF BundleValid, ExternalIds
<1>13. Merged(bundles) # Rejected
  <2>1. bundles[1] \in Bundles(F)
    BY DEF Mergeable
  <2>2. list \in Seq(ObservationsIn(F))
    BY <1>1, <1>6, <1>9
  <2>3. Merged(bundles) \in [tenant : {b.tenant : b \in Bundles(F)},
                             scope : {b.scope : b \in Bundles(F)},
                             observations : Seq(ObservationsIn(F))]
    BY <1>8, <2>1, <2>2 DEF Merged
  <2> QED BY <2>3, PipelineAssumption
<1> QED BY <1>8, <1>9, <1>12, <1>13 DEF obs

\* Whether bundles may be merged, and into what, depends on which they are only.
LEMMA MergeForgetsOrder ==
    ASSUME NEW F, NEW x \in Seq(Bundles(F)), NEW y \in Seq(Bundles(F)), Range(x) = Range(y), Mergeable(x)
    PROVE  Mergeable(y) /\ Merged(y) = Merged(x)
<1>1. x # <<>> /\ x[1] \in Range(x)
  BY DEF Mergeable, Range
<1>2. y # <<>>
  BY <1>1 DEF Range
<1>3. y[1] \in Range(x)
  <2>1. 1 \in DOMAIN y
    BY <1>2
  <2>2. y[1] \in Range(y)
    BY <2>1 DEF Range
  <2> QED BY <2>2
<1>4. y[1].tenant = x[1].tenant /\ y[1].scope = x[1].scope
  BY <1>3 DEF Mergeable
<1>5. AllObservations(y) = AllObservations(x)
  BY DEF AllObservations
<1> QED BY <1>2, <1>4, <1>5 DEF Mergeable, Merged

-----------------------------------------------------------------------------
\* The runs

MergeOf(bundles) == IF Mergeable(bundles) THEN Merged(bundles) ELSE Rejected

\* What is being merged, and what past runs reported, is what the code computes of
\* the bundles they were given.
EvidenceInv ==
    /\ feed \in Feeds
    /\ inbox \in Seq(Bundles(feed))
    /\ merged # NoBundle => merged = MergeOf(inbox)
    /\ \A run \in past :
         /\ run.inbox \in Seq(Bundles(feed))
         /\ \/ run.how = "merged" /\ run.outcome = Outcome(MergeOf(run.inbox))
            \/ /\ run.how = "asDelivered" /\ Len(run.inbox) = 1
               /\ run.outcome = Outcome(run.inbox[1])

LEMMA EvidenceInvInit == Init => EvidenceInv
BY DEF Init, EvidenceInv

LEMMA EvidenceInvStep == EvidenceInv /\ [Next]_vars => EvidenceInv'
<1> SUFFICES ASSUME EvidenceInv, [Next]_vars
             PROVE  EvidenceInv'
  OBVIOUS
<1> USE DEF EvidenceInv
<1>1. CASE Deliver
  <2>1. inbox' \in Seq(Bundles(feed))
    BY <1>1 DEF Deliver
  <2> QED BY <1>1, <2>1 DEF Deliver
<1>2. CASE Merge
  BY <1>2 DEF Merge, MergeOf
<1>3. CASE AssessMerged
  <2>1. merged = MergeOf(inbox)
    BY <1>3 DEF AssessMerged
  <2>2. past' = past \cup {[how |-> "merged", inbox |-> inbox, outcome |-> Outcome(MergeOf(inbox))]}
    BY <1>3, <2>1 DEF AssessMerged, Conclude
  <2> QED BY <1>3, <2>2 DEF AssessMerged, Conclude
<1>4. CASE AssessAsDelivered
  BY <1>4 DEF AssessAsDelivered, Conclude
<1>5. CASE UNCHANGED vars
  BY <1>5 DEF vars
<1> QED BY <1>1, <1>2, <1>3, <1>4, <1>5 DEF Next

LEMMA EvidenceInvAlways == Spec => []EvidenceInv
BY EvidenceInvInit, EvidenceInvStep, PTL DEF Spec

\* However a report came about, it is the report of an accepted bundle that holds
\* exactly the observations of the bundles delivered.
LEMMA ReportsAreOfWhatCame ==
    ASSUME EvidenceInv, NEW run \in Reports
    PROVE  \E b : /\ Accepts(Manifest, b, Program)
                  /\ run.outcome = Report(Manifest, b, Program)
                  /\ Range(b.observations) = AllObservations(run.inbox)
                  /\ \A c \in Range(run.inbox) : c.tenant = b.tenant /\ c.scope = b.scope
                  /\ run.how = "merged" => b = Merged(run.inbox) /\ Mergeable(run.inbox)
<1>1. run \in past /\ run.outcome # Rejected
  BY DEF Reports
<1>2. feed \in Feeds /\ run.inbox \in Seq(Bundles(feed))
  BY <1>1 DEF EvidenceInv
<1>3. CASE run.how = "merged" /\ run.outcome = Outcome(MergeOf(run.inbox))
  <2>1. Mergeable(run.inbox) /\ MergeOf(run.inbox) = Merged(run.inbox)
    BY <1>1, <1>3 DEF Outcome, MergeOf
  <2>2. /\ Accepts(Manifest, Merged(run.inbox), Program)
        /\ run.outcome = Report(Manifest, Merged(run.inbox), Program)
    BY <1>1, <1>3, <2>1 DEF Outcome
  <2>3. Range(Merged(run.inbox).observations) = AllObservations(run.inbox)
    BY <1>2, <2>1, MergeLosesNothing
  <2>4. \A c \in Range(run.inbox) : /\ c.tenant = Merged(run.inbox).tenant
                                    /\ c.scope = Merged(run.inbox).scope
    BY <2>1 DEF Mergeable, Merged
  <2> QED BY <2>1, <2>2, <2>3, <2>4
<1>4. CASE /\ run.how = "asDelivered" /\ Len(run.inbox) = 1
           /\ run.outcome = Outcome(run.inbox[1])
  <2>1. /\ Accepts(Manifest, run.inbox[1], Program)
        /\ run.outcome = Report(Manifest, run.inbox[1], Program)
    BY <1>1, <1>4 DEF Outcome
  <2>2. DOMAIN run.inbox = {1}
    BY <1>2, <1>4
  <2>3. Range(run.inbox) = {run.inbox[1]}
    BY <2>2 DEF Range
  <2>4. AllObservations(run.inbox) = Range(run.inbox[1].observations)
    BY <2>3 DEF AllObservations
  <2>5. run.how # "merged"
    BY <1>4
  <2> QED BY <2>1, <2>3, <2>4, <2>5
<1> QED BY <1>1, <1>3, <1>4 DEF EvidenceInv

-----------------------------------------------------------------------------
\* The order in which collectors finish, a bundle delivered twice and the way
\* observations are bundled make no difference to a merged report
\* (merge_evidence_bundles sorts by external id and drops what it has seen).
THEOREM ReportsForgetArrival == Spec => []ArrivalDoesNotMatter
<1>1. EvidenceInv => ArrivalDoesNotMatter
  <2> SUFFICES ASSUME EvidenceInv, NEW a \in MergedRuns, NEW c \in MergedRuns
               PROVE  /\ Range(a.inbox) = Range(c.inbox) => a.outcome = c.outcome
                      /\ /\ a \in Reports /\ c \in Reports
                         /\ AllObservations(a.inbox) = AllObservations(c.inbox)
                         => a.outcome = c.outcome
    BY DEF ArrivalDoesNotMatter
  <2>1. /\ a.inbox \in Seq(Bundles(feed)) /\ a.outcome = Outcome(MergeOf(a.inbox))
        /\ c.inbox \in Seq(Bundles(feed)) /\ c.outcome = Outcome(MergeOf(c.inbox))
        /\ a.how = "merged" /\ c.how = "merged"
    BY DEF EvidenceInv, MergedRuns
  <2>2. ASSUME Range(a.inbox) = Range(c.inbox)
        PROVE  a.outcome = c.outcome
    <3>1. Mergeable(a.inbox) => Mergeable(c.inbox) /\ Merged(c.inbox) = Merged(a.inbox)
      BY <2>1, <2>2, MergeForgetsOrder
    <3>2. Mergeable(c.inbox) => Mergeable(a.inbox)
      BY <2>1, <2>2, MergeForgetsOrder
    <3>3. MergeOf(a.inbox) = MergeOf(c.inbox)
      BY <3>1, <3>2 DEF MergeOf
    <3> QED BY <2>1, <3>3
  <2>3. ASSUME a \in Reports, c \in Reports, AllObservations(a.inbox) = AllObservations(c.inbox)
        PROVE  a.outcome = c.outcome
    <3>1. /\ Mergeable(a.inbox) /\ Accepts(Manifest, Merged(a.inbox), Program)
          /\ a.outcome = Report(Manifest, Merged(a.inbox), Program)
      BY <2>1, <2>3, ReportsAreOfWhatCame
    <3>2. /\ Mergeable(c.inbox) /\ Accepts(Manifest, Merged(c.inbox), Program)
          /\ c.outcome = Report(Manifest, Merged(c.inbox), Program)
      BY <2>1, <2>3, ReportsAreOfWhatCame
    <3>3. /\ Merged(a.inbox).tenant = Merged(c.inbox).tenant
          /\ Merged(a.inbox).scope = Merged(c.inbox).scope
      BY <3>1, <3>2 DEF Accepts, Sealable
    <3>4. Merged(a.inbox) = Merged(c.inbox)
      BY <2>3, <3>3 DEF Merged
    <3> QED BY <3>1, <3>2, <3>4
  <2> QED BY <2>2, <2>3
<1> QED BY <1>1, EvidenceInvAlways, PTL

\* merge_evidence_bundles loses no observation, takes no side between two contents
\* for one external id, and returns a bundle that validates.
THEOREM MergesKeepEverything == Spec => []MergeKeepsEverything
<1>1. EvidenceInv => MergeKeepsEverything
  <2> SUFFICES ASSUME EvidenceInv, merged \notin {NoBundle, Rejected}
               PROVE  Range(merged.observations) = AllObservations(inbox) /\ BundleValid(merged)
    BY DEF MergeKeepsEverything
  <2>1. Mergeable(inbox) /\ merged = Merged(inbox)
    BY DEF EvidenceInv, MergeOf
  <2>2. feed \in Feeds /\ inbox \in Seq(Bundles(feed))
    BY DEF EvidenceInv
  <2> QED BY <2>1, <2>2, MergeLosesNothing
<1> QED BY <1>1, EvidenceInvAlways, PTL

\* assess takes no pass away and turns no decided test back into a gap when it is
\* given more observations.
THEOREM MoreEvidenceOnlyHelps == Spec => []EvidenceOnlyHelps
<1>1. EvidenceInv => EvidenceOnlyHelps
  <2> SUFFICES ASSUME EvidenceInv, NEW a \in Reports, NEW c \in Reports,
                      AllObservations(a.inbox) \subseteq AllObservations(c.inbox)
               PROVE  /\ RulesWith(a, {"pass"}) \subseteq RulesWith(c, {"pass"})
                      /\ RulesWith(a, {"pass", "fail"}) \subseteq RulesWith(c, {"pass", "fail"})
    BY DEF EvidenceOnlyHelps
  <2>1. PICK less : /\ a.outcome = Report(Manifest, less, Program)
                    /\ Range(less.observations) = AllObservations(a.inbox)
    BY ReportsAreOfWhatCame
  <2>2. PICK more : /\ c.outcome = Report(Manifest, more, Program)
                    /\ Range(more.observations) = AllObservations(c.inbox)
    BY ReportsAreOfWhatCame
  <2>3. /\ a.outcome.findings = {Finding(Manifest, rule, less) : rule \in Program.rules}
        /\ c.outcome.findings = {Finding(Manifest, rule, more) : rule \in Program.rules}
    BY <2>1, <2>2 DEF Report, Findings
  <2>4. \A rule \in Program.rules : Relevant(Manifest, rule, less) \subseteq Relevant(Manifest, rule, more)
    BY <2>1, <2>2 DEF Relevant
  <2>5. ASSUME NEW rule \in Program.rules
        PROVE  /\ Status(Manifest, rule, less) = "pass" => Status(Manifest, rule, more) = "pass"
               /\ Status(Manifest, rule, less) = "fail" =>
                    Status(Manifest, rule, more) \in {"pass", "fail"}
    BY <2>4 DEF Status
  <2>6. \A rule, b : /\ Finding(Manifest, rule, b).rule = rule.id
                     /\ Finding(Manifest, rule, b).status = Status(Manifest, rule, b)
    BY DEF Finding
  <2>7. ASSUME NEW S, NEW T, \A rule \in Program.rules :
                 Status(Manifest, rule, less) \in S => Status(Manifest, rule, more) \in T
        PROVE  RulesWith(a, S) \subseteq RulesWith(c, T)
    <3> SUFFICES ASSUME NEW f \in a.outcome.findings, f.status \in S
                 PROVE  \E g \in c.outcome.findings : g.status \in T /\ g.rule = f.rule
      BY DEF RulesWith
    <3>1. PICK rule \in Program.rules : f = Finding(Manifest, rule, less)
      BY <2>3
    <3>2. Finding(Manifest, rule, more) \in c.outcome.findings
      BY <2>3
    <3> QED BY <2>6, <2>7, <3>1, <3>2
  <2>8. RulesWith(a, {"pass"}) \subseteq RulesWith(c, {"pass"})
    BY <2>5, <2>7
  <2>9. RulesWith(a, {"pass", "fail"}) \subseteq RulesWith(c, {"pass", "fail"})
    BY <2>5, <2>7
  <2> QED BY <2>8, <2>9
<1> QED BY <1>1, EvidenceInvAlways, PTL

\* Every observation a report cites is current at the end of the assessment
\* period and came in a bundle of the manifest's tenant and scope (seal_evidence).
THEOREM CitesAreOwnAndCurrent == Spec => []CitesOwnCurrentEvidence
<1>1. EvidenceInv => CitesOwnCurrentEvidence
  <2> SUFFICES ASSUME EvidenceInv, NEW run \in Reports, NEW f \in run.outcome.findings,
                      NEW o \in f.evidence
               PROVE  /\ o.collected <= Manifest.ends /\ Manifest.ends <= o.validUntil
                      /\ \A b \in Range(run.inbox) :
                           o \in Range(b.observations) =>
                             b.tenant = Manifest.tenant /\ b.scope = Manifest.scope
    BY DEF CitesOwnCurrentEvidence
  <2>1. PICK b : /\ Accepts(Manifest, b, Program)
                 /\ run.outcome = Report(Manifest, b, Program)
                 /\ \A c \in Range(run.inbox) : c.tenant = b.tenant /\ c.scope = b.scope
    BY ReportsAreOfWhatCame
  <2>2. PICK rule \in Program.rules : f = Finding(Manifest, rule, b)
    BY <2>1 DEF Report, Findings
  <2>3. o \in Relevant(Manifest, rule, b)
    BY <2>2 DEF Finding
  <2>4. o.collected <= Manifest.ends /\ Manifest.ends <= o.validUntil
    BY <2>3 DEF Relevant, Current
  <2>5. Manifest.tenant = b.tenant /\ Manifest.scope = b.scope
    BY <2>1 DEF Accepts, Sealable
  <2> QED BY <2>1, <2>4, <2>5
<1> QED BY <1>1, EvidenceInvAlways, PTL

-----------------------------------------------------------------------------
\* Scanner signals

Located(b) == {o \in ScannerFindings(b) : Fact(o, "resource") # None}
PlaceOf(o) == <<Fact(o, "provider"), Fact(o, "resource")>>
GroupAt(b, p) == {o \in Located(b) : PlaceOf(o) = p}

LEMMA SignalsOfGroups ==
    ASSUME NEW b, SummarizeScannerResources(b) # Rejected
    PROVE  LET signals == SummarizeScannerResources(b) IN
           /\ DOMAIN signals = {PlaceOf(o) : o \in Located(b)}
           /\ \A p \in DOMAIN signals :
                /\ signals[p].tools = {Fact(o, "tool") : o \in GroupAt(b, p)}
                /\ signals[p].fingerprints = {Fingerprint(o) : o \in GroupAt(b, p)}
                /\ signals[p].highest = Highest(GroupAt(b, p))
                /\ GroupAt(b, p) # {}
<1> DEFINE Signals(group) ==
             [tools |-> {Fact(o, "tool") : o \in group}, highest |-> Highest(group),
              findings |-> Cardinality(group),
              fingerprints |-> {Fingerprint(o) : o \in group},
              observations |-> {o.external : o \in group}]
<1>1. SummarizeScannerResources(b)
        = [p \in {PlaceOf(o) : o \in Located(b)} |-> Signals(GroupAt(b, p))]
  BY DEF SummarizeScannerResources, Located, PlaceOf, GroupAt
<1>2. \A g : /\ Signals(g).tools = {Fact(o, "tool") : o \in g}
             /\ Signals(g).fingerprints = {Fingerprint(o) : o \in g}
             /\ Signals(g).highest = Highest(g)
  OBVIOUS
<1>3. \A p \in {PlaceOf(o) : o \in Located(b)} : GroupAt(b, p) # {}
  BY DEF GroupAt
<1> HIDE DEF Signals
<1> QED BY <1>1, <1>2, <1>3

\* The severities have ranks, the highest of some is one of them.
LEMMA HighestIsMax ==
    ASSUME NEW group, group # {}
    PROVE  /\ \E o \in group : Highest(group) = SeverityRank(o)
           /\ \A o \in group : SeverityRank(o) <= Highest(group)
           /\ Highest(group) \in 0..5
<1> DEFINE ranks == {SeverityRank(o) : o \in group}
<1>1. \A o : SeverityRank(o) \in 0..5
  <2>1. DOMAIN Severities = 1..5
    BY DEF Severities
  <2> QED BY <2>1 DEF SeverityRank
<1>2. ranks \subseteq 0..5 /\ ranks # {}
  BY <1>1
<1> HIDE DEF ranks
<1>3. \E x \in ranks : \A y \in ranks : x >= y
  <2>1. CASE 5 \in ranks
    BY <1>2, <2>1
  <2>2. CASE 5 \notin ranks /\ 4 \in ranks
    BY <1>2, <2>2
  <2>3. CASE 5 \notin ranks /\ 4 \notin ranks /\ 3 \in ranks
    BY <1>2, <2>3
  <2>4. CASE 5 \notin ranks /\ 4 \notin ranks /\ 3 \notin ranks /\ 2 \in ranks
    BY <1>2, <2>4
  <2>5. CASE 5 \notin ranks /\ 4 \notin ranks /\ 3 \notin ranks /\ 2 \notin ranks /\ 1 \in ranks
    BY <1>2, <2>5
  <2>6. CASE 5 \notin ranks /\ 4 \notin ranks /\ 3 \notin ranks /\ 2 \notin ranks /\ 1 \notin ranks
    <3>1. \A y \in ranks : y = 0
      BY <1>2, <2>6
    <3>2. 0 \in ranks
      BY <1>2, <3>1
    <3>3. \A y \in ranks : 0 >= y
      BY <3>1
    <3> QED BY <3>2, <3>3
  <2> QED BY <1>2, <2>1, <2>2, <2>3, <2>4, <2>5, <2>6
<1>4. Max(ranks) \in ranks /\ \A y \in ranks : Max(ranks) >= y
  BY <1>3 DEF Max
<1>5. Highest(group) = Max(ranks)
  BY DEF Highest, ranks
<1>6. \A o \in group : SeverityRank(o) \in ranks
  BY DEF ranks
<1>7. \E o \in group : Max(ranks) = SeverityRank(o)
  BY <1>4 DEF ranks
<1> QED BY <1>1, <1>2, <1>4, <1>5, <1>6, <1>7

\* All that is said of a finding is in its facts.
LEMMA FactsDecide ==
    ASSUME NEW o, NEW q, o.facts = q.facts
    PROVE  /\ \A key : Fact(o, key) = Fact(q, key)
           /\ Fingerprint(o) = Fingerprint(q) /\ SeverityRank(o) = SeverityRank(q)
           /\ PlaceOf(o) = PlaceOf(q)
<1>1. \A key : Fact(o, key) = Fact(q, key)
  BY DEF Fact
<1>2. Fingerprint(o) = Fingerprint(q) /\ PlaceOf(o) = PlaceOf(q)
  BY <1>1 DEF Fingerprint, PlaceOf
<1> DEFINE Rank(s) == IF \E i \in DOMAIN Severities : Severities[i] = s
                      THEN CHOOSE i \in DOMAIN Severities : Severities[i] = s
                      ELSE 0
<1>3. SeverityRank(o) = Rank(Fact(o, "severity")) /\ SeverityRank(q) = Rank(Fact(q, "severity"))
  BY DEF SeverityRank
<1>4. Fact(o, "severity") = Fact(q, "severity")
  BY <1>1
<1> HIDE DEF Rank
<1> QED BY <1>1, <1>2, <1>3, <1>4

\* Where one bundle's findings are all found again in another's, so are its signals.
LEMMA SignalsGrow ==
    ASSUME NEW b, NEW c,
           SummarizeScannerResources(b) # Rejected, SummarizeScannerResources(c) # Rejected,
           {o.facts : o \in ScannerFindings(b)} \subseteq {o.facts : o \in ScannerFindings(c)},
           NEW p \in DOMAIN SummarizeScannerResources(b)
    PROVE  LET less == SummarizeScannerResources(b)
               more == SummarizeScannerResources(c)
           IN  /\ p \in DOMAIN more
               /\ less[p].tools \subseteq more[p].tools
               /\ less[p].fingerprints \subseteq more[p].fingerprints
               /\ less[p].highest <= more[p].highest
<1> DEFINE less == SummarizeScannerResources(b)
           more == SummarizeScannerResources(c)
<1>1. ASSUME NEW o \in GroupAt(b, p)
      PROVE  \E q \in GroupAt(c, p) : o.facts = q.facts
  <2>1. PICK q \in ScannerFindings(c) : o.facts = q.facts
    BY DEF GroupAt, Located
  <2>2. PlaceOf(o) = PlaceOf(q) /\ Fact(o, "resource") = Fact(q, "resource")
    BY <2>1, FactsDecide
  <2> QED BY <2>1, <2>2 DEF GroupAt, Located
<1>2. /\ GroupAt(b, p) # {}
      /\ less[p].tools = {Fact(o, "tool") : o \in GroupAt(b, p)}
      /\ less[p].fingerprints = {Fingerprint(o) : o \in GroupAt(b, p)}
      /\ less[p].highest = Highest(GroupAt(b, p))
  BY SignalsOfGroups
<1>3. GroupAt(c, p) # {}
  BY <1>1, <1>2
<1>4. p \in DOMAIN more
  <2>1. PICK q \in Located(c) : PlaceOf(q) = p
    BY <1>3 DEF GroupAt
  <2>2. DOMAIN more = {PlaceOf(o) : o \in Located(c)}
    BY SignalsOfGroups
  <2> QED BY <2>1, <2>2
<1>5. /\ more[p].tools = {Fact(o, "tool") : o \in GroupAt(c, p)}
      /\ more[p].fingerprints = {Fingerprint(o) : o \in GroupAt(c, p)}
      /\ more[p].highest = Highest(GroupAt(c, p))
  BY <1>4, SignalsOfGroups
<1> HIDE DEF less, more
<1>6. less[p].tools \subseteq more[p].tools
  BY <1>1, <1>2, <1>5, FactsDecide
<1>7. less[p].fingerprints \subseteq more[p].fingerprints
  BY <1>1, <1>2, <1>5, FactsDecide
<1>8. less[p].highest <= more[p].highest
  <2>1. PICK o \in GroupAt(b, p) : Highest(GroupAt(b, p)) = SeverityRank(o)
    BY <1>2, HighestIsMax
  <2>2. PICK q \in GroupAt(c, p) : o.facts = q.facts
    BY <1>1
  <2>3. SeverityRank(o) = SeverityRank(q)
    BY <2>2, FactsDecide
  <2>4. SeverityRank(q) <= Highest(GroupAt(c, p))
    BY HighestIsMax
  <2> QED BY <1>2, <1>5, <2>1, <2>3, <2>4
<1> QED BY <1>4, <1>6, <1>7, <1>8 DEF less, more

\* Scanner signals only grow with the evidence, and what is found again is recognized
\* (summarize_scanner_resources), whatever the reports and however often a scan is made.
THEOREM SignalsGrowOnly == Spec => []SignalsOnlyGrow
<1>1. SignalsOnlyGrow
  <2> SUFFICES ASSUME NEW a \in Reports, NEW c \in Reports,
                      SummarizeScannerResources(a.outcome.evidenceDigest) # Rejected,
                      SummarizeScannerResources(c.outcome.evidenceDigest) # Rejected
               PROVE  LET less == SummarizeScannerResources(a.outcome.evidenceDigest)
                          more == SummarizeScannerResources(c.outcome.evidenceDigest)
                          Contents(run) == {o.facts : o \in ScannerFindings(run.outcome.evidenceDigest)}
                      IN  /\ Contents(a) \subseteq Contents(c) =>
                               \A p \in DOMAIN less :
                                  /\ p \in DOMAIN more
                                  /\ less[p].tools \subseteq more[p].tools
                                  /\ less[p].fingerprints \subseteq more[p].fingerprints
                                  /\ less[p].highest <= more[p].highest
                          /\ Contents(a) = Contents(c) =>
                               \A p \in DOMAIN less : less[p].fingerprints = more[p].fingerprints
    BY Zenon DEF SignalsOnlyGrow
  <2> DEFINE b == a.outcome.evidenceDigest
             d == c.outcome.evidenceDigest
             less == SummarizeScannerResources(b)
             more == SummarizeScannerResources(d)
  <2>1. ASSUME {o.facts : o \in ScannerFindings(b)} \subseteq {o.facts : o \in ScannerFindings(d)},
               NEW p \in DOMAIN less
        PROVE  /\ p \in DOMAIN more
               /\ less[p].tools \subseteq more[p].tools
               /\ less[p].fingerprints \subseteq more[p].fingerprints
               /\ less[p].highest <= more[p].highest
    BY <2>1, SignalsGrow
  <2>2. ASSUME {o.facts : o \in ScannerFindings(b)} = {o.facts : o \in ScannerFindings(d)},
               NEW p \in DOMAIN less
        PROVE  less[p].fingerprints = more[p].fingerprints
    <3>1. p \in DOMAIN more /\ less[p].fingerprints \subseteq more[p].fingerprints
      BY <2>1, <2>2
    <3>2. more[p].fingerprints \subseteq less[p].fingerprints
      BY <2>2, <3>1, SignalsGrow
    <3> QED BY <3>1, <3>2
  <2> HIDE DEF less, more, b, d
  <2> QED BY <2>1, <2>2 DEF less, more, b, d
<1> QED BY <1>1, PTL

-----------------------------------------------------------------------------
\* Lanes

\* Everything that was delivered is in some bundle of the feed.
LEMMA FromBundles ==
    ASSUME EvidenceInv, NEW o \in AllObservations(inbox)
    PROVE  \E b \in Bundles(feed) :
             /\ b \in Range(inbox) /\ o \in Range(b.observations)
             /\ \E lane : SignedBy(lane, o)
<1>1. feed \in Feeds /\ inbox \in Seq(Bundles(feed))
  BY DEF EvidenceInv
<1>2. PICK b \in Range(inbox) : o \in Range(b.observations)
  BY DEF AllObservations
<1>3. b \in Bundles(feed)
  BY <1>1, <1>2, RangeFinite
<1> QED BY <1>1, <1>2, <1>3, BundlesSigned

\* One id has one source; and one time, but for evaluations and what is hand-written.
LEMMA IdsSign ==
    ASSUME NEW o, NEW q, NEW l, NEW m, SignedBy(l, o), SignedBy(m, q), o.external = q.external
    PROVE  /\ o.source.connector = q.source.connector
           /\ \/ o.source.connector \in {<<"manual">>, <<"agent-eval">>}
              \/ o.source.connector[1] \notin {"manual", "agent-eval"} /\ o.collected = q.collected
<1>1. CASE o.external[1] \in ExternalTags
  BY <1>1 DEF SignedBy, ExternalTags, NativeTags, OperationalTags, AgentTags, AdapterTags
<1>2. CASE o.external[1] \in NativeTags
  BY <1>2 DEF SignedBy, ExternalTags, NativeTags, OperationalTags, AgentTags, AdapterTags
<1>3. CASE o.external[1] \in OperationalTags
  BY <1>3 DEF SignedBy, ExternalTags, NativeTags, OperationalTags, AgentTags, AdapterTags
<1>4. CASE o.external[1] \in AgentTags
  BY <1>4 DEF SignedBy, ExternalTags, NativeTags, OperationalTags, AgentTags, AdapterTags
<1>5. CASE o.external[1] \notin AdapterTags
  BY <1>5 DEF SignedBy, ExternalTags, NativeTags, OperationalTags, AgentTags, AdapterTags
<1> QED BY <1>1, <1>2, <1>3, <1>4, <1>5 DEF SignedBy

-----------------------------------------------------------------------------
\* Evaluations

\* As many rows as there are things they are about, if each tells which.
LEMMA RowsCount ==
    ASSUME NEW A, IsFiniteSet(A), NEW row, DOMAIN row = A,
           \A x, y \in A : row[x] = row[y] => x = y,
           NEW X \in SUBSET A, NEW B,
           \A y \in B : \E x \in X : y = row[x], \A x \in X : row[x] \in B
    PROVE  Cardinality(B) = Cardinality(X)
<1> DEFINE f == [x \in X |-> row[x]]
<1>1. IsFiniteSet(X)
  BY FS_Subset
<1>2. f \in Bijection(X, B)
  BY DEF Bijection, Injection, Surjection, IsInjective
<1>3. ExistsBijection(X, B)
  BY <1>2 DEF ExistsBijection
<1> QED BY <1>1, <1>3, FS_Bijection

LEMMA FactOf ==
    ASSUME NEW o, NEW texts, NEW counts, o.facts = Facts(texts, counts), NEW key
    PROVE  /\ key \in DOMAIN counts => Fact(o, key) = counts[key]
           /\ key \in DOMAIN texts /\ key \notin DOMAIN counts /\ texts[key] # None
                => Fact(o, key) = texts[key]
BY DEF Fact, Facts

\* What the observations of a receipt say of it.
LEMMA RunFacts ==
    ASSUME NEW c, NEW r, ReceiptFit(c, r), r.receiptSha256 # None
    PROVE  /\ Fact(AgentRun(c, r), "receiptSha256") = r.receiptSha256
           /\ Fact(AgentRun(c, r), "declaredCaseCount") = Len(r.cases)
           /\ Fact(AgentRun(c, r), "passingCaseCount") = CasesWith(r, {"passed"})
           /\ Fact(AgentRun(c, r), "nonPassingCaseCount") = CasesWith(r, CaseStatuses \ {"passed"})
<1> DEFINE texts == [repository |-> r.repository, benchmarkSuite |-> r.suite,
                     receiptSha256 |-> r.receiptSha256]
<1>1. AgentRun(c, r).facts = Facts(texts, r.counts)
  BY DEF AgentRun, Observation
<1>2. /\ DOMAIN r.counts = {"declaredCaseCount", "executedCaseCount", "passingCaseCount",
                            "nonPassingCaseCount"}
      /\ r.counts.declaredCaseCount = Len(r.cases)
      /\ r.counts.passingCaseCount = CasesWith(r, {"passed"})
      /\ r.counts.nonPassingCaseCount = CasesWith(r, CaseStatuses \ {"passed"})
  BY DEF ReceiptFit
<1>3. "receiptSha256" \in DOMAIN texts /\ texts["receiptSha256"] = r.receiptSha256
  OBVIOUS
<1> HIDE DEF texts
<1> QED BY <1>1, <1>2, <1>3, FactOf

LEMMA CaseFacts ==
    ASSUME NEW c, NEW r, r.receiptSha256 # None, NEW x, x.id # None, x.status # None
    PROVE  /\ Fact(AgentCase(c, r, x), "evaluationReceiptSha256") = r.receiptSha256
           /\ Fact(AgentCase(c, r, x), "caseId") = x.id
           /\ Fact(AgentCase(c, r, x), "status") = x.status
<1> DEFINE texts == [caseId |-> x.id, status |-> x.status, candidateTreeSha |-> x.tree,
                     verifierReceiptSha256 |-> x.verifier,
                     evaluationReceiptSha256 |-> r.receiptSha256]
           counts == [durationMs |-> x.durationMs]
<1>1. AgentCase(c, r, x).facts = Facts(texts, counts)
  BY DEF AgentCase, Observation
<1>2. /\ {"caseId", "status", "evaluationReceiptSha256"} \subseteq DOMAIN texts
      /\ texts["caseId"] = x.id /\ texts["status"] = x.status
      /\ texts["evaluationReceiptSha256"] = r.receiptSha256
      /\ DOMAIN counts = {"durationMs"}
  OBVIOUS
<1> HIDE DEF texts, counts
<1> QED BY <1>1, <1>2, FactOf

\* A digest stands for a receipt.
LEMMA OneReceipt ==
    ASSUME NEW c, NEW r, NEW d, NEW s, ReceiptFit(c, r), ReceiptFit(d, s),
           r = [f \in DOMAIN r |-> r[f]], s = [f \in DOMAIN s |-> s[f]],
           "receiptSha256" \in DOMAIN r, "receiptSha256" \in DOMAIN s,
           r.receiptSha256 = s.receiptSha256
    PROVE  r = s
<1>1. ReceiptDigest(r) = ReceiptDigest(s)
  BY DEF ReceiptFit
<1>2. DOMAIN r \ {"receiptSha256"} = DOMAIN s \ {"receiptSha256"}
  BY <1>1 DEF ReceiptDigest
<1>3. \A f \in DOMAIN r \ {"receiptSha256"} : r[f] = s[f]
  <2> TAKE f \in DOMAIN r \ {"receiptSha256"}
  <2>1. ReceiptDigest(r)[f] = r[f] /\ ReceiptDigest(s)[f] = s[f]
    BY <1>2 DEF ReceiptDigest
  <2> QED BY <1>1, <2>1
<1>4. DOMAIN r = DOMAIN s /\ \A f \in DOMAIN r : r[f] = s[f]
  BY <1>2, <1>3
<1> QED BY <1>4

\* Where the observations of an evaluation come from.
LEMMA AgentOrigin ==
    ASSUME EvidenceInv, NEW o \in AllObservations(inbox),
           o.type \in AgentTypes \/ o.source.connector = <<"agent-eval">>
    PROVE  \E k \in feed :
             /\ k.lane = "agentEval" /\ ReportTyped(k)
             /\ ToEvidence(k) # Rejected /\ ToEvidence(k) \in Range(inbox)
             /\ o \in Range(ToEvidence(k).observations)
<1>1. PICK b \in Bundles(feed) : b \in Range(inbox) /\ o \in Range(b.observations)
  BY FromBundles
<1>2. PICK k \in feed : b = ToEvidence(k) /\ b # Rejected
  BY <1>1 DEF Bundles
<1>3. feed \in Feeds
  BY DEF EvidenceInv
<1>4. SignedBy(k.lane, o)
  BY <1>1, <1>2, <1>3, CollectionsDeliver DEF Delivers
<1>5. k.lane = "agentEval"
  BY <1>4 DEF SignedBy
<1>6. ReportTyped(k)
  BY <1>3, PipelineAssumption
<1> QED BY <1>1, <1>2, <1>5, <1>6

\* An id goes on with these parts after its boundary.
GoesOn(id, parts) == \A i \in 1..Len(parts) : id[3 + i] = parts[i]

\* What follows the boundary in the id of an evaluation.
LEMMA BoundaryThen ==
    ASSUME NEW tag, NEW c, NEW parts, IsList(parts)
    PROVE  GoesOn(Boundary(tag, c) \o parts, parts)
<1> DEFINE start == <<tag, c.tenant, c.scope>>
           S == {tag, c.tenant, c.scope} \cup Range(parts)
<1>1. start \in Seq(S) /\ Len(start) = 3 /\ parts \in Seq(S) /\ Len(parts) \in Nat
  BY DEF IsList
<1>2. Boundary(tag, c) = start
  BY DEF Boundary
<1> HIDE DEF start, S
<1>3. \A j \in 1..Len(start) + Len(parts) :
        (start \o parts)[j] = IF j <= Len(start) THEN start[j] ELSE parts[j - Len(start)]
  BY <1>1, ConcatProperties
<1> DEFINE chain == start \o parts
<1> HIDE DEF chain
<1>4. ASSUME NEW i \in 1..Len(parts)
      PROVE  chain[3 + i] = parts[i]
  <2>1. 3 + i \in 1..Len(start) + Len(parts) /\ ~(3 + i <= Len(start)) /\ 3 + i - Len(start) = i
    BY <1>1
  <2> QED BY <1>3, <2>1 DEF chain
<1>5. GoesOn(chain, parts)
  BY <1>4 DEF GoesOn
<1> QED BY <1>2, <1>5 DEF chain

\* The ids of an evaluation say which receipt it is, and which of its cases.
LEMMA AgentIds ==
    ASSUME NEW c, NEW r
    PROVE  /\ AgentRun(c, r).external[1] = "agent-eval-run"
           /\ AgentRun(c, r).external[6] = r.receiptSha256
           /\ \A row : /\ AgentCase(c, r, row).external[1] = "agent-eval-case"
                       /\ AgentCase(c, r, row).external[4] = r.receiptSha256
                       /\ AgentCase(c, r, row).external[5] = row.id
<1>1. /\ AgentRun(c, r).external[1] = "agent-eval-run"
      /\ AgentRun(c, r).external[6] = r.receiptSha256
  <2> DEFINE parts == <<r.repository, r.suite, r.receiptSha256>>
  <2>1. parts \in Seq({r.repository, r.suite, r.receiptSha256})
    OBVIOUS
  <2>2. Len(parts) = 3 /\ parts[3] = r.receiptSha256
    OBVIOUS
  <2>3. AgentRun(c, r).external = Boundary("agent-eval-run", c) \o parts
    BY DEF AgentRun, Observation
  <2> HIDE DEF parts
  <2>4. IsList(parts)
    BY <2>1, ListRange
  <2>5. (Boundary("agent-eval-run", c) \o parts)[3 + 3] = parts[3]
    <3>1. 3 \in 1..Len(parts)
      BY <2>2
    <3> DEFINE id == Boundary("agent-eval-run", c) \o parts
    <3>2. GoesOn(id, parts)
      BY <2>4, BoundaryThen, Zenon
    <3> HIDE DEF id
    <3>3. \A i \in 1..Len(parts) : id[3 + i] = parts[i]
      BY <3>2 DEF GoesOn
    <3> QED BY <3>1, <3>3 DEF id
  <2>6. (Boundary("agent-eval-run", c) \o parts)[1] = "agent-eval-run"
    BY <2>4, BoundaryOpens, Zenon
  <2>7. 3 + 3 = 6
    OBVIOUS
  <2> QED BY <2>2, <2>3, <2>5, <2>6, <2>7, Zenon
<1>2. ASSUME NEW row
      PROVE  /\ AgentCase(c, r, row).external[1] = "agent-eval-case"
             /\ AgentCase(c, r, row).external[4] = r.receiptSha256
             /\ AgentCase(c, r, row).external[5] = row.id
  <2> DEFINE parts == <<r.receiptSha256, row.id, row.status, row.tree, row.verifier>>
  <2>1. parts \in Seq({r.receiptSha256, row.id, row.status, row.tree, row.verifier})
    OBVIOUS
  <2>2. Len(parts) = 5 /\ parts[1] = r.receiptSha256 /\ parts[2] = row.id
    OBVIOUS
  <2>3. AgentCase(c, r, row).external = Boundary("agent-eval-case", c) \o parts
    BY DEF AgentCase, Observation
  <2> HIDE DEF parts
  <2>4. IsList(parts)
    BY <2>1, ListRange
  <2>5. /\ (Boundary("agent-eval-case", c) \o parts)[3 + 1] = parts[1]
        /\ (Boundary("agent-eval-case", c) \o parts)[3 + 2] = parts[2]
    <3>1. 1 \in 1..Len(parts) /\ 2 \in 1..Len(parts)
      BY <2>2
    <3> DEFINE id == Boundary("agent-eval-case", c) \o parts
    <3>2. GoesOn(id, parts)
      BY <2>4, BoundaryThen, Zenon
    <3> HIDE DEF id
    <3>3. \A i \in 1..Len(parts) : id[3 + i] = parts[i]
      BY <3>2 DEF GoesOn
    <3> QED BY <3>1, <3>3 DEF id
  <2>6. (Boundary("agent-eval-case", c) \o parts)[1] = "agent-eval-case"
    BY <2>4, BoundaryOpens, Zenon
  <2>7. 3 + 1 = 4 /\ 3 + 2 = 5
    OBVIOUS
  <2> QED BY <2>2, <2>3, <2>5, <2>6, <2>7, Zenon
<1> QED BY <1>1, <1>2

\* Two imports of one thing differ by what their contexts add.
LEMMA ImportsDiffer ==
    ASSUME NEW c, NEW d, NEW connector, NEW id, NEW type, NEW facts, c.scope = d.scope
    PROVE  ReimportOf(Observation(c, connector, id, type, facts),
                      Observation(d, connector, id, type, facts))
<1> DEFINE o == Observation(c, connector, id, type, facts)
           q == Observation(d, connector, id, type, facts)
           fields == {"external", "type", "subject", "source", "collected", "validUntil", "facts"}
<1>1. /\ o = [f \in fields |-> o[f]] /\ q = [f \in fields |-> q[f]]
      /\ o.external = id /\ q.external = id /\ o.type = type /\ q.type = type
      /\ o.subject = c.scope /\ q.subject = d.scope /\ o.facts = facts /\ q.facts = facts
  BY DEF Observation
<1> HIDE DEF o, q
<1> DEFINE e == [o EXCEPT !.source = q.source, !.collected = q.collected,
                          !.validUntil = q.validUntil]
<1>2. /\ e = [f \in fields |-> e[f]]
      /\ e.source = q.source /\ e.collected = q.collected /\ e.validUntil = q.validUntil
      /\ e.external = o.external /\ e.type = o.type /\ e.subject = o.subject
      /\ e.facts = o.facts
  BY <1>1
<1> HIDE DEF e
<1>3. \A f \in fields : e[f] = q[f]
  BY <1>1, <1>2
<1>4. e = q
  BY <1>1, <1>2, <1>3
<1> QED BY <1>4 DEF ReimportOf, o, q, e

\* One id of an evaluation is of one receipt, and of one case of it.
LEMMA ReceiptsDoNotCollide ==
    ASSUME EvidenceInv, NEW o \in AllObservations(inbox), NEW q \in AllObservations(inbox),
           \A b \in Range(inbox) : b.scope = inbox[1].scope,
           o.external = q.external,
           o.source.connector = <<"agent-eval">>, q.source.connector = <<"agent-eval">>
    PROVE  ReimportOf(o, q)
<1>1. PICK k \in feed : /\ k.lane = "agentEval" /\ ReportTyped(k)
                        /\ ToEvidence(k) # Rejected /\ ToEvidence(k) \in Range(inbox)
                        /\ o \in Range(ToEvidence(k).observations)
  BY AgentOrigin
<1>2. PICK j \in feed : /\ j.lane = "agentEval" /\ ReportTyped(j)
                        /\ ToEvidence(j) # Rejected /\ ToEvidence(j) \in Range(inbox)
                        /\ q \in Range(ToEvidence(j).observations)
  BY AgentOrigin
<1> DEFINE c == k.context
           r == k.report
           d == j.context
           s == j.report
<1>3. /\ ReceiptFit(c, r) /\ ToEvidence(k).scope = c.scope
      /\ o \in {AgentRun(c, r)} \cup {AgentCase(c, r, r.cases[i]) : i \in 1..Len(r.cases)}
  BY <1>1, AgentBundle
<1>4. /\ ReceiptFit(d, s) /\ ToEvidence(j).scope = d.scope
      /\ q \in {AgentRun(d, s)} \cup {AgentCase(d, s, s.cases[i]) : i \in 1..Len(s.cases)}
  BY <1>2, AgentBundle
<1>5. /\ r = [f \in DOMAIN r |-> r[f]] /\ "receiptSha256" \in DOMAIN r
      /\ s = [f \in DOMAIN s |-> s[f]] /\ "receiptSha256" \in DOMAIN s
      /\ IsList(r.cases)
  BY <1>1, <1>2 DEF ReportTyped
<1>6. c.scope = d.scope
  BY <1>1, <1>2, <1>3, <1>4
<1>7. DOMAIN r.cases = 1..Len(r.cases)
  BY <1>5 DEF IsList
<1> HIDE DEF c, d, r, s
<1>8. CASE o = AgentRun(c, r)
  <2>1. q.external[1] = "agent-eval-run" /\ q.external[6] = r.receiptSha256
    BY <1>8, AgentIds, Zenon
  <2>2. q = AgentRun(d, s)
    <3>1. \A row : AgentCase(d, s, row).external[1] # "agent-eval-run"
      <4> TAKE row
      <4>1. AgentCase(d, s, row).external[1] = "agent-eval-case"
        BY AgentIds, Zenon
      <4> QED BY <4>1
    <3> QED BY <1>4, <2>1, <3>1
  <2>3. r.receiptSha256 = s.receiptSha256
    BY <2>1, <2>2, AgentIds, Zenon
  <2>4. r = s
    BY <1>3, <1>4, <1>5, <2>3, OneReceipt
  <2> DEFINE facts == Facts([repository |-> r.repository, benchmarkSuite |-> r.suite,
                             receiptSha256 |-> r.receiptSha256], r.counts)
             connector == <<"agent-eval">>
             id == o.external
  <2>5. /\ o = Observation(c, connector, id, "agent_eval.run", facts)
        /\ q = Observation(d, connector, id, "agent_eval.run", facts)
    BY <1>8, <2>2, <2>4 DEF AgentRun, Observation
  <2> HIDE DEF facts, connector, id
  <2> QED BY <1>6, <2>5, ImportsDiffer
<1>9. CASE o # AgentRun(c, r)
  <2>1. PICK i \in 1..Len(r.cases) : o = AgentCase(c, r, r.cases[i])
    BY <1>3, <1>9
  <2>2. PICK h \in 1..Len(s.cases) : q = AgentCase(d, s, s.cases[h])
    <3> DEFINE row == r.cases[i]
    <3> HIDE DEF row
    <3>0. AgentCase(c, r, row).external[1] = "agent-eval-case"
      BY AgentIds, Zenon
    <3>1. o.external[1] = "agent-eval-case"
      BY <2>1, <3>0 DEF row
    <3>2. AgentRun(d, s).external[1] = "agent-eval-run"
      BY AgentIds, Zenon
    <3>3. q # AgentRun(d, s)
      BY <3>1, <3>2
    <3> QED BY <1>4, <3>3
  <2>3. r.receiptSha256 = s.receiptSha256 /\ r.cases[i].id = s.cases[h].id
    <3> DEFINE x == r.cases[i]
               y == s.cases[h]
    <3> HIDE DEF x, y
    <3>1. AgentCase(c, r, x).external[4] = r.receiptSha256
      BY AgentIds, Zenon
    <3>2. AgentCase(c, r, x).external[5] = x.id
      BY AgentIds, Zenon
    <3>3. AgentCase(d, s, y).external[4] = s.receiptSha256
      BY AgentIds, Zenon
    <3>4. AgentCase(d, s, y).external[5] = y.id
      BY AgentIds, Zenon
    <3>5. AgentCase(c, r, x).external = AgentCase(d, s, y).external
      BY <2>1, <2>2 DEF x, y
    <3>6. r.receiptSha256 = s.receiptSha256 /\ x.id = y.id
      BY <3>1, <3>2, <3>3, <3>4, <3>5, Zenon
    <3> QED BY <3>6 DEF x, y
  <2>4. r = s
    BY <1>3, <1>4, <1>5, <2>3, OneReceipt
  <2>5. i = h
    BY <1>3, <1>7, <2>3, <2>4 DEF ReceiptFit, IsInjective
  <2> DEFINE row == r.cases[i]
             facts == Facts([caseId |-> row.id, status |-> row.status,
                             candidateTreeSha |-> row.tree,
                             verifierReceiptSha256 |-> row.verifier,
                             evaluationReceiptSha256 |-> r.receiptSha256],
                            [durationMs |-> row.durationMs])
             connector == <<"agent-eval">>
             id == o.external
  <2>6. /\ o = Observation(c, connector, id, "agent_eval.case", facts)
        /\ q = Observation(d, connector, id, "agent_eval.case", facts)
    BY <2>1, <2>2, <2>4, <2>5 DEF AgentCase, Observation
  <2> HIDE DEF row, facts, connector, id
  <2> QED BY <1>6, <2>6, ImportsDiffer
<1> QED BY <1>8, <1>9

\* What different collectors report can become one evidence set: the adapters' ids
\* say which source found it and when, or which receipt it is, so that only a source
\* that spoke twice of one second, a receipt imported under two contexts or a hand that
\* repeated an id can make merge_evidence_bundles refuse valid bundles of one boundary
\* within the limits.
THEOREM LanesAlwaysCompose == Spec => []LanesCompose
<1>1. EvidenceInv => LanesCompose
  <2> SUFFICES ASSUME EvidenceInv, merged = Rejected, inbox # <<>>,
                      \A b \in Range(inbox) :
                        BundleValid(b) /\ b.tenant = inbox[1].tenant /\ b.scope = inbox[1].scope,
                      Cardinality(AllObservations(inbox)) <= MaxObservations
               PROVE  \E o, q \in AllObservations(inbox) :
                        /\ o # q /\ o.external = q.external
                        /\ o.source.connector = q.source.connector
                        /\ \/ o.source.connector = <<"manual">>
                           \/ o.source.connector = <<"agent-eval">> /\ ReimportOf(o, q)
                           \/ /\ o.source.connector[1] \notin {"manual", "agent-eval"}
                              /\ o.collected = q.collected
    BY Zenon DEF LanesCompose
  <2>1. feed \in Feeds /\ inbox \in Seq(Bundles(feed)) /\ merged = MergeOf(inbox)
    BY PipelineAssumption DEF EvidenceInv
  <2>2. ~Mergeable(inbox)
    BY <2>1, MergeLosesNothing DEF MergeOf
  <2>3. PICK o, q \in AllObservations(inbox) : o.external = q.external /\ o # q
    BY <2>2 DEF Mergeable
  <2>4. (\E lane : SignedBy(lane, o)) /\ (\E lane : SignedBy(lane, q))
    BY FromBundles
  <2>5. /\ o.source.connector = q.source.connector
        /\ \/ o.source.connector \in {<<"manual">>, <<"agent-eval">>}
           \/ /\ o.source.connector[1] \notin {"manual", "agent-eval"}
              /\ o.collected = q.collected
    BY <2>3, <2>4, IdsSign
  <2>6. o.source.connector = <<"agent-eval">> => ReimportOf(o, q)
    BY <2>3, <2>5, ReceiptsDoNotCollide
  <2> QED BY <2>3, <2>5, <2>6
<1> QED BY <1>1, EvidenceInvAlways, PTL

\* A merged set keeps every case of an evaluation, passed or not, and no other case
\* comes under its receipt: what a run says of its cases is what the cases say.
THEOREM ReceiptCountsAlwaysHold == Spec => []ReceiptCountsHold
<1>1. ASSUME EvidenceInv, merged \notin {NoBundle, Rejected},
             NEW run \in Range(merged.observations), run.type = "agent_eval.run"
      PROVE  LET cases == {o \in Range(merged.observations) :
                             /\ o.type = "agent_eval.case"
                             /\ Fact(o, "evaluationReceiptSha256") = Fact(run, "receiptSha256")}
                 passed == {o \in cases : Fact(o, "status") = "passed"}
             IN  /\ Cardinality(cases) = Fact(run, "declaredCaseCount")
                 /\ Cardinality(passed) = Fact(run, "passingCaseCount")
                 /\ Cardinality(cases \ passed) = Fact(run, "nonPassingCaseCount")
  <2> DEFINE cases == {o \in Range(merged.observations) :
                         /\ o.type = "agent_eval.case"
                         /\ Fact(o, "evaluationReceiptSha256") = Fact(run, "receiptSha256")}
             passed == {o \in cases : Fact(o, "status") = "passed"}
  <2>1. Mergeable(inbox) /\ merged = Merged(inbox)
    BY <1>1 DEF EvidenceInv, MergeOf
  <2>2. feed \in Feeds /\ inbox \in Seq(Bundles(feed))
    BY <1>1 DEF EvidenceInv
  <2>3. Range(merged.observations) = AllObservations(inbox)
    BY <2>1, <2>2, MergeLosesNothing
  <2>4. PICK k \in feed : /\ k.lane = "agentEval" /\ ReportTyped(k)
                          /\ ToEvidence(k) # Rejected /\ ToEvidence(k) \in Range(inbox)
                          /\ run \in Range(ToEvidence(k).observations)
    BY <1>1, <2>3, AgentOrigin DEF AgentTypes
  <2> DEFINE c == k.context
             r == k.report
             n == Len(r.cases)
             row == [i \in 1..n |-> AgentCase(c, r, r.cases[i])]
  <2>5. /\ ReceiptFit(c, r) /\ ToEvidence(k).tenant = c.tenant /\ ToEvidence(k).scope = c.scope
        /\ Range(ToEvidence(k).observations)
             = {AgentRun(c, r)} \cup {AgentCase(c, r, r.cases[i]) : i \in 1..n}
    BY <2>4, AgentBundle
  <2>6. /\ r = [f \in DOMAIN r |-> r[f]] /\ "receiptSha256" \in DOMAIN r /\ r.receiptSha256 # None
        /\ IsList(r.cases)
        /\ \A x \in Range(r.cases) : x.id # None /\ x.status \in CaseStatuses
    BY <2>4 DEF ReportTyped
  <2>7. n \in Nat /\ DOMAIN r.cases = 1..n
    BY <2>6 DEF IsList
  <2>8. \A i \in 1..n : r.cases[i].id # None /\ r.cases[i].status \in CaseStatuses
                        /\ r.cases[i].status # None
    BY <2>6, <2>7, PipelineAssumption DEF Range
  <2>9. run = AgentRun(c, r)
    BY <1>1, <2>4, <2>5, AgentSigned
  <2>10. ASSUME NEW i \in 1..n
         PROVE  /\ Fact(row[i], "evaluationReceiptSha256") = r.receiptSha256
                /\ Fact(row[i], "caseId") = r.cases[i].id
                /\ Fact(row[i], "status") = r.cases[i].status
                /\ row[i].type = "agent_eval.case"
                /\ row[i] \in Range(merged.observations)
    <3>1. row[i] = AgentCase(c, r, r.cases[i])
      OBVIOUS
    <3>2. row[i] \in AllObservations(inbox)
      BY <2>4, <2>5, <3>1 DEF AllObservations
    <3>3. r.receiptSha256 # None /\ r.cases[i].id # None /\ r.cases[i].status # None
      BY <2>6, <2>8
    <3>4. AgentCase(c, r, r.cases[i]).type = "agent_eval.case"
      BY DEF AgentCase, Observation
    <3> HIDE DEF row
    <3> QED BY <2>3, <3>1, <3>2, <3>3, <3>4, CaseFacts
  <2>11. /\ Fact(run, "receiptSha256") = r.receiptSha256
         /\ Fact(run, "declaredCaseCount") = n
         /\ Fact(run, "passingCaseCount") = CasesWith(r, {"passed"})
         /\ Fact(run, "nonPassingCaseCount") = CasesWith(r, CaseStatuses \ {"passed"})
    <3>1. ReceiptFit(c, r) /\ r.receiptSha256 # None
      BY <2>5, <2>6
    <3> HIDE DEF c, r
    <3> QED BY <2>9, <3>1, RunFacts
  <2>12. ASSUME NEW o \in cases
         PROVE  \E i \in 1..n : o = row[i]
    <3>1. o \in AllObservations(inbox) /\ o.type = "agent_eval.case"
          /\ Fact(o, "evaluationReceiptSha256") = r.receiptSha256
      BY <2>3, <2>11
    <3>2. PICK j \in feed : /\ j.lane = "agentEval" /\ ReportTyped(j)
                            /\ ToEvidence(j) # Rejected /\ ToEvidence(j) \in Range(inbox)
                            /\ o \in Range(ToEvidence(j).observations)
      BY <1>1, <3>1, AgentOrigin DEF AgentTypes
    <3> DEFINE d == j.context
               s == j.report
    <3>3. /\ ReceiptFit(d, s) /\ ToEvidence(j).tenant = d.tenant /\ ToEvidence(j).scope = d.scope
          /\ Range(ToEvidence(j).observations)
               = {AgentRun(d, s)} \cup {AgentCase(d, s, s.cases[i]) : i \in 1..Len(s.cases)}
      BY <3>2, AgentBundle
    <3>4. /\ s = [f \in DOMAIN s |-> s[f]] /\ "receiptSha256" \in DOMAIN s /\ s.receiptSha256 # None
          /\ IsList(s.cases)
          /\ \A x \in Range(s.cases) : x.id # None /\ x.status \in CaseStatuses
      BY <3>2 DEF ReportTyped
    <3>5. PICK i \in 1..Len(s.cases) : o = AgentCase(d, s, s.cases[i])
      BY <3>1, <3>2, <3>3, AgentSigned
    <3>6. s.cases[i].id # None /\ s.cases[i].status # None
      BY <3>4, <3>5, PipelineAssumption DEF IsList, Range
    <3>7. s.receiptSha256 = r.receiptSha256
      BY <3>1, <3>3, <3>4, <3>5, <3>6, CaseFacts
    <3>8. s = r
      BY <2>5, <2>6, <3>3, <3>4, <3>7, OneReceipt
    <3>9. d.tenant = c.tenant /\ d.scope = c.scope
      BY <2>1, <2>4, <2>5, <3>2, <3>3 DEF Mergeable
    <3>10. AgentCase(d, r, r.cases[i]).external = AgentCase(c, r, r.cases[i]).external
      BY <3>9 DEF AgentCase, Observation, Boundary
    <3>11. i \in 1..n /\ row[i] = AgentCase(c, r, r.cases[i])
      BY <3>5, <3>8
    <3>12. row[i] \in AllObservations(inbox)
      BY <2>3, <2>10, <3>11
    <3>13. o.external = row[i].external
      BY <3>5, <3>8, <3>10, <3>11
    <3> QED BY <2>1, <3>1, <3>11, <3>12, <3>13 DEF Mergeable
  <2>13. DOMAIN row = 1..n /\ IsFiniteSet(1..n) /\ Cardinality(1..n) = n
    BY <2>7, FS_Interval
  <2>14. \A i, j \in 1..n : row[i] = row[j] => i = j
    <3>1. \A i, j \in 1..n : r.cases[i].id = r.cases[j].id => i = j
      BY <2>5, <2>7 DEF ReceiptFit, IsInjective
    <3> HIDE DEF row
    <3> QED BY <2>10, <3>1
  <2> DEFINE good == {i \in 1..n : r.cases[i].status \in {"passed"}}
             bad == {i \in 1..n : r.cases[i].status \in CaseStatuses \ {"passed"}}
  <2>15. good \in SUBSET (1..n) /\ bad \in SUBSET (1..n) /\ bad = (1..n) \ good
    BY <2>8
  <2>16. CasesWith(r, {"passed"}) = Cardinality(good)
         /\ CasesWith(r, CaseStatuses \ {"passed"}) = Cardinality(bad)
    BY <2>7 DEF CasesWith
  <2>17. \A i \in 1..n : i \in good <=> r.cases[i].status = "passed"
    OBVIOUS
  <2> HIDE DEF row, good, bad
  <2>18. \A i \in 1..n : row[i] \in cases
    BY <2>10, <2>11
  <2> HIDE DEF cases
  <2>19. Cardinality(cases) = n
    <3>1. 1..n \in SUBSET (1..n)
      OBVIOUS
    <3>2. Cardinality(cases) = Cardinality(1..n)
      BY <2>12, <2>13, <2>14, <2>18, <3>1, RowsCount
    <3> QED BY <2>13, <3>2
  <2>20. /\ \A o \in passed : \E i \in good : o = row[i]
         /\ \A i \in good : row[i] \in passed
    BY <2>10, <2>12, <2>15, <2>17, <2>18
  <2>21. /\ \A o \in cases \ passed : \E i \in bad : o = row[i]
         /\ \A i \in bad : row[i] \in cases \ passed
    BY <2>10, <2>12, <2>15, <2>17, <2>18
  <2> HIDE DEF passed
  <2>22. Cardinality(passed) = Cardinality(good)
    <3> DEFINE A == 1..n
    <3>1. good \in SUBSET A
      BY <2>15
    <3>2. /\ IsFiniteSet(A) /\ DOMAIN row = A
          /\ \A i, j \in A : row[i] = row[j] => i = j
      BY <2>13, <2>14
    <3> HIDE DEF A
    <3> QED BY <2>20, <3>1, <3>2, RowsCount
  <2>23. Cardinality(cases \ passed) = Cardinality(bad)
    <3> DEFINE A == 1..n
               rest == cases \ passed
    <3>1. /\ \A o \in rest : \E i \in bad : o = row[i]
          /\ \A i \in bad : row[i] \in rest
      BY <2>21
    <3>2. bad \in SUBSET A
      BY <2>15
    <3>3. /\ IsFiniteSet(A) /\ DOMAIN row = A
          /\ \A i, j \in A : row[i] = row[j] => i = j
      BY <2>13, <2>14
    <3> HIDE DEF A, rest
    <3>4. Cardinality(rest) = Cardinality(bad)
      BY <3>1, <3>2, <3>3, RowsCount
    <3> QED BY <3>4 DEF rest
  <2> QED BY <2>11, <2>16, <2>19, <2>22, <2>23 DEF cases, passed
<1>2. EvidenceInv => ReceiptCountsHold
  <2> SUFFICES ASSUME EvidenceInv, merged \notin {NoBundle, Rejected},
                      NEW run \in {o \in Range(merged.observations) : o.type = "agent_eval.run"}
               PROVE  LET cases == {o \in {p \in Range(merged.observations) :
                                              p.type = "agent_eval.case"} :
                                      Fact(o, "evaluationReceiptSha256") = Fact(run, "receiptSha256")}
                          passed == {o \in cases : Fact(o, "status") = "passed"}
                      IN  /\ Cardinality(cases) = Fact(run, "declaredCaseCount")
                          /\ Cardinality(passed) = Fact(run, "passingCaseCount")
                          /\ Cardinality(cases \ passed) = Fact(run, "nonPassingCaseCount")
    BY Zenon DEF ReceiptCountsHold
  <2> DEFINE A == {o \in Range(merged.observations) :
                     /\ o.type = "agent_eval.case"
                     /\ Fact(o, "evaluationReceiptSha256") = Fact(run, "receiptSha256")}
             B == {o \in {p \in Range(merged.observations) : p.type = "agent_eval.case"} :
                     Fact(o, "evaluationReceiptSha256") = Fact(run, "receiptSha256")}
             Passed(cases) == {o \in cases : Fact(o, "status") = "passed"}
             Agree(cases) ==
               /\ Cardinality(cases) = Fact(run, "declaredCaseCount")
               /\ Cardinality(Passed(cases)) = Fact(run, "passingCaseCount")
               /\ Cardinality(cases \ Passed(cases)) = Fact(run, "nonPassingCaseCount")
  <2>1. A = B
    OBVIOUS
  <2>2. run \in Range(merged.observations) /\ run.type = "agent_eval.run"
    OBVIOUS
  <2>3. Agree(A)
    BY <1>1, <2>2, Zenon
  <2>4. Agree(B)
    <3> HIDE DEF Agree, A, B
    <3> QED BY <2>1, <2>3
  <2> QED BY <2>4, Zenon
<1> QED BY <1>2, EvidenceInvAlways, PTL

=============================================================================
