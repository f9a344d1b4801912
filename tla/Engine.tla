------------------------------- MODULE Engine -------------------------------
(***************************************************************************)
(* The deterministic assessment: src/engine.rs with the evidence sealing   *)
(* of src/evidence.rs, the validation of src/model.rs and src/program.rs,  *)
(* and the bundle merge of src/evidence_merge.rs, as operators.            *)
(*                                                                         *)
(* A SHA-256 digest is modelled by what it digests: two digests are equal  *)
(* exactly when the contents are.  Sorting by digest is sorting by         *)
(* DigestRank, some fixed order of the observations; a sorted list that    *)
(* holds each element once is modelled by its set.  Spellings and lengths  *)
(* of identifiers and texts are left out, so are the titles, remediations  *)
(* and limitations that a report carries along.                            *)
(***************************************************************************)
EXTENDS Sorting, SequencesExt

CONSTANTS
    DigestRank,         \* observation -> its place in the order of observation ids
    ExternalRank,       \* external id -> its place in the order of external ids
    MaxObservations     \* how many observations a bundle may hold

\* A scope is the sequence of its segments, so that containment is segment-safe.
ScopeContains(root, candidate) == IsPrefix(root, candidate)

ManifestValid(m) ==
    /\ 0 <= m.starts /\ m.starts <= m.ends
    /\ m.frameworks # <<>> /\ IsInjective(m.frameworks)

ObservationValid(o) == 0 <= o.collected /\ o.collected <= o.validUntil

ExternalIds(b) == [i \in DOMAIN b.observations |-> b.observations[i].external]

BundleValid(b) ==
    /\ Len(b.observations) <= MaxObservations
    /\ \A o \in Range(b.observations) : ObservationValid(o)
    /\ IsInjective(ExternalIds(b))

\* A JSON value is its sort and what it holds: 0 and 1 for the booleans, a number,
\* the size of a string or an array that is only measured, nothing for null.
Number(v) == v.sort \in {"integer", "float"}

ConditionValid(c) ==
    CASE c.operator = "equals" -> c.expected.sort \in {"boolean", "integer", "float", "string"}
      [] c.operator \in {"atLeast", "atMost"} -> Number(c.expected)
      [] c.operator = "nonEmpty" -> c.expected = [sort |-> "boolean", is |-> 1]

ProgramValid(prog) ==
    /\ prog.frameworks # {} /\ prog.rules # {}
    /\ \A r, s \in prog.rules : r.id = s.id => r = s
    /\ \A r \in prog.rules : r.mappings \subseteq prog.frameworks /\ ConditionValid(r.condition)

RuleIds(prog) == {r.id : r \in prog.rules}

-----------------------------------------------------------------------------
\* seal_evidence: the boundary every observation must be inside of.
Sealable(m, b) ==
    /\ m.tenant = b.tenant /\ m.scope = b.scope
    /\ \A o \in Range(b.observations) : ScopeContains(m.scope, o.subject)

\* Everything assess checks before it evaluates a rule.
Accepts(m, b, prog) ==
    /\ ManifestValid(m) /\ BundleValid(b) /\ ProgramValid(prog)
    /\ Range(m.frameworks) \subseteq prog.frameworks
    /\ Sealable(m, b)

-----------------------------------------------------------------------------
\* Mutant: evidence that expired before the assessment end still counts.
CurrentThoughExpired(o, m) == o.collected <= m.ends

Current(o, m) == o.collected <= m.ends /\ o.validUntil >= m.ends

Relevant(m, rule, b) ==
    {o \in Range(b.observations) : o.type = rule.type /\ Current(o, m)}

\* What one observation says of a rule: "yes", "no", or "neither" when it does
\* not have the fact or the fact is of another type.
Verdict(rule, o) ==
    LET c == rule.condition
        actual == o.facts[c.fact]
    IN  IF c.fact \notin DOMAIN o.facts THEN "neither"
        ELSE CASE c.operator = "equals" ->
                    IF actual = c.expected THEN "yes" ELSE "no"
               [] c.operator = "atLeast" ->
                    IF ~Number(actual) THEN "neither"
                    ELSE IF actual.is >= c.expected.is THEN "yes" ELSE "no"
               [] c.operator = "atMost" ->
                    IF ~Number(actual) THEN "neither"
                    ELSE IF actual.is <= c.expected.is THEN "yes" ELSE "no"
               [] c.operator = "nonEmpty" ->
                    IF actual.sort \notin {"string", "array"} THEN "neither"
                    ELSE IF actual.is > 0 THEN "yes" ELSE "no"

\* Mutant: one contradicting observation outweighs the rest.
StatusAllMustPass(m, rule, b) ==
    LET verdicts == {Verdict(rule, o) : o \in Relevant(m, rule, b)} IN
    IF "no" \in verdicts THEN "fail"
    ELSE IF "yes" \in verdicts THEN "pass" ELSE "unknown"

Status(m, rule, b) ==
    LET verdicts == {Verdict(rule, o) : o \in Relevant(m, rule, b)} IN
    IF "yes" \in verdicts THEN "pass"
    ELSE IF "no" \in verdicts THEN "fail" ELSE "unknown"

\* The subject of a finding is that of its first observation in digest order.
Subject(m, rule, b) ==
    LET rel == Relevant(m, rule, b) IN
    IF rel = {} THEN m.scope
    ELSE (CHOOSE o \in rel : \A q \in rel : DigestRank[o] <= DigestRank[q]).subject

Finding(m, rule, b) ==
    [rule |-> rule.id, severity |-> rule.severity, status |-> Status(m, rule, b),
     subject |-> Subject(m, rule, b), evidence |-> Relevant(m, rule, b),
     mappings |-> rule.mappings \cap Range(m.frameworks)]

Findings(m, b, prog) == {Finding(m, rule, b) : rule \in prog.rules}

\* Info < Low < Medium < High < Critical.
High == 3

FindingCounts(findings) ==
    LET With(s) == {f \in findings : f.status = s} IN
    [passed |-> Cardinality(With("pass")), failed |-> Cardinality(With("fail")),
     unknown |-> Cardinality(With("unknown")),
     highOrCritical |-> Cardinality({f \in With("fail") : f.severity >= High})]

\* The digests of the bundle and of the program are of the exact inputs, in
\* the order they came in; reportId digests the whole record.
Report(m, b, prog) ==
    [manifest |-> m, evidenceDigest |-> b, programDigest |-> prog,
     findings |-> Findings(m, b, prog), summary |-> FindingCounts(Findings(m, b, prog))]

VerifyReport(r) == ManifestValid(r.manifest) /\ FindingCounts(r.findings) = r.summary

-----------------------------------------------------------------------------
\* merge_evidence_bundles.
AllObservations(bundles) == UNION {Range(b.observations) : b \in Range(bundles)}

InExternalOrder(obs) == Sorted(obs, [o \in obs |-> ExternalRank[o.external]])

\* Mutant: observations stay in the order the bundles arrived in.
MergedInArrivalOrder(bundles) ==
    LET Position(o) == Min({i \in DOMAIN bundles : o \in Range(bundles[i].observations)})
        all == AllObservations(bundles) IN
    [tenant |-> bundles[1].tenant, scope |-> bundles[1].scope,
     observations |-> Sorted(all, [o \in all |-> 100 * Position(o) + ExternalRank[o.external]])]

Merged(bundles) ==
    [tenant |-> bundles[1].tenant, scope |-> bundles[1].scope,
     observations |-> InExternalOrder(AllObservations(bundles))]

\* Mutant: two contents for one external id are not a conflict.
MergeableDespiteConflict(bundles) ==
    /\ bundles # <<>>
    /\ \A b \in Range(bundles) :
         BundleValid(b) /\ b.tenant = bundles[1].tenant /\ b.scope = bundles[1].scope
    /\ Cardinality(AllObservations(bundles)) <= MaxObservations

Mergeable(bundles) ==
    /\ bundles # <<>>
    /\ \A b \in Range(bundles) :
         BundleValid(b) /\ b.tenant = bundles[1].tenant /\ b.scope = bundles[1].scope
    /\ \A o, q \in AllObservations(bundles) : o.external = q.external => o = q
    /\ Cardinality(AllObservations(bundles)) <= MaxObservations

=============================================================================
