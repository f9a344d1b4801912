---------------------------- MODULE AuditProofs -----------------------------
(***************************************************************************)
(* What a dossier says, for any program, manifest and evidence, and after  *)
(* any edits of any length of the engagement record: the conclusion is     *)
(* earned, covers nothing up, and survives its own verification, and the   *)
(* documents packaged of it agree with each other.                         *)
(***************************************************************************)
EXTENDS Audit, FiniteSetTheorems, TLAPS

PapersTyped == "papers" \in DOMAIN eng /\ \A w \in eng.papers : PaperTyped(w)

ActorsTyped == "actors" \in DOMAIN eng /\ None \notin ActorIds(eng)

\* A dossier is the one of the present record and evidence, and it was accepted.
DossierMade ==
    HasDossier => AuditAccepts(eng, evidence) /\ dossier = Dossier(eng, evidence)

ExitMade == HasDossier => exit.code = ExitCode(dossier, exit.failOn)

\* What was packaged is the dossier.
PackagedMade ==
    /\ packaged.package # {} =>
         HasDossier /\ packaged = [outcome |-> "written", package |-> {BuildAuditPackage(dossier)}]
    /\ packaged.outcome # "refused"

Inv == PapersTyped /\ ActorsTyped /\ DossierMade /\ ExitMade /\ PackagedMade

-----------------------------------------------------------------------------
\* The operators of the dossier.

LEMMA PaperOfRule ==
    ASSUME NEW e, NEW rule, \E w \in e.papers : w.rule = rule
    PROVE  PaperOf(e, rule) \in e.papers /\ PaperOf(e, rule).rule = rule
BY DEF PaperOf

\* The only paper of a rule is the one that its control is made of.
LEMMA PaperOfItsRule ==
    ASSUME NEW e, UniqueBy(e.papers, "rule"), NEW w \in e.papers
    PROVE  PaperOf(e, w.rule) = w
<1>1. PaperOf(e, w.rule) \in e.papers /\ PaperOf(e, w.rule).rule = w.rule
  BY PaperOfRule
<1> QED BY <1>1 DEF UniqueBy

LEMMA ControlFields ==
    ASSUME NEW e, NEW b, NEW rule \in Program.rules
    PROVE  LET c == Control(e, Finding(Manifest, rule, b)) IN
           /\ c \in Dossier(e, b).controls
           /\ c.rule = rule.id /\ c.severity = rule.severity
           /\ c.status = AuditStatus(Finding(Manifest, rule, b), PaperOf(e, rule.id))
<1> DEFINE f == Finding(Manifest, rule, b)
<1>1. f.rule = rule.id /\ f.severity = rule.severity
  BY DEF Finding
<1>2. f \in Report(Manifest, b, Program).findings
  BY DEF Report, Findings
<1>3. Control(e, f) \in Dossier(e, b).controls
  BY <1>2 DEF Dossier, Controls
<1> HIDE DEF f
<1>4. /\ Control(e, f).rule = f.rule /\ Control(e, f).severity = f.severity
      /\ Control(e, f).status = AuditStatus(f, PaperOf(e, f.rule))
  BY DEF Control
<1>5. f = Finding(Manifest, rule, b)
  BY DEF f
<1> QED BY <1>1, <1>3, <1>4, <1>5

LEMMA ControlsOfRules ==
    ASSUME NEW e, NEW b, NEW c \in Dossier(e, b).controls
    PROVE  \E rule \in Program.rules : c = Control(e, Finding(Manifest, rule, b))
BY DEF Dossier, Controls, Report, Findings

LEMMA RecordOfException ==
    ASSUME NEW e, NEW w \in e.papers, NEW x \in w.exceptions
    PROVE  \E r \in ExceptionRecords(e) : r.exception = x /\ r.rule = w.rule
<1> DEFINE r == [rule |-> w.rule, paper |-> w.id, exception |-> x, response |-> ResponseTo(e, x)]
<1>1. r \in ExceptionRecords(e)
  BY DEF ExceptionRecords
<1>2. r.exception = x /\ r.rule = w.rule
  OBVIOUS
<1> QED BY <1>1, <1>2

LEMMA ExceptionOfRecord ==
    ASSUME NEW e, NEW r \in ExceptionRecords(e)
    PROVE  \E w \in e.papers : r.rule = w.rule /\ r.exception \in w.exceptions
BY DEF ExceptionRecords

\* A status is one of three.
LEMMA StatusOf ==
    ASSUME NEW m, NEW rule, NEW b
    PROVE  Status(m, rule, b) \in {"pass", "fail", "unknown"}
BY DEF Status

-----------------------------------------------------------------------------

LEMMA DossierVerifies ==
    ASSUME NEW e, NEW b, AuditAccepts(e, b)
    PROVE  VerifyDossier(Dossier(e, b))
<1>1. VerifyReport(Report(Manifest, b, Program))
  BY DEF AuditAccepts, Accepts, VerifyReport, Report
<1>2. Valid(e)
  BY DEF AuditAccepts, ValidAgainst
<1> QED BY <1>1, <1>2 DEF Dossier, VerifyDossier

LEMMA InitInv == Init => Inv
BY AuditAssumption
   DEF Init, Inv, PapersTyped, ActorsTyped, DossierMade, ExitMade, PackagedMade, HasDossier, NotPackaged

LEMMA EditKeepsInv ==
    ASSUME Inv, EditPaper \/ EditRequest \/ EditResponse \/ MovePhase \/ Collect
    PROVE  Inv'
<1>1. PapersTyped'
  <2>1. CASE EditPaper
    <3>1. PICK w \in Papers : eng' = [eng EXCEPT !.papers = Put(eng.papers, w)]
      BY <2>1 DEF EditPaper
    <3>2. "papers" \in DOMAIN eng' /\ eng'.papers = Put(eng.papers, w)
      BY <3>1 DEF Inv, PapersTyped
    <3>3. eng'.papers \subseteq eng.papers \cup {w}
      BY <3>2 DEF Put
    <3>4. PaperTyped(w)
      BY AuditAssumption
    <3> QED BY <3>2, <3>3, <3>4 DEF Inv, PapersTyped
  <2>2. CASE EditRequest \/ EditResponse \/ MovePhase \/ Collect
    <3>1. DOMAIN eng' = DOMAIN eng /\ eng'.papers = eng.papers
      BY <2>2 DEF Inv, PapersTyped, EditRequest, EditResponse, MovePhase, Collect
    <3> QED BY <3>1 DEF Inv, PapersTyped
  <2> QED BY <2>1, <2>2
<1>2. ActorsTyped'
  <2>1. DOMAIN eng' = DOMAIN eng /\ eng'.actors = eng.actors
    BY DEF Inv, ActorsTyped, EditPaper, EditRequest, EditResponse, MovePhase, Collect
  <2> QED BY <2>1 DEF Inv, ActorsTyped, ActorIds
<1>3. Discard
  BY DEF EditPaper, EditRequest, EditResponse, MovePhase, Collect
<1> QED BY <1>1, <1>2, <1>3
        DEF Inv, DossierMade, ExitMade, PackagedMade, HasDossier, Discard, NotPackaged

LEMMA RunKeepsInv ==
    ASSUME Inv, RunAudit
    PROVE  Inv'
<1>1. UNCHANGED <<eng, evidence, packaged>>
  BY DEF RunAudit
<1>2. PICK f \in FailOn :
        IF AuditAccepts(eng, evidence)
        THEN /\ dossier' = Dossier(eng, evidence)
             /\ exit' = [code |-> ExitCode(dossier', f), failOn |-> f]
        ELSE /\ dossier' = NoDossier
             /\ exit' = [code |-> "error", failOn |-> f]
  BY DEF RunAudit
<1>3. (PapersTyped /\ ActorsTyped)'
  BY <1>1 DEF Inv, PapersTyped, ActorsTyped, ActorIds
<1>4. (DossierMade /\ ExitMade)'
  BY <1>1, <1>2 DEF DossierMade, ExitMade, HasDossier
<1>5. ~HasDossier
  <2>1. ExitCode(dossier, exit.failOn) # "none"
    BY DEF ExitCode
  <2> QED BY <2>1 DEF Inv, ExitMade, RunAudit, NotRun
<1>6. PackagedMade'
  BY <1>1, <1>5 DEF Inv, PackagedMade
<1> QED BY <1>3, <1>4, <1>6 DEF Inv

LEMMA PackageKeepsInv ==
    ASSUME Inv, Package
    PROVE  Inv'
<1>1. UNCHANGED <<eng, evidence, dossier, exit>> /\ HasDossier
  BY DEF Package, HasDossier
<1>2. VerifyDossier(dossier)
  BY <1>1, DossierVerifies DEF Inv, DossierMade
<1>3. PackagedMade'
  BY <1>1, <1>2 DEF Package, PackagedMade, HasDossier
<1>4. (PapersTyped /\ ActorsTyped /\ DossierMade /\ ExitMade)'
  BY <1>1 DEF Inv, PapersTyped, ActorsTyped, ActorIds, DossierMade, ExitMade, HasDossier
<1> QED BY <1>3, <1>4 DEF Inv

LEMMA StepInv == Inv /\ [Next]_vars => Inv'
<1>1. Inv /\ UNCHANGED vars => Inv'
  BY DEF Inv, PapersTyped, ActorsTyped, ActorIds, DossierMade, ExitMade, PackagedMade, HasDossier,
         vars
<1> QED BY <1>1, EditKeepsInv, RunKeepsInv, PackageKeepsInv DEF Next

-----------------------------------------------------------------------------
\* What follows of an accepted record alone.

\* Under a conclusion other than incomplete, every rule has its workpaper.
LEMMA FinishedControl ==
    ASSUME NEW e, NEW b, AuditAccepts(e, b), \A w \in e.papers : PaperTyped(w),
           ~Unfinished(e, Dossier(e, b).controls), NEW rule \in Program.rules
    PROVE  LET w == PaperOf(e, rule.id) IN
           /\ w \in e.papers /\ w.rule = rule.id
           /\ Tested(w) /\ Approved(w) /\ w.signoff.reviewer # w.preparer
           /\ Status(Manifest, rule, b) # "unknown"
<1> DEFINE f == Finding(Manifest, rule, b)
           w == PaperOf(e, rule.id)
<1>1. AuditStatus(f, w) \notin {"evidenceGap", "notReviewed"}
  BY ControlFields DEF Unfinished
<1>2. w # None /\ Tested(w) /\ f.status # "unknown"
  BY <1>1 DEF AuditStatus
<1>3. w \in e.papers /\ w.rule = rule.id
  BY <1>2, PaperOfRule DEF PaperOf
<1>4. e.phase = "finalized" /\ Valid(e)
  BY DEF Unfinished, AuditAccepts, ValidAgainst
<1>5. Approved(w)
  BY <1>3, <1>4 DEF Valid, FinalizedValid
<1>6. w.signoff.reviewer # w.preparer
  BY <1>3, <1>4, <1>5 DEF Valid, PapersValid, PaperValid, Approved
<1>7. f.status = Status(Manifest, rule, b)
  BY DEF Finding
<1> QED BY <1>2, <1>3, <1>5, <1>6, <1>7

LEMMA ConclusionUnless ==
    ASSUME NEW e, NEW controls, NEW records
    PROVE  /\ Conclusion(e, controls, records) = "incomplete" <=> Unfinished(e, controls)
           /\ Conclusion(e, controls, records) = "unsatisfactory"
                => Material(controls, records) /\ ~Unfinished(e, controls)
           /\ Conclusion(e, controls, records) = "satisfactory"
                => /\ ~Unfinished(e, controls) /\ records = {}
                   /\ \A c \in controls : c.status # "exception"
           /\ Material(controls, records)
                => Conclusion(e, controls, records) \in {"incomplete", "unsatisfactory"}
BY DEF Conclusion

LEMMA DossierParts ==
    ASSUME NEW e, NEW b
    PROVE  /\ Dossier(e, b).engagement = e
           /\ Dossier(e, b).exceptions = ExceptionRecords(e)
           /\ Dossier(e, b).conclusion
                = Conclusion(e, Dossier(e, b).controls, ExceptionRecords(e))
           /\ Dossier(e, b).summary
                = DossierSummary(e, Dossier(e, b).controls, ExceptionRecords(e))
BY DEF Dossier

\* A satisfactory conclusion is earned, whatever the program, the manifest and the
\* history of the record.
THEOREM SatisfactoryEarned == Spec => []SatisfactoryIsEarned
<1>1. Inv => SatisfactoryIsEarned
  <2> SUFFICES ASSUME Inv, HasDossier, dossier.conclusion = "satisfactory"
               PROVE  SatisfactoryIsEarned
    BY DEF SatisfactoryIsEarned
  <2> DEFINE controls == Dossier(eng, evidence).controls
  <2>1. AuditAccepts(eng, evidence) /\ dossier = Dossier(eng, evidence)
        /\ PapersTyped /\ dossier.engagement = eng
    BY DossierParts DEF Inv, DossierMade
  <2>2. /\ ~Unfinished(eng, controls) /\ ExceptionRecords(eng) = {}
        /\ \A c \in controls : c.status # "exception"
    BY <2>1, DossierParts, ConclusionUnless
  <2>3. ASSUME NEW rule \in Program.rules
        PROVE  /\ Status(Manifest, rule, evidence) = "pass"
               /\ \E w \in eng.papers :
                    /\ w.rule = rule.id /\ w.exceptions = {}
                    /\ {w.design, w.operating} \subseteq {"effective", "notApplicable"}
                    /\ Approved(w) /\ w.signoff.reviewer # w.preparer
    <3> DEFINE f == Finding(Manifest, rule, evidence)
               w == PaperOf(eng, rule.id)
    <3>1. /\ w \in eng.papers /\ w.rule = rule.id
          /\ Tested(w) /\ Approved(w) /\ w.signoff.reviewer # w.preparer
          /\ Status(Manifest, rule, evidence) # "unknown"
      BY <2>1, <2>2, FinishedControl DEF PapersTyped
    <3>2. AuditStatus(f, w) # "exception"
      BY <2>2, ControlFields
    <3>3. w # None /\ {w.design, w.operating} \subseteq WorkpaperConclusions
      BY <2>1, <3>1 DEF PapersTyped, PaperTyped
    <3>4. f.status = Status(Manifest, rule, evidence)
      BY DEF Finding
    <3>5. f.status # "fail" /\ "ineffective" \notin {w.design, w.operating} /\ w.exceptions = {}
      BY <3>1, <3>2, <3>3, <3>4 DEF AuditStatus
    <3>6. {w.design, w.operating} \subseteq {"effective", "notApplicable"}
      BY <3>1, <3>3, <3>5 DEF Tested, WorkpaperConclusions
    <3>7. Status(Manifest, rule, evidence) = "pass"
      BY <3>1, <3>4, <3>5, StatusOf
    <3> QED BY <3>1, <3>5, <3>6, <3>7
  <2>4. eng.phase = "finalized" /\ Valid(eng)
    BY <2>1, <2>2 DEF Unfinished, AuditAccepts, ValidAgainst
  <2>5. \A q \in eng.requests : Settled(q) /\ q.evidence # {}
    BY <2>4 DEF Valid, FinalizedValid, RequestsValid
  <2>6. eng.mode = "fullAudit" => IndependentLead(eng)
    BY <2>4 DEF Valid, FinalizedValid
  <2> QED BY <2>1, <2>3, <2>4, <2>5, <2>6 DEF SatisfactoryIsEarned
<1> QED BY <1>1, InitInv, StepInv, PTL DEF Spec

\* A finalized dossier is incomplete exactly for want of deciding evidence.
THEOREM IncompleteFromEvidence == Spec => []FinalizedIncompleteOnlyFromEvidence
<1>1. Inv => FinalizedIncompleteOnlyFromEvidence
  <2> SUFFICES ASSUME Inv, HasDossier, dossier.engagement.phase = "finalized"
               PROVE  dossier.conclusion = "incomplete" <=>
                        \E rule \in Program.rules : Status(Manifest, rule, evidence) = "unknown"
    BY DEF FinalizedIncompleteOnlyFromEvidence
  <2> DEFINE controls == Dossier(eng, evidence).controls
  <2>1. AuditAccepts(eng, evidence) /\ dossier = Dossier(eng, evidence)
        /\ PapersTyped /\ dossier.engagement = eng
    BY DossierParts DEF Inv, DossierMade
  <2>2. dossier.conclusion = "incomplete" <=> Unfinished(eng, controls)
    BY <2>1, DossierParts, ConclusionUnless
  <2>3. /\ \A q \in eng.requests : Settled(q)
        /\ \A w \in eng.papers : w # None /\ Tested(w)
        /\ {w.rule : w \in eng.papers} = RuleIds(Program)
    BY <2>1 DEF AuditAccepts, ValidAgainst, Valid, FinalizedValid, PapersTyped, PaperTyped
  <2>4. ASSUME NEW rule \in Program.rules
        PROVE  LET c == Control(eng, Finding(Manifest, rule, evidence)) IN
               /\ c \in controls
               /\ c.status \in {"evidenceGap", "notReviewed"}
                    <=> Status(Manifest, rule, evidence) = "unknown"
    <3> DEFINE f == Finding(Manifest, rule, evidence)
               w == PaperOf(eng, rule.id)
    <3>1. \E v \in eng.papers : v.rule = rule.id
      BY <2>3 DEF RuleIds
    <3>2. w # None /\ Tested(w)
      BY <2>3, <3>1, PaperOfRule
    <3>3. f.status = Status(Manifest, rule, evidence)
      BY DEF Finding
    <3>4. AuditStatus(f, w) \in {"evidenceGap", "notReviewed"} <=> f.status = "unknown"
      BY <3>2 DEF AuditStatus
    <3> QED BY <3>3, <3>4, ControlFields
  <2>5. Unfinished(eng, controls) <=> \E c \in controls : c.status \in {"evidenceGap", "notReviewed"}
    BY <2>1, <2>3 DEF Unfinished
  <2> QED BY <2>2, <2>4, <2>5, ControlsOfRules
<1> QED BY <1>1, InitInv, StepInv, PTL DEF Spec

\* An untreated exception is never covered up by a conclusion.
THEOREM NothingIsCoveredUp == Spec => []ExceptionsAreNotCoveredUp
<1>1. Inv => ExceptionsAreNotCoveredUp
  <2> SUFFICES ASSUME Inv, HasDossier, NEW x \in AllExceptions(dossier.engagement)
               PROVE  /\ dossier.conclusion # "satisfactory"
                      /\ x.class = "major" /\ ~Treated(x) =>
                           dossier.conclusion \in {"unsatisfactory", "incomplete"}
    BY DEF ExceptionsAreNotCoveredUp
  <2>1. dossier = Dossier(eng, evidence) /\ dossier.engagement = eng
    BY DossierParts DEF Inv, DossierMade
  <2>2. PICK w \in eng.papers : x \in w.exceptions
    BY <2>1 DEF AllExceptions
  <2>3. PICK r \in ExceptionRecords(eng) : r.exception = x
    BY <2>2, RecordOfException
  <2>4. dossier.conclusion # "satisfactory"
    BY <2>1, <2>3, DossierParts, ConclusionUnless
  <2>5. ASSUME x.class = "major", ~Treated(x)
        PROVE  dossier.conclusion \in {"unsatisfactory", "incomplete"}
    <3>1. Material(Dossier(eng, evidence).controls, ExceptionRecords(eng))
      BY <2>3, <2>5 DEF Material
    <3> QED BY <2>1, <3>1, DossierParts, ConclusionUnless
  <2> QED BY <2>4, <2>5
<1> QED BY <1>1, InitInv, StepInv, PTL DEF Spec

\* A quiet exit hides at most an untreated major exception on a control below the
\* threshold, whatever the severities of the program.
THEOREM QuietExitsExplained == Spec => []QuietUnsatisfactory
<1>1. Inv => QuietUnsatisfactory
  <2> SUFFICES ASSUME Inv, HasDossier, exit.code = "success", exit.failOn \in Info..High,
                      dossier.conclusion = "unsatisfactory"
               PROVE  \E r \in dossier.exceptions :
                        /\ r.exception.class = "major" /\ ~Treated(r.exception)
                        /\ \A rule \in Program.rules :
                             rule.id = r.rule => rule.severity < exit.failOn
    BY DEF QuietUnsatisfactory
  <2> DEFINE controls == Dossier(eng, evidence).controls
  <2>1. AuditAccepts(eng, evidence) /\ dossier = Dossier(eng, evidence) /\ PapersTyped
        /\ dossier.engagement = eng /\ dossier.exceptions = ExceptionRecords(eng)
    BY DossierParts DEF Inv, DossierMade
  <2>2. Material(controls, ExceptionRecords(eng)) /\ ~Unfinished(eng, controls)
    BY <2>1, DossierParts, ConclusionUnless
  <2>3. \A c \in controls : c.status = "exception" => ~(c.severity >= exit.failOn)
    BY <2>1 DEF Inv, ExitMade, ExitCode, Crossed, Never, Misspelt, Info, High
  <2>4. \A c \in controls : c.severity \in Nat
    BY ControlsOfRules, ControlFields, AuditAssumption
  <2>5. ~\E c \in controls : c.status = "exception" /\ c.severity >= High
    BY <2>3, <2>4 DEF Info, High
  <2>6. PICK r \in ExceptionRecords(eng) : r.exception.class = "major" /\ ~Treated(r.exception)
    BY <2>2, <2>5 DEF Material
  <2>7. ASSUME NEW rule \in Program.rules, rule.id = r.rule
        PROVE  rule.severity < exit.failOn
    <3> DEFINE f == Finding(Manifest, rule, evidence)
    <3>1. PICK w \in eng.papers : r.rule = w.rule /\ r.exception \in w.exceptions
      BY ExceptionOfRecord
    <3>2. UniqueBy(eng.papers, "rule") /\ w # None
      BY <2>1 DEF AuditAccepts, ValidAgainst, Valid, PapersValid, PapersTyped, PaperTyped
    <3>3. PaperOf(eng, rule.id) = w
      BY <2>7, <3>1, <3>2, PaperOfItsRule
    <3>4. /\ Control(eng, f) \in controls /\ Control(eng, f).severity = rule.severity
          /\ Control(eng, f).status = AuditStatus(f, w)
      BY <3>3, ControlFields
    <3>5. Control(eng, f).status \notin {"evidenceGap", "notReviewed"}
      BY <2>2, <3>4 DEF Unfinished
    <3>6. AuditStatus(f, w) = "exception"
      BY <3>1, <3>4, <3>5 DEF AuditStatus
    <3> QED BY <2>3, <2>4, <3>4, <3>6 DEF Info, High
  <2> QED BY <2>1, <2>6, <2>7
<1> QED BY <1>1, InitInv, StepInv, PTL DEF Spec

-----------------------------------------------------------------------------
\* Coverage.

LEMMA AllBasisPoints ==
    ASSUME NEW n \in Nat, NEW d \in Nat, n <= d, d > 0
    PROVE  BasisPoints(n, d) = 10000 <=> n = d
<1> DEFINE q == (n * 10000) \div d
<1>1. q \in Int /\ q * d <= n * 10000 /\ n * 10000 < (q + 1) * d
  OBVIOUS
<1>2. BasisPoints(n, d) = q
  BY DEF BasisPoints
<1> HIDE DEF q
<1>3. ASSUME q = 10000 PROVE n = d
  BY <1>1, <1>3
<1>4. ASSUME n = d PROVE q = 10000
  BY <1>1, <1>4
<1> QED BY <1>2, <1>3, <1>4

LEMMA ControlsFinite ==
    ASSUME NEW e, NEW b
    PROVE  IsFiniteSet(Dossier(e, b).controls)
<1> DEFINE controls == Dossier(e, b).controls
           f == [rule \in Program.rules |-> Control(e, Finding(Manifest, rule, b))]
<1>1. \A rule \in Program.rules : f[rule] \in controls
  BY ControlFields
<1>2. \A c \in controls : \E rule \in Program.rules : f[rule] = c
  BY ControlsOfRules
<1> HIDE DEF controls
<1>3. f \in Surjection(Program.rules, controls)
  BY <1>1, <1>2 DEF Surjection
<1>4. IsFiniteSet(controls)
  BY <1>3, FS_Surjection, AuditAssumption
<1> QED BY <1>4 DEF controls

LEMMA CoverageInSummary ==
    ASSUME NEW e, NEW controls, NEW records
    PROVE  DossierSummary(e, controls, records).reviewCoverage
             = BasisPoints(Cardinality({c \in controls : c.reviewer # None}), Cardinality(controls))
BY DEF DossierSummary

\* A control names a reviewer exactly when its rule has an approved workpaper.
LEMMA ReviewedControl ==
    ASSUME NEW e, NEW b, Valid(e), None \notin ActorIds(e), \A w \in e.papers : PaperTyped(w),
           NEW rule \in Program.rules
    PROVE  Control(e, Finding(Manifest, rule, b)).reviewer # None
             <=> \E w \in e.papers : w.rule = rule.id /\ Approved(w)
<1> DEFINE f == Finding(Manifest, rule, b)
           w == PaperOf(e, rule.id)
<1>1. Control(e, f).reviewer = IF w # None /\ Approved(w) THEN w.signoff.reviewer ELSE None
  BY DEF Control, Finding
<1>2. CASE \E v \in e.papers : v.rule = rule.id
  <2>1. w \in e.papers /\ w.rule = rule.id /\ w # None
    BY <1>2, PaperOfRule DEF PaperTyped
  <2>2. \A v \in e.papers : v.rule = rule.id => v = w
    BY <2>1 DEF Valid, PapersValid, UniqueBy
  <2>3. Approved(w) => w.signoff.reviewer # None
    BY <2>1 DEF Approved, Valid, PapersValid, PaperValid
  <2> QED BY <1>1, <2>1, <2>2, <2>3
<1>3. CASE ~\E v \in e.papers : v.rule = rule.id
  BY <1>1, <1>3 DEF PaperOf
<1> QED BY <1>2, <1>3

\* Review coverage is full exactly when it should be, for programs of any size.
THEOREM CoverageIsHonest == Spec => []ReviewCoverageIsHonest
<1>1. Inv => ReviewCoverageIsHonest
  <2> SUFFICES ASSUME Inv, HasDossier PROVE ReviewCoverageIsHonest
    BY DEF ReviewCoverageIsHonest
  <2> DEFINE controls == Dossier(eng, evidence).controls
             reviewed == {c \in controls : c.reviewer # None}
             covered == \A id \in RuleIds(Program) :
                          \E w \in eng.papers : w.rule = id /\ Approved(w)
  <2>1. AuditAccepts(eng, evidence) /\ dossier = Dossier(eng, evidence) /\ PapersTyped
        /\ ActorsTyped /\ dossier.engagement = eng /\ Valid(eng)
    BY DossierParts DEF Inv, DossierMade, AuditAccepts, ValidAgainst
  <2>2. dossier.summary.reviewCoverage
          = BasisPoints(Cardinality(reviewed), Cardinality(controls))
    BY <2>1, DossierParts, CoverageInSummary
  <2>3. reviewed = controls <=> covered
    <3>1. \A rule \in Program.rules :
            /\ Control(eng, Finding(Manifest, rule, evidence)) \in controls
            /\ Control(eng, Finding(Manifest, rule, evidence)).reviewer # None
                 <=> \E w \in eng.papers : w.rule = rule.id /\ Approved(w)
      BY <2>1, ReviewedControl, ControlFields DEF PapersTyped, ActorsTyped
    <3> QED BY <3>1, ControlsOfRules DEF RuleIds
  <2>4. /\ IsFiniteSet(controls) /\ IsFiniteSet(reviewed)
        /\ Cardinality(controls) \in Nat /\ Cardinality(reviewed) \in Nat
        /\ Cardinality(reviewed) <= Cardinality(controls)
        /\ Cardinality(reviewed) = Cardinality(controls) <=> reviewed = controls
    <3>1. IsFiniteSet(controls)
      BY ControlsFinite
    <3>2. reviewed \in SUBSET controls
      OBVIOUS
    <3> HIDE DEF controls, reviewed
    <3> QED BY <3>1, <3>2, FS_Subset, FS_CardinalityType
  <2>5. Cardinality(controls) > 0
    <3>1. PICK rule \in Program.rules : TRUE
      BY <2>1 DEF AuditAccepts, Accepts, ProgramValid
    <3>2. controls # {}
      BY <3>1, ControlFields
    <3> HIDE DEF controls
    <3> QED BY <2>4, <3>2, FS_EmptySet
  <2>6. dossier.summary.reviewCoverage = 10000 <=> covered
    <3> HIDE DEF controls, reviewed, covered
    <3> QED BY <2>2, <2>3, <2>4, <2>5, AllBasisPoints
  <2>7. eng.phase = "finalized" => covered
    <3>1. eng.phase = "finalized" =>
            /\ {w.rule : w \in eng.papers} = RuleIds(Program)
            /\ \A w \in eng.papers : Approved(w)
      BY <2>1 DEF AuditAccepts, ValidAgainst, Valid, FinalizedValid
    <3> QED BY <3>1
  <2> QED BY <2>1, <2>6, <2>7 DEF ReviewCoverageIsHonest
<1> QED BY <1>1, InitInv, StepInv, PTL DEF Spec

-----------------------------------------------------------------------------
\* Packages.

LEMMA RemovedIsShorter ==
    ASSUME NEW S, NEW s \in Seq(S), NEW i \in DOMAIN s
    PROVE  Len(RemoveAt(s, i)) = Len(s) - 1
<1>1. i \in 1..Len(s) /\ Len(s) \in Nat
  OBVIOUS
<1>2. /\ SubSeq(s, 1, i - 1) \in Seq(S) /\ Len(SubSeq(s, 1, i - 1)) = i - 1
      /\ SubSeq(s, i + 1, Len(s)) \in Seq(S) /\ Len(SubSeq(s, i + 1, Len(s))) = Len(s) - i
  BY <1>1
<1> QED BY <1>1, <1>2 DEF RemoveAt

\* A sealed list of documents verifies; with a document and its line removed, or
\* with two contents exchanged, it does not.
LEMMA SealHolds ==
    ASSUME NEW d, NEW S, NEW docs \in Seq(S),
           \A i \in DOMAIN docs : docs[i] = Document(docs[i].name, docs[i].content),
           \A i, j \in DOMAIN docs : docs[i].name = docs[j].name => i = j
    PROVE  /\ VerifyAuditPackage(Sealed(d, docs))
           /\ \A q \in Damaged(Sealed(d, docs)) : ~VerifyAuditPackage(q)
<1> DEFINE p == Sealed(d, docs)
           inventory == [i \in DOMAIN docs |-> Metadata(docs[i])]
<1>1. p = [manifest |-> [id |-> <<d, inventory>>, dossier |-> d, documents |-> inventory],
           documents |-> docs]
  BY DEF Sealed, PackageId
<1>2. /\ inventory \in Seq({Metadata(docs[i]) : i \in DOMAIN docs})
      /\ Len(inventory) = Len(docs) /\ DOMAIN inventory = DOMAIN docs
  OBVIOUS
<1>3. \A i \in DOMAIN docs : docs[i].sha = docs[i].content
  BY DEF Document
<1>4. VerifyAuditPackage(p)
  <2>1. IsInjective([i \in DOMAIN docs |-> docs[i].name])
    BY DEF IsInjective
  <2>2. p.documents = docs /\ p.manifest.documents = inventory /\ p.manifest.dossier = d
        /\ p.manifest.id = <<d, inventory>>
    BY <1>1
  <2> HIDE DEF p
  <2>3. \A i \in DOMAIN docs : inventory[i] = Metadata(docs[i])
    OBVIOUS
  <2> HIDE DEF inventory
  <2> QED BY <1>2, <1>3, <2>1, <2>2, <2>3 DEF VerifyAuditPackage, PackageId
<1>5. ASSUME NEW i \in DOMAIN docs
      PROVE  ~VerifyAuditPackage([p EXCEPT !.documents = RemoveAt(@, i),
                                           !.manifest.documents = RemoveAt(@, i)])
  <2> DEFINE q == [p EXCEPT !.documents = RemoveAt(@, i), !.manifest.documents = RemoveAt(@, i)]
  <2>1. /\ q.manifest.id = <<d, inventory>> /\ q.manifest.dossier = d
        /\ q.manifest.documents = RemoveAt(inventory, i)
    BY <1>1
  <2>2. RemoveAt(inventory, i) # inventory
    BY <1>2, RemovedIsShorter
  <2> HIDE DEF q
  <2>3. ~VerifyAuditPackage(q)
    BY <2>1, <2>2 DEF VerifyAuditPackage, PackageId
  <2> QED BY <2>3 DEF q
<1>6. ASSUME NEW i \in DOMAIN docs, NEW j \in DOMAIN docs, docs[i].content # docs[j].content
      PROVE  ~VerifyAuditPackage(
                [p EXCEPT !.documents = [docs EXCEPT ![i].content = docs[j].content,
                                                     ![j].content = docs[i].content]])
  <2> DEFINE new == [docs EXCEPT ![i].content = docs[j].content, ![j].content = docs[i].content]
             q == [p EXCEPT !.documents = new]
  <2>1. new[i].sha = docs[i].content /\ new[i].content = docs[j].content /\ i \in DOMAIN new
    BY <1>3, <1>6 DEF Document
  <2>2. q.documents = new
    BY <1>1
  <2> HIDE DEF q, new
  <2>3. ~VerifyAuditPackage(q)
    BY <1>6, <2>1, <2>2 DEF VerifyAuditPackage
  <2> QED BY <2>3 DEF q, new
<1>7. p.documents = docs
  BY <1>1
<1>8. p = Sealed(d, docs)
  OBVIOUS
<1> HIDE DEF p
<1>9. \A q \in Damaged(p) : ~VerifyAuditPackage(q)
  <2> TAKE q \in Damaged(p)
  <2>1. \/ \E i \in DOMAIN docs : q = [p EXCEPT !.documents = RemoveAt(@, i),
                                              !.manifest.documents = RemoveAt(@, i)]
        \/ \E ij \in {k \in (DOMAIN docs) \X (DOMAIN docs) :
                        docs[k[1]].content # docs[k[2]].content} :
             q = [p EXCEPT !.documents =
                    [docs EXCEPT ![ij[1]].content = docs[ij[2]].content,
                                 ![ij[2]].content = docs[ij[1]].content]]
    BY <1>7 DEF Damaged
  <2> QED BY <1>5, <1>6, <2>1
<1> QED BY <1>4, <1>8, <1>9

\* package refuses no dossier that audit wrote, and what it writes is verifiable and
\* not when damaged, for records and programs of any size.
THEOREM PackagesAreSound == Spec => []PackagesWhatAuditWrote
<1>1. ASSUME NEW d
      PROVE  /\ VerifyAuditPackage(BuildAuditPackage(d))
             /\ \A q \in Damaged(BuildAuditPackage(d)) : ~VerifyAuditPackage(q)
  <2> DEFINE texts == <<ReportText(d), ControlsText(d), EvidenceText(d), RequestsText(d),
                        SamplingText(d), WorkpapersText(d), ExceptionsText(d), TrailText(d),
                        CrosswalkText(d), {d}>>
             names == <<"report", "controls", "evidence", "requests", "sampling", "workpapers",
                        "exceptions", "trail", "crosswalk", "dossier">>
             docs == <<Document("report", texts[1]), Document("controls", texts[2]),
                       Document("evidence", texts[3]), Document("requests", texts[4]),
                       Document("sampling", texts[5]), Document("workpapers", texts[6]),
                       Document("exceptions", texts[7]), Document("trail", texts[8]),
                       Document("crosswalk", texts[9]), Document("dossier", texts[10])>>
             S == {Document(names[i], texts[i]) : i \in 1..10}
  <2>1. BuildAuditPackage(d) = Sealed(d, docs)
    BY DEF BuildAuditPackage
  <2> HIDE DEF texts
  <2>2. DOMAIN docs = 1..10 /\ \A i \in 1..10 : docs[i] = Document(names[i], texts[i])
    OBVIOUS
  <2>3. docs \in Seq(S)
    OBVIOUS
  <2>4. \A i, j \in 1..10 : names[i] = names[j] => i = j
    OBVIOUS
  <2> HIDE DEF docs, names, S
  <2>5. \A i \in 1..10 : docs[i].name = names[i] /\ docs[i].content = texts[i]
    BY <2>2 DEF Document
  <2>6. /\ \A i \in DOMAIN docs : docs[i] = Document(docs[i].name, docs[i].content)
        /\ \A i, j \in DOMAIN docs : docs[i].name = docs[j].name => i = j
    BY <2>2, <2>4, <2>5
  <2> QED BY <2>1, <2>3, <2>6, SealHolds
<1>2. Inv => PackagesWhatAuditWrote
  BY <1>1 DEF Inv, PackagedMade, PackagesWhatAuditWrote
<1> QED BY <1>2, InitInv, StepInv, PTL DEF Spec

-----------------------------------------------------------------------------
\* Documents.  A register's rows are images of a set's elements under a projection
\* that keeps them apart, so that what is counted in a register is counted in the set.

LEMMA RowsCount ==
    ASSUME NEW A, IsFiniteSet(A), NEW row, DOMAIN row = A,
           \A x, y \in A : row[x] = row[y] => x = y
    PROVE  /\ IsFiniteSet({row[x] : x \in A})
           /\ Cardinality({row[x] : x \in A}) = Cardinality(A)
<1> DEFINE B == {row[x] : x \in A}
           f == [x \in A |-> row[x]]
<1>1. f \in Bijection(A, B)
  BY DEF Bijection, Injection, Surjection, IsInjective
<1>2. ExistsBijection(A, B)
  BY <1>1 DEF ExistsBijection
<1> QED BY <1>2, FS_Bijection

\* Images of a finite set are finite, whatever the projection.
LEMMA ImageFinite ==
    ASSUME NEW A, IsFiniteSet(A), NEW row, DOMAIN row = A
    PROVE  IsFiniteSet({row[x] : x \in A})
<1> DEFINE B == {row[x] : x \in A}
           f == [x \in A |-> row[x]]
<1>1. f \in Surjection(A, B)
  BY DEF Surjection
<1> QED BY <1>1, FS_Surjection

\* The part of an image that answers to a part of the set is as large.
LEMMA PartsCount ==
    ASSUME NEW A, IsFiniteSet(A), NEW row, DOMAIN row = A,
           \A x, y \in A : row[x] = row[y] => x = y,
           NEW X \in SUBSET A, NEW Y,
           \A y \in Y : \E x \in A : y = row[x],
           \A x \in A : row[x] \in Y <=> x \in X
    PROVE  Cardinality(Y) = Cardinality(X)
<1> DEFINE part == [x \in X |-> row[x]]
<1>1. IsFiniteSet(X)
  BY FS_Subset
<1>2. DOMAIN part = X /\ \A x, y \in X : part[x] = part[y] => x = y
  OBVIOUS
<1>3. Y = {part[x] : x \in X}
  <2>1. \A y \in Y : \E x \in X : y = part[x]
    OBVIOUS
  <2>2. \A x \in X : part[x] \in Y
    OBVIOUS
  <2> QED BY <2>1, <2>2
<1> HIDE DEF part
<1> QED BY <1>1, <1>2, <1>3, RowsCount

\* What is in the record and in the bundle is finite.
AllFinite ==
    /\ "requests" \in DOMAIN eng /\ IsFiniteSet(eng.requests) /\ IsFiniteSet(eng.papers)
    /\ "observations" \in DOMAIN evidence /\ IsFiniteSet(Range(evidence.observations))

LEMMA PutFinite ==
    ASSUME NEW S, IsFiniteSet(S), NEW x
    PROVE  IsFiniteSet(Put(S, x))
<1> DEFINE rest == {y \in S : y.id # x.id}
<1>1. IsFiniteSet(rest)
  BY FS_Subset
<1> HIDE DEF rest
<1>2. IsFiniteSet(rest \cup {x})
  BY <1>1, FS_AddElement
<1> QED BY <1>2 DEF Put, rest

LEMMA OrderedFinite ==
    ASSUME NEW S, IsFiniteSet(S)
    PROVE  IsFiniteSet(Range(InExternalOrder(S)))
<1> DEFINE n == Cardinality(S)
           s == InExternalOrder(S)
<1>1. n \in Nat /\ IsFiniteSet(1..n)
  BY FS_CardinalityType, FS_Interval
<1>2. DOMAIN s = 1..n
  BY DEF InExternalOrder, Sorted
<1>3. Range(s) = {s[x] : x \in 1..n}
  BY <1>2 DEF Range
<1> HIDE DEF s, n
<1> QED BY <1>1, <1>2, <1>3, ImageFinite DEF s

LEMMA AllFiniteInit == Init => AllFinite
<1> SUFFICES ASSUME Init PROVE AllFinite
  OBVIOUS
<1>1. eng \in Drafts
  BY DEF Init
<1>2. "requests" \in DOMAIN eng /\ IsFiniteSet(eng.requests) /\ IsFiniteSet(eng.papers)
  BY <1>1, AuditAssumption
<1>3. "observations" \in DOMAIN evidence /\ evidence.observations = <<>>
  BY DEF Init
<1>4. Range(<<>>) = {}
  BY DEF Range
<1> QED BY <1>2, <1>3, <1>4, FS_EmptySet DEF AllFinite

LEMMA AllFiniteStep == Inv /\ AllFinite /\ [Next]_vars => AllFinite'
<1> SUFFICES ASSUME Inv, AllFinite, [Next]_vars PROVE AllFinite'
  OBVIOUS
<1>1. CASE EditPaper
  <2>1. PICK w \in Papers : eng' = [eng EXCEPT !.papers = Put(eng.papers, w)]
    BY <1>1 DEF EditPaper
  <2>2. DOMAIN eng' = DOMAIN eng /\ eng'.papers = Put(eng.papers, w)
        /\ eng'.requests = eng.requests /\ evidence' = evidence
    BY <1>1, <2>1 DEF EditPaper, Inv, PapersTyped
  <2> QED BY <2>2, PutFinite DEF AllFinite
<1>2. CASE EditRequest
  <2>1. PICK q \in Requests : eng' = [eng EXCEPT !.requests = Put(eng.requests, q)]
    BY <1>2 DEF EditRequest
  <2>2. DOMAIN eng' = DOMAIN eng /\ eng'.requests = Put(eng.requests, q)
        /\ eng'.papers = eng.papers /\ evidence' = evidence
    BY <1>2, <2>1 DEF EditRequest, AllFinite
  <2> QED BY <2>2, PutFinite DEF AllFinite
<1>3. CASE EditResponse \/ MovePhase
  <2>1. /\ evidence' = evidence
        /\ \/ \E r \in Responses : eng' = [eng EXCEPT !.responses = Put(eng.responses, r)]
           \/ \E ph \in {"fieldwork", "finalized"} : eng' = [eng EXCEPT !.phase = ph]
    BY <1>3 DEF EditResponse, MovePhase
  <2>2. "requests" \in DOMAIN eng /\ "papers" \in DOMAIN eng
    BY DEF Inv, PapersTyped, AllFinite
  <2>3. DOMAIN eng' = DOMAIN eng /\ eng'.requests = eng.requests /\ eng'.papers = eng.papers
    BY <2>1, <2>2
  <2> QED BY <2>1, <2>3 DEF AllFinite
<1>4. CASE Collect
  <2>1. PICK o \in Observations :
          evidence' = [evidence EXCEPT !.observations =
                         InExternalOrder(Range(evidence.observations) \cup {o})]
    BY <1>4 DEF Collect
  <2>2. DOMAIN evidence' = DOMAIN evidence /\ eng' = eng
        /\ evidence'.observations = InExternalOrder(Range(evidence.observations) \cup {o})
    BY <1>4, <2>1 DEF Collect, AllFinite
  <2>3. IsFiniteSet(Range(evidence.observations) \cup {o})
    BY FS_AddElement DEF AllFinite
  <2> QED BY <2>2, <2>3, OrderedFinite DEF AllFinite
<1>5. CASE RunAudit \/ Package \/ UNCHANGED vars
  BY <1>5 DEF RunAudit, Package, vars, AllFinite
<1> QED BY <1>1, <1>2, <1>3, <1>4, <1>5 DEF Next

\* What a summary counts.
WithStatus(controls, s) == {c \in controls : c.status = s}
WithEvidence(controls) == {c \in controls : c.evidence # {}}
WithReviewer(controls) == {c \in controls : c.reviewer # None}
StillOpen(requests) == {q \in requests : ~Settled(q)}
Untreated(records) == {r \in records : ~Treated(r.exception)}
WithResponse(records) == {r \in records : r.response # None}

\* Two summaries agree when what they count does.
LEMMA SummariesAgree ==
    ASSUME NEW e, NEW cs, NEW rs, NEW f, NEW ds, NEW ts,
           Cardinality(cs) = Cardinality(ds),
           \A s : Cardinality(WithStatus(cs, s)) = Cardinality(WithStatus(ds, s)),
           Cardinality(WithEvidence(cs)) = Cardinality(WithEvidence(ds)),
           Cardinality(WithReviewer(cs)) = Cardinality(WithReviewer(ds)),
           Cardinality(StillOpen(e.requests)) = Cardinality(StillOpen(f.requests)),
           Cardinality(Untreated(rs)) = Cardinality(Untreated(ts)),
           Cardinality(WithResponse(rs)) = Cardinality(WithResponse(ts))
    PROVE  /\ DOMAIN DossierSummary(e, cs, rs) = DOMAIN DossierSummary(f, ds, ts)
           /\ \A k \in DOMAIN DossierSummary(e, cs, rs) \ {"exceptions"} :
                DossierSummary(e, cs, rs)[k] = DossierSummary(f, ds, ts)[k]
<1> DEFINE Fields(g, as, us) ==
             [total |-> Cardinality(as),
              satisfactory |-> Cardinality(WithStatus(as, "satisfactory")),
              exception |-> Cardinality(WithStatus(as, "exception")),
              evidenceGap |-> Cardinality(WithStatus(as, "evidenceGap")),
              notReviewed |-> Cardinality(WithStatus(as, "notReviewed")),
              evidenceCoverage |->
                BasisPoints(Cardinality(WithEvidence(as)), Cardinality(as)),
              reviewCoverage |->
                BasisPoints(Cardinality(WithReviewer(as)), Cardinality(as)),
              openRequests |-> Cardinality(StillOpen(g.requests)),
              exceptions |-> Cardinality(us),
              openExceptions |-> Cardinality(Untreated(us)),
              responses |-> Cardinality(WithResponse(us))]
<1>1. \A g, as, us : DossierSummary(g, as, us) = Fields(g, as, us)
  BY DEF DossierSummary, WithStatus, WithEvidence, WithReviewer, StillOpen, Untreated, WithResponse
<1>2. DossierSummary(e, cs, rs) = Fields(e, cs, rs) /\ DossierSummary(f, ds, ts) = Fields(f, ds, ts)
  BY <1>1
<1> QED BY <1>2

\* The rows of a document of a package.
RowsOf(p, name) == UNION {t.content : t \in {u \in Range(p.documents) : u.name = name}}

LEMMA RowsOfPackage ==
    ASSUME NEW d
    PROVE  LET p == BuildAuditPackage(d) IN
           /\ RowsOf(p, "report") = ReportText(d)
           /\ RowsOf(p, "controls") = ControlsText(d)
           /\ RowsOf(p, "evidence") = EvidenceText(d)
           /\ RowsOf(p, "requests") = RequestsText(d)
           /\ RowsOf(p, "sampling") = SamplingText(d)
           /\ RowsOf(p, "workpapers") = WorkpapersText(d)
           /\ RowsOf(p, "exceptions") = ExceptionsText(d)
<1> DEFINE p == BuildAuditPackage(d)
           texts == <<ReportText(d), ControlsText(d), EvidenceText(d), RequestsText(d),
                      SamplingText(d), WorkpapersText(d), ExceptionsText(d), TrailText(d),
                      CrosswalkText(d), {d}>>
           names == <<"report", "controls", "evidence", "requests", "sampling", "workpapers",
                      "exceptions", "trail", "crosswalk", "dossier">>
           docs == <<Document("report", texts[1]), Document("controls", texts[2]),
                     Document("evidence", texts[3]), Document("requests", texts[4]),
                     Document("sampling", texts[5]), Document("workpapers", texts[6]),
                     Document("exceptions", texts[7]), Document("trail", texts[8]),
                     Document("crosswalk", texts[9]), Document("dossier", texts[10])>>
<1>1. p.documents = docs
  BY DEF BuildAuditPackage, Sealed
<1>7. texts[1] = ReportText(d) /\ texts[2] = ControlsText(d) /\ texts[3] = EvidenceText(d)
      /\ texts[4] = RequestsText(d) /\ texts[5] = SamplingText(d) /\ texts[6] = WorkpapersText(d)
      /\ texts[7] = ExceptionsText(d)
  OBVIOUS
<1> HIDE DEF p, texts
<1>2. DOMAIN docs = 1..10 /\ \A i \in 1..10 : docs[i] = Document(names[i], texts[i])
  OBVIOUS
<1>3. \A i, j \in 1..10 : names[i] = names[j] => i = j
  OBVIOUS
<1>8. names[1] = "report" /\ names[2] = "controls" /\ names[3] = "evidence"
      /\ names[4] = "requests" /\ names[5] = "sampling" /\ names[6] = "workpapers"
      /\ names[7] = "exceptions"
  OBVIOUS
<1> HIDE DEF docs, names
<1>4. \A i \in 1..10 : docs[i].name = names[i] /\ docs[i].content = texts[i]
  BY <1>2 DEF Document
<1>5. Range(docs) = {docs[i] : i \in 1..10}
  BY <1>2 DEF Range
<1>6. ASSUME NEW i \in 1..10 PROVE RowsOf(p, names[i]) = texts[i]
  <2>1. {u \in Range(p.documents) : u.name = names[i]} = {docs[i]}
    BY <1>1, <1>3, <1>4, <1>5
  <2>2. {t.content : t \in {docs[i]}} = {texts[i]}
    BY <1>4
  <2> QED BY <2>1, <2>2 DEF RowsOf
<1> QED BY <1>6, <1>7, <1>8 DEF p

\* One control for each rule, with the evidence of that rule.
LEMMA ControlOfRule ==
    ASSUME NEW e, NEW b, ProgramValid(Program)
    PROVE  LET controls == Dossier(e, b).controls IN
           /\ \A c, k \in controls : c.rule = k.rule => c = k
           /\ \A c \in controls : \E rule \in Program.rules :
                c.rule = rule.id /\ c.evidence = Relevant(Manifest, rule, b)
<1>1. \A r, s \in Program.rules : r.id = s.id => r = s
  BY DEF ProgramValid
<1>2. ASSUME NEW rule
      PROVE  LET c == Control(e, Finding(Manifest, rule, b)) IN
             c.rule = rule.id /\ c.evidence = Relevant(Manifest, rule, b)
  BY DEF Control, Finding
<1>3. \A c \in Dossier(e, b).controls : \E rule \in Program.rules :
        c = Control(e, Finding(Manifest, rule, b))
  BY ControlsOfRules
<1> QED BY <1>1, <1>2, <1>3

\* What can be counted of the controls can be counted in their register.
CountedControl(c) ==
    [rule |-> c.rule, severity |-> c.severity, automated |-> c.automated, status |-> c.status,
     paper |-> c.paper, reviewer |-> c.reviewer, sample |-> c.sample,
     evidence |-> 1..Cardinality(c.evidence), exceptions |-> Cardinality(c.exceptions)]

LEMMA ControlsCounted ==
    ASSUME NEW e, NEW b, ProgramValid(Program), IsFiniteSet(Range(b.observations))
    PROVE  LET controls == Dossier(e, b).controls
               register == {[c EXCEPT !.evidence = 1..c.evidence] :
                              c \in ControlsText(Dossier(e, b))}
           IN  /\ Cardinality(register) = Cardinality(controls)
               /\ \A s : Cardinality(WithStatus(register, s)) = Cardinality(WithStatus(controls, s))
               /\ Cardinality(WithEvidence(register)) = Cardinality(WithEvidence(controls))
               /\ Cardinality(WithReviewer(register)) = Cardinality(WithReviewer(controls))
               /\ \A k \in register : \E c \in controls :
                    k.status = c.status /\ k.severity = c.severity
               /\ \A c \in controls : \E k \in register :
                    k.status = c.status /\ k.severity = c.severity
<1> DEFINE controls == Dossier(e, b).controls
           register == {[c EXCEPT !.evidence = 1..c.evidence] : c \in ControlsText(Dossier(e, b))}
           row == [c \in controls |-> CountedControl(c)]
<1>1. register = {row[c] : c \in controls}
  <2> DEFINE Shown(c) ==
               [rule |-> c.rule, severity |-> c.severity, automated |-> c.automated,
                status |-> c.status, paper |-> c.paper, reviewer |-> c.reviewer,
                sample |-> c.sample, evidence |-> Cardinality(c.evidence),
                exceptions |-> Cardinality(c.exceptions)]
  <2>1. ControlsText(Dossier(e, b)) = {Shown(c) : c \in controls}
    BY DEF ControlsText
  <2>2. \A c : [Shown(c) EXCEPT !.evidence = 1..Shown(c).evidence] = CountedControl(c)
    BY DEF CountedControl
  <2> HIDE DEF Shown, controls
  <2>3. register = {[Shown(c) EXCEPT !.evidence = 1..Shown(c).evidence] : c \in controls}
    BY <2>1
  <2> QED BY <2>2, <2>3
<1>2. IsFiniteSet(controls)
  BY ControlsFinite
<1>3. \A c, k \in controls : row[c] = row[k] => c = k
  BY ControlOfRule DEF CountedControl
<1>4. \A c \in controls :
        /\ row[c].status = c.status /\ row[c].reviewer = c.reviewer
        /\ row[c].severity = c.severity /\ row[c].evidence = 1..Cardinality(c.evidence)
  BY DEF CountedControl
<1>5. ASSUME NEW c \in controls
      PROVE  row[c].evidence # {} <=> c.evidence # {}
  <2>1. c.evidence \in SUBSET Range(b.observations)
    BY ControlOfRule DEF Relevant
  <2>2. IsFiniteSet(c.evidence)
    BY <2>1, FS_Subset
  <2>3. /\ Cardinality(c.evidence) \in Nat
        /\ Cardinality(c.evidence) = 0 <=> c.evidence = {}
    BY <2>2, FS_CardinalityType, FS_EmptySet
  <2>4. 1..Cardinality(c.evidence) # {} <=> Cardinality(c.evidence) # 0
    BY <2>3
  <2> QED BY <1>4, <2>3, <2>4
<1>6. DOMAIN row = controls
  OBVIOUS
<1> HIDE DEF controls, register, row
<1>7. Cardinality(register) = Cardinality(controls)
  BY <1>1, <1>2, <1>3, <1>6, RowsCount
<1>8. ASSUME NEW s
      PROVE  Cardinality(WithStatus(register, s)) = Cardinality(WithStatus(controls, s))
  <2> DEFINE X == WithStatus(controls, s)
             Y == WithStatus(register, s)
  <2>1. /\ X \in SUBSET controls /\ \A y \in Y : \E c \in controls : y = row[c]
        /\ \A c \in controls : row[c] \in Y <=> c \in X
    BY <1>1, <1>4 DEF WithStatus
  <2> HIDE DEF X, Y
  <2>2. Cardinality(Y) = Cardinality(X)
    BY <1>2, <1>3, <1>6, <2>1, PartsCount
  <2> QED BY <2>2 DEF X, Y
<1>9. Cardinality(WithEvidence(register)) = Cardinality(WithEvidence(controls))
  <2> DEFINE X == WithEvidence(controls)
             Y == WithEvidence(register)
  <2>1. /\ X \in SUBSET controls /\ \A y \in Y : \E c \in controls : y = row[c]
        /\ \A c \in controls : row[c] \in Y <=> c \in X
    BY <1>1, <1>5 DEF WithEvidence
  <2> HIDE DEF X, Y
  <2>2. Cardinality(Y) = Cardinality(X)
    BY <1>2, <1>3, <1>6, <2>1, PartsCount
  <2> QED BY <2>2 DEF X, Y
<1>10. Cardinality(WithReviewer(register)) = Cardinality(WithReviewer(controls))
  <2> DEFINE X == WithReviewer(controls)
             Y == WithReviewer(register)
  <2>1. /\ X \in SUBSET controls /\ \A y \in Y : \E c \in controls : y = row[c]
        /\ \A c \in controls : row[c] \in Y <=> c \in X
    BY <1>1, <1>4 DEF WithReviewer
  <2> HIDE DEF X, Y
  <2>2. Cardinality(Y) = Cardinality(X)
    BY <1>2, <1>3, <1>6, <2>1, PartsCount
  <2> QED BY <2>2 DEF X, Y
<1>11. /\ \A k \in register : \E c \in controls : k.status = c.status /\ k.severity = c.severity
       /\ \A c \in controls : \E k \in register : k.status = c.status /\ k.severity = c.severity
  BY <1>1, <1>4
<1> QED BY <1>7, <1>8, <1>9, <1>10, <1>11 DEF controls, register

\* The requests in their register are as many, and the same are open.
LEMMA RequestsCounted ==
    ASSUME NEW d, IsFiniteSet(d.engagement.requests), UniqueBy(d.engagement.requests, "id")
    PROVE  LET requests == d.engagement.requests IN
           /\ Cardinality(StillOpen(RequestsText(d))) = Cardinality(StillOpen(requests))
           /\ (\E q \in RequestsText(d) : ~Settled(q)) <=> (\E q \in requests : ~Settled(q))
<1> DEFINE requests == d.engagement.requests
           row == [q \in requests |->
                     [id |-> q.id, owner |-> q.owner, status |-> q.status, rules |-> q.rules,
                      evidence |-> Cardinality(q.evidence)]]
           X == StillOpen(requests)
           Y == StillOpen(RequestsText(d))
<1>1. RequestsText(d) = {row[q] : q \in requests}
  BY DEF RequestsText
<1>2. \A q \in requests : Settled(row[q]) <=> Settled(q)
  BY DEF Settled
<1>3. \A q, r \in requests : row[q] = row[r] => q = r
  BY DEF UniqueBy
<1>4. DOMAIN row = requests
  OBVIOUS
<1> HIDE DEF requests, row
<1>5. /\ X \in SUBSET requests /\ \A y \in Y : \E q \in requests : y = row[q]
      /\ \A q \in requests : row[q] \in Y <=> q \in X
  BY <1>1, <1>2 DEF StillOpen
<1> HIDE DEF X, Y
<1>6. Cardinality(Y) = Cardinality(X)
  BY <1>3, <1>4, <1>5, PartsCount DEF requests
<1> QED BY <1>1, <1>2, <1>6 DEF X, Y, requests

\* No two records of one exception: an exception is in one paper.
LEMMA RecordsDistinct ==
    ASSUME NEW e, PapersValid(e),
           NEW r \in ExceptionRecords(e), NEW s \in ExceptionRecords(e),
           r.exception.id = s.exception.id
    PROVE  r = s
<1>1. PICK w \in e.papers, v \in e.papers :
        /\ \E x \in w.exceptions :
             r = [rule |-> w.rule, paper |-> w.id, exception |-> x, response |-> ResponseTo(e, x)]
        /\ \E x \in v.exceptions :
             s = [rule |-> v.rule, paper |-> v.id, exception |-> x, response |-> ResponseTo(e, x)]
  BY DEF ExceptionRecords
<1>2. r.exception = s.exception
  BY <1>1 DEF PapersValid, UniqueBy, AllExceptions
<1>3. w = v
  BY <1>1, <1>2 DEF PapersValid
<1> QED BY <1>1, <1>2, <1>3

LEMMA RecordsFinite ==
    ASSUME NEW e, PapersValid(e), IsFiniteSet(e.papers),
           \A w \in e.papers : IsFiniteSet(w.exceptions)
    PROVE  IsFiniteSet(ExceptionRecords(e))
<1> DEFINE lists == {w.exceptions : w \in e.papers}
           all == AllExceptions(e)
           f == [x \in all |-> CHOOSE r \in ExceptionRecords(e) : r.exception = x]
<1>1. IsFiniteSet(lists)
  <2> DEFINE row == [w \in e.papers |-> w.exceptions]
  <2>1. lists = {row[w] : w \in e.papers} /\ DOMAIN row = e.papers
    OBVIOUS
  <2> HIDE DEF lists, row
  <2> QED BY <2>1, ImageFinite
<1>2. IsFiniteSet(all)
  <2>1. \A l \in lists : IsFiniteSet(l)
    OBVIOUS
  <2>2. all = UNION lists
    BY DEF AllExceptions
  <2> HIDE DEF lists, all
  <2> QED BY <1>1, <2>1, <2>2, FS_UNION
<1>3. \A x \in all : f[x] \in ExceptionRecords(e) /\ f[x].exception = x
  <2> TAKE x \in all
  <2>1. \E r \in ExceptionRecords(e) : r.exception = x
    BY RecordOfException DEF AllExceptions
  <2> QED BY <2>1
<1>4. \A r \in ExceptionRecords(e) : r.exception \in all
  BY ExceptionOfRecord DEF AllExceptions
<1>5. \A r \in ExceptionRecords(e) : f[r.exception] = r
  BY <1>3, <1>4, RecordsDistinct
<1> HIDE DEF all
<1>6. f = [x \in all |-> f[x]]
  OBVIOUS
<1> HIDE DEF f
<1>7. f \in Surjection(all, ExceptionRecords(e))
  BY <1>3, <1>4, <1>5, <1>6 DEF Surjection
<1> QED BY <1>2, <1>7, FS_Surjection

\* What is shown of the record of an exception.
ShownRecord(r) ==
    [rule |-> r.rule, paper |-> r.paper, response |-> r.response,
     exception |-> [id |-> r.exception.id, class |-> r.exception.class,
                    disposition |-> r.exception.disposition]]

LEMMA ExceptionsCounted ==
    ASSUME NEW d, NEW e, d.exceptions = ExceptionRecords(e), PapersValid(e), IsFiniteSet(e.papers),
           \A w \in e.papers : IsFiniteSet(w.exceptions)
    PROVE  LET records == ExceptionRecords(e)
               register == ExceptionsText(d)
           IN  /\ Cardinality(Untreated(register)) = Cardinality(Untreated(records))
               /\ Cardinality(WithResponse(register)) = Cardinality(WithResponse(records))
               /\ register = {} <=> records = {}
               /\ (\E r \in register : r.exception.class = "major" /\ ~Treated(r.exception))
                  <=> (\E r \in records : r.exception.class = "major" /\ ~Treated(r.exception))
<1> DEFINE records == ExceptionRecords(e)
           register == ExceptionsText(d)
           row == [r \in records |-> ShownRecord(r)]
<1>1. register = {row[r] : r \in records} /\ DOMAIN row = records
  BY DEF ExceptionsText, ShownRecord
<1>2. \A r \in records :
        /\ row[r].response = r.response /\ row[r].exception.class = r.exception.class
        /\ Treated(row[r].exception) <=> Treated(r.exception)
  BY DEF ShownRecord, Treated
<1>3. \A r, s \in records : row[r] = row[s] => r = s
  BY RecordsDistinct DEF ShownRecord
<1>4. IsFiniteSet(records)
  BY RecordsFinite
<1> HIDE DEF records, register, row
<1>5. Cardinality(Untreated(register)) = Cardinality(Untreated(records))
  <2> DEFINE X == Untreated(records)
             Y == Untreated(register)
  <2>1. /\ X \in SUBSET records /\ \A y \in Y : \E r \in records : y = row[r]
        /\ \A r \in records : row[r] \in Y <=> r \in X
    BY <1>1, <1>2 DEF Untreated
  <2> HIDE DEF X, Y
  <2>2. Cardinality(Y) = Cardinality(X)
    BY <1>1, <1>3, <1>4, <2>1, PartsCount
  <2> QED BY <2>2 DEF X, Y
<1>6. Cardinality(WithResponse(register)) = Cardinality(WithResponse(records))
  <2> DEFINE X == WithResponse(records)
             Y == WithResponse(register)
  <2>1. /\ X \in SUBSET records /\ \A y \in Y : \E r \in records : y = row[r]
        /\ \A r \in records : row[r] \in Y <=> r \in X
    BY <1>1, <1>2 DEF WithResponse
  <2> HIDE DEF X, Y
  <2>2. Cardinality(Y) = Cardinality(X)
    BY <1>1, <1>3, <1>4, <2>1, PartsCount
  <2> QED BY <2>2 DEF X, Y
<1> QED BY <1>1, <1>2, <1>5, <1>6 DEF records, register

\* As many exceptions are in the register under a paper as its control counts.
LEMMA ExceptionsOfPaper ==
    ASSUME NEW d, NEW e, d.exceptions = ExceptionRecords(e), PapersValid(e),
           NEW w \in e.papers, IsFiniteSet(w.exceptions)
    PROVE  /\ Cardinality({x \in ExceptionsText(d) : x.paper = w.id}) = Cardinality(w.exceptions)
           /\ Cardinality({x.id : x \in w.exceptions}) = Cardinality(w.exceptions)
<1> DEFINE exceptions == w.exceptions
           Record(x) ==
             [rule |-> w.rule, paper |-> w.id, exception |-> x, response |-> ResponseTo(e, x)]
           row == [x \in exceptions |-> ShownRecord(Record(x))]
           ids == [x \in exceptions |-> x.id]
           Y == {x \in ExceptionsText(d) : x.paper = w.id}
<1>1. \A x, y \in exceptions : x.id = y.id => x = y
  BY DEF PapersValid, UniqueBy, AllExceptions
<1>2. ASSUME NEW y \in Y
      PROVE  \E x \in exceptions : y = row[x]
  <2>1. PICK r \in ExceptionRecords(e) : y = ShownRecord(r) /\ r.paper = w.id
    BY DEF ExceptionsText, ShownRecord
  <2>2. PICK v \in e.papers : \E x \in v.exceptions :
          r = [rule |-> v.rule, paper |-> v.id, exception |-> x, response |-> ResponseTo(e, x)]
    BY <2>1 DEF ExceptionRecords
  <2>3. v = w
    BY <2>1, <2>2 DEF PapersValid, UniqueBy
  <2> QED BY <2>1, <2>2, <2>3
<1>3. ASSUME NEW x \in exceptions
      PROVE  row[x] \in Y
  <2>1. Record(x) \in ExceptionRecords(e)
    BY DEF ExceptionRecords
  <2>2. ShownRecord(Record(x)) \in ExceptionsText(d) /\ ShownRecord(Record(x)).paper = w.id
    BY <2>1 DEF ExceptionsText, ShownRecord
  <2> QED BY <2>2
<1>4. \A x, y \in exceptions : row[x] = row[y] => x = y
  BY <1>1 DEF ShownRecord
<1>5. /\ DOMAIN row = exceptions /\ DOMAIN ids = exceptions /\ exceptions \in SUBSET exceptions
      /\ {x.id : x \in w.exceptions} = {ids[x] : x \in exceptions}
      /\ \A x, y \in exceptions : ids[x] = ids[y] => x = y
      /\ IsFiniteSet(exceptions)
  BY <1>1
<1> HIDE DEF exceptions, row, ids, Y
<1>6. Cardinality(Y) = Cardinality(exceptions)
  BY <1>2, <1>3, <1>4, <1>5, PartsCount
<1>7. Cardinality({ids[x] : x \in exceptions}) = Cardinality(exceptions)
  BY <1>5, RowsCount
<1> QED BY <1>5, <1>6, <1>7 DEF Y, exceptions

\* As much evidence is listed for a rule as its control counts.
LEMMA EvidenceOfControl ==
    ASSUME NEW e, NEW b, ProgramValid(Program), IsFiniteSet(Range(b.observations)),
           NEW c \in Dossier(e, b).controls
    PROVE  Cardinality({i \in EvidenceText(Dossier(e, b)) : c.rule \in i.rules})
             = Cardinality(c.evidence)
<1> DEFINE all == Range(b.observations)
           findings == Findings(Manifest, b, Program)
           Cited(o) == {f.rule : f \in {g \in findings : o \in g.evidence}}
           row == [o \in all |-> [observation |-> o, rules |-> Cited(o)]]
           X == c.evidence
           Y == {i \in EvidenceText(Dossier(e, b)) : c.rule \in i.rules}
<1>1. EvidenceText(Dossier(e, b)) = {row[o] : o \in all}
  <2>1. Report(Manifest, b, Program).findings = findings
    BY DEF Report
  <2> DEFINE Entry(o) == [observation |-> o, referencedBy |-> Cited(o)]
  <2>2. EvidenceIndex(b, Report(Manifest, b, Program)) = {Entry(o) : o \in all}
    BY <2>1 DEF EvidenceIndex
  <2>3. Dossier(e, b).index = {Entry(o) : o \in all}
    BY <2>2 DEF Dossier
  <2>4. \A o : Entry(o).observation = o /\ Entry(o).referencedBy = Cited(o)
    OBVIOUS
  <2> HIDE DEF Entry, Cited, all
  <2>5. EvidenceText(Dossier(e, b))
          = {[observation |-> Entry(o).observation, rules |-> Entry(o).referencedBy] : o \in all}
    BY <2>3 DEF EvidenceText
  <2> QED BY <2>4, <2>5
<1>2. PICK rule \in Program.rules : c.rule = rule.id /\ X = Relevant(Manifest, rule, b)
  BY ControlOfRule
<1>3. \A r, s \in Program.rules : r.id = s.id => r = s
  BY DEF ProgramValid
<1>4. ASSUME NEW o \in all PROVE c.rule \in Cited(o) <=> o \in X
  <2>1. \A r : Finding(Manifest, r, b).rule = r.id
               /\ Finding(Manifest, r, b).evidence = Relevant(Manifest, r, b)
    BY DEF Finding
  <2>2. findings = {Finding(Manifest, r, b) : r \in Program.rules}
    BY DEF Findings
  <2>3. ASSUME c.rule \in Cited(o) PROVE o \in X
    <3>1. PICK g \in findings : o \in g.evidence /\ g.rule = c.rule
      BY <2>3
    <3>2. PICK r \in Program.rules : g = Finding(Manifest, r, b)
      BY <2>2
    <3>3. r = rule
      BY <1>2, <1>3, <2>1, <3>1, <3>2
    <3> QED BY <1>2, <2>1, <3>1, <3>2, <3>3
  <2>4. ASSUME o \in X PROVE c.rule \in Cited(o)
    BY <1>2, <2>1, <2>2, <2>4
  <2> QED BY <2>3, <2>4
<1>5. X \in SUBSET all
  BY <1>2 DEF Relevant
<1>6. /\ DOMAIN row = all /\ \A o \in all : row[o].rules = Cited(o) /\ row[o].observation = o
  OBVIOUS
<1> HIDE DEF all, row, X, Cited
<1>7. /\ \A y \in Y : \E o \in all : y = row[o]
      /\ \A o \in all : row[o] \in Y <=> o \in X
  BY <1>1, <1>4, <1>6
<1>8. \A o, q \in all : row[o] = row[q] => o = q
  BY <1>6
<1> HIDE DEF Y
<1>9. Cardinality(Y) = Cardinality(X)
  BY <1>5, <1>6, <1>7, <1>8, PartsCount DEF all
<1> QED BY <1>9 DEF X, Y

\* What DocumentsAgree says of a report and of the controls, given the registers.
ReportFollows(report, controls, requests, exceptions) ==
    LET register == {[c EXCEPT !.evidence = 1..c.evidence] : c \in controls} IN
    \A r \in report :
      LET f == [phase |-> r.phase, requests |-> requests]
          summary == DossierSummary(f, register, exceptions)
      IN  /\ r.summary = Restrict(summary, DOMAIN r.summary)
          /\ r.conclusion = Conclusion(f, register, exceptions)

ControlsFollow(controls, workpapers, exceptions, evidences, sampling) ==
    \A c \in controls :
      LET papers == {w \in workpapers : w.id = c.paper} IN
      /\ {c.reviewer} \ {None} = {w.reviewer : w \in {v \in papers : v.review = "approved"}}
      /\ \A w \in papers : w.rule = c.rule /\ w.exceptions = c.exceptions
      /\ c.exceptions = Cardinality({x \in exceptions : x.paper = c.paper})
      /\ c.evidence = Cardinality({i \in evidences : c.rule \in i.rules})
      /\ c.sample # None => \E s \in sampling : s.id = c.sample /\ s.rule = c.rule

\* The report's counts and conclusion are those of the registers.
LEMMA ReportAgrees ==
    ASSUME NEW e, NEW b, AuditAccepts(e, b), \A w \in e.papers : PaperTyped(w),
           IsFiniteSet(e.papers), IsFiniteSet(e.requests), IsFiniteSet(Range(b.observations))
    PROVE  LET d == Dossier(e, b) IN
           ReportFollows(ReportText(d), ControlsText(d), RequestsText(d), ExceptionsText(d))
<1> DEFINE d == Dossier(e, b)
           register == {[c EXCEPT !.evidence = 1..c.evidence] : c \in ControlsText(d)}
           f == [phase |-> e.phase, requests |-> RequestsText(d)]
           summary == DossierSummary(f, register, ExceptionsText(d))
<1>1. /\ d.engagement = e /\ d.exceptions = ExceptionRecords(e)
      /\ d.summary = DossierSummary(e, d.controls, ExceptionRecords(e))
      /\ d.conclusion = Conclusion(e, d.controls, ExceptionRecords(e))
  BY DossierParts
<1>2. /\ ProgramValid(Program) /\ PapersValid(e) /\ UniqueBy(e.requests, "id")
      /\ \A w \in e.papers : IsFiniteSet(w.exceptions)
  BY DEF AuditAccepts, Accepts, ValidAgainst, Valid, RequestsValid, PaperTyped
<1>3. f.requests = RequestsText(d) /\ f.phase = e.phase
  OBVIOUS
<1>4. /\ Cardinality(register) = Cardinality(d.controls)
      /\ \A s : Cardinality(WithStatus(register, s)) = Cardinality(WithStatus(d.controls, s))
      /\ Cardinality(WithEvidence(register)) = Cardinality(WithEvidence(d.controls))
      /\ Cardinality(WithReviewer(register)) = Cardinality(WithReviewer(d.controls))
      /\ \A k \in register : \E c \in d.controls :
           k.status = c.status /\ k.severity = c.severity
      /\ \A c \in d.controls : \E k \in register :
           k.status = c.status /\ k.severity = c.severity
  BY <1>2, ControlsCounted
<1> HIDE DEF d, register, f
<1>5. /\ Cardinality(StillOpen(f.requests)) = Cardinality(StillOpen(e.requests))
      /\ (\E q \in f.requests : ~Settled(q)) <=> (\E q \in e.requests : ~Settled(q))
  BY <1>1, <1>2, <1>3, RequestsCounted
<1>6. /\ Cardinality(Untreated(ExceptionsText(d))) = Cardinality(Untreated(ExceptionRecords(e)))
      /\ Cardinality(WithResponse(ExceptionsText(d)))
           = Cardinality(WithResponse(ExceptionRecords(e)))
      /\ ExceptionsText(d) = {} <=> ExceptionRecords(e) = {}
      /\ (\E r \in ExceptionsText(d) : r.exception.class = "major" /\ ~Treated(r.exception))
         <=> (\E r \in ExceptionRecords(e) : r.exception.class = "major" /\ ~Treated(r.exception))
  BY <1>1, <1>2, ExceptionsCounted
<1>7. /\ DOMAIN summary = DOMAIN d.summary
      /\ \A k \in DOMAIN d.summary \ {"exceptions"} : summary[k] = d.summary[k]
  BY <1>1, <1>4, <1>5, <1>6, SummariesAgree
<1>8. Conclusion(f, register, ExceptionsText(d)) = d.conclusion
  <2>1. Unfinished(f, register) <=> Unfinished(e, d.controls)
    BY <1>3, <1>4, <1>5 DEF Unfinished
  <2>2. Material(register, ExceptionsText(d)) <=> Material(d.controls, ExceptionRecords(e))
    BY <1>4, <1>6 DEF Material
  <2>3. (\E c \in register : c.status = "exception")
          <=> (\E c \in d.controls : c.status = "exception")
    BY <1>4
  <2> QED BY <1>1, <1>6, <2>1, <2>2, <2>3 DEF Conclusion
<1> HIDE DEF summary
<1>9. ASSUME NEW r \in ReportText(d)
      PROVE  /\ r.phase = e.phase /\ r.conclusion = d.conclusion
             /\ r.summary = Restrict(d.summary, DOMAIN d.summary \ {"exceptions"})
  BY <1>1 DEF ReportText
<1>10. Restrict(d.summary, DOMAIN d.summary \ {"exceptions"})
         = Restrict(summary, DOMAIN d.summary \ {"exceptions"})
  BY <1>7 DEF Restrict
<1>11. DOMAIN Restrict(d.summary, DOMAIN d.summary \ {"exceptions"})
         = DOMAIN d.summary \ {"exceptions"}
  BY DEF Restrict
<1>12. \A r \in ReportText(d) :
         /\ r.phase = e.phase
         /\ r.summary = Restrict(summary, DOMAIN r.summary)
         /\ r.conclusion = Conclusion(f, register, ExceptionsText(d))
  BY <1>8, <1>9, <1>10, <1>11
<1> QED BY <1>12 DEF d, register, f, summary, ReportFollows

\* A control's line says what the workpaper, the exceptions, the evidence and the
\* sampling plan of its rule say.
LEMMA ControlsAgree ==
    ASSUME NEW e, NEW b, AuditAccepts(e, b), \A w \in e.papers : PaperTyped(w),
           None \notin ActorIds(e),
           IsFiniteSet(e.papers), IsFiniteSet(Range(b.observations))
    PROVE  LET d == Dossier(e, b) IN
           ControlsFollow(ControlsText(d), WorkpapersText(d), ExceptionsText(d),
                          EvidenceText(d), SamplingText(d))
<1> DEFINE d == Dossier(e, b)
<1>1. d.engagement = e /\ d.exceptions = ExceptionRecords(e)
  BY DossierParts
<1>2. /\ ProgramValid(Program) /\ PapersValid(e) /\ UniqueBy(e.papers, "id")
      /\ \A w \in e.papers : PaperValid(e, w)
      /\ \A w \in e.papers : w # None /\ w.id # None /\ IsFiniteSet(w.exceptions)
  BY DEF AuditAccepts, Accepts, ValidAgainst, Valid, PapersValid, PaperTyped
<1> DEFINE Shown(w) ==
             [id |-> w.id, rule |-> w.rule, preparer |-> w.preparer, preparedAt |-> w.preparedAt,
              design |-> w.design, operating |-> w.operating,
              evidence |-> Cardinality(w.evidence), exceptions |-> Cardinality(w.exceptions),
              reviewer |-> IF w.signoff = None THEN None ELSE w.signoff.reviewer,
              review |-> IF w.signoff = None THEN "pending" ELSE w.signoff.conclusion]
<1>3. WorkpapersText(d) = {Shown(w) : w \in e.papers}
  BY <1>1 DEF WorkpapersText
<1>4. \A w : /\ Shown(w).id = w.id /\ Shown(w).rule = w.rule
             /\ Shown(w).exceptions = Cardinality(w.exceptions)
             /\ Shown(w).review = "approved" <=> Approved(w)
             /\ Approved(w) => Shown(w).reviewer = w.signoff.reviewer
  BY DEF Approved
<1> HIDE DEF Shown
<1> SUFFICES ASSUME NEW c \in ControlsText(d)
             PROVE  LET papers == {w \in WorkpapersText(d) : w.id = c.paper} IN
                    /\ {c.reviewer} \ {None}
                         = {w.reviewer : w \in {v \in papers : v.review = "approved"}}
                    /\ \A w \in papers : w.rule = c.rule /\ w.exceptions = c.exceptions
                    /\ c.exceptions = Cardinality({x \in ExceptionsText(d) : x.paper = c.paper})
                    /\ c.evidence = Cardinality({i \in EvidenceText(d) : c.rule \in i.rules})
                    /\ c.sample # None =>
                         \E s \in SamplingText(d) : s.id = c.sample /\ s.rule = c.rule
  BY DEF ControlsFollow
<1>5. PICK k \in d.controls :
        /\ c.rule = k.rule /\ c.paper = k.paper /\ c.reviewer = k.reviewer /\ c.sample = k.sample
        /\ c.evidence = Cardinality(k.evidence) /\ c.exceptions = Cardinality(k.exceptions)
  BY DEF ControlsText
<1>6. c.evidence = Cardinality({i \in EvidenceText(d) : c.rule \in i.rules})
  BY <1>2, <1>5, EvidenceOfControl
<1>7. PICK rule \in Program.rules : k = Control(e, Finding(Manifest, rule, b))
  BY ControlsOfRules
<1> DEFINE w == PaperOf(e, rule.id)
           papers == {v \in WorkpapersText(d) : v.id = c.paper}
<1>8. /\ c.rule = rule.id
      /\ c.paper = IF w = None THEN None ELSE w.id
      /\ c.sample = IF w = None THEN None ELSE w.sample
      /\ c.reviewer = IF w # None /\ Approved(w) THEN w.signoff.reviewer ELSE None
      /\ k.exceptions = IF w = None THEN {} ELSE {x.id : x \in w.exceptions}
  <2>1. Finding(Manifest, rule, b).rule = rule.id
    BY DEF Finding
  <2> QED BY <1>5, <1>7, <2>1 DEF Control
<1> HIDE DEF d
<1>9. CASE w = None
  <2>1. c.paper = None /\ c.sample = None /\ c.reviewer = None /\ k.exceptions = {}
    BY <1>8, <1>9
  <2>2. papers = {}
    BY <1>2, <1>3, <1>4, <2>1
  <2>3. {x \in ExceptionsText(d) : x.paper = c.paper} = {}
    <3>1. \A x \in ExceptionsText(d) : \E v \in e.papers : x.paper = v.id
      BY <1>1 DEF ExceptionsText, ExceptionRecords
    <3> QED BY <1>2, <2>1, <3>1
  <2>4. Cardinality({}) = 0
    BY FS_EmptySet
  <2>5. c.exceptions = Cardinality({x \in ExceptionsText(d) : x.paper = c.paper})
    BY <1>5, <2>1, <2>3
  <2> QED BY <1>6, <2>1, <2>2, <2>5
<1>10. CASE w # None
  <2>1. w \in e.papers /\ w.rule = rule.id
    BY <1>10, PaperOfRule DEF PaperOf
  <2>2. papers = {Shown(w)}
    <3>1. \A v \in e.papers : v.id = w.id => v = w
      BY <1>2, <2>1 DEF UniqueBy
    <3>2. c.paper = w.id
      BY <1>8, <1>10
    <3> HIDE DEF w
    <3> QED BY <1>3, <1>4, <2>1, <3>1, <3>2
  <2> HIDE DEF w
  <2>3. /\ c.paper = w.id /\ c.sample = w.sample
        /\ c.reviewer = IF Approved(w) THEN w.signoff.reviewer ELSE None
        /\ k.exceptions = {x.id : x \in w.exceptions}
    BY <1>8, <1>10
  <2>4. {c.reviewer} \ {None} = {v.reviewer : v \in {u \in papers : u.review = "approved"}}
    <3>1. CASE Approved(w)
      <4>1. w.signoff.reviewer # None
        BY <1>2, <2>1, <3>1 DEF PaperValid, Approved
      <4>2. {u \in papers : u.review = "approved"} = {Shown(w)}
        BY <1>4, <2>2, <3>1
      <4> QED BY <1>4, <2>3, <3>1, <4>1, <4>2
    <3>2. CASE ~Approved(w)
      <4>1. {u \in papers : u.review = "approved"} = {}
        BY <1>4, <2>2, <3>2
      <4> QED BY <2>3, <3>2, <4>1
    <3> QED BY <3>1, <3>2
  <2>5. /\ Cardinality({x \in ExceptionsText(d) : x.paper = w.id}) = Cardinality(w.exceptions)
        /\ Cardinality({x.id : x \in w.exceptions}) = Cardinality(w.exceptions)
    BY <1>1, <1>2, <2>1, ExceptionsOfPaper
  <2>6. c.exceptions = Cardinality(w.exceptions)
    BY <1>5, <2>3, <2>5
  <2>7. \A v \in papers : v.rule = c.rule /\ v.exceptions = c.exceptions
    BY <1>4, <1>8, <2>1, <2>2, <2>6
  <2>8. c.exceptions = Cardinality({x \in ExceptionsText(d) : x.paper = c.paper})
    BY <2>3, <2>5, <2>6
  <2>9. c.sample # None => \E s \in SamplingText(d) : s.id = c.sample /\ s.rule = c.rule
    <3>1. w.sample # None => \E s \in e.samples : s.id = w.sample /\ s.rule = w.rule
      BY <1>2, <2>1 DEF PaperValid
    <3>2. ASSUME NEW s \in e.samples
          PROVE  \E t \in SamplingText(d) : t.id = s.id /\ t.rule = s.rule
      <4> DEFINE t == [id |-> s.id, rule |-> s.rule, population |-> s.population,
                       method |-> s.method, size |-> s.size, selected |-> Len(s.selected)]
      <4>1. t \in SamplingText(d)
        BY <1>1 DEF SamplingText
      <4>2. t.id = s.id /\ t.rule = s.rule
        OBVIOUS
      <4> HIDE DEF t
      <4> QED BY <4>1, <4>2
    <3> QED BY <1>8, <2>1, <2>3, <3>1, <3>2
  <2> QED BY <1>6, <2>4, <2>7, <2>8, <2>9
<1> QED BY <1>9, <1>10

\* The documents of every package tell of one audit, whatever the program, the record
\* and the evidence, and however many of each.
THEOREM DocumentsTellOneAudit == Spec => []DocumentsAgree
<1>1. Inv /\ AllFinite => DocumentsAgree
  <2> SUFFICES ASSUME Inv, AllFinite PROVE DocumentsAgree
    OBVIOUS
  <2> SUFFICES ASSUME NEW p \in packaged.package
               PROVE  /\ ReportFollows(RowsOf(p, "report"), RowsOf(p, "controls"),
                                       RowsOf(p, "requests"), RowsOf(p, "exceptions"))
                      /\ ControlsFollow(RowsOf(p, "controls"), RowsOf(p, "workpapers"),
                                        RowsOf(p, "exceptions"), RowsOf(p, "evidence"),
                                        RowsOf(p, "sampling"))
    BY Zenon DEF DocumentsAgree, RowsOf, ReportFollows, ControlsFollow
  <2> DEFINE d == Dossier(eng, evidence)
  <2>1. AuditAccepts(eng, evidence) /\ p = BuildAuditPackage(d)
    BY DEF Inv, PackagedMade, DossierMade
  <2>2. /\ RowsOf(p, "report") = ReportText(d) /\ RowsOf(p, "controls") = ControlsText(d)
        /\ RowsOf(p, "evidence") = EvidenceText(d) /\ RowsOf(p, "requests") = RequestsText(d)
        /\ RowsOf(p, "sampling") = SamplingText(d) /\ RowsOf(p, "workpapers") = WorkpapersText(d)
        /\ RowsOf(p, "exceptions") = ExceptionsText(d)
    BY <2>1, RowsOfPackage
  <2> QED BY <2>1, <2>2, ReportAgrees, ControlsAgree DEF Inv, PapersTyped, ActorsTyped, AllFinite
<1>2. Init => Inv /\ AllFinite
  BY InitInv, AllFiniteInit
<1>3. Inv /\ AllFinite /\ [Next]_vars => (Inv /\ AllFinite)'
  BY StepInv, AllFiniteStep
<1> QED BY <1>1, <1>2, <1>3, PTL DEF Spec

=============================================================================
