------------------------ MODULE ProbeLauncherProofs -------------------------
(***************************************************************************)
(* What the parent of the JavaScript probe promises whatever its child     *)
(* writes, forks and does not end, and under any limits.                   *)
(***************************************************************************)
EXTENDS ProbeLauncher, TLAPS

Streams == [out : Nat, result : Seq(Pieces)]

Outcomes ==
    {"pending", "outputLimit", "resultLimit", "failed", "deadline",
     "noObservation", "invalid", "observation"}

TypeOK ==
    /\ child \in {"running", "killed", "exited"} /\ code \in {0, 1, 137} /\ held \in BOOLEAN
    /\ sent \in Streams /\ got \in Streams
    /\ outcome \in Outcomes /\ printed \in {"none", "0", "1", "3"}

WithinLimit == ~Settled => got.out <= MaxOutput

\* An outcome that says something of the report was reached at the close event,
\* after which nobody writes.
Closed == child = "exited" /\ ~held /\ got = sent

ConcludedAtClose ==
    /\ outcome \in {"observation", "invalid"} => Closed
    /\ outcome = "observation" => code = 0 /\ IsReport(got.result) /\ got.out <= MaxOutput
    /\ outcome = "invalid" => ~IsReport(got.result)

\* main ran after the promise was settled.
PrintedOutcome ==
    /\ printed # "none" => Settled
    /\ printed \in {"0", "3"} => outcome = "observation"
    /\ printed \in {"0", "3"} => (printed = "3" <=> got.result = Truncated)

Inv == TypeOK /\ WithinLimit /\ ConcludedAtClose /\ PrintedOutcome /\ NoChildOutlivesItsProbe

-----------------------------------------------------------------------------

LEMMA InitInv == Init => Inv
<1> SUFFICES ASSUME Init PROVE Inv
  OBVIOUS
<1> USE DEF Init, Settled
<1>1. TypeOK
  <2>1. Nothing \in Streams
    <3>1. <<>> \in Seq(Pieces)
      OBVIOUS
    <3> QED BY <3>1 DEF Streams, Nothing
  <2> QED BY <2>1 DEF TypeOK, Outcomes
<1>2. WithinLimit
  BY LimitsAssumption DEF WithinLimit, Nothing
<1> QED BY <1>1, <1>2 DEF Inv, ConcludedAtClose, PrintedOutcome, NoChildOutlivesItsProbe

\* A child that still runs was not concluded about, killed or not.
LEMMA ChildKeepsInv ==
    ASSUME Inv, Write \/ Fork \/ DescendantEnds \/ ChildExits \/ Dies
    PROVE  Inv'
<1> USE DEF ChildStep, Settled, Alive
<1>1. TypeOK'
  <2>1. CASE Write
    <3>1. CASE sent' = [sent EXCEPT !.out = @ + 1]
      BY <2>1, <3>1 DEF Inv, TypeOK, Streams, Write
    <3>2. CASE \E piece \in Pieces : sent' = [sent EXCEPT !.result = Append(@, piece)]
      <4>1. PICK piece \in Pieces : sent' = [sent EXCEPT !.result = Append(@, piece)]
        BY <3>2
      <4>2. Append(sent.result, piece) \in Seq(Pieces)
        BY DEF Inv, TypeOK, Streams
      <4>3. sent' \in Streams
        BY <4>1, <4>2 DEF Inv, TypeOK, Streams
      <4> QED BY <2>1, <4>3 DEF Inv, TypeOK, Write
    <3> QED BY <2>1, <3>1, <3>2 DEF Write
  <2>2. CASE Fork \/ DescendantEnds \/ ChildExits \/ Dies
    BY <2>2 DEF Inv, TypeOK, Fork, DescendantEnds, ChildExits, Dies
  <2> QED BY <2>1, <2>2
<1>2. UNCHANGED <<got, outcome, printed>>
  BY DEF Write, Fork, DescendantEnds, ChildExits, Dies
<1>3. (WithinLimit /\ PrintedOutcome)'
  BY <1>2 DEF Inv, WithinLimit, PrintedOutcome
<1>4. NoChildOutlivesItsProbe'
  BY <1>2 DEF Inv, NoChildOutlivesItsProbe, Write, Fork, DescendantEnds, ChildExits, Dies
<1>5. ConcludedAtClose'
  BY <1>2 DEF Inv, ConcludedAtClose, Closed, Write, Fork, DescendantEnds, ChildExits, Dies
<1> QED BY <1>1, <1>3, <1>4, <1>5 DEF Inv

\* Before the close event the parent reads, or settles as something that is
\* neither an observation nor an invalid report.
LEMMA ArrivalKeepsInv ==
    ASSUME Inv, OutputArrives \/ ResultArrives \/ SpawnFails \/ Deadline
    PROVE  Inv'
<1> USE DEF OutputArrives, ResultArrives, SpawnFails, Deadline, Finish, Wait, Settled
<1>1. got' \in Streams
  <2>1. CASE ResultArrives
    <3>1. SubSeq(sent.result, 1, Len(got.result) + 1) \in Seq(Pieces)
      BY <2>1 DEF Inv, TypeOK, Streams
    <3> QED BY <2>1, <3>1 DEF Inv, TypeOK, Streams
  <2> QED BY <2>1 DEF Inv, TypeOK, Streams
<1>2. TypeOK'
  BY <1>1 DEF Inv, TypeOK, Outcomes
<1>3. WithinLimit'
  BY LimitsAssumption DEF Inv, TypeOK, Streams, WithinLimit
<1>4. outcome' \in {"pending", "outputLimit", "resultLimit", "failed", "deadline"}
  BY DEF Inv
<1>5. ConcludedAtClose'
  BY <1>4 DEF ConcludedAtClose
<1>6. PrintedOutcome'
  BY DEF Inv, PrintedOutcome
<1>7. NoChildOutlivesItsProbe'
  BY DEF Inv, TypeOK, NoChildOutlivesItsProbe
<1> QED BY <1>2, <1>3, <1>5, <1>6, <1>7 DEF Inv

LEMMA CloseKeepsInv ==
    ASSUME Inv, Close \/ Main
    PROVE  Inv'
<1> USE DEF Settled
<1>1. CASE Close
  <2> USE <1>1 DEF Close, Conclude, Finish
  <2>1. outcome' \in {"noObservation", "observation", "invalid"}
    OBVIOUS
  <2>2. TypeOK'
    BY <2>1 DEF Inv, TypeOK, Outcomes
  <2>3. Closed' /\ (WithinLimit /\ NoChildOutlivesItsProbe)'
    BY <2>1 DEF Closed, WithinLimit, NoChildOutlivesItsProbe
  <2>4. ConcludedAtClose'
    BY <2>1, <2>3 DEF Inv, WithinLimit, ConcludedAtClose, IsReport
  <2>5. PrintedOutcome'
    BY DEF Inv, PrintedOutcome
  <2> QED BY <2>2, <2>3, <2>4, <2>5 DEF Inv
<1>2. CASE Main
  <2> USE <1>2 DEF Main
  <2>1. (TypeOK /\ WithinLimit /\ NoChildOutlivesItsProbe)'
    BY DEF Inv, TypeOK, WithinLimit, NoChildOutlivesItsProbe
  <2>2. ConcludedAtClose'
    BY DEF Inv, ConcludedAtClose, Closed
  <2>3. PrintedOutcome'
    BY DEF Inv, PrintedOutcome
  <2> QED BY <2>1, <2>2, <2>3 DEF Inv
<1> QED BY <1>1, <1>2

LEMMA StepInv == Inv /\ [Next]_vars => Inv'
<1>1. Inv /\ UNCHANGED vars => Inv'
  BY DEF Inv, TypeOK, WithinLimit, ConcludedAtClose, Closed, PrintedOutcome,
         NoChildOutlivesItsProbe, Settled, vars
<1> QED BY <1>1, ChildKeepsInv, ArrivalKeepsInv, CloseKeepsInv DEF Next

-----------------------------------------------------------------------------

\* The variables of the launcher have the values they may have.
THEOREM LauncherTypeCorrect == Spec => []TypeOK
<1>1. Inv => TypeOK
  BY DEF Inv
<1> QED BY <1>1, InitInv, StepInv, PTL DEF Spec

\* An observation is printed of a child that ended well, within any limits, and
\* is all that it wrote.
THEOREM ObservationsAreWhole == Spec => []ObservationIsWhole
<1>1. Inv => ObservationIsWhole
  BY DEF Inv, ObservationIsWhole, ConcludedAtClose, Closed, PrintedOutcome
<1> QED BY <1>1, InitInv, StepInv, PTL DEF Spec

\* Only what is not a report is called an invalid one.
THEOREM InvalidIsInvalid == Spec => []InvalidMeansInvalid
<1>1. Inv => InvalidMeansInvalid
  BY DEF Inv, InvalidMeansInvalid, ConcludedAtClose, Closed
<1> QED BY <1>1, InitInv, StepInv, PTL DEF Spec

\* No child is left to run on when its probe's promise is settled, whatever
\* settled it: it has exited, or SIGKILL is on its way.
THEOREM NoOrphans == Spec => []NoChildOutlivesItsProbe
<1>1. Inv => NoChildOutlivesItsProbe
  BY DEF Inv
<1> QED BY <1>1, InitInv, StepInv, PTL DEF Spec

=============================================================================
