---------------------------- MODULE ProbeLauncher ----------------------------
(***************************************************************************)
(* The parent process of the JavaScript probe: inspectModule and main in   *)
(* probes/typescript/runtime-probe.mjs.  It starts one child, which runs   *)
(* customer code and may do anything with its output, its result channel,  *)
(* its time and its exit code; the parent must come to one outcome.        *)
(*                                                                         *)
(* Output is counted in units of which MaxOutput are the limit, and the    *)
(* result channel carries pieces, of which MaxResult are the limit.        *)
(***************************************************************************)
EXTENDS Naturals, Sequences

CONSTANTS MaxOutput, MaxResult, Pieces

ASSUME LimitsAssumption == MaxOutput \in Nat /\ MaxResult \in Nat

VARIABLES
    child,      \* "running", "killed" (SIGKILL is sent, not yet taken) or "exited"
    code,       \* its exit code; 137 when a signal ended it
    held,       \* whether a descendant of it holds the pipes open
    sent,       \* what was written: [out, result]
    got,        \* what the parent has read of it
    outcome,    \* "pending", or how the promise was settled
    printed     \* the exit code of the probe itself, or "none"

vars == <<child, code, held, sent, got, outcome, printed>>

Nothing == [out |-> 0, result |-> <<>>]

Init ==
    /\ child = "running" /\ code = 0 /\ held = FALSE
    /\ sent = Nothing /\ got = Nothing
    /\ outcome = "pending" /\ printed = "none"

Settled == outcome # "pending"

\* What safeReport accepts, whole or with the truncated flag; a piece more, a
\* piece less or another piece does not parse or is not a report.
Complete == <<"head", "tail">>
Truncated == <<"head", "tailOfTruncated">>
IsReport(result) == result \in {Complete, Truncated}

Alive == child \in {"running", "killed"}

-----------------------------------------------------------------------------
\* The child, its descendants, and customer code in both.

ChildStep == UNCHANGED <<got, outcome, printed>>

\* Bound: one unit or piece beyond the limit.
Write ==
    /\ Alive \/ held
    /\ \/ sent.out <= MaxOutput /\ sent' = [sent EXCEPT !.out = @ + 1]
       \/ /\ Len(sent.result) <= MaxResult
          /\ \E piece \in Pieces : sent' = [sent EXCEPT !.result = Append(@, piece)]
    /\ ChildStep /\ UNCHANGED <<child, code, held>>

Fork ==
    /\ Alive /\ held' = TRUE
    /\ ChildStep /\ UNCHANGED <<child, code, sent>>

DescendantEnds ==
    /\ held /\ held' = FALSE
    /\ ChildStep /\ UNCHANGED <<child, code, sent>>

ChildExits ==
    /\ Alive /\ child' = "exited" /\ code' \in {0, 1}
    /\ ChildStep /\ UNCHANGED <<held, sent>>

\* The signal takes effect, some time after the parent sent it.
Dies ==
    /\ child = "killed" /\ child' = "exited" /\ code' = 137
    /\ ChildStep /\ UNCHANGED <<held, sent>>

-----------------------------------------------------------------------------
\* The parent's callbacks.

\* Mutant: the child is left to itself once its result is known.
FinishOnly(how) == outcome' = how /\ UNCHANGED <<child, code>>

\* finish: the first call settles, clears the timer and sends SIGKILL to a child
\* that has not exited; the streams are destroyed, so no data event follows.
Finish(how) ==
    /\ outcome' = how
    /\ child' = IF child = "running" THEN "killed" ELSE child
    /\ UNCHANGED code

Wait == UNCHANGED <<child, code, outcome>>

OutputArrives ==
    /\ ~Settled /\ got.out < sent.out
    /\ got' = [got EXCEPT !.out = @ + 1]
    /\ IF got'.out > MaxOutput THEN Finish("outputLimit") ELSE Wait
    /\ UNCHANGED <<held, sent, printed>>

ResultArrives ==
    /\ ~Settled /\ Len(got.result) < Len(sent.result)
    /\ got' = [got EXCEPT !.result = SubSeq(sent.result, 1, Len(@) + 1)]
    /\ IF Len(got'.result) > MaxResult THEN Finish("resultLimit") ELSE Wait
    /\ UNCHANGED <<held, sent, printed>>

\* The process could not be started: nothing ran, and there is nothing to kill.
SpawnFails ==
    /\ ~Settled /\ child = "running" /\ sent = Nothing /\ ~held
    /\ outcome' = "failed" /\ child' = "exited"
    /\ UNCHANGED <<code, held, sent, got, printed>>

\* Mutant: data puts the deadline off for good.
DeadlineIfSilent ==
    /\ ~Settled /\ got = Nothing
    /\ Finish("deadline")
    /\ UNCHANGED <<held, sent, got, printed>>

Deadline ==
    /\ ~Settled
    /\ Finish("deadline")
    /\ UNCHANGED <<held, sent, got, printed>>

\* Mutant: whatever the exit code says.
ConcludeAnyCode ==
    Finish(IF IsReport(got.result) THEN "observation" ELSE "invalid")

Conclude ==
    Finish(IF code # 0 THEN "noObservation"
           ELSE IF IsReport(got.result) THEN "observation" ELSE "invalid")

\* Mutant: the exit event is taken for the close event.
CloseAtExit ==
    /\ ~Settled /\ child = "exited"
    /\ Conclude /\ UNCHANGED <<held, sent, got, printed>>

\* The close event: the child has exited and its pipes are read to their end,
\* which they have only when no descendant holds them.
Close ==
    /\ ~Settled /\ child = "exited" /\ ~held /\ got = sent
    /\ Conclude /\ UNCHANGED <<held, sent, got, printed>>

\* main: the observation or a fixed message, and the exit code.
Main ==
    /\ Settled /\ printed = "none"
    /\ printed' = IF outcome # "observation" THEN "1"
                  ELSE IF got.result = Truncated THEN "3" ELSE "0"
    /\ UNCHANGED <<child, code, held, sent, got, outcome>>

Next ==
    \/ Write \/ Fork \/ DescendantEnds \/ ChildExits \/ Dies
    \/ OutputArrives \/ ResultArrives \/ SpawnFails \/ Deadline \/ Close \/ Main

\* A timer that has expired runs, main goes on, and the kernel delivers a signal
\* that nobody can block; the child owes nothing.
Spec == Init /\ [][Next]_vars /\ WF_vars(Deadline) /\ WF_vars(Main) /\ WF_vars(Dies)

-----------------------------------------------------------------------------

\* An observation is printed only of a child that ended by itself, with success,
\* within both limits, and the report is all that came over the result channel:
\* neither a part of it nor a report with something before or behind it.
ObservationIsWhole ==
    printed \in {"0", "3"} =>
        /\ code = 0 /\ IsReport(got.result) /\ got.out <= MaxOutput
        /\ printed = "3" <=> got.result = Truncated
        /\ got = sent

\* No report is called invalid because the parent looked too early: an outcome
\* of "invalid" means that what was written is not a report.
InvalidMeansInvalid ==
    outcome = "invalid" => ~IsReport(sent.result)

\* Once the promise is settled, however it was settled, the child has exited or
\* has been sent the signal that it cannot refuse: none is left to run on.
NoChildOutlivesItsProbe == Settled => child # "running"

\* The probe ends with an exit code and the child is gone for good, whatever the
\* child does or does not do, and whatever its descendants hold open.
ProbeEnds == <>[](printed # "none" /\ child = "exited")

=============================================================================
