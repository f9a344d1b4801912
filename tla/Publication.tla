---------------------------- MODULE Publication ----------------------------
(***************************************************************************)
(* What the auditor's commands promise about the files they publish,       *)
(* without saying how: a path is claimed once, by one command, and never   *)
(* changes hands; what is claimed becomes whole or is abandoned; a command *)
(* that writes several files claims its seal (the package manifest) only   *)
(* when every other file of its plan is whole; nothing is claimed from a   *)
(* source that is not whole; and a command reports success only for a plan *)
(* whose every file is whole and its own.                                  *)
(* OutputFiles is shown to implement this module.                          *)
(***************************************************************************)

CONSTANTS
    Proc,       \* command invocations
    Path,       \* output paths
    NoProc,     \* not in Proc: holder of a path nobody has claimed
    NoPath      \* not in Path: source of a command that reads no published file

VARIABLES
    holder,     \* who claimed a path
    whole,      \* the paths whose contents are complete
    plan,       \* what a command set out to publish, and from what
    status      \* how far a command got

vars == <<holder, whole, plan, status>>

Plan == [source : Path \cup {NoPath}, goal : SUBSET Path, seal : Path \cup {NoPath}]

IdlePlan == [source |-> NoPath, goal |-> {}, seal |-> NoPath]

Init ==
    /\ holder = [f \in Path |-> NoProc]
    /\ whole = {}
    /\ plan = [p \in Proc |-> IdlePlan]
    /\ status = [p \in Proc |-> "idle"]

Begin(p) ==
    /\ status[p] = "idle"
    /\ \E pl \in Plan : plan' = [plan EXCEPT ![p] = pl]
    /\ status' = [status EXCEPT ![p] = "working"]
    /\ UNCHANGED <<holder, whole>>

\* The other files of p's plan, all whole and all p's own.
RestWhole(p, f) ==
    \A g \in plan[p].goal \ {f} : holder[g] = p /\ g \in whole

Claim(p, f) ==
    /\ status[p] = "working"
    /\ f \in plan[p].goal
    /\ holder[f] = NoProc
    /\ plan[p].source # NoPath => plan[p].source \in whole
    /\ f = plan[p].seal => RestWhole(p, f)
    /\ holder' = [holder EXCEPT ![f] = p]
    /\ UNCHANGED <<whole, plan, status>>

Complete(p, f) ==
    /\ status[p] = "working"
    /\ holder[f] = p
    /\ whole' = whole \cup {f}
    /\ UNCHANGED <<holder, plan, status>>

Publish(p) ==
    /\ status[p] = "working"
    /\ \A f \in plan[p].goal : holder[f] = p /\ f \in whole
    /\ status' = [status EXCEPT ![p] = "published"]
    /\ UNCHANGED <<holder, whole, plan>>

\* Giving up leaves what was claimed where it is, and what was being written
\* may have become whole all the same.
GiveUp(p) ==
    /\ status[p] = "working"
    /\ status' = [status EXCEPT ![p] = "gaveUp"]
    /\ \/ whole' = whole
       \/ \E f \in Path : holder[f] = p /\ whole' = whole \cup {f}
    /\ UNCHANGED <<holder, plan>>

Next ==
    \E p \in Proc :
        \/ Begin(p)
        \/ \E f \in Path : Claim(p, f) \/ Complete(p, f)
        \/ Publish(p)
        \/ GiveUp(p)

Spec == Init /\ [][Next]_vars

=============================================================================
