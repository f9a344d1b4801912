----------------------------- MODULE PowerLoss -----------------------------
(***************************************************************************)
(* OutputFiles on a machine that can lose power.  The code syncs every     *)
(* file it writes and no directory, so the disk that comes back holds any  *)
(* subset of the directory entries that existed; a file that is there has  *)
(* all of its contents if sync_all had returned, and any prefix of what    *)
(* was written if not.  Afterwards new invocations may be started on what  *)
(* is left.                                                                *)
(***************************************************************************)
EXTENDS OutputFiles

CONSTANT MaxLosses      \* bound: how often power is lost

VARIABLE losses

lossVars == <<losses, vars>>

LossInit == Init /\ losses = 0

Existing == {f \in Path : holder[f] # NoProc}

PowerLost ==
    /\ losses < MaxLosses
    /\ losses' = losses + 1
    /\ \E dirs \in SUBSET {d \in Dir : made[d] # NoProc} :
       \E kept \in SUBSET {f \in Existing : \A d \in Dir : f \in Packet(d) => d \in dirs} :
         /\ made' = [d \in Dir |-> IF d \in dirs THEN made[d] ELSE NoProc]
         /\ holder' = [f \in Path |-> IF f \in kept THEN holder[f] ELSE NoProc]
         /\ \E torn \in [kept \ synced -> 0..Chunks] :
              /\ \A f \in kept \ synced : torn[f] <= len[f]
              /\ len' = [f \in Path |->
                           IF f \notin kept THEN 0
                           ELSE IF f \in synced THEN len[f] ELSE torn[f]]
         /\ synced' = synced \cap kept
    /\ pc' = [p \in Proc |-> IF Running(p) THEN "done" ELSE pc[p]]
    /\ exit' = [p \in Proc |-> IF Running(p) THEN "killed" ELSE exit[p]]
    /\ UNCHANGED <<job, nxt>>

LossNext == (Next /\ UNCHANGED losses) \/ PowerLost

LossSpec == LossInit /\ [][LossNext]_lossVars

-----------------------------------------------------------------------------

\* A file is vouched for by the success of the command that wrote it, and a document
\* also by the manifest of its packet, whatever became of the command.
Vouched(p, f) ==
    \/ exit[p] \in {"success", "threshold"} /\ f \in Outs(job[p])
    \/ /\ job[p].kind = "package" /\ holder[Manifest(job[p].dir)] = p
       /\ f \in Packet(job[p].dir) \ {Manifest(job[p].dir)}

\* What is vouched for is never found torn: after any number of power losses the
\* file is gone with its directory entry or has all of its contents.  The documents
\* that a surviving manifest lists were synced before it was created, so each is
\* whole or missing, which a consumer that follows the manifest can tell.
VouchedFilesNotTorn ==
    \A p \in Proc : \A f \in Path : Vouched(p, f) /\ holder[f] = p => len[f] = Chunks

=============================================================================
