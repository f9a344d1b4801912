---------------------------- MODULE MCPowerLoss -----------------------------
(* Instances of PowerLoss for TLC. *)
EXTENDS PowerLoss

CONSTANTS D, P1

LossJob(k, s, d, o) ==
    [kind |-> k, source |-> s, dir |-> d, out |-> o, json |-> TRUE, failOn |-> "never"]

\* An audit and the packaging of its dossier, possibly run again after the loss.
LossJobs == {LossJob("audit", NoPath, NoDir, D), LossJob("package", D, P1, NoPath)}

=============================================================================
