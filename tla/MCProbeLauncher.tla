--------------------------- MODULE MCProbeLauncher ---------------------------
(* An instance of ProbeLauncher for TLC. *)
EXTENDS ProbeLauncher

\* Both ends a report may have, and something that is no part of one.
MCPieces == {"head", "tail", "tailOfTruncated", "junk"}

=============================================================================
