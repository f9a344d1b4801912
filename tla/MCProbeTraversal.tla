-------------------------- MODULE MCProbeTraversal --------------------------
(* An instance of ProbeTraversal for TLC. *)
EXTENDS ProbeTraversal

MCObjects == {"root", "a", "b"}

Entry(name, value) == [name |-> name, value |-> value]

\* Aliases, cycles, two sensitive names for one object, a secret bound twice, one key
\* too many, and at the end of every chain something that is long or cannot be read.
MCGraphs ==
    {[o \in MCObjects |->
        CASE o = "root" -> <<Entry(2, r[1]), Entry(1, r[2])>>
          [] o = "a" -> IF r[5] = "none" THEN <<Entry(3, r[3]), Entry(2, r[4])>>
                        ELSE <<Entry(3, r[3]), Entry(4, r[4]), Entry(2, r[5])>>
          [] o = "b" -> <<Entry(3, r[6])>>] :
        r \in {"a", "b", "secret", "plain"} \X {"a", "b", "plain"} \X {"b", "secret"}
              \X {"root", "b", "plain"} \X {"none", "secret"}
              \X {"root", "a", "secret", "plain", "long", "getter"}}

=============================================================================
