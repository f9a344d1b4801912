------------------------------ MODULE Sorting ------------------------------
(***************************************************************************)
(* Sorting by a key that differs, as the merge of bundles and the runtime  *)
(* probes do it.                                                           *)
(***************************************************************************)
EXTENDS Integers, FiniteSets

\* The elements of a set in the order of a key: of the i-th, fewer than i have a
\* smaller key and at least i one that is not larger.
Sorted(set, key) ==
    LET keyed == {<<key[e], e>> : e \in set}
        Before(x) == Cardinality({y \in keyed : y[1] < x[1]})
        UpTo(x) == Cardinality({y \in keyed : y[1] <= x[1]})
    IN  [i \in 1..Cardinality(set) |->
            (CHOOSE x \in keyed : Before(x) < i /\ i <= UpTo(x))[2]]

=============================================================================
