--------------------------- MODULE SortingProofs ---------------------------
(***************************************************************************)
(* Sorting lists every element of a set once, for any set and any key that *)
(* tells its elements apart.                                               *)
(***************************************************************************)
EXTENDS Sorting, Functions, FiniteSetTheorems, TLAPS

\* The elements whose place is before x's, and those up to x itself.
Below(S, x) == {y \in S : y[1] < x[1]}
UpTo(S, x) == {y \in S : y[1] <= x[1]}

\* With keys that differ, the number of the elements up to x is x's place.
LEMMA Places ==
    ASSUME NEW S, IsFiniteSet(S), \A x \in S : x[1] \in Int,
           \A x, y \in S : x[1] = y[1] => x = y
    PROVE  /\ \A x \in S : /\ Cardinality(UpTo(S, x)) \in 1..Cardinality(S)
                           /\ Cardinality(Below(S, x)) = Cardinality(UpTo(S, x)) - 1
           /\ \A x, y \in S : Cardinality(UpTo(S, x)) = Cardinality(UpTo(S, y)) => x = y
           /\ \A x, y \in S : x[1] < y[1] => Cardinality(UpTo(S, x)) < Cardinality(UpTo(S, y))
           /\ \A i \in 1..Cardinality(S) : \E x \in S : Cardinality(UpTo(S, x)) = i
<1> DEFINE n == Cardinality(S)
<1>1. n \in Nat
  BY FS_CardinalityType
<1>2. ASSUME NEW x \in S
      PROVE  /\ IsFiniteSet(UpTo(S, x)) /\ IsFiniteSet(Below(S, x))
             /\ Cardinality(UpTo(S, x)) \in 1..n
             /\ Cardinality(Below(S, x)) = Cardinality(UpTo(S, x)) - 1
  <2>1. UpTo(S, x) \in SUBSET S /\ Below(S, x) \in SUBSET S
    BY DEF UpTo, Below
  <2>2. /\ IsFiniteSet(UpTo(S, x)) /\ Cardinality(UpTo(S, x)) <= n
        /\ IsFiniteSet(Below(S, x))
    BY <2>1, FS_Subset
  <2>3. UpTo(S, x) = Below(S, x) \cup {x} /\ x \notin Below(S, x)
    <3>1. \A y \in S : y[1] <= x[1] <=> y[1] < x[1] \/ y = x
      OBVIOUS
    <3> QED BY <3>1 DEF UpTo, Below
  <2>4. Cardinality(UpTo(S, x)) = Cardinality(Below(S, x)) + 1
    BY <2>2, <2>3, FS_AddElement
  <2>5. Cardinality(Below(S, x)) \in Nat
    BY <2>2, FS_CardinalityType
  <2> QED BY <1>1, <2>2, <2>4, <2>5
<1>3. ASSUME NEW x \in S, NEW y \in S, x[1] < y[1]
      PROVE  Cardinality(UpTo(S, x)) < Cardinality(UpTo(S, y))
  <2>1. UpTo(S, x) \in SUBSET Below(S, y)
    BY <1>3 DEF UpTo, Below
  <2>2. Cardinality(UpTo(S, x)) <= Cardinality(Below(S, y))
    BY <1>2, <2>1, FS_Subset
  <2> QED BY <1>1, <1>2, <2>2
<1>4. ASSUME NEW x \in S, NEW y \in S, Cardinality(UpTo(S, x)) = Cardinality(UpTo(S, y))
      PROVE  x = y
  <2>1. ~(x[1] < y[1]) /\ ~(y[1] < x[1])
    BY <1>1, <1>2, <1>3, <1>4
  <2> QED BY <2>1
<1>5. \A i \in 1..n : \E x \in S : Cardinality(UpTo(S, x)) = i
  <2> DEFINE place == [x \in S |-> Cardinality(UpTo(S, x))]
  <2>1. IsFiniteSet(1..n) /\ Cardinality(1..n) = n
    BY <1>1, FS_Interval
  <2>2. place \in Injection(S, 1..n)
    BY <1>2, <1>4 DEF Injection, IsInjective
  <2>3. place \in Surjection(S, 1..n)
    BY <2>1, <2>2, FS_Injection
  <2> QED BY <2>3 DEF Surjection
<1> QED BY <1>2, <1>3, <1>4, <1>5

\* Sorting by a key that tells elements apart lists each of them once, in the order
\* of the key.
THEOREM SortedOnce ==
    ASSUME NEW S, IsFiniteSet(S), NEW key, \A e \in S : key[e] \in Int,
           \A e, f \in S : key[e] = key[f] => e = f
    PROVE  /\ Sorted(S, key) \in [1..Cardinality(S) -> S]
           /\ Range(Sorted(S, key)) = S
           /\ IsInjective(Sorted(S, key))
           /\ \A i, j \in 1..Cardinality(S) : i < j => key[Sorted(S, key)[i]] < key[Sorted(S, key)[j]]
<1> DEFINE keyed == {<<key[e], e>> : e \in S}
           pair == [e \in S |-> <<key[e], e>>]
           Choice(i) == CHOOSE x \in keyed :
                          Cardinality(Below(keyed, x)) < i /\ i <= Cardinality(UpTo(keyed, x))
<1>1. pair \in Bijection(S, keyed)
  BY DEF Bijection, Injection, Surjection, IsInjective
<1>2. IsFiniteSet(keyed) /\ Cardinality(keyed) = Cardinality(S) /\ Cardinality(S) \in Nat
  BY <1>1, FS_Bijection, FS_CardinalityType DEF ExistsBijection
<1>3. \A x \in keyed : x[1] \in Int /\ x[2] \in S /\ x = <<key[x[2]], x[2]>>
  OBVIOUS
<1>4. \A x, y \in keyed : x[1] = y[1] => x = y
  BY <1>3
<1>5. \A e \in S : <<key[e], e>> \in keyed
  OBVIOUS
<1>6. Sorted(S, key) = [i \in 1..Cardinality(S) |-> Choice(i)[2]]
  BY DEF Sorted, Below, UpTo
<1> HIDE DEF keyed
<1>7. /\ \A x \in keyed : /\ Cardinality(UpTo(keyed, x)) \in 1..Cardinality(S)
                          /\ Cardinality(Below(keyed, x)) = Cardinality(UpTo(keyed, x)) - 1
      /\ \A x, y \in keyed : Cardinality(UpTo(keyed, x)) = Cardinality(UpTo(keyed, y)) => x = y
      /\ \A x, y \in keyed :
           x[1] < y[1] => Cardinality(UpTo(keyed, x)) < Cardinality(UpTo(keyed, y))
      /\ \A i \in 1..Cardinality(S) : \E x \in keyed : Cardinality(UpTo(keyed, x)) = i
  BY <1>2, <1>3, <1>4, Places
<1>8. ASSUME NEW i \in 1..Cardinality(S)
      PROVE  Choice(i) \in keyed /\ Cardinality(UpTo(keyed, Choice(i))) = i
  <2>1. PICK x \in keyed : Cardinality(UpTo(keyed, x)) = i
    BY <1>7
  <2>2. Cardinality(Below(keyed, x)) < i /\ i <= Cardinality(UpTo(keyed, x))
    BY <1>2, <1>7, <2>1
  <2>3. /\ Choice(i) \in keyed
        /\ Cardinality(Below(keyed, Choice(i))) < i /\ i <= Cardinality(UpTo(keyed, Choice(i)))
    BY <2>2
  <2> QED BY <1>2, <1>7, <2>3
<1> HIDE DEF Choice
<1>9. ASSUME NEW e \in S
      PROVE  \E i \in 1..Cardinality(S) : Choice(i)[2] = e
  <2>1. Cardinality(UpTo(keyed, <<key[e], e>>)) \in 1..Cardinality(S)
    BY <1>5, <1>7
  <2>2. Choice(Cardinality(UpTo(keyed, <<key[e], e>>))) = <<key[e], e>>
    BY <1>5, <1>7, <1>8, <2>1
  <2> QED BY <2>1, <2>2
<1>10. ASSUME NEW i \in 1..Cardinality(S), NEW j \in 1..Cardinality(S), Choice(i)[2] = Choice(j)[2]
       PROVE  i = j
  BY <1>3, <1>8, <1>10
<1>11. \A i \in 1..Cardinality(S) : Choice(i)[2] \in S
  BY <1>3, <1>8
<1>12. ASSUME NEW i \in 1..Cardinality(S), NEW j \in 1..Cardinality(S), i < j
       PROVE  key[Choice(i)[2]] < key[Choice(j)[2]]
  <2>1. ~(Choice(j)[1] < Choice(i)[1]) /\ Choice(i) # Choice(j)
    BY <1>2, <1>7, <1>8, <1>12
  <2>2. Choice(i)[1] \in Int /\ Choice(j)[1] \in Int /\ Choice(i)[1] # Choice(j)[1]
    BY <1>3, <1>4, <1>8, <2>1
  <2>3. Choice(i)[1] = key[Choice(i)[2]] /\ Choice(j)[1] = key[Choice(j)[2]]
    BY <1>3, <1>8
  <2> QED BY <2>1, <2>2, <2>3
<1> QED BY <1>6, <1>9, <1>10, <1>11, <1>12 DEF Range, IsInjective

=============================================================================
