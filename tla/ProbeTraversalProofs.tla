------------------------ MODULE ProbeTraversalProofs ------------------------
(***************************************************************************)
(* Proofs about ProbeTraversal, for any modules, however many objects they *)
(* have and however these are connected, and any limits.                   *)
(***************************************************************************)
EXTENDS ProbeTraversal, SortingProofs, SequenceTheorems, WellFoundedInduction, TLAPS

AllBindings ==
    {b \in [owner : Objects, index : Nat, depth : Nat] : b.index \in DOMAIN graph[b.owner]}

TypeOK ==
    /\ graph \in Graphs /\ maximum \in Maxima
    /\ queue \in Seq(AllBindings)
    /\ cursor \in 1..Len(queue) + 1
    /\ truncated \in BOOLEAN /\ done \in BOOLEAN

\* What has been looked at, and the value that a binding has.
Looked == 1..cursor - 1
Value(k) == EntryOf(queue[k]).value

Ended == done /\ ~truncated => cursor = Len(queue) + 1

-----------------------------------------------------------------------------
\* JavaScript: the objects seen are those the bindings looked at have, each binding
\* is of one of them or of the root, whatever is closed has all of them, and without
\* truncation every entry of them is queued.

Closed(S) ==
    Root \in S /\ \A p \in S : Objects \cap {graph[p][i].value : i \in DOMAIN graph[p]} \subseteq S

TsSeen ==
    /\ \A v : v \in seen <=> v \in Objects /\ \E k \in Looked : Value(k) = v
    /\ \A k \in DOMAIN queue : queue[k].owner \in seen \cup {Root}
    /\ \A S \in SUBSET Objects : Closed(S) => seen \subseteq S

TsPrints ==
    \A p : p \in prints <=>
        \E k \in Looked : p = <<queue[k].owner, queue[k].index>> /\ Sensitive(EntryOf(queue[k]))

TsQueued ==
    ~truncated =>
        \A o \in seen \cup {Root} : \A i \in DOMAIN graph[o] :
            \E k \in DOMAIN queue : queue[k].owner = o /\ queue[k].index = i

TsInv == TypeOK /\ Ended /\ TsSeen /\ TsPrints /\ TsQueued

-----------------------------------------------------------------------------
\* Python: the queue is in the order of depth, so that what is passed over was seen
\* no deeper, and whatever was seen has its entries queued one deeper at most.

PySeen == \A v : v \in seen <=> \E k \in Looked : Value(k) = v

PyDepths ==
    /\ \A k, l \in DOMAIN queue : k <= l => queue[k].depth <= queue[l].depth
    /\ \A k, l \in DOMAIN queue : k \notin Looked => queue[l].depth <= queue[k].depth + 1

Queued(o, i, depth) ==
    \E k \in DOMAIN queue : queue[k].owner = o /\ queue[k].index = i /\ queue[k].depth <= depth

PyQueued ==
    /\ \A i \in DOMAIN graph[Root] : Queued(Root, i, 0)
    /\ \A k \in Looked : Value(k) \in Objects /\ queue[k].depth < MaxDepth =>
         \A i \in DOMAIN graph[Value(k)] : i <= MaxKeys => Queued(Value(k), i, queue[k].depth + 1)

PyPrints ==
    \A v \in seen \cap Secrets : \E p \in prints : graph[p[1]][p[2]].value = v

\* The module's own bindings are queued in the order of their names.
PyRoots ==
    \A k, l \in DOMAIN queue : queue[l].depth = 0 /\ k < l =>
        queue[k].owner = Root /\ EntryOf(queue[k]).name < EntryOf(queue[l]).name

\* A sensitive name is printed or its object was looked at before.
PyNames ==
    \A k \in Looked : queue[k].depth = 0 /\ EntryOf(queue[k]).name \in SensitiveNames =>
        \/ <<queue[k].owner, queue[k].index>> \in prints
        \/ \E l \in Looked : l < k /\ Value(l) = Value(k)

PyInv ==
    TypeOK /\ Ended /\ PySeen /\ PyDepths /\ PyQueued /\ PyPrints /\ PyRoots /\ PyNames

-----------------------------------------------------------------------------
\* The queue

\* B lists some entries of an object; r is the queue with such a list at its end.
Lists(B, o, entries, depth) ==
    /\ B \in Seq(AllBindings)
    /\ \A k \in DOMAIN B : B[k].owner = o /\ B[k].index \in entries /\ B[k].depth = depth
    /\ \A i \in entries : \E k \in DOMAIN B : B[k].index = i

InOrder(B, o) ==
    \A k, l \in DOMAIN B : k < l => graph[o][B[k].index].name < graph[o][B[l].index].name

Enqueues(r, o, entries, depth) ==
    /\ r \in Seq(AllBindings) /\ Len(queue) <= Len(r)
    /\ \A k \in DOMAIN queue : k \in DOMAIN r /\ r[k] = queue[k]
    /\ \A k \in DOMAIN r : k \notin DOMAIN queue =>
         r[k].owner = o /\ r[k].index \in entries /\ r[k].depth = depth
    /\ \A i \in entries : \E k \in DOMAIN r :
         r[k].owner = o /\ r[k].index = i /\ r[k].depth = depth

\* What is queued of an object is each of its chosen entries, in the order of names.
LEMMA BindingsListed ==
    ASSUME NEW o \in Objects, NEW E \in SUBSET DOMAIN graph[o], NEW d \in Nat, graph \in Graphs
    PROVE  Lists(Bindings(o, E, d), o, E, d) /\ InOrder(Bindings(o, E, d), o)
<1> DEFINE key == [i \in E |-> graph[o][i].name]
           n == Cardinality(E)
           sorted == Sorted(E, key)
<1>1. /\ DOMAIN graph[o] = 1..Len(graph[o]) /\ Len(graph[o]) \in Nat
      /\ \A i, j \in DOMAIN graph[o] :
           graph[o][i].name \in Nat /\ (graph[o][i].name = graph[o][j].name => i = j)
  BY TraversalAssumption
<1>2. IsFiniteSet(E) /\ n \in Nat
  <2>1. IsFiniteSet(1..Len(graph[o])) /\ E \in SUBSET (1..Len(graph[o]))
    BY <1>1, FS_Interval
  <2> HIDE DEF n
  <2>2. IsFiniteSet(E)
    BY <2>1, FS_Subset
  <2> QED BY <2>2, FS_CardinalityType DEF n
<1>3. /\ \A i \in E : key[i] \in Int
      /\ \A i, j \in E : key[i] = key[j] => i = j
  BY <1>1
<1> HIDE DEF key
<1>4. /\ sorted \in [1..n -> E] /\ Range(sorted) = E
      /\ \A k, l \in 1..n : k < l => key[sorted[k]] < key[sorted[l]]
  BY <1>2, <1>3, SortedOnce
<1> DEFINE B == Bindings(o, E, d)
<1>5. B = [k \in DOMAIN sorted |-> Binding(o, sorted[k], d)]
  BY DEF Bindings, key
<1> HIDE DEF sorted, B
<1>6. /\ DOMAIN B = 1..n
      /\ \A k \in 1..n : B[k] = Binding(o, sorted[k], d) /\ sorted[k] \in E
  BY <1>4, <1>5
<1>7. \A k \in 1..n : B[k] \in AllBindings
  BY <1>1, <1>6 DEF Binding, AllBindings
<1>8. B \in Seq(AllBindings)
  <2>1. B = [k \in 1..n |-> B[k]]
    BY <1>4, <1>5
  <2>2. B \in [1..n -> AllBindings]
    BY <1>7, <2>1
  <2> QED BY <1>2, <2>2, SeqDef
<1>9. \A i \in E : \E k \in DOMAIN B : B[k].index = i
  BY <1>4, <1>6 DEF Range, Binding
<1>10. ASSUME NEW k \in DOMAIN B, NEW l \in DOMAIN B, k < l
       PROVE  graph[o][B[k].index].name < graph[o][B[l].index].name
  <2>1. /\ B[k].index = sorted[k] /\ B[l].index = sorted[l]
        /\ sorted[k] \in E /\ sorted[l] \in E
    BY <1>6 DEF Binding
  <2>2. key[sorted[k]] < key[sorted[l]]
    BY <1>4, <1>6, <1>10
  <2>3. \A i \in E : key[i] = graph[o][i].name
    BY DEF key
  <2> QED BY <2>1, <2>2, <2>3
<1> QED BY <1>6, <1>8, <1>9, <1>10 DEF Binding, Lists, InOrder, B

LEMMA Appended ==
    ASSUME NEW S, NEW q \in Seq(S), NEW s \in Seq(S)
    PROVE  /\ q \o s \in Seq(S) /\ Len(q \o s) = Len(q) + Len(s)
           /\ \A k \in DOMAIN q : k \in DOMAIN (q \o s) /\ (q \o s)[k] = q[k]
           /\ \A k \in DOMAIN s :
                Len(q) + k \in DOMAIN (q \o s) /\ (q \o s)[Len(q) + k] = s[k]
           /\ \A k \in DOMAIN (q \o s) : k \notin DOMAIN q =>
                k - Len(q) \in DOMAIN s /\ (q \o s)[k] = s[k - Len(q)]
<1>1. /\ q \o s \in Seq(S) /\ Len(q \o s) = Len(q) + Len(s)
      /\ Len(q) \in Nat /\ Len(s) \in Nat
      /\ DOMAIN q = 1..Len(q) /\ DOMAIN s = 1..Len(s)
      /\ \A k \in 1..Len(q) + Len(s) : (q \o s)[k] = IF k <= Len(q) THEN q[k] ELSE s[k - Len(q)]
  BY ConcatProperties
<1> DEFINE r == q \o s
<1>2. DOMAIN r = 1..Len(r)
  BY <1>1
<1>3. /\ r \in Seq(S) /\ Len(r) = Len(q) + Len(s)
      /\ \A k \in 1..Len(r) : r[k] = IF k <= Len(q) THEN q[k] ELSE s[k - Len(q)]
  BY <1>1
<1> HIDE DEF r
<1>4. \A k \in DOMAIN q : k \in DOMAIN r /\ r[k] = q[k]
  BY <1>1, <1>2, <1>3
<1>5. \A k \in DOMAIN s : Len(q) + k \in DOMAIN r /\ r[Len(q) + k] = s[k]
  BY <1>1, <1>2, <1>3
<1>6. \A k \in DOMAIN r : k \notin DOMAIN q => k - Len(q) \in DOMAIN s /\ r[k] = s[k - Len(q)]
  BY <1>1, <1>2, <1>3
<1> QED BY <1>3, <1>4, <1>5, <1>6 DEF r

LEMMA Enqueued ==
    ASSUME TypeOK, NEW B, NEW o, NEW E, NEW d, Lists(B, o, E, d)
    PROVE  Enqueues(queue \o B, o, E, d)
<1> DEFINE r == queue \o B
<1>1. /\ B \in Seq(AllBindings)
      /\ \A k \in DOMAIN B : B[k].owner = o /\ B[k].index \in E /\ B[k].depth = d
      /\ \A i \in E : \E k \in DOMAIN B : B[k].index = i
  BY DEF Lists
<1>2. r = queue \o B /\ queue \in Seq(AllBindings)
  BY DEF TypeOK
<1>3. /\ queue \o B \in Seq(AllBindings) /\ Len(queue \o B) = Len(queue) + Len(B)
      /\ \A k \in DOMAIN queue : k \in DOMAIN (queue \o B) /\ (queue \o B)[k] = queue[k]
      /\ \A k \in DOMAIN B :
           Len(queue) + k \in DOMAIN (queue \o B) /\ (queue \o B)[Len(queue) + k] = B[k]
      /\ \A k \in DOMAIN (queue \o B) : k \notin DOMAIN queue =>
           k - Len(queue) \in DOMAIN B /\ (queue \o B)[k] = B[k - Len(queue)]
  BY <1>1, <1>2, Appended
<1> HIDE DEF r
<1>4. Len(queue) \in Nat /\ Len(B) \in Nat
  BY <1>1, <1>2
<1>5. \A k \in DOMAIN B : Len(queue) + k \in DOMAIN r /\ r[Len(queue) + k] = B[k]
  BY <1>2, <1>3
<1>6. \A i \in E : \E k \in DOMAIN r : r[k].owner = o /\ r[k].index = i /\ r[k].depth = d
  <2> SUFFICES ASSUME NEW i \in E
               PROVE  \E k \in DOMAIN r : r[k].owner = o /\ r[k].index = i /\ r[k].depth = d
    OBVIOUS
  <2>1. PICK k \in DOMAIN B : B[k].index = i
    BY <1>1
  <2>2. /\ Len(queue) + k \in DOMAIN r /\ r[Len(queue) + k].owner = o
        /\ r[Len(queue) + k].index = i /\ r[Len(queue) + k].depth = d
    BY <1>1, <1>5, <2>1
  <2> QED BY <2>2
<1> QED BY <1>1, <1>2, <1>3, <1>4, <1>6 DEF Enqueues, r

\* A step looks at one binding more and leaves those that are queued where they are.
LEMMA StepLooks ==
    ASSUME TypeOK, cursor <= Len(queue), cursor' = cursor + 1, UNCHANGED <<graph, maximum, done>>,
           truncated' \in BOOLEAN, NEW o, NEW E, NEW d,
           queue' = queue \/ Enqueues(queue', o, E, d)
    PROVE  /\ TypeOK' /\ cursor \in DOMAIN queue /\ queue[cursor] \in AllBindings
           /\ Looked \subseteq DOMAIN queue /\ Looked' = Looked \cup {cursor}
           /\ cursor \notin Looked
           /\ \A k \in DOMAIN queue : k \in DOMAIN queue' /\ queue'[k] = queue[k]
                                      /\ EntryOf(queue[k])' = EntryOf(queue[k])
                                      /\ Value(k)' = Value(k)
<1>1. /\ DOMAIN queue = 1..Len(queue) /\ Len(queue) \in Nat /\ cursor \in 1..Len(queue)
      /\ \A k \in DOMAIN queue : queue[k] \in AllBindings
  BY DEF TypeOK
<1>2. /\ queue' \in Seq(AllBindings) /\ Len(queue) <= Len(queue') /\ Len(queue') \in Nat
      /\ \A k \in DOMAIN queue : k \in DOMAIN queue' /\ queue'[k] = queue[k]
  BY <1>1 DEF TypeOK, Enqueues
<1>3. AllBindings' = AllBindings
  BY DEF AllBindings
<1>4. TypeOK'
  BY <1>1, <1>2, <1>3 DEF TypeOK
<1>5. Looked \subseteq DOMAIN queue /\ Looked' = Looked \cup {cursor} /\ cursor \notin Looked
  BY <1>1 DEF Looked
<1>6. \A k \in DOMAIN queue : /\ EntryOf(queue[k])' = EntryOf(queue[k])
                              /\ Value(k)' = Value(k)
  BY <1>2 DEF EntryOf, Value
<1> QED BY <1>1, <1>2, <1>4, <1>5, <1>6

-----------------------------------------------------------------------------
\* JavaScript

TsEntries(o) == {i \in DOMAIN graph[o] : i <= Limit(queue) /\ graph[o][i].value # Unreadable}

LEMMA TsStepEnqueues ==
    ASSUME TypeOK, NEW o \in Objects, NEW d \in Nat
    PROVE  Enqueues(TsEnqueue(o, d, queue), o, TsEntries(o), d)
<1>1. graph \in Graphs /\ TsEntries(o) \in SUBSET DOMAIN graph[o]
  BY DEF TypeOK, TsEntries
<1>2. Lists(Bindings(o, TsEntries(o), d), o, TsEntries(o), d)
  BY <1>1, BindingsListed
<1>3. Enqueues(queue \o Bindings(o, TsEntries(o), d), o, TsEntries(o), d)
  BY <1>2, Enqueued
<1> QED BY <1>3 DEF TsEnqueue, TsEntries

\* What does not truncate queues every entry.
LEMMA TsAllEntries ==
    ASSUME graph \in Graphs, NEW o \in Objects, ~TsTruncates(o, queue), Limit(queue) \in Int
    PROVE  TsEntries(o) = DOMAIN graph[o]
<1>1. DOMAIN graph[o] = 1..Len(graph[o]) /\ Len(graph[o]) \in Nat
  BY TraversalAssumption
<1>2. Len(graph[o]) <= Limit(queue)
  BY <1>1 DEF TsTruncates
<1>3. \A i \in DOMAIN graph[o] : i <= Limit(queue)
  BY <1>1, <1>2
<1> QED BY <1>3 DEF TsEntries, TsTruncates

\* A value that is seen for the first time is an object of a closed set, since the
\* binding it was found by is; its entries are queued, or the result is truncated.
LEMMA TsStepInv == TsInv /\ TsStep => TsInv'
<1> SUFFICES ASSUME TsInv, TsStep PROVE TsInv'
  OBVIOUS
<1> DEFINE b == queue[cursor]
           value == Value(cursor)
           expands == value \in Objects \ seen
<1>1. /\ TypeOK /\ cursor <= Len(queue) /\ cursor' = cursor + 1
      /\ UNCHANGED <<graph, maximum, done>> /\ truncated' \in BOOLEAN
      /\ prints' = IF Sensitive(EntryOf(b)) THEN prints \cup {<<b.owner, b.index>>} ELSE prints
      /\ seen' = IF value \in Objects THEN seen \cup {value} ELSE seen
      /\ IF expands /\ b.depth < MaxDepth
         THEN /\ queue' = TsEnqueue(value, b.depth + 1, queue)
              /\ truncated' = (truncated \/ TsTruncates(value, queue))
         ELSE queue' = queue /\ (expands => truncated') /\ (truncated => truncated')
  BY DEF TsInv, TypeOK, TsStep, Value, input
<1> HIDE DEF value
<1>2. b \in AllBindings
  BY <1>1 DEF TypeOK
<1>3. b.owner \in Objects /\ b.index \in DOMAIN graph[b.owner] /\ b.depth \in Nat
  BY <1>2 DEF AllBindings
<1>4. PICK d \in Nat : d = b.depth + 1
  BY <1>3
<1>5. \/ queue' = queue /\ ~(expands /\ b.depth < MaxDepth)
      \/ Enqueues(queue', value, TsEntries(value), d) /\ expands /\ b.depth < MaxDepth
  BY <1>1, <1>4, TsStepEnqueues
<1>6. /\ TypeOK' /\ cursor \in DOMAIN queue
      /\ Looked \subseteq DOMAIN queue /\ Looked' = Looked \cup {cursor} /\ cursor \notin Looked
      /\ \A k \in DOMAIN queue : k \in DOMAIN queue' /\ queue'[k] = queue[k]
                                 /\ EntryOf(queue[k])' = EntryOf(queue[k])
                                 /\ Value(k)' = Value(k)
  BY <1>1, <1>5, StepLooks
<1>7. Ended'
  BY <1>1, <1>6 DEF TsInv, Ended, TypeOK
<1>8. TsSeen'
  <2>1. \A v : (v \in seen <=> v \in Objects /\ \E k \in Looked : Value(k) = v)'
    <3>1. \A v : v \in seen' <=> v \in Objects /\ (v = value \/ \E k \in Looked : Value(k) = v)
      BY <1>1 DEF TsInv, TsSeen
    <3>2. \A v : (\E k \in Looked' : Value(k)' = v) <=> v = value \/ \E k \in Looked : Value(k) = v
      BY <1>6 DEF value
    <3> QED BY <3>1, <3>2
  <2>2. \A k \in DOMAIN queue' : queue'[k].owner \in seen' \cup {Root}
    <3> SUFFICES ASSUME NEW k \in DOMAIN queue' PROVE queue'[k].owner \in seen' \cup {Root}
      OBVIOUS
    <3>1. CASE k \in DOMAIN queue
      BY <1>1, <1>6, <3>1 DEF TsInv, TsSeen
    <3>2. CASE k \notin DOMAIN queue
      BY <1>1, <1>5, <3>2 DEF Enqueues
    <3> QED BY <3>1, <3>2
  <2>3. ASSUME NEW S \in SUBSET Objects, Closed(S)' PROVE seen' \subseteq S
    <3>1. Closed(S)
      BY <1>1, <2>3 DEF Closed
    <3>2. seen \subseteq S /\ Root \in S
      BY <3>1 DEF TsInv, TsSeen, Closed
    <3>3. b.owner \in S
      BY <1>6, <3>2 DEF TsInv, TsSeen
    <3>4. value \in Objects => value \in S
      BY <1>3, <3>1, <3>3 DEF Closed, value, Value, EntryOf
    <3> QED BY <1>1, <3>2, <3>4
  <2> QED BY <2>1, <2>2, <2>3 DEF TsSeen
<1>9. TsPrints'
  <2> SUFFICES ASSUME NEW p
               PROVE  p \in prints' <=>
                        \E k \in Looked' : /\ p = <<queue'[k].owner, queue'[k].index>>
                                           /\ Sensitive(EntryOf(queue[k])')
    BY <1>6 DEF TsPrints, Sensitive, EntryOf
  <2>1. p \in prints' <=> \/ p \in prints
                          \/ p = <<b.owner, b.index>> /\ Sensitive(EntryOf(b))
    BY <1>1
  <2>2. (\E k \in Looked' : /\ p = <<queue'[k].owner, queue'[k].index>>
                            /\ Sensitive(EntryOf(queue[k])'))
          <=> \/ \E k \in Looked : /\ p = <<queue[k].owner, queue[k].index>>
                                   /\ Sensitive(EntryOf(queue[k]))
              \/ p = <<b.owner, b.index>> /\ Sensitive(EntryOf(b))
    BY <1>6
  <2>3. p \in prints <=> \E k \in Looked : /\ p = <<queue[k].owner, queue[k].index>>
                                           /\ Sensitive(EntryOf(queue[k]))
    BY DEF TsInv, TsPrints
  <2> QED BY <2>1, <2>2, <2>3
<1>10. TsQueued'
  <2> SUFFICES ASSUME ~truncated', NEW o \in seen' \cup {Root}, NEW i \in DOMAIN graph[o]
               PROVE  \E k \in DOMAIN queue' : queue'[k].owner = o /\ queue'[k].index = i
    BY <1>1 DEF TsQueued
  <2>1. CASE o \in seen \cup {Root}
    <3>1. PICK k \in DOMAIN queue : queue[k].owner = o /\ queue[k].index = i
      BY <1>1, <2>1 DEF TsInv, TsQueued
    <3> QED BY <1>6, <3>1
  <2>2. CASE o \notin seen \cup {Root}
    <3>1. o = value /\ expands /\ b.depth < MaxDepth /\ ~TsTruncates(value, queue)
      BY <1>1, <2>2
    <3>2. Limit(queue) \in Int /\ graph \in Graphs
      BY <1>1, TraversalAssumption DEF TypeOK, Limit, Lesser
    <3>3. TsEntries(value) = DOMAIN graph[value]
      BY <3>1, <3>2, TsAllEntries
    <3> QED BY <1>5, <3>1, <3>3 DEF Enqueues
  <2> QED BY <2>1, <2>2
<1> QED BY <1>6, <1>7, <1>8, <1>9, <1>10 DEF TsInv

LEMMA TsInitInv == Init /\ runtime = "typescript" => TsInv
<1> SUFFICES ASSUME Init, runtime = "typescript" PROVE TsInv
  OBVIOUS
<1>1. /\ graph \in Graphs /\ maximum \in Maxima /\ cursor = 1 /\ seen = {} /\ prints = {}
      /\ done = FALSE /\ truncated \in BOOLEAN
      /\ truncated <=> TsTruncates(Root, <<>>)
      /\ queue = TsEnqueue(Root, 0, <<>>) /\ Root \in Objects
  <2>1. truncated \in BOOLEAN /\ (truncated <=> TsTruncates(Root, <<>>))
    BY Zenon DEF Init
  <2> QED BY <2>1, TraversalAssumption DEF Init
<1> DEFINE n == Limit(<<>>)
           E == {i \in DOMAIN graph[Root] : i <= n /\ graph[Root][i].value # Unreadable}
           B == Bindings(Root, E, 0)
<1>2. Lists(B, Root, E, 0)
  <2> HIDE DEF n
  <2>1. E \in SUBSET DOMAIN graph[Root]
    OBVIOUS
  <2> HIDE DEF E
  <2> QED BY <1>1, <2>1, BindingsListed
<1>3. queue = <<>> \o B
  BY <1>1 DEF TsEnqueue
<1> HIDE DEF B
<1>4. queue = B
  BY <1>2, <1>3, ConcatEmptySeq DEF Lists
<1>5. TypeOK
  <2>1. queue \in Seq(AllBindings)
    BY <1>2, <1>4 DEF Lists
  <2>2. Len(queue) \in Nat
    BY <2>1
  <2>3. cursor \in 1..Len(queue) + 1
    BY <1>1, <2>2
  <2>4. truncated \in BOOLEAN /\ done \in BOOLEAN
    BY <1>1, Zenon
  <2> QED BY <1>1, <2>1, <2>3, <2>4, Zenon DEF TypeOK
<1>6. Looked = {}
  BY <1>1 DEF Looked
<1>7. Ended /\ TsSeen /\ TsPrints
  BY <1>1, <1>2, <1>4, <1>6 DEF Ended, TsSeen, TsPrints, Lists
<1>8. TsQueued
  <2> SUFFICES ASSUME ~TsTruncates(Root, <<>>), NEW i \in DOMAIN graph[Root]
               PROVE  \E k \in DOMAIN queue : queue[k].owner = Root /\ queue[k].index = i
    BY <1>1 DEF TsQueued
  <2>1. DOMAIN graph[Root] = 1..Len(graph[Root]) /\ Len(graph[Root]) \in Nat
    BY <1>1, TraversalAssumption
  <2>2. n \in Int
    BY <1>1, TraversalAssumption DEF Limit, Lesser
  <2>3. Len(graph[Root]) <= n
    BY <2>1, <2>2 DEF TsTruncates
  <2>4. i <= n
    <3> HIDE DEF n
    <3> QED BY <2>1, <2>2, <2>3
  <2>5. i \in E
    BY <2>4 DEF TsTruncates
  <2> HIDE DEF E
  <2> QED BY <1>2, <1>4, <2>5 DEF Lists
<1> QED BY <1>5, <1>7, <1>8 DEF TsInv

LEMMA TsReturnInv == TsInv /\ runtime = "typescript" /\ Return => TsInv'
<1> SUFFICES ASSUME TsInv, runtime = "typescript", Return PROVE TsInv'
  OBVIOUS
<1>1. /\ UNCHANGED <<graph, maximum, queue, cursor, seen, prints, truncated>> /\ done' = TRUE
      /\ cursor > Len(queue)
  BY DEF Return, input
<1>2. TypeOK' /\ Ended'
  BY <1>1 DEF TsInv, TypeOK, AllBindings, Ended
<1>3. TsSeen'
  BY <1>1 DEF TsInv, TsSeen, Looked, Value, EntryOf, Closed
<1>4. TsPrints' /\ TsQueued'
  BY <1>1 DEF TsInv, TsPrints, TsQueued, Looked, EntryOf, Sensitive
<1> QED BY <1>2, <1>3, <1>4 DEF TsInv

\* When every binding has been looked at, the root and what was seen are closed.
LEMMA TsInvImplies == TsInv => UntruncatedMissesNothing
<1> SUFFICES ASSUME TsInv, done, ~truncated
             PROVE  prints = UNION {{<<o, i>> : i \in {j \in DOMAIN graph[o] :
                                        Sensitive(graph[o][j])}} : o \in Reachable}
  BY DEF UntruncatedMissesNothing
<1> DEFINE R == seen \cup {Root}
<1>1. DOMAIN queue = Looked
  BY DEF TsInv, TypeOK, Ended, Looked
<1>2. \A o \in R : \A i \in DOMAIN graph[o] :
        \E k \in Looked : queue[k].owner = o /\ queue[k].index = i
  BY <1>1 DEF TsInv, TsQueued
<1>3. R \in SUBSET Objects
  BY TraversalAssumption DEF TsInv, TsSeen
<1>4. Closed(R)
  <2> SUFFICES ASSUME NEW o \in R, NEW i \in DOMAIN graph[o], graph[o][i].value \in Objects
               PROVE  graph[o][i].value \in seen
    BY DEF Closed
  <2>1. PICK k \in Looked : queue[k].owner = o /\ queue[k].index = i
    BY <1>2
  <2> QED BY <2>1 DEF TsInv, TsSeen, Value, EntryOf
<1>5. Reachable = R
  <2>1. Reachable = {o \in Objects : \A S \in SUBSET Objects : Closed(S) => o \in S}
    BY Zenon DEF Reachable, Closed
  <2>2. \A o \in Reachable : o \in R
    BY <1>3, <1>4, <2>1
  <2>3. \A S \in SUBSET Objects : Closed(S) => R \subseteq S
    BY DEF TsInv, TsSeen, Closed
  <2>4. \A o \in R : o \in Reachable
    BY <1>3, <2>1, <2>3
  <2> QED BY <2>2, <2>4
<1>6. \A k \in Looked : queue[k].owner \in R /\ queue[k].index \in DOMAIN graph[queue[k].owner]
  BY <1>1 DEF TsInv, TsSeen, TypeOK, AllBindings
<1> HIDE DEF R
<1>7. ASSUME NEW p
      PROVE  p \in prints <=> \E o \in R : \E i \in DOMAIN graph[o] :
                                Sensitive(graph[o][i]) /\ p = <<o, i>>
  <2>1. p \in prints <=> \E k \in Looked : /\ p = <<queue[k].owner, queue[k].index>>
                                           /\ Sensitive(graph[queue[k].owner][queue[k].index])
    BY DEF TsInv, TsPrints, EntryOf
  <2>2. ASSUME NEW o \in R, NEW i \in DOMAIN graph[o], Sensitive(graph[o][i]), p = <<o, i>>
        PROVE  p \in prints
    <3>1. PICK k \in Looked : queue[k].owner = o /\ queue[k].index = i
      BY <1>2
    <3> QED BY <2>1, <2>2, <3>1
  <2> QED BY <1>6, <2>1, <2>2
<1> QED BY <1>5, <1>7

-----------------------------------------------------------------------------
\* Python

PyEntries(o) == 1..Lesser(MaxKeys, Len(graph[o]))

LEMMA PyStepEnqueues ==
    ASSUME TypeOK, NEW o \in Objects, NEW d \in Nat
    PROVE  /\ Enqueues(PyEnqueue(o, d, queue), o, PyEntries(o), d)
           /\ \A i \in DOMAIN graph[o] : i <= MaxKeys => i \in PyEntries(o)
<1> DEFINE n == Lesser(MaxKeys, Len(graph[o]))
           B == [k \in 1..n |-> Binding(o, k, d)]
<1>1. DOMAIN graph[o] = 1..Len(graph[o]) /\ Len(graph[o]) \in Nat /\ MaxKeys \in Nat
  BY TraversalAssumption DEF TypeOK
<1>2. n \in Nat /\ n <= Len(graph[o]) /\ \A i \in DOMAIN graph[o] : i <= MaxKeys => i \in 1..n
  BY <1>1 DEF Lesser
<1> HIDE DEF n
<1>3. \A k \in 1..n : Binding(o, k, d) \in AllBindings
  BY <1>1, <1>2 DEF Binding, AllBindings
<1>4. B \in [1..n -> AllBindings]
  BY <1>3
<1>5. B \in Seq(AllBindings)
  BY <1>2, <1>4, SeqDef
<1>6. Lists(B, o, 1..n, d)
  BY <1>5 DEF Lists, Binding
<1>7. Enqueues(queue \o B, o, 1..n, d)
  <2> HIDE DEF B
  <2> QED BY <1>6, Enqueued
<1> QED BY <1>2, <1>7 DEF PyEnqueue, PyEntries, n

\* What is queued is one deeper than the binding looked at, and that is as deep as any
\* left behind it: the order of depth stays.  A value passed over was seen before, at a
\* binding no deeper, and has its entries queued.
LEMMA PyStepInv == PyInv /\ PyStep => PyInv'
<1> SUFFICES ASSUME PyInv, PyStep PROVE PyInv'
  OBVIOUS
<1> DEFINE b == queue[cursor]
           value == Value(cursor)
           expands == value \in Objects \ seen /\ b.depth < MaxDepth
<1>1. /\ TypeOK /\ cursor <= Len(queue) /\ cursor' = cursor + 1
      /\ UNCHANGED <<graph, maximum, done>> /\ UNCHANGED truncated /\ truncated \in BOOLEAN
      /\ seen' = seen \cup {value} /\ prints \subseteq prints'
      /\ value \in Secrets \ seen => <<b.owner, b.index>> \in prints'
      /\ value \notin seen /\ b.depth = 0 /\ EntryOf(b).name \in SensitiveNames
           => <<b.owner, b.index>> \in prints'
      /\ queue' = IF expands THEN PyEnqueue(value, b.depth + 1, queue) ELSE queue
  <2>1. TypeOK /\ Len(queue) \in Nat /\ maximum \in Nat /\ truncated \in BOOLEAN
    BY TraversalAssumption DEF PyInv, TypeOK
  <2>2. cursor <= Lesser(maximum, Len(queue)) /\ cursor \in Nat
    BY <2>1 DEF PyStep, TypeOK
  <2>3. cursor <= Len(queue)
    BY <2>1, <2>2 DEF Lesser
  <2> QED BY <2>1, <2>3 DEF PyStep, Value, input
<1> HIDE DEF value
<1>2. /\ b.owner \in Objects /\ b.index \in DOMAIN graph[b.owner] /\ b.depth \in Nat
      /\ \A k \in DOMAIN queue : queue[k].depth \in Nat
  BY <1>1 DEF TypeOK, AllBindings
<1>3. PICK d \in Nat : d = b.depth + 1
  BY <1>2
<1>4. \/ queue' = queue /\ ~expands
      \/ Enqueues(queue', value, PyEntries(value), d) /\ expands
  BY <1>1, <1>3, PyStepEnqueues
<1>5. /\ TypeOK' /\ cursor \in DOMAIN queue
      /\ Looked \subseteq DOMAIN queue /\ Looked' = Looked \cup {cursor} /\ cursor \notin Looked
      /\ \A k \in DOMAIN queue : k \in DOMAIN queue' /\ queue'[k] = queue[k]
                                 /\ EntryOf(queue[k])' = EntryOf(queue[k])
                                 /\ Value(k)' = Value(k)
  BY <1>1, <1>4, StepLooks
<1>6. Ended'
  BY <1>1, <1>5 DEF PyInv, Ended, TypeOK
<1>7. PySeen'
  <2>1. \A v : v \in seen' <=> v = value \/ \E k \in Looked : Value(k) = v
    BY <1>1 DEF PyInv, PySeen
  <2>2. \A v : (\E k \in Looked' : Value(k)' = v) <=> v = value \/ \E k \in Looked : Value(k) = v
    BY <1>5 DEF value
  <2> QED BY <2>1, <2>2 DEF PySeen
<1>8. PyDepths'
  <2>1. /\ DOMAIN queue = 1..Len(queue) /\ DOMAIN queue' = 1..Len(queue')
        /\ Len(queue) \in Nat /\ Len(queue') \in Nat /\ Looked = 1..cursor - 1
        /\ cursor \in 1..Len(queue)
    BY <1>1, <1>5 DEF TypeOK, Looked
  <2>2. \A k \in DOMAIN queue' : k \notin DOMAIN queue => queue'[k].depth = b.depth + 1
    BY <1>3, <1>4 DEF Enqueues
  <2>3. /\ \A k \in DOMAIN queue : queue[k].depth <= b.depth + 1
        /\ \A k \in DOMAIN queue : k \notin Looked => b.depth <= queue[k].depth
    BY <1>5, <2>1 DEF PyInv, PyDepths
  <2>4. ASSUME NEW k \in DOMAIN queue', NEW l \in DOMAIN queue', k <= l
        PROVE  queue'[k].depth <= queue'[l].depth
    <3>1. CASE k \in DOMAIN queue /\ l \in DOMAIN queue
      BY <1>5, <2>4, <3>1 DEF PyInv, PyDepths
    <3>2. CASE k \in DOMAIN queue /\ l \notin DOMAIN queue
      BY <1>2, <1>5, <2>2, <2>3, <3>2
    <3>3. CASE k \notin DOMAIN queue
      <4>1. l \notin DOMAIN queue
        BY <2>1, <2>4, <3>3
      <4> QED BY <1>2, <2>2, <3>3, <4>1
    <3> QED BY <3>1, <3>2, <3>3
  <2>5. ASSUME NEW k \in DOMAIN queue', NEW l \in DOMAIN queue', k \notin Looked'
        PROVE  queue'[l].depth <= queue'[k].depth + 1
    <3>1. queue'[l].depth <= b.depth + 1
      BY <1>2, <1>5, <2>2, <2>3
    <3>2. b.depth <= queue'[k].depth /\ queue'[k].depth \in Nat
      BY <1>2, <1>5, <2>2, <2>3, <2>5
    <3>3. queue'[l].depth \in Nat
      BY <1>2, <1>5, <2>2
    <3> QED BY <1>2, <3>1, <3>2, <3>3
  <2> QED BY <2>4, <2>5 DEF PyDepths
<1>9. ASSUME NEW o, NEW i, NEW e \in Nat, Queued(o, i, e) PROVE Queued(o, i, e)'
  BY <1>5, <1>9 DEF Queued
<1>10. PyQueued'
  <2>1. \A i \in DOMAIN graph'[Root] : Queued(Root, i, 0)'
    BY <1>1, <1>9 DEF PyInv, PyQueued
  <2>2. ASSUME NEW k \in Looked', NEW o \in Objects, o = Value(k)',
               NEW e, e = queue'[k].depth, e < MaxDepth, NEW i \in DOMAIN graph[o], i <= MaxKeys
        PROVE  Queued(o, i, e + 1)'
    <3>1. k \in DOMAIN queue /\ o = Value(k) /\ e = queue[k].depth /\ e \in Nat
      BY <1>2, <1>5, <2>2
    <3>2. CASE k \in Looked
      <4>1. Queued(o, i, e + 1)
        BY <2>2, <3>1, <3>2 DEF PyInv, PyQueued
      <4> QED BY <1>9, <3>1, <4>1
    <3>3. CASE k = cursor /\ expands
      <4>1. i \in PyEntries(o) /\ o = value
        BY <1>1, <1>3, <2>2, <3>1, <3>3, PyStepEnqueues DEF value
      <4>2. PICK l \in DOMAIN queue' :
              queue'[l].owner = o /\ queue'[l].index = i /\ queue'[l].depth = d
        BY <1>4, <3>3, <4>1 DEF Enqueues
      <4> QED BY <1>3, <3>1, <3>3, <4>2 DEF Queued
    <3>4. CASE k = cursor /\ ~expands
      <4>1. o \in seen
        BY <2>2, <3>1, <3>4 DEF value
      <4>2. PICK l \in Looked : Value(l) = o
        BY <4>1 DEF PyInv, PySeen
      <4>3. queue[l].depth <= e /\ queue[l].depth \in Nat
        <5>1. l \in DOMAIN queue /\ l <= cursor /\ cursor \in DOMAIN queue
          BY <1>1, <1>5 DEF Looked, TypeOK
        <5> QED BY <1>2, <3>1, <3>4, <5>1 DEF PyInv, PyDepths
      <4>4. queue[l].depth < MaxDepth
        BY <2>2, <3>1, <4>3, TraversalAssumption
      <4>5. Queued(o, i, queue[l].depth + 1)
        BY <2>2, <4>2, <4>4 DEF PyInv, PyQueued
      <4>6. Queued(o, i, e + 1)
        BY <1>2, <3>1, <4>3, <4>5 DEF Queued
      <4> QED BY <1>9, <3>1, <4>6
    <3> QED BY <1>5, <3>2, <3>3, <3>4
  <2> QED BY <1>1, <2>1, <2>2 DEF PyQueued
<1>11. PyPrints'
  <2> SUFFICES ASSUME NEW v \in seen' \cap Secrets
               PROVE  \E p \in prints' : graph[p[1]][p[2]].value = v
    BY <1>1 DEF PyPrints
  <2>1. CASE v \in seen
    BY <1>1, <2>1 DEF PyInv, PyPrints
  <2>2. CASE v \notin seen
    <3>1. v = value /\ <<b.owner, b.index>> \in prints'
      BY <1>1, <2>2
    <3>2. graph[b.owner][b.index].value = value
      BY DEF value, Value, EntryOf
    <3> QED BY <3>1, <3>2
  <2> QED BY <2>1, <2>2
<1>12. PyRoots'
  <2>1. /\ DOMAIN queue = 1..Len(queue) /\ DOMAIN queue' = 1..Len(queue')
        /\ Len(queue) \in Nat /\ Len(queue') \in Nat
    BY <1>1, <1>5 DEF TypeOK
  <2>2. \A k \in DOMAIN queue' : k \notin DOMAIN queue => queue'[k].depth # 0
    BY <1>2, <1>3, <1>4 DEF Enqueues
  <2> SUFFICES ASSUME NEW k \in DOMAIN queue', NEW l \in DOMAIN queue',
                      queue'[l].depth = 0, k < l
               PROVE  /\ queue'[k].owner = Root
                      /\ EntryOf(queue[k])'.name < EntryOf(queue[l])'.name
    BY DEF PyRoots
  <2>3. l \in DOMAIN queue /\ k \in DOMAIN queue
    BY <2>1, <2>2
  <2> QED BY <1>5, <2>3 DEF PyInv, PyRoots
<1>13. PyNames'
  <2>1. Looked = 1..cursor - 1 /\ cursor \in Nat
    BY <1>1 DEF TypeOK, Looked
  <2> SUFFICES ASSUME NEW k \in Looked', queue'[k].depth = 0,
                      EntryOf(queue[k])'.name \in SensitiveNames,
                      <<queue'[k].owner, queue'[k].index>> \notin prints'
               PROVE  \E l \in Looked' : l < k /\ Value(l)' = Value(k)'
    BY DEF PyNames
  <2>2. k \in DOMAIN queue /\ queue'[k] = queue[k] /\ EntryOf(queue[k])' = EntryOf(queue[k])
    BY <1>5
  <2>3. CASE k \in Looked
    <3>1. PICK l \in Looked : l < k /\ Value(l) = Value(k)
      BY <1>1, <2>2, <2>3 DEF PyInv, PyNames
    <3> QED BY <1>5, <2>2, <3>1
  <2>4. CASE k = cursor
    <3>1. value \in seen
      BY <1>1, <2>2, <2>4
    <3>2. PICK l \in Looked : Value(l) = value
      BY <3>1 DEF PyInv, PySeen
    <3>3. l < k
      BY <2>1, <2>4
    <3> QED BY <1>5, <2>2, <2>4, <3>2, <3>3 DEF value
  <2> QED BY <1>5, <2>3, <2>4
<1> QED BY <1>5, <1>6, <1>7, <1>8, <1>10, <1>11, <1>12, <1>13 DEF PyInv

LEMMA PyInitInv == Init /\ runtime = "python" => PyInv
<1> SUFFICES ASSUME Init, runtime = "python" PROVE PyInv
  OBVIOUS
<1>1. /\ graph \in Graphs /\ maximum \in Maxima /\ cursor = 1 /\ seen = {} /\ prints = {}
      /\ queue = Bindings(Root, DOMAIN graph[Root], 0) /\ Root \in Objects
  BY TraversalAssumption DEF Init
<1>2. done = FALSE /\ truncated = FALSE
  BY Zenon DEF Init
<1>3. Lists(queue, Root, DOMAIN graph[Root], 0) /\ InOrder(queue, Root)
  <2> DEFINE E == DOMAIN graph[Root]
  <2>1. E \in SUBSET DOMAIN graph[Root]
    OBVIOUS
  <2> HIDE DEF E
  <2>2. Lists(Bindings(Root, E, 0), Root, E, 0) /\ InOrder(Bindings(Root, E, 0), Root)
    BY <1>1, <2>1, BindingsListed
  <2> QED BY <1>1, <2>2 DEF E
<1>4. queue \in Seq(AllBindings) /\ Len(queue) \in Nat
  BY <1>3 DEF Lists
<1>5. TypeOK /\ Ended
  <2>1. cursor \in 1..Len(queue) + 1
    BY <1>1, <1>4
  <2> QED BY <1>1, <1>2, <1>4, <2>1, Zenon DEF TypeOK, Ended
<1>6. Looked = {}
  BY <1>1 DEF Looked
<1>7. PySeen /\ PyPrints /\ PyNames
  BY <1>1, <1>6 DEF PySeen, PyPrints, PyNames
<1>8. PyDepths
  BY <1>3 DEF PyDepths, Lists
<1>9. PyQueued
  BY <1>3, <1>6 DEF PyQueued, Queued, Lists
<1>10. PyRoots
  <2> SUFFICES ASSUME NEW k \in DOMAIN queue, NEW l \in DOMAIN queue, k < l
               PROVE  queue[k].owner = Root /\ EntryOf(queue[k]).name < EntryOf(queue[l]).name
    BY DEF PyRoots
  <2>1. queue[k].owner = Root /\ queue[l].owner = Root
    BY <1>3 DEF Lists
  <2>2. graph[Root][queue[k].index].name < graph[Root][queue[l].index].name
    BY <1>3 DEF InOrder
  <2> QED BY <2>1, <2>2 DEF EntryOf
<1> QED BY <1>5, <1>7, <1>8, <1>9, <1>10 DEF PyInv

LEMMA PyReturnInv == PyInv /\ runtime = "python" /\ Return => PyInv'
<1> SUFFICES ASSUME PyInv, runtime = "python", Return PROVE PyInv'
  OBVIOUS
<1>1. /\ UNCHANGED <<graph, maximum, queue, cursor, seen, prints>> /\ done' = TRUE
      /\ truncated' = (cursor <= Len(queue))
  BY DEF Return, input
<1>2. TypeOK' /\ Ended'
  <2>1. Len(queue) \in Nat /\ cursor \in 1..Len(queue) + 1
    BY DEF PyInv, TypeOK
  <2>2. CASE cursor <= Len(queue)
    <3>1. truncated' = TRUE /\ done' = TRUE
      BY <1>1, <2>2, Zenon
    <3>2. truncated' \in BOOLEAN /\ done' \in BOOLEAN
      BY <3>1, Zenon
    <3>3. Ended'
      BY <3>1, Zenon DEF Ended
    <3> QED BY <1>1, <3>2, <3>3 DEF PyInv, TypeOK, AllBindings
  <2>3. CASE ~(cursor <= Len(queue))
    <3>0. (cursor <= Len(queue)) = FALSE
      BY <2>3
    <3>1. truncated' = FALSE /\ done' = TRUE
      BY <1>1, <3>0, Zenon
    <3>2. truncated' \in BOOLEAN /\ done' \in BOOLEAN
      BY <3>1, Zenon
    <3>3. cursor' = Len(queue') + 1
      BY <1>1, <2>1, <2>3
    <3>4. Ended'
      BY <3>3, Zenon DEF Ended
    <3> QED BY <1>1, <3>2, <3>4 DEF PyInv, TypeOK, AllBindings
  <2> QED BY <2>2, <2>3
<1>3. (PySeen /\ PyDepths /\ PyQueued /\ PyPrints /\ PyRoots /\ PyNames)'
  BY <1>1 DEF PyInv, PySeen, PyDepths, PyQueued, PyPrints, PyRoots, PyNames, Queued, Looked,
              Value, EntryOf
<1> QED BY <1>2, <1>3 DEF PyInv

\* What is in a set of numbers from 0 to n if its successor is, is there throughout.
LEMMA Induction ==
    ASSUME NEW n \in Nat, NEW T, 0 \in T, \A k \in 0..n : k \in T /\ k + 1 <= n => k + 1 \in T
    PROVE  0..n \subseteq T
<1> DEFINE Less == {ss \in Nat \X Nat : ss[1] < ss[2]}
           U == {k \in 0..n : k \notin T}
<1>1. IsWellFoundedOn(Less, Nat)
  BY NatLessThanWellFounded DEF OpToRel
<1> SUFFICES ASSUME U # {} PROVE FALSE
  OBVIOUS
<1>2. U \subseteq Nat
  OBVIOUS
<1>3. PICK m \in U : \A k \in U : ~(<<k, m>> \in Less)
  <2> HIDE DEF U, Less
  <2> QED BY <1>1, <1>2, WFMin
<1>4. m \in 0..n /\ m \notin T /\ m # 0 /\ m - 1 \in 0..n
  BY <1>3
<1>5. m - 1 \in T
  <2>1. <<m - 1, m>> \in Less
    BY <1>4
  <2> QED BY <1>3, <1>4, <2>1
<1>6. (m - 1) + 1 \in T /\ (m - 1) + 1 = m
  BY <1>4, <1>5
<1> QED BY <1>4, <1>6

\* Round by round, what a chain leads to is queued no deeper than the chain is long.
LEMMA PyFindsValues == PyInv /\ done /\ ~truncated => SecretValuesFound
<1> SUFFICES ASSUME PyInv, done, ~truncated, NEW n \in 0..MaxDepth, NEW chain \in Chains(n),
                    NEW i \in WithinKeys(chain[n]), graph[chain[n]][i].value \in Secrets
             PROVE  \E p \in prints : graph[p[1]][p[2]].value = graph[chain[n]][i].value
  BY DEF SecretValuesFound
<1>1. n \in Nat /\ MaxDepth \in Nat /\ MaxKeys \in Nat /\ n <= MaxDepth
  BY TraversalAssumption
<1>2. /\ chain \in [0..n -> Objects] /\ chain[0] = Root
      /\ \A k \in 1..n : \E j \in WithinKeys(chain[k - 1]) :
           graph[chain[k - 1]][j].value = chain[k]
  BY DEF Chains
<1>3. /\ DOMAIN queue = Looked
      /\ \A k \in DOMAIN queue : queue[k].depth \in Nat
      /\ \A k \in DOMAIN queue : Value(k) \in seen
  BY DEF PyInv, TypeOK, AllBindings, Ended, PySeen, Looked
<1> DEFINE T == {k \in 0..n : \A j \in WithinKeys(chain[k]) : Queued(chain[k], j, k)}
<1>4. 0 \in T
  BY <1>1, <1>2 DEF WithinKeys, PyInv, PyQueued
<1>5. ASSUME NEW k \in 0..n, k \in T, k + 1 <= n PROVE k + 1 \in T
  <2>1. k + 1 \in 1..n /\ (k + 1) - 1 = k /\ k < MaxDepth
    BY <1>1, <1>5
  <2>2. PICK j \in WithinKeys(chain[k]) : graph[chain[k]][j].value = chain[k + 1]
    BY <1>2, <2>1
  <2>3. PICK l \in DOMAIN queue : queue[l].owner = chain[k] /\ queue[l].index = j
                                  /\ queue[l].depth <= k
    BY <1>5, <2>2 DEF Queued
  <2>4. Value(l) = chain[k + 1] /\ chain[k + 1] \in Objects
    BY <1>2, <2>1, <2>2, <2>3 DEF Value, EntryOf
  <2>5. queue[l].depth < MaxDepth
    BY <1>1, <1>3, <2>1, <2>3
  <2>6. ASSUME NEW h \in WithinKeys(chain[k + 1]) PROVE Queued(chain[k + 1], h, k + 1)
    <3>1. CASE chain[k + 1] = Root
      <4>1. Queued(Root, h, 0)
        BY <2>6, <3>1 DEF WithinKeys, PyInv, PyQueued
      <4> QED BY <1>3, <2>1, <3>1, <4>1 DEF Queued
    <3>2. CASE chain[k + 1] # Root
      <4>1. h \in DOMAIN graph[chain[k + 1]] /\ h <= MaxKeys
        BY <2>6, <3>2 DEF WithinKeys
      <4>2. Queued(chain[k + 1], h, queue[l].depth + 1)
        BY <1>3, <2>4, <2>5, <4>1 DEF PyInv, PyQueued
      <4>3. queue[l].depth + 1 <= k + 1 /\ queue[l].depth + 1 \in Nat /\ k + 1 \in Nat
        BY <1>3, <2>1, <2>3
      <4> QED BY <1>3, <4>2, <4>3 DEF Queued
    <3> QED BY <3>1, <3>2
  <2> QED BY <2>1, <2>6
<1>6. n \in T
  <2>1. \A k \in 0..n : k \in T /\ k + 1 <= n => k + 1 \in T
    BY <1>5
  <2> HIDE DEF T
  <2>2. 0..n \subseteq T
    BY <1>1, <1>4, <2>1, Induction
  <2> QED BY <1>1, <2>2
<1>7. PICK l \in DOMAIN queue : queue[l].owner = chain[n] /\ queue[l].index = i
  BY <1>6 DEF Queued
<1>8. graph[chain[n]][i].value \in seen
  BY <1>3, <1>7 DEF Value, EntryOf
<1> QED BY <1>8 DEF PyInv, PyPrints

\* What was looked at before a binding of the module is one of an earlier name.
LEMMA PyFindsNames == PyInv /\ done /\ ~truncated => SensitiveNamesFound
<1> SUFFICES ASSUME PyInv, done, ~truncated, NEW i \in DOMAIN graph[Root],
                    graph[Root][i].name \in SensitiveNames, <<Root, i>> \notin prints
             PROVE  \E j \in DOMAIN graph[Root] :
                       /\ graph[Root][j].name < graph[Root][i].name
                       /\ graph[Root][j].value = graph[Root][i].value
  BY DEF SensitiveNamesFound
<1>1. /\ DOMAIN queue = Looked /\ Looked \subseteq Int
      /\ \A k \in DOMAIN queue : /\ queue[k].depth \in Nat
                                 /\ queue[k].index \in DOMAIN graph[queue[k].owner]
  BY DEF PyInv, TypeOK, AllBindings, Ended, Looked
<1>2. PICK k \in DOMAIN queue : queue[k].owner = Root /\ queue[k].index = i
                               /\ queue[k].depth = 0
  BY <1>1 DEF PyInv, PyQueued, Queued
<1>3. EntryOf(queue[k]) = graph[Root][i]
  BY <1>2 DEF EntryOf
<1>4. PICK l \in Looked : l < k /\ Value(l) = Value(k)
  BY <1>1, <1>2, <1>3 DEF PyInv, PyNames
<1>5. queue[l].owner = Root /\ EntryOf(queue[l]).name < EntryOf(queue[k]).name
  BY <1>1, <1>2, <1>4 DEF PyInv, PyRoots
<1>6. EntryOf(queue[l]) = graph[Root][queue[l].index] /\ queue[l].index \in DOMAIN graph[Root]
  BY <1>1, <1>4, <1>5 DEF EntryOf
<1> QED BY <1>3, <1>4, <1>5, <1>6 DEF Value

LEMMA PyInvImplies == PyInv => PythonFindsSecretsInReach
  BY PyFindsValues, PyFindsNames DEF PythonFindsSecretsInReach

-----------------------------------------------------------------------------

Inv == runtime \in Runtimes /\ IF runtime = "typescript" THEN TsInv ELSE PyInv

LEMMA InitInv == Init => Inv
  BY TsInitInv, PyInitInv, TraversalAssumption DEF Init, Inv

LEMMA StepInv == Inv /\ [Next]_vars => Inv'
<1> SUFFICES ASSUME Inv, [Next]_vars PROVE Inv'
  OBVIOUS
<1>1. CASE Step
  <2>1. runtime' = runtime
    BY <1>1 DEF Step, TsStep, PyStep, input
  <2> QED BY <1>1, <2>1, TsStepInv, PyStepInv DEF Inv, Step
<1>2. CASE Return
  <2>1. runtime' = runtime
    BY <1>2 DEF Return, input
  <2> QED BY <1>2, <2>1, TsReturnInv, PyReturnInv, TraversalAssumption DEF Inv
<1>3. CASE UNCHANGED vars
  <2> USE <1>3 DEF vars, input
  <2>1. TypeOK => TypeOK'
    BY DEF TypeOK, AllBindings
  <2>2. Ended /\ TsSeen => (Ended /\ TsSeen)'
    BY DEF Ended, TsSeen, Looked, Value, EntryOf, Closed
  <2>3. TsPrints /\ TsQueued => (TsPrints /\ TsQueued)'
    BY DEF TsPrints, TsQueued, Looked, EntryOf, Sensitive
  <2>4. PyInv => PyInv'
    BY DEF PyInv, TypeOK, AllBindings, Ended, PySeen, PyDepths, PyQueued, PyPrints, PyRoots,
           PyNames, Queued, Looked, Value, EntryOf
  <2> QED BY <2>1, <2>2, <2>3, <2>4 DEF Inv, TsInv
<1> QED BY <1>1, <1>2, <1>3 DEF Next

\* An observation of JavaScript bindings that is not marked as truncated prints each
\* sensitive binding that any chain leads to and nothing else, for any module.
THEOREM UntruncatedIsComplete == Spec => []UntruncatedMissesNothing
<1>1. Inv => UntruncatedMissesNothing
  <2>1. runtime = "typescript" \/ UntruncatedMissesNothing
    BY DEF UntruncatedMissesNothing
  <2> QED BY <2>1, TsInvImplies DEF Inv
<1> QED BY <1>1, InitInv, StepInv, PTL DEF Spec

\* Python finds every secret value that a chain within its limits leads to, and every
\* sensitive name whose object no earlier name of the module has, for any module:
\* what it passes over, it has seen no deeper and under no later name.
THEOREM SecretsInReachAreFound == Spec => []PythonFindsSecretsInReach
<1>1. Inv => PythonFindsSecretsInReach
  <2>1. runtime = "python" \/ PythonFindsSecretsInReach
    BY DEF PythonFindsSecretsInReach
  <2> QED BY <2>1, PyInvImplies DEF Inv
<1> QED BY <1>1, InitInv, StepInv, PTL DEF Spec

=============================================================================
