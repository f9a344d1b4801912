--------------------------- MODULE ProbeTraversal ---------------------------
(***************************************************************************)
(* The bounded traversals of the two runtime probes over what a customer's *)
(* module binds: inspectBindings in probes/typescript/runtime-probe.mjs    *)
(* and inspect_bindings in probes/python/runtime_probe.py.  Values form a  *)
(* graph, with aliases and cycles; one step is one turn of the loop.       *)
(*                                                                         *)
(* An entry of an object is [name, value]; names are numbers, so that they *)
(* can be sorted, and entries are in the order of their insertion.         *)
(***************************************************************************)
EXTENDS Sorting, Sequences, Functions

CONSTANTS
    Objects, Root,  \* what can hold bindings, and the module
    Secrets,        \* string values that look secret
    TooLong,        \* string values that are too long to be matched
    Unreadable,     \* what an accessor or a failing descriptor is, instead of a value
    SensitiveNames,
    Graphs,         \* the modules tried: [Objects -> Seq of entries]
    Runtimes,       \* {"typescript", "python"}
    Maxima,         \* the binding limits tried
    MaxKeys,        \* 256 in the code
    MaxDepth        \* 4 in the code

\* No object binds a name twice.
ASSUME TraversalAssumption ==
    /\ Root \in Objects /\ Runtimes \subseteq {"typescript", "python"}
    /\ MaxKeys \in Nat /\ MaxDepth \in Nat /\ Maxima \subseteq Nat
    /\ \A g \in Graphs : \A o \in Objects :
         /\ g[o] \in Seq(Range(g[o]))
         /\ \A i, j \in DOMAIN g[o] :
              g[o][i].name \in Nat /\ (g[o][i].name = g[o][j].name => i = j)

VARIABLES runtime, graph, maximum, queue, cursor, seen, prints, truncated, done

input == <<runtime, graph, maximum>>
vars == <<input, queue, cursor, seen, prints, truncated, done>>

\* A queued binding: entry number index of the object owner.
Binding(owner, index, depth) == [owner |-> owner, index |-> index, depth |-> depth]
EntryOf(b) == graph[b.owner][b.index]

\* Some entries of an object, in the order of their names, as bindings.
Bindings(o, entries, depth) ==
    LET sorted == Sorted(entries, [i \in entries |-> graph[o][i].name])
    IN  [k \in DOMAIN sorted |-> Binding(o, sorted[k], depth)]

Sensitive(entry) == entry.name \in SensitiveNames \/ entry.value \in Secrets

Lesser(a, b) == IF a < b THEN a ELSE b

-----------------------------------------------------------------------------
\* JavaScript: the first keys up to the limit, then in the order of their names.

Limit(q) == Lesser(MaxKeys, maximum - Len(q))

TsTruncates(o, q) ==
    \/ Len(graph[o]) > Limit(q)
    \/ \E i \in DOMAIN graph[o] : i <= Limit(q) /\ graph[o][i].value = Unreadable

TsEnqueue(o, depth, q) ==
    q \o Bindings(o, {i \in DOMAIN graph[o] : i <= Limit(q) /\ graph[o][i].value # Unreadable}, depth)

\* Mutant: an object that was seen before is not looked at again, nor is the
\* name it is bound to.
TsStepSkippingAliases ==
    LET b == queue[cursor]  entry == EntryOf(b)  value == entry.value
        expands == value \in Objects \ seen
    IN
    /\ cursor <= Len(queue) /\ cursor' = cursor + 1
    /\ prints' = IF value \notin seen /\ Sensitive(entry)
                 THEN prints \cup {<<b.owner, b.index>>} ELSE prints
    /\ seen' = IF value \in Objects THEN seen \cup {value} ELSE seen
    /\ IF expands /\ b.depth < MaxDepth
       THEN /\ queue' = TsEnqueue(value, b.depth + 1, queue)
            /\ truncated' = (truncated \/ TsTruncates(value, queue))
       ELSE /\ queue' = queue
            /\ truncated' = (truncated \/ expands \/ value \in TooLong)
    /\ UNCHANGED <<input, done>>

TsStep ==
    LET b == queue[cursor]  entry == EntryOf(b)  value == entry.value
        expands == value \in Objects \ seen
    IN
    /\ cursor <= Len(queue) /\ cursor' = cursor + 1
    /\ prints' = IF Sensitive(entry) THEN prints \cup {<<b.owner, b.index>>} ELSE prints
    /\ seen' = IF value \in Objects THEN seen \cup {value} ELSE seen
    /\ IF expands /\ b.depth < MaxDepth
       THEN /\ queue' = TsEnqueue(value, b.depth + 1, queue)
            /\ truncated' = (truncated \/ TsTruncates(value, queue))
       ELSE /\ queue' = queue
            /\ truncated' = (truncated \/ expands \/ value \in TooLong)
    /\ UNCHANGED <<input, done>>

-----------------------------------------------------------------------------
\* Python: every value has an identity, and one that was seen is passed over
\* before its name is looked at; only a module's own names can be sensitive.  A
\* dict's keys are queued like its values; here they are left out.

PyEnqueue(o, depth, q) ==
    LET kept == [k \in 1..Lesser(MaxKeys, Len(graph[o])) |-> Binding(o, k, depth)] IN q \o kept

\* Mutant: what is at the depth limit is not looked at.
PyStepAboveLimit ==
    LET b == queue[cursor]  entry == EntryOf(b)  value == entry.value
        skipped == value \in seen \/ b.depth >= MaxDepth
    IN
    /\ cursor <= Lesser(maximum, Len(queue)) /\ cursor' = cursor + 1
    /\ seen' = seen \cup {value}
    /\ prints' = IF ~skipped /\ (value \in Secrets \/ (b.depth = 0 /\ entry.name \in SensitiveNames))
                 THEN prints \cup {<<b.owner, b.index>>} ELSE prints
    /\ queue' = IF ~skipped /\ value \in Objects THEN PyEnqueue(value, b.depth + 1, queue) ELSE queue
    /\ UNCHANGED <<input, truncated, done>>

PyStep ==
    LET b == queue[cursor]  entry == EntryOf(b)  value == entry.value
        skipped == value \in seen
    IN
    /\ cursor <= Lesser(maximum, Len(queue)) /\ cursor' = cursor + 1
    /\ seen' = seen \cup {value}
    /\ prints' = IF ~skipped /\ (value \in Secrets \/ (b.depth = 0 /\ entry.name \in SensitiveNames))
                 THEN prints \cup {<<b.owner, b.index>>} ELSE prints
    /\ queue' = IF ~skipped /\ value \in Objects /\ b.depth < MaxDepth
                THEN PyEnqueue(value, b.depth + 1, queue) ELSE queue
    /\ UNCHANGED <<input, truncated, done>>

-----------------------------------------------------------------------------

\* JavaScript looks at the root's keys within the limits; Python at all of them.
Init ==
    /\ runtime \in Runtimes /\ graph \in Graphs /\ maximum \in Maxima
    /\ queue = IF runtime = "typescript" THEN TsEnqueue(Root, 0, <<>>)
               ELSE Bindings(Root, DOMAIN graph[Root], 0)
    /\ truncated = (runtime = "typescript" /\ TsTruncates(Root, <<>>))
    /\ cursor = 1 /\ seen = {} /\ prints = {} /\ done = FALSE

Step == IF runtime = "typescript" THEN TsStep ELSE PyStep

\* The loop ends, at the end of the queue or, in Python, at the limit.
Return ==
    /\ ~done /\ done' = TRUE
    /\ IF runtime = "typescript"
       THEN cursor > Len(queue) /\ UNCHANGED truncated
       ELSE /\ cursor > Lesser(maximum, Len(queue))
            /\ truncated' = (cursor <= Len(queue))
    /\ UNCHANGED <<input, queue, cursor, seen, prints>>

Next == Step \/ Return

Spec == Init /\ [][Next]_vars

-----------------------------------------------------------------------------

\* The objects that any chain of bindings leads to: those in every set that has the
\* root and whatever its objects bind.
Reachable ==
    {o \in Objects : \A S \in SUBSET Objects :
        /\ Root \in S
        /\ \A p \in S : Objects \cap {graph[p][i].value : i \in DOMAIN graph[p]} \subseteq S
        => o \in S}

\* A result that is not marked as truncated misses nothing: JavaScript prints
\* every binding with a sensitive name or a secret value of every object that
\* any chain of bindings leads to, through aliases and round cycles.
UntruncatedMissesNothing ==
    runtime = "typescript" /\ done /\ ~truncated =>
        prints = UNION {{<<o, i>> : i \in {j \in DOMAIN graph[o] : Sensitive(graph[o][j])}} :
                          o \in Reachable}

\* The entries of an object that are within its keys, and the chains of objects
\* that each has such an entry for the next.
WithinKeys(o) == {i \in DOMAIN graph[o] : i <= MaxKeys \/ o = Root}

Chains(n) ==
    {chain \in [0..n -> Objects] :
        /\ chain[0] = Root
        /\ \A k \in 1..n : \E i \in WithinKeys(chain[k - 1]) :
              graph[chain[k - 1]][i].value = chain[k]}

\* Every secret value within the limits is printed, under one of its names at least.
SecretValuesFound ==
    \A n \in 0..MaxDepth : \A chain \in Chains(n) : \A i \in WithinKeys(chain[n]) :
        graph[chain[n]][i].value \in Secrets =>
            \E p \in prints : graph[p[1]][p[2]].value = graph[chain[n]][i].value

\* Every sensitive name of the module is printed, unless a name that sorts before it
\* is bound to the very same object.
SensitiveNamesFound ==
    \A i \in DOMAIN graph[Root] : graph[Root][i].name \in SensitiveNames =>
        \/ <<Root, i>> \in prints
        \/ \E j \in DOMAIN graph[Root] : /\ graph[Root][j].name < graph[Root][i].name
                                         /\ graph[Root][j].value = graph[Root][i].value

\* Passing over what it has seen, before it looks at the name, costs Python no secret
\* value within its depth and its keys per object, and no sensitive name but those
\* of an object that an earlier name of the module already led to.
PythonFindsSecretsInReach ==
    runtime = "python" /\ done /\ ~truncated => SecretValuesFound /\ SensitiveNamesFound

=============================================================================
