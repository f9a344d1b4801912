------------------------- MODULE OutputFilesProofs -------------------------
(***************************************************************************)
(* Proofs about OutputFiles and PowerLoss, for any number of invocations,  *)
(* any paths, directories, documents and contents, and any well-formed     *)
(* command lines: the invariants, that OutputFiles implements Publication, *)
(* and what survives any number of power losses.                           *)
(***************************************************************************)
EXTENDS PowerLoss, TLAPS

LEMMA Sizes == Chunks \in Nat /\ Chunks \in 0..Chunks /\ Last \in Nat /\ 1 \in 1..Last
  BY OutputFilesAssumption DEF Last

LEMMA LastOutInRange ==
    ASSUME NEW j
    PROVE  LastOut(j) \in 1..Last
  BY OutputFilesAssumption DEF LastOut, Last

-----------------------------------------------------------------------------
\* The first layer: types, and what an invocation's place in its command says
\* of its command line.  Neither is inductive without the other.

JobInv ==
    \A p \in Proc :
        /\ WellFormed(job[p])
        /\ pc[p] = "mkdir" => job[p].kind = "package"
        /\ pc[p] = "read" => job[p].source # NoPath
        /\ pc[p] = "idle" \/ job[p].kind # "package" => nxt[p] = 1
        /\ pc[p] \in {"write", "flush", "sync"} => Target(p) # NoPath
        /\ exit[p] # "none" <=> pc[p] = "done"

Shape == TypeOK /\ JobInv

\* The output being written is one of the command's own outputs.
LEMMA TargetIsPath ==
    ASSUME Shape, NEW p \in Proc, Target(p) # NoPath
    PROVE  Target(p) \in Path /\ Target(p) \in Outs(job[p])
  BY DEF Shape, TypeOK, JobInv, WellFormed, Target, Path, Outs, Packet, Job, Kind

LEMMA ShapeInit == Init => Shape
  BY OutputFilesAssumption, Sizes
  DEF Init, Shape, TypeOK, JobInv, WellFormed, Job, Kind, IdleJob, Step, Exit

LEMMA ShapeStep == Shape /\ [Next]_vars => Shape'
<1> SUFFICES ASSUME Shape, [Next]_vars PROVE Shape'
  OBVIOUS
<1> USE DEF Shape, TypeOK, Goto, End, Step, Exit
<1>1. CASE UNCHANGED vars
  BY <1>1 DEF vars, JobInv, Target
<1>2. ASSUME NEW p \in Proc, Start(p) PROVE Shape'
  <2>1. PICK j \in Jobs :
          /\ job' = [job EXCEPT ![p] = j]
          /\ pc' = [pc EXCEPT ![p] = IF j.source # NoPath THEN "read" ELSE AfterRead(j)]
    BY <1>2 DEF Start
  <2>2. j \in Job /\ WellFormed(j)
    BY OutputFilesAssumption
  <2>3. TypeOK'
    BY <1>2, <2>1, <2>2 DEF Start, AfterRead
  <2>4. nxt[p] = 1
    BY <1>2 DEF JobInv, Start
  <2>5. JobInv'
    BY <1>2, <2>1, <2>2, <2>4 DEF Start, AfterRead, JobInv, Target, WellFormed
  <2>6. QED
    BY <2>3, <2>5
<1>3. ASSUME NEW p \in Proc, ReadSource(p) PROVE Shape'
  BY <1>3 DEF ReadSource, AfterRead, JobInv, Target
<1>4. ASSUME NEW p \in Proc, MakeDir(p) PROVE Shape'
  BY <1>4 DEF MakeDir, JobInv, Target
<1>5. ASSUME NEW p \in Proc, Open(p) PROVE Shape'
  BY <1>5 DEF Open, JobInv, Target
<1>6. ASSUME NEW p \in Proc, EmitStdout(p) PROVE Shape'
  BY <1>6 DEF EmitStdout, JobInv, Target
<1>7. ASSUME NEW p \in Proc, WriteAll(p) PROVE Shape'
  <2>1. PICK n \in len[Target(p)]..Chunks : len' = [len EXCEPT ![Target(p)] = n]
    BY <1>7 DEF WriteAll
  <2>2. n \in 0..Chunks
    BY <1>7, <2>1, Sizes, TargetIsPath DEF WriteAll, JobInv
  <2>3. QED
    BY <1>7, <2>1, <2>2 DEF WriteAll, JobInv, Target
<1>8. ASSUME NEW p \in Proc, Flush(p) PROVE Shape'
  <2>1. len' \in [Path -> 0..Chunks]
    BY <1>8, Sizes DEF Flush
  <2>2. QED
    BY <1>8, <2>1 DEF Flush, JobInv, Target
<1>9. ASSUME NEW p \in Proc, SyncAll(p) PROVE Shape'
  <2>1. synced' \in SUBSET Path
    BY <1>9, TargetIsPath DEF SyncAll, JobInv
  <2>2. CASE nxt[p] < LastOut(job[p])
    <3>1. nxt[p] + 1 \in 1..Last /\ job[p].kind = "package"
      BY <2>2, Sizes, LastOutInRange DEF JobInv, LastOut
    <3>2. nxt' = [nxt EXCEPT ![p] = nxt[p] + 1]
      BY <1>9, <2>2 DEF SyncAll
    <3>3. QED
      BY <1>9, <2>1, <2>2, <3>1, <3>2 DEF SyncAll, JobInv, Target
  <2>3. CASE ~(nxt[p] < LastOut(job[p]))
    BY <1>9, <2>1, <2>3 DEF SyncAll, JobInv, Target
  <2>4. QED
    BY <2>2, <2>3
<1>10. ASSUME NEW p \in Proc, Finish(p) PROVE Shape'
  BY <1>10 DEF Finish, Exits, JobInv, Target
<1>11. ASSUME NEW p \in Proc, Fail(p) PROVE Shape'
  <2>1. len' \in [Path -> 0..Chunks]
    <3>1. CASE pc[p] \in {"write", "flush"}
      <4>1. PICK n \in len[Target(p)]..Chunks : len' = [len EXCEPT ![Target(p)] = n]
        BY <1>11, <3>1 DEF Fail
      <4>2. n \in 0..Chunks
        BY <3>1, <4>1, Sizes, TargetIsPath DEF JobInv
      <4>3. QED
        BY <4>1, <4>2
    <3>2. CASE pc[p] \notin {"write", "flush"}
      BY <1>11, <3>2 DEF Fail
    <3>3. QED
      BY <3>1, <3>2
  <2>2. QED
    BY <1>11, <2>1 DEF Fail, JobInv, Target
<1>12. ASSUME NEW p \in Proc, Kill(p) PROVE Shape'
  BY <1>12 DEF Kill, JobInv, Target
<1>13. QED
  BY <1>1, <1>2, <1>3, <1>4, <1>5, <1>6, <1>7, <1>8, <1>9, <1>10, <1>11, <1>12
  DEF Next, Command

\* Every reachable state of OutputFiles is well typed.
THEOREM TypeCorrect == Spec => []TypeOK
<1>1. Shape => TypeOK
  BY DEF Shape
<1>2. QED
  BY <1>1, ShapeInit, ShapeStep, PTL DEF Spec

-----------------------------------------------------------------------------
\* The second layer: an invocation writes only to a file its own create-new
\* made, so a step never takes anything from another invocation.

OwnInv ==
    \A p \in Proc :
        /\ pc[p] \in {"write", "flush", "sync"} => holder[Target(p)] = p
        /\ pc[p] = "sync" => len[Target(p)] = Chunks

\* What every step keeps.
Keeps ==
    /\ \A f \in Path : holder[f] # NoProc =>
          /\ holder'[f] = holder[f]
          /\ len'[f] \in len[f]..Chunks
          /\ len'[f] # len[f] => pc[holder[f]] \in {"write", "flush"}
    /\ synced \subseteq synced'
    /\ \A d \in Dir : made[d] # NoProc => made'[d] = made[d]
    /\ \A p \in Proc : pc[p] # "idle" => job'[p] = job[p] /\ pc'[p] # "idle"

\* A write reaches no file but the writer's target, and only lengthens it.
LEMMA WriteLocal ==
    ASSUME Shape, OwnInv, NEW p \in Proc, pc[p] \in {"write", "flush"},
           NEW n \in len[Target(p)]..Chunks,
           len' = [len EXCEPT ![Target(p)] = n]
    PROVE  /\ Target(p) \in Path /\ holder[Target(p)] = p
           /\ len'[Target(p)] = n
           /\ \A f \in Path : len'[f] \in len[f]..Chunks
           /\ \A f \in Path \ {Target(p)} : len'[f] = len[f]
<1>1. Target(p) \in Path /\ holder[Target(p)] = p
  BY TargetIsPath DEF Shape, JobInv, OwnInv
<1>2. \A f \in Path : len[f] \in 0..Chunks
  BY DEF Shape, TypeOK
<1>3. QED
  BY <1>1, <1>2, Sizes DEF Shape, TypeOK

LEMMA WriterWrites ==
    ASSUME Shape, OwnInv, NEW p \in Proc, pc[p] \in {"write", "flush"},
           WriteAll(p) \/ Flush(p) \/ Fail(p)
    PROVE  \E n \in len[Target(p)]..Chunks : len' = [len EXCEPT ![Target(p)] = n]
<1>1. Target(p) \in Path
  BY TargetIsPath DEF Shape, JobInv
<1>2. Chunks \in len[Target(p)]..Chunks
  BY <1>1, Sizes DEF Shape, TypeOK
<1>3. QED
  BY <1>2 DEF WriteAll, Flush, Fail

LEMMA StepKeeps == Shape /\ OwnInv /\ [Next]_vars => Keeps
<1> SUFFICES ASSUME Shape, OwnInv, [Next]_vars PROVE Keeps
  OBVIOUS
<1> USE Sizes DEF Shape, TypeOK, Goto, End, Step, Keeps
<1>1. CASE UNCHANGED vars
  BY <1>1 DEF vars
<1>2. ASSUME NEW p \in Proc, Start(p) PROVE Keeps
  BY <1>2 DEF Start
<1>3. ASSUME NEW p \in Proc, ReadSource(p) PROVE Keeps
  BY <1>3 DEF ReadSource, AfterRead
<1>4. ASSUME NEW p \in Proc, MakeDir(p) PROVE Keeps
  BY <1>4 DEF MakeDir
<1>5. ASSUME NEW p \in Proc, Open(p) PROVE Keeps
  BY <1>5 DEF Open
<1>6. ASSUME NEW p \in Proc, EmitStdout(p) PROVE Keeps
  BY <1>6 DEF EmitStdout
<1>7. ASSUME NEW p \in Proc, WriteAll(p) PROVE Keeps
  <2>1. PICK n \in len[Target(p)]..Chunks : len' = [len EXCEPT ![Target(p)] = n]
    BY <1>7, WriterWrites DEF WriteAll
  <2>2. QED
    BY <1>7, <2>1, WriteLocal DEF WriteAll
<1>8. ASSUME NEW p \in Proc, Flush(p) PROVE Keeps
  <2>1. PICK n \in len[Target(p)]..Chunks : len' = [len EXCEPT ![Target(p)] = n]
    BY <1>8, WriterWrites DEF Flush
  <2>2. QED
    BY <1>8, <2>1, WriteLocal DEF Flush
<1>9. ASSUME NEW p \in Proc, SyncAll(p) PROVE Keeps
  BY <1>9 DEF SyncAll
<1>10. ASSUME NEW p \in Proc, Finish(p) PROVE Keeps
  BY <1>10 DEF Finish
<1>11. ASSUME NEW p \in Proc, Fail(p) PROVE Keeps
  <2>1. CASE pc[p] \in {"write", "flush"}
    <3>1. PICK n \in len[Target(p)]..Chunks : len' = [len EXCEPT ![Target(p)] = n]
      BY <1>11, <2>1, WriterWrites
    <3>2. QED
      BY <1>11, <2>1, <3>1, WriteLocal DEF Fail
  <2>2. CASE pc[p] \notin {"write", "flush"}
    BY <1>11, <2>2 DEF Fail
  <2>3. QED
    BY <2>1, <2>2
<1>12. ASSUME NEW p \in Proc, Kill(p) PROVE Keeps
  BY <1>12 DEF Kill
<1>13. QED
  BY <1>1, <1>2, <1>3, <1>4, <1>5, <1>6, <1>7, <1>8, <1>9, <1>10, <1>11, <1>12
  DEF Next, Command

LEMMA OwnInit == Init => OwnInv
  BY DEF Init, OwnInv

\* Only the stepping invocation's own place changes, and with it its target.
LEMMA OwnStep == Shape /\ OwnInv /\ [Next]_vars => OwnInv'
<1> SUFFICES ASSUME Shape, OwnInv, [Next]_vars, Keeps PROVE OwnInv'
  BY StepKeeps
<1>0. ASSUME NEW q \in Proc, pc'[q] = pc[q], Target(q)' = Target(q)
      PROVE  /\ pc'[q] \in {"write", "flush", "sync"} => holder'[Target(q)'] = q
             /\ pc'[q] = "sync" => len'[Target(q)'] = Chunks
  <2>1. CASE pc[q] \in {"write", "flush", "sync"}
    <3>1. Target(q) \in Path /\ holder[Target(q)] = q /\ q # NoProc
      BY <2>1, TargetIsPath, OutputFilesAssumption DEF Shape, JobInv, OwnInv
    <3>2. holder'[Target(q)] = q
      BY <3>1 DEF Keeps
    <3>3. pc[q] = "sync" => len'[Target(q)] = Chunks
      BY <3>1 DEF Keeps, OwnInv
    <3>4. QED
      BY <1>0, <3>2, <3>3
  <2>2. CASE pc[q] \notin {"write", "flush", "sync"}
    BY <1>0, <2>2
  <2>3. QED
    BY <2>1, <2>2
<1>1. ASSUME NEW p \in Proc, Start(p) \/ Command(p) \/ Fail(p) \/ Kill(p)
      PROVE  /\ \A q \in Proc \ {p} : pc'[q] = pc[q] /\ Target(q)' = Target(q)
             /\ pc'[p] \in {"write", "flush", "sync"} => holder'[Target(p)'] = p
             /\ pc'[p] = "sync" => len'[Target(p)'] = Chunks
  <2> USE DEF Shape, TypeOK, Goto, End, Target
  <2>1. CASE Start(p)
    BY <2>1 DEF Start, AfterRead
  <2>2. CASE ReadSource(p)
    BY <2>2 DEF ReadSource, AfterRead
  <2>3. CASE MakeDir(p)
    BY <2>3 DEF MakeDir
  <2>4. CASE Open(p)
    <3>1. Target(p) \in Path
      BY <2>4, TargetIsPath DEF Open
    <3>2. QED
      BY <2>4, <3>1 DEF Open
  <2>5. CASE EmitStdout(p)
    BY <2>5 DEF EmitStdout
  <2>6. CASE WriteAll(p)
    BY <2>6 DEF WriteAll, OwnInv
  <2>7. CASE Flush(p)
    <3>1. Target(p) \in Path
      BY <2>7, TargetIsPath DEF Flush, JobInv
    <3>2. QED
      BY <2>7, <3>1 DEF Flush, OwnInv
  <2>8. CASE SyncAll(p)
    BY <2>8 DEF SyncAll
  <2>9. CASE Finish(p)
    BY <2>9 DEF Finish
  <2>10. CASE Fail(p)
    BY <2>10 DEF Fail
  <2>11. CASE Kill(p)
    BY <2>11 DEF Kill
  <2>12. QED
    BY <1>1, <2>1, <2>2, <2>3, <2>4, <2>5, <2>6, <2>7, <2>8, <2>9, <2>10, <2>11 DEF Command
<1>2. CASE UNCHANGED vars
  BY <1>0, <1>2 DEF vars, OwnInv, Target
<1>3. CASE Next
  <2>1. PICK p \in Proc : Start(p) \/ Command(p) \/ Fail(p) \/ Kill(p)
    BY <1>3 DEF Next
  <2>2. QED
    BY <1>0, <1>1, <2>1 DEF OwnInv
<1>4. QED
  BY <1>2, <1>3

-----------------------------------------------------------------------------
\* The third layer: what an invocation holds follows from how far it has come.

Written(p, f) == holder[f] = p /\ len[f] = Chunks /\ f \in synced

\* A path is held by a command it belongs to that has come as far as that path.
HolderInv ==
    \A p \in Proc, f \in Path : holder[f] = p =>
        /\ pc[p] \notin {"idle", "read", "mkdir"}
        /\ f \in Outs(job[p])
        /\ \A i \in 1..Last : job[p].kind = "package" /\ f = <<job[p].dir, i>> =>
              i < nxt[p] \/ (i = nxt[p] /\ pc[p] # "open")

\* What a command has left behind it is written.
ProgressInv ==
    \A p \in Proc :
        /\ job[p].kind = "package" =>
              \A i \in 1..Last : i < nxt[p] => Written(p, <<job[p].dir, i>>)
        /\ pc[p] = "finish" \/ exit[p] \in {"success", "threshold"} =>
              \A f \in Outs(job[p]) : Written(p, f)

\* A packet's files are in the directory their command made.
DirInv ==
    \A p \in Proc :
        /\ \A d \in Dir : made[d] = p =>
              pc[p] \notin {"idle", "read", "mkdir"} /\ job[p].kind = "package" /\ job[p].dir = d
        /\ job[p].kind = "package" /\ pc[p] \in {"open", "write", "flush", "sync", "finish"} =>
              made[job[p].dir] = p
        /\ job[p].kind = "package" =>
              \A f \in Path : holder[f] = p => made[job[p].dir] = p

\* Whoever came past reading its source, and may have left something, read a
\* whole one.
SourceInv ==
    \A p \in Proc :
        /\ job[p].source # NoPath
        /\ \/ pc[p] \in {"mkdir", "open", "write", "flush", "sync", "finish"}
           \/ \E d \in Dir : made[d] = p
           \/ \E f \in Path : holder[f] = p
        => Readable(job[p].source, job[p].kind)

IInv == Shape /\ OwnInv /\ HolderInv /\ ProgressInv /\ DirInv /\ SourceInv

Steps(p) == Start(p) \/ Command(p) \/ Fail(p) \/ Kill(p)

\* A step moves one invocation; create-new and mkdir alone make holders.
Local(p) ==
    /\ \A q \in Proc \ {p} :
          pc'[q] = pc[q] /\ nxt'[q] = nxt[q] /\ job'[q] = job[q] /\ exit'[q] = exit[q]
    /\ \A f \in Path : holder'[f] = holder[f] \/ (Open(p) /\ f = Target(p) /\ holder'[f] = p)
    /\ \A d \in Dir : made'[d] = made[d] \/ (MakeDir(p) /\ d = job[p].dir /\ made'[d] = p)

LEMMA StepLocal ==
    ASSUME Shape, NEW p \in Proc, Steps(p)
    PROVE  Local(p)
<1> USE DEF Shape, TypeOK, Goto, End, Local
<1>1. CASE Start(p)
  BY <1>1 DEF Start
<1>2. CASE ReadSource(p)
  BY <1>2 DEF ReadSource
<1>3. CASE MakeDir(p)
  BY <1>3 DEF MakeDir
<1>4. CASE Open(p)
  BY <1>4 DEF Open
<1>5. CASE EmitStdout(p)
  BY <1>5 DEF EmitStdout
<1>6. CASE WriteAll(p)
  BY <1>6 DEF WriteAll
<1>7. CASE Flush(p)
  BY <1>7 DEF Flush
<1>8. CASE SyncAll(p)
  BY <1>8 DEF SyncAll
<1>9. CASE Finish(p)
  BY <1>9 DEF Finish
<1>10. CASE Fail(p)
  BY <1>10 DEF Fail
<1>11. CASE Kill(p)
  BY <1>11 DEF Kill
<1>12. QED
  BY <1>1, <1>2, <1>3, <1>4, <1>5, <1>6, <1>7, <1>8, <1>9, <1>10, <1>11 DEF Steps, Command

\* How a step moves the invocation that takes it, once past its first steps.
LEMMA OwnPlace ==
    ASSUME Shape, NEW p \in Proc, Steps(p)
    PROVE  /\ pc[p] \in {"open", "write", "flush", "sync", "finish", "done"} =>
                /\ job'[p] = job[p]
                /\ pc'[p] \in {"open", "write", "flush", "sync", "finish", "done"}
                /\ \/ nxt'[p] = nxt[p] /\ (pc'[p] = "open" => pc[p] = "open")
                   \/ nxt'[p] = nxt[p] + 1 /\ SyncAll(p)
           /\ pc[p] = "done" => FALSE
<1> USE DEF Shape, TypeOK, Goto, End
<1>1. CASE Start(p)
  BY <1>1 DEF Start
<1>2. CASE ReadSource(p)
  BY <1>2 DEF ReadSource
<1>3. CASE MakeDir(p)
  BY <1>3 DEF MakeDir
<1>4. CASE Open(p)
  BY <1>4 DEF Open
<1>5. CASE EmitStdout(p)
  BY <1>5 DEF EmitStdout
<1>6. CASE WriteAll(p)
  BY <1>6 DEF WriteAll
<1>7. CASE Flush(p)
  BY <1>7 DEF Flush
<1>8. CASE SyncAll(p)
  BY <1>8 DEF SyncAll
<1>9. CASE Finish(p)
  BY <1>9 DEF Finish
<1>10. CASE Fail(p)
  BY <1>10 DEF Fail, Running
<1>11. CASE Kill(p)
  BY <1>11 DEF Kill, Running
<1>12. QED
  BY <1>1, <1>2, <1>3, <1>4, <1>5, <1>6, <1>7, <1>8, <1>9, <1>10, <1>11 DEF Steps, Command

LEMMA WrittenStays ==
    ASSUME Shape, Keeps, NEW p \in Proc, NEW f \in Path, Written(p, f)
    PROVE  Written(p, f)'
  BY OutputFilesAssumption, Sizes DEF Written, Keeps

\* A readable source stays readable: its holder has started, so neither its
\* command line nor its contents change.
LEMMA ReadableStays ==
    ASSUME Shape, Keeps, HolderInv, NEW f \in Path, NEW k, Readable(f, k)
    PROVE  Readable(f, k)'
<1>1. holder[f] \in Proc
  BY DEF Readable, Shape, TypeOK
<1>2. pc[holder[f]] # "idle"
  BY <1>1 DEF HolderInv
<1>3. holder'[f] = holder[f] /\ job'[holder[f]] = job[holder[f]] /\ len'[f] = len[f]
  BY <1>1, <1>2, Sizes, OutputFilesAssumption DEF Keeps, Readable
<1>4. QED
  BY <1>3 DEF Readable

LEMMA HolderStep ==
    ASSUME Shape, HolderInv, Keeps, NEW p \in Proc, Steps(p)
    PROVE  HolderInv'
<1> USE StepLocal, OutputFilesAssumption
<1> SUFFICES ASSUME NEW q \in Proc, NEW f \in Path, holder'[f] = q
             PROVE  /\ pc'[q] \notin {"idle", "read", "mkdir"}
                    /\ f \in Outs(job'[q])
                    /\ \A i \in 1..Last : job'[q].kind = "package" /\ f = <<job'[q].dir, i>> =>
                          i < nxt'[q] \/ (i = nxt'[q] /\ pc'[q] # "open")
  BY DEF HolderInv, Outs
<1>1. CASE holder[f] = q /\ q # p
  BY <1>1 DEF HolderInv, Local
<1>2. CASE holder[f] = q /\ q = p
  <2>1. pc[p] \in {"open", "write", "flush", "sync", "finish", "done"}
    BY <1>2 DEF HolderInv, Shape, TypeOK, Step
  <2>2. /\ job'[p] = job[p]
        /\ pc'[p] \in {"open", "write", "flush", "sync", "finish", "done"}
        /\ \/ nxt'[p] = nxt[p] /\ (pc'[p] = "open" => pc[p] = "open")
           \/ nxt'[p] = nxt[p] + 1
    BY <2>1, OwnPlace
  <2>3. nxt[p] \in 1..Last
    BY DEF Shape, TypeOK
  <2>4. QED
    BY <1>2, <2>2, <2>3, Sizes DEF HolderInv
<1>3. CASE holder[f] # q
  <2>1. Open(p) /\ f = Target(p) /\ q = p
    BY <1>3 DEF Local
  <2>2. pc[p] = "open" /\ pc'[p] = "write" /\ job' = job /\ nxt' = nxt
    BY <1>3, <2>1 DEF Open, Goto, End, Shape, TypeOK
  <2>3. f \in Outs(job[p])
    BY <2>1, TargetIsPath DEF Open
  <2>4. job[p].kind = "package" => f = <<job[p].dir, nxt[p]>>
    BY <2>1 DEF Target
  <2>5. QED
    BY <2>1, <2>2, <2>3, <2>4
<1>4. QED
  BY <1>1, <1>2, <1>3

LEMMA PacketPath ==
    ASSUME Shape, NEW p \in Proc, job[p].kind = "package", NEW i \in 1..Last
    PROVE  <<job[p].dir, i>> \in Path /\ <<job[p].dir, i>> \in Outs(job[p])
  BY DEF Shape, TypeOK, JobInv, WellFormed, Path, Outs, Packet, Job

LEMMA OutsInPath ==
    ASSUME Shape, NEW p \in Proc
    PROVE  Outs(job[p]) \subseteq Path
  BY DEF Shape, TypeOK, JobInv, WellFormed, Path, Outs, Packet, Job

\* sync_all is what makes the output of an invocation written.
LEMMA SyncWrites ==
    ASSUME Shape, OwnInv, NEW p \in Proc, SyncAll(p), NEW f, f = Target(p)
    PROVE  holder'[f] = p /\ len'[f] = Chunks /\ f \in synced'
<1>1. holder[f] = p /\ len[f] = Chunks
  BY DEF SyncAll, OwnInv
<1>2. holder' = holder /\ len' = len /\ f \in synced'
  BY DEF SyncAll
<1>3. QED
  BY <1>1, <1>2

LEMMA ProgressStep ==
    ASSUME Shape, OwnInv, ProgressInv, Keeps, Shape', NEW p \in Proc, Steps(p)
    PROVE  ProgressInv'
<1> USE DEF Written
<1>1. ASSUME NEW q \in Proc, NEW f \in Path, holder[f] = q, len[f] = Chunks, f \in synced
      PROVE  holder'[f] = q /\ len'[f] = Chunks /\ f \in synced'
  BY <1>1, WrittenStays DEF Written
<1>2. ASSUME NEW q \in Proc \ {p}
      PROVE  /\ job'[q].kind = "package" =>
                  \A i \in 1..Last : i < nxt'[q] => Written(q, <<job[q].dir, i>>)'
             /\ pc'[q] = "finish" \/ exit'[q] \in {"success", "threshold"} =>
                  \A f \in Outs(job'[q]) :
                     holder'[f] = q /\ len'[f] = Chunks /\ f \in synced'
  <2>1. pc'[q] = pc[q] /\ nxt'[q] = nxt[q] /\ job'[q] = job[q] /\ exit'[q] = exit[q]
    BY StepLocal DEF Local
  <2>2. ASSUME job[q].kind = "package", NEW i \in 1..Last, i < nxt[q]
        PROVE  Written(q, <<job[q].dir, i>>)'
    <3>1. <<job[q].dir, i>> \in Path /\ Written(q, <<job[q].dir, i>>)
      BY <2>2, PacketPath DEF ProgressInv
    <3>2. QED
      BY <1>1, <2>1, <3>1
  <2>3. ASSUME pc[q] = "finish" \/ exit[q] \in {"success", "threshold"},
               NEW f \in Outs(job[q])
        PROVE  holder'[f] = q /\ len'[f] = Chunks /\ f \in synced'
    <3>1. f \in Path /\ Written(q, f)
      BY <2>3, OutsInPath DEF ProgressInv
    <3>2. QED
      BY <1>1, <3>1
  <2>4. QED
    BY <2>1, <2>2, <2>3
<1>3. ASSUME job'[p].kind = "package", NEW i \in 1..Last, i < nxt'[p]
      PROVE  Written(p, <<job[p].dir, i>>)'
  <2>1. pc[p] # "idle"
    <3>1. ASSUME Start(p) PROVE FALSE
      BY <3>1, <1>3, Sizes DEF Start, Shape, JobInv
    <3>2. QED
      BY <3>1 DEF Steps, Command, ReadSource, MakeDir, Open, EmitStdout, WriteAll, Flush,
         SyncAll, Finish, Fail, Kill, Running
  <2>2. job'[p] = job[p] /\ job[p].kind = "package"
    BY <1>3, <2>1 DEF Keeps
  <2>3. <<job[p].dir, i>> \in Path
    BY <2>2, PacketPath
  <2>4. CASE i < nxt[p]
    <3>1. Written(p, <<job[p].dir, i>>)
      BY <2>2, <2>4 DEF ProgressInv
    <3>2. QED
      BY <1>1, <2>2, <2>3, <3>1
  <2>5. CASE ~(i < nxt[p])
    <3>1. nxt'[p] # nxt[p]
      BY <1>3, <2>5
    <3>2. SyncAll(p) /\ nxt'[p] = nxt[p] + 1
      BY <3>1 DEF Steps, Start, Command, ReadSource, MakeDir, Open, EmitStdout, WriteAll,
         Flush, SyncAll, Finish, Fail, Kill, Shape, TypeOK
    <3>3. i = nxt[p]
      BY <1>3, <2>5, <3>2 DEF Shape, TypeOK
    <3>4. <<job[p].dir, i>> = Target(p)
      BY <2>2, <3>3 DEF Target
    <3>5. QED
      BY <2>2, <3>2, <3>4, SyncWrites
  <2>6. QED
    BY <2>4, <2>5
<1>4. ASSUME pc'[p] = "finish" \/ exit'[p] \in {"success", "threshold"},
             NEW f \in Outs(job'[p])
      PROVE  holder'[f] = p /\ len'[f] = Chunks /\ f \in synced'
  <2>1. \/ Finish(p) /\ pc[p] = "finish"
        \/ EmitStdout(p) /\ Target(p) = NoPath
        \/ SyncAll(p) /\ ~(nxt[p] < LastOut(job[p]))
    <3>1. exit[p] = "none" \/ pc[p] = "done"
      BY DEF Shape, JobInv
    <3>2. QED
      BY <1>4, <3>1, OwnPlace DEF Steps, Start, Command, ReadSource, MakeDir, Open, EmitStdout,
         WriteAll, Flush, SyncAll, Finish, Fail, Kill, Shape, TypeOK, Goto, End, AfterRead
  <2>2. pc[p] # "idle" /\ job'[p] = job[p]
    BY <2>1 DEF Finish, EmitStdout, SyncAll, Keeps
  <2>3. f \in Path
    BY <2>2, OutsInPath
  <2>4. CASE Finish(p) /\ pc[p] = "finish"
    BY <1>1, <2>2, <2>3, <2>4 DEF ProgressInv
  <2>5. CASE EmitStdout(p) /\ Target(p) = NoPath
    <3>1. job[p].kind # "package"
      BY <2>5, PacketPath, OutputFilesAssumption DEF Target, Shape, TypeOK
    <3>2. QED
      BY <1>4, <2>2, <2>5, <3>1 DEF Outs, Target
  <2>6. CASE SyncAll(p) /\ ~(nxt[p] < LastOut(job[p]))
    <3>1. CASE f = Target(p)
      BY <2>6, <3>1, SyncWrites
    <3>2. CASE f # Target(p)
      <4>1. job[p].kind = "package"
        BY <1>4, <2>2, <2>6, <3>2 DEF Outs, Target
      <4>2. PICK i \in 1..Last : f = <<job[p].dir, i>>
        BY <1>4, <2>2, <4>1 DEF Outs, Packet
      <4>3. i < nxt[p]
        BY <2>6, <3>2, <4>1, <4>2, Sizes DEF Target, LastOut, Shape, TypeOK
      <4>4. QED
        BY <1>1, <2>3, <4>1, <4>2, <4>3 DEF ProgressInv
    <3>3. QED
      BY <3>1, <3>2
  <2>7. QED
    BY <2>1, <2>4, <2>5, <2>6
<1>5. QED
  <2>1. ASSUME NEW q \in Proc \ {p} PROVE job'[q] = job[q]
    BY StepLocal DEF Local
  <2>2. nxt'[p] = 1 \/ job'[p] = job[p]
    BY DEF Steps, Start, Command, ReadSource, MakeDir, Open, EmitStdout, WriteAll, Flush,
       SyncAll, Finish, Fail, Kill, Shape, JobInv
  <2>3. QED
    BY <1>2, <1>3, <1>4, <2>1, <2>2 DEF ProgressInv, Outs

LEMMA DirStep ==
    ASSUME Shape, DirInv, HolderInv, Keeps, Shape', HolderInv', NEW p \in Proc, Steps(p)
    PROVE  DirInv'
<1> USE OutputFilesAssumption
<1>1. ASSUME NEW q \in Proc, NEW d \in Dir, made'[d] = q
      PROVE  /\ pc'[q] \notin {"idle", "read", "mkdir"}
             /\ job'[q].kind = "package" /\ job'[q].dir = d
  <2>1. CASE made[d] = q /\ q # p
    BY <2>1, StepLocal DEF DirInv, Local
  <2>2. CASE made[d] = q /\ q = p
    <3>1. pc[p] \in {"open", "write", "flush", "sync", "finish", "done"}
      BY <2>2 DEF DirInv, Shape, TypeOK, Step
    <3>2. QED
      BY <2>2, <3>1, OwnPlace DEF DirInv
  <2>3. CASE made[d] # q
    <3>1. MakeDir(p) /\ d = job[p].dir /\ q = p
      BY <1>1, <2>3, StepLocal DEF Local
    <3>2. pc[p] = "mkdir" /\ job' = job /\ pc'[p] = "open"
      BY <1>1, <2>3, <3>1 DEF MakeDir, Goto, End, Shape, TypeOK
    <3>3. QED
      BY <3>1, <3>2 DEF Shape, JobInv
  <2>4. QED
    BY <2>1, <2>2, <2>3
<1>2. ASSUME NEW q \in Proc, job'[q].kind = "package",
             pc'[q] \in {"open", "write", "flush", "sync", "finish"}
      PROVE  made'[job'[q].dir] = q
  <2>1. CASE q # p
    <3>1. made[job[q].dir] = q /\ job'[q] = job[q] /\ job[q].dir \in Dir
      BY <1>2, <2>1, StepLocal DEF DirInv, Local, Shape, TypeOK, JobInv, WellFormed, Job
    <3>2. QED
      BY <3>1 DEF Keeps
  <2>2. CASE q = p /\ pc[p] \in {"open", "write", "flush", "sync", "finish", "done"}
    <3>1. job'[p] = job[p] /\ pc[p] # "done"
      BY <2>2, OwnPlace
    <3>2. made[job[p].dir] = p /\ job[p].dir \in Dir
      BY <1>2, <2>2, <3>1 DEF DirInv, Shape, TypeOK, JobInv, WellFormed, Job
    <3>3. QED
      BY <2>2, <3>1, <3>2 DEF Keeps
  <2>3. CASE q = p /\ pc[p] \notin {"open", "write", "flush", "sync", "finish", "done"}
    <3>1. MakeDir(p) \/ ReadSource(p) \/ Start(p)
      BY <1>2, <2>3 DEF Steps, Command, Open, EmitStdout, WriteAll, Flush, SyncAll, Finish,
         Fail, Kill, End, Shape, TypeOK
    <3>2. CASE MakeDir(p)
      <4>1. pc'[p] = "open" => made[job[p].dir] = NoProc /\ made' = [made EXCEPT ![job[p].dir] = p]
        BY <3>2 DEF MakeDir, Goto, End, Shape, TypeOK
      <4>2. job' = job /\ job[p].kind = "package" /\ job[p].dir \in Dir
        BY <3>2 DEF MakeDir, Shape, TypeOK, JobInv, WellFormed, Job
      <4>3. pc'[p] \in {"open", "done"}
        BY <3>2 DEF MakeDir, Goto, End, Shape, TypeOK
      <4>4. QED
        BY <1>2, <2>3, <4>1, <4>2, <4>3 DEF Shape, TypeOK
    <3>3. CASE ReadSource(p)
      BY <1>2, <2>3, <3>3 DEF ReadSource, AfterRead, Goto, End, Shape, TypeOK
    <3>4. CASE Start(p)
      <4>1. PICK j \in Jobs : job' = [job EXCEPT ![p] = j]
               /\ pc' = [pc EXCEPT ![p] = IF j.source # NoPath THEN "read" ELSE AfterRead(j)]
        BY <3>4 DEF Start, Goto
      <4>2. job'[p] = j /\ WellFormed(j)
        BY <4>1 DEF Shape, TypeOK
      <4>3. QED
        BY <1>2, <2>3, <4>1, <4>2 DEF AfterRead, WellFormed, Shape, TypeOK
    <3>5. QED
      BY <3>1, <3>2, <3>3, <3>4
  <2>4. QED
    BY <2>1, <2>2, <2>3
<1>3. ASSUME NEW q \in Proc, job'[q].kind = "package", NEW f \in Path, holder'[f] = q
      PROVE  made'[job'[q].dir] = q
  <2>1. CASE holder[f] = q
    <3>1. pc[q] # "idle" /\ job'[q] = job[q]
      BY <2>1 DEF HolderInv, Keeps
    <3>2. made[job[q].dir] = q /\ job[q].dir \in Dir
      BY <1>3, <2>1, <3>1 DEF DirInv, Shape, TypeOK, JobInv, WellFormed, Job
    <3>3. QED
      BY <3>1, <3>2 DEF Keeps
  <2>2. CASE holder[f] # q
    <3>1. Open(p) /\ q = p
      BY <1>3, <2>2, StepLocal DEF Local
    <3>2. pc'[p] = "write"
      BY <1>3, <2>2, <3>1 DEF Open, Goto, End, Shape, TypeOK
    <3>3. QED
      BY <1>2, <1>3, <3>1, <3>2
  <2>3. QED
    BY <2>1, <2>2
<1>4. QED
  BY <1>1, <1>2, <1>3 DEF DirInv

LEMMA SourceStep ==
    ASSUME Shape, SourceInv, HolderInv, DirInv, Keeps, NEW p \in Proc, Steps(p)
    PROVE  SourceInv'
<1> USE OutputFilesAssumption
<1> SUFFICES ASSUME NEW q \in Proc, job'[q].source # NoPath,
                    \/ pc'[q] \in {"mkdir", "open", "write", "flush", "sync", "finish"}
                    \/ \E d \in Dir : made'[d] = q
                    \/ \E f \in Path : holder'[f] = q
             PROVE  Readable(job[q].source, job[q].kind)'
  BY DEF SourceInv
<1>1. CASE ReadSource(p) /\ q = p
  <2>1. pc[p] = "read" /\ holder' = holder /\ made' = made /\ job' = job /\ len' = len
    BY <1>1 DEF ReadSource
  <2>2. \A d \in Dir : made[d] # p
    BY <2>1 DEF DirInv
  <2>3. \A f \in Path : holder[f] # p
    BY <2>1 DEF HolderInv
  <2>4. Readable(job[p].source, job[p].kind)
    <3>1. ASSUME ~Readable(job[p].source, job[p].kind) PROVE FALSE
      <4>1. pc'[p] = "done"
        BY <1>1, <3>1 DEF ReadSource, End, Shape, TypeOK
      <4>2. QED
        BY <1>1, <2>1, <2>2, <2>3, <4>1
    <3>2. QED
      BY <3>1
  <2>5. QED
    BY <1>1, <2>1, <2>4 DEF Readable
<1>2. CASE Start(p) /\ q = p
  <2>1. pc[p] = "idle" /\ holder' = holder /\ made' = made
    BY <1>2 DEF Start
  <2>2. \A d \in Dir : made[d] # p
    BY <2>1 DEF DirInv
  <2>3. \A f \in Path : holder[f] # p
    BY <2>1 DEF HolderInv
  <2>4. pc'[p] = "read"
    BY <1>2 DEF Start, Goto, Shape, TypeOK
  <2>5. QED
    BY <1>2, <2>1, <2>2, <2>3, <2>4
<1>3. CASE ~(ReadSource(p) /\ q = p) /\ ~(Start(p) /\ q = p)
  <2>1. job'[q] = job[q]
    BY <1>3, StepLocal DEF Local, Steps, Command, MakeDir, Open, EmitStdout, WriteAll, Flush,
       SyncAll, Finish, Fail, Kill
  <2>2. \/ pc[q] \in {"mkdir", "open", "write", "flush", "sync", "finish"}
        \/ \E d \in Dir : made[d] = q
        \/ \E f \in Path : holder[f] = q
    <3>1. CASE q # p
      BY <3>1, StepLocal DEF Local
    <3>2. CASE q = p /\ pc[p] \in {"mkdir", "open", "write", "flush", "sync", "finish"}
      BY <3>2
    <3>3. CASE q = p /\ pc[p] \notin {"mkdir", "open", "write", "flush", "sync", "finish"}
      <4>1. Fail(p) \/ Kill(p)
        BY <1>3, <3>3 DEF Steps, Command, ReadSource, MakeDir, Open, EmitStdout, WriteAll,
           Flush, SyncAll, Finish
      <4>2. pc'[p] = "done" /\ holder' = holder /\ made' = made
        BY <4>1 DEF Fail, Kill, End, Shape, TypeOK
      <4>3. QED
        BY <3>3, <4>2
    <3>4. QED
      BY <3>1, <3>2, <3>3
  <2>3. Readable(job[q].source, job[q].kind) /\ job[q].source \in Path
    BY <2>1, <2>2 DEF SourceInv, Shape, TypeOK, Job
  <2>4. ASSUME NEW f \in Path, NEW k, Readable(f, k), f = job'[q].source, k = job'[q].kind
        PROVE  Readable(job[q].source, job[q].kind)'
    <3>1. Readable(f, k)'
      BY <2>4, ReadableStays
    <3>2. QED
      BY <2>4, <3>1 DEF Readable
  <2>5. QED
    BY <2>1, <2>3, <2>4
<1>4. QED
  BY <1>1, <1>2, <1>3

LEMMA IInvInit == Init => IInv
<1> SUFFICES ASSUME Init, Shape, OwnInv PROVE IInv
  BY ShapeInit, OwnInit
<1> USE OutputFilesAssumption
<1>1. HolderInv
  BY DEF Init, HolderInv
<1>2. ProgressInv
  BY DEF Init, ProgressInv, IdleJob
<1>3. DirInv
  BY DEF Init, DirInv
<1>4. SourceInv
  BY DEF Init, SourceInv
<1>5. QED
  BY <1>1, <1>2, <1>3, <1>4 DEF IInv

\* Everything IInv says is said of the variables alone.
LEMMA IInvStutter == IInv /\ UNCHANGED vars => IInv'
<1> SUFFICES ASSUME IInv, UNCHANGED vars PROVE IInv'
  OBVIOUS
<1> USE DEF IInv, vars
<1>1. Shape' /\ OwnInv'
  BY ShapeStep, OwnStep
<1>2. HolderInv'
  BY DEF HolderInv, Outs
<1>3. ProgressInv'
  BY DEF ProgressInv, Written, Outs
<1>4. DirInv'
  BY DEF DirInv
<1>5. SourceInv'
  BY DEF SourceInv, Readable
<1>6. QED
  BY <1>1, <1>2, <1>3, <1>4, <1>5

LEMMA IInvStep == IInv /\ [Next]_vars => IInv'
<1> SUFFICES ASSUME IInv, Next PROVE IInv'
  BY IInvStutter
<1>1. PICK p \in Proc : Steps(p)
  BY DEF Next, Steps
<1>2. Shape /\ OwnInv /\ HolderInv /\ ProgressInv /\ DirInv /\ SourceInv
  BY DEF IInv
<1>3. Keeps
  BY <1>2, StepKeeps
<1>4. Shape' /\ OwnInv'
  BY <1>2, ShapeStep, OwnStep
<1>5. HolderInv'
  BY <1>1, <1>2, <1>3, HolderStep
<1>6. ProgressInv'
  BY <1>1, <1>2, <1>3, <1>4, ProgressStep
<1>7. DirInv'
  BY <1>1, <1>2, <1>3, <1>4, <1>5, DirStep
<1>8. SourceInv'
  BY <1>1, <1>2, <1>3, SourceStep
<1>9. QED
  BY <1>4, <1>5, <1>6, <1>7, <1>8 DEF IInv

\* The inductive invariant holds in every reachable state.
THEOREM Inductive == Spec => []IInv
  BY IInvInit, IInvStep, PTL DEF Spec

\* A reported success is true of every file of the command, for any number of
\* contending invocations, any packet size and any pattern of errors and kills.
THEOREM OutcomeIsSound == Spec => []OutcomeSound
<1>1. IInv => OutcomeSound
  BY DEF IInv, ProgressInv, Written, OutcomeSound
<1>2. QED
  BY <1>1, Inductive, PTL

\* A manifest seals its packet: its presence means the documents are complete.
THEOREM ManifestIsSeal == Spec => []ManifestSealsPacket
<1>1. IInv => ManifestSealsPacket
  <2> SUFFICES ASSUME IInv, NEW p \in Proc, NEW d \in Dir,
                      job[p].kind = "package", job[p].dir = d, holder[Manifest(d)] = p
               PROVE  /\ made[d] = p
                      /\ \A f \in Packet(d) \ {Manifest(d)} :
                            holder[f] = p /\ Whole(f) /\ f \in synced
    BY DEF ManifestSealsPacket
  <2>1. Manifest(d) \in Path /\ Last \in 1..Last
    BY Sizes, OutputFilesAssumption DEF Manifest, Path, Last
  <2>2. made[d] = p
    BY <2>1 DEF IInv, DirInv
  <2>3. nxt[p] = Last
    <3>1. Last < nxt[p] \/ Last = nxt[p]
      BY <2>1 DEF IInv, HolderInv, Manifest
    <3>2. nxt[p] \in 1..Last
      BY DEF IInv, Shape, TypeOK
    <3>3. QED
      BY <3>1, <3>2, Sizes
  <2>4. ASSUME NEW f \in Packet(d) \ {Manifest(d)}
        PROVE  holder[f] = p /\ Whole(f) /\ f \in synced
    <3>1. PICK i \in 1..Last : f = <<d, i>>
      BY DEF Packet
    <3>2. i < nxt[p]
      BY <2>3, <3>1, Sizes DEF Manifest
    <3>3. Written(p, f)
      BY <3>1, <3>2 DEF IInv, ProgressInv
    <3>4. QED
      BY <3>3, OutputFilesAssumption DEF Written, Whole
  <2>5. QED
    BY <2>2, <2>4
<1>2. QED
  BY <1>1, Inductive, PTL

\* Whoever left something on disk read a whole source, and it is still there.
THEOREM PublishesFromWhole == Spec => []PublishedFromWhole
<1>1. IInv => PublishedFromWhole
  BY DEF IInv, SourceInv, PublishedFromWhole
<1>2. QED
  BY <1>1, Inductive, PTL

\* Nothing an invocation left behind changes once it has ended.
THEOREM EndedIsFrozen == Spec => FrozenOnceEnded
<1>1. IInv /\ [Next]_vars =>
        [\A f \in Path : holder[f] # NoProc =>
           /\ holder'[f] = holder[f]
           /\ len'[f] >= len[f]
           /\ Ended(holder[f]) => len'[f] = len[f]]_vars
  <2> SUFFICES ASSUME IInv, [Next]_vars, NEW f \in Path, holder[f] # NoProc
               PROVE  /\ holder'[f] = holder[f]
                      /\ len'[f] >= len[f]
                      /\ Ended(holder[f]) => len'[f] = len[f]
    OBVIOUS
  <2>1. Keeps
    BY StepKeeps DEF IInv
  <2>2. len[f] \in Nat
    BY Sizes DEF IInv, Shape, TypeOK
  <2>3. QED
    BY <2>1, <2>2, Sizes DEF Keeps, Ended
<1>2. QED
  BY <1>1, Inductive, PTL DEF Spec, FrozenOnceEnded

-----------------------------------------------------------------------------
(* OutputFiles implements Publication: under the refinement mapping of     *)
(* OutputFiles, every step of a command is a step of the promise or leaves *)
(* it alone.                                                               *)

\* The refinement mapping.
WholeSet == {f \in Path : Whole(f)}
PlanFn == [p \in Proc |-> PlanOf(p)]
StatusFn == [p \in Proc |-> StatusOf(p)]

\* A path nobody has created holds nothing.
EmptyInv == \A f \in Path : holder[f] = NoProc => len[f] = 0

LEMMA EmptyStep == IInv /\ EmptyInv /\ [Next]_vars => EmptyInv'
<1> SUFFICES ASSUME IInv, EmptyInv, [Next]_vars PROVE EmptyInv'
  OBVIOUS
<1> USE OutputFilesAssumption DEF IInv
<1>1. CASE UNCHANGED vars
  BY <1>1 DEF vars, EmptyInv
<1>2. CASE Next
  <2>1. PICK p \in Proc : Steps(p)
    BY <1>2 DEF Next, Steps
  <2>2. SUFFICES ASSUME NEW f \in Path, holder'[f] = NoProc PROVE len'[f] = 0
    BY DEF EmptyInv
  <2>3. holder[f] = NoProc /\ len[f] = 0
    <3>1. Local(p)
      BY <2>1, StepLocal
    <3>2. QED
      BY <2>2, <3>1 DEF Local, EmptyInv
  <2>4. CASE pc[p] \in {"write", "flush"} /\ (WriteAll(p) \/ Flush(p) \/ Fail(p))
    <3>1. PICK n \in len[Target(p)]..Chunks : len' = [len EXCEPT ![Target(p)] = n]
      BY <2>4, WriterWrites
    <3>2. /\ holder[Target(p)] = p
          /\ \A g \in Path \ {Target(p)} : len'[g] = len[g]
      BY <2>4, <3>1, WriteLocal
    <3>3. f # Target(p)
      BY <2>3, <3>2
    <3>4. QED
      BY <2>3, <3>2, <3>3
  <2>5. CASE ~(pc[p] \in {"write", "flush"} /\ (WriteAll(p) \/ Flush(p) \/ Fail(p)))
    BY <2>1, <2>3, <2>5 DEF Steps, Start, Command, ReadSource, MakeDir, Open, EmitStdout,
       WriteAll, Flush, SyncAll, Finish, Fail, Kill
  <2>6. QED
    BY <2>4, <2>5
<1>3. QED
  BY <1>1, <1>2

\* A step of p moves only p in the promise.
LEMMA MapLocal ==
    ASSUME Shape, NEW p \in Proc, Steps(p)
    PROVE  /\ StatusFn' = [StatusFn EXCEPT ![p] = StatusOf(p)']
           /\ PlanFn' = [PlanFn EXCEPT ![p] = PlanOf(p)']
<1>1. \A q \in Proc \ {p} : StatusOf(q)' = StatusOf(q) /\ PlanOf(q)' = PlanOf(q)
  BY StepLocal DEF Local, StatusOf, PlanOf, Running, Outs
<1>2. QED
  BY <1>1 DEF StatusFn, PlanFn

\* Once past Start, p's plan stands.
LEMMA PlanStands ==
    ASSUME Shape, NEW p \in Proc, Steps(p), job'[p] = job[p]
    PROVE  PlanFn' = PlanFn
<1>1. PlanOf(p)' = PlanOf(p)
  BY DEF PlanOf, Outs
<1>2. QED
  BY <1>1, MapLocal DEF PlanFn

\* Nothing of the promise moves when p goes on working and no file changes.
LEMMA MapStutter ==
    ASSUME Shape, NEW p \in Proc, Steps(p), job' = job, holder' = holder, len' = len,
           Running(p), Running(p)'
    PROVE  UNCHANGED Promise!vars
<1>1. StatusOf(p)' = StatusOf(p)
  BY DEF StatusOf, Running
<1>2. StatusFn' = StatusFn
  BY <1>1, MapLocal DEF StatusFn
<1>3. PlanFn' = PlanFn
  BY PlanStands
<1>4. WholeSet' = WholeSet
  BY DEF WholeSet, Whole
<1>5. QED
  BY <1>2, <1>3, <1>4 DEF Promise!vars, StatusFn, PlanFn, WholeSet

\* Ending without success gives up.
LEMMA MapGiveUp ==
    ASSUME Shape, NEW p \in Proc, Steps(p), job' = job, holder' = holder, Running(p),
           pc'[p] = "done", exit'[p] \notin {"success", "threshold"},
           \/ WholeSet' = WholeSet
           \/ \E f \in Path : holder[f] = p /\ WholeSet' = WholeSet \cup {f}
    PROVE  Promise!GiveUp(p)
<1>1. StatusOf(p) = "working" /\ StatusOf(p)' = "gaveUp"
  BY DEF StatusOf, Running
<1>2. StatusFn[p] = "working" /\ StatusFn' = [StatusFn EXCEPT ![p] = "gaveUp"]
  BY <1>1, MapLocal DEF StatusFn
<1>3. PlanFn' = PlanFn
  BY PlanStands
<1>4. QED
  BY <1>2, <1>3 DEF Promise!GiveUp, StatusFn, PlanFn, WholeSet

\* A write by p completes its target or nothing.
LEMMA WholeGrows ==
    ASSUME IInv, NEW p \in Proc, holder' = holder, pc[p] \in {"write", "flush"},
           WriteAll(p) \/ Flush(p) \/ Fail(p)
    PROVE  /\ WholeSet' = WholeSet \/ WholeSet' = WholeSet \cup {Target(p)}
           /\ Target(p) \in Path /\ holder[Target(p)] = p
<1>1. PICK n \in len[Target(p)]..Chunks : len' = [len EXCEPT ![Target(p)] = n]
  BY WriterWrites DEF IInv
<1>2. /\ Target(p) \in Path /\ holder[Target(p)] = p
      /\ \A f \in Path : len'[f] \in len[f]..Chunks
      /\ \A f \in Path \ {Target(p)} : len'[f] = len[f]
  BY <1>1, WriteLocal DEF IInv
<1>3. \A f \in Path : len[f] = Chunks => len'[f] = Chunks
  BY <1>2, Sizes
<1>4. QED
  BY <1>2, <1>3 DEF WholeSet, Whole

LEMMA MapInit == Init => Promise!Init
<1> SUFFICES ASSUME Init PROVE Promise!Init
  OBVIOUS
<1>1. WholeSet = {}
  BY DEF Init, WholeSet, Whole
<1>2. \A p \in Proc : PlanOf(p) = Promise!IdlePlan /\ StatusOf(p) = "idle"
  BY DEF Init, PlanOf, StatusOf, Promise!IdlePlan, IdleJob, Outs
<1>3. QED
  BY <1>1, <1>2 DEF Init, Promise!Init, WholeSet

LEMMA MapStart ==
    ASSUME IInv, NEW p \in Proc, Start(p)
    PROVE  Promise!Begin(p)
<1>1. PICK j \in Jobs : job' = [job EXCEPT ![p] = j]
         /\ pc' = [pc EXCEPT ![p] = IF j.source # NoPath THEN "read" ELSE AfterRead(j)]
  BY DEF Start, Goto
<1>2. j \in Job /\ WellFormed(j) /\ job'[p] = j
  BY <1>1, OutputFilesAssumption DEF IInv, Shape, TypeOK
<1>3. Outs(j) \subseteq Path
  BY <1>2 DEF Outs, Packet, Path, Job, WellFormed
<1>4. PlanOf(p)' = [source |-> j.source, goal |-> Outs(j),
                    seal |-> IF j.kind = "package" THEN Manifest(j.dir) ELSE NoPath]
  BY <1>2 DEF PlanOf, Outs
<1>5. j.kind = "package" => Manifest(j.dir) \in Path
  BY <1>2, Sizes, OutputFilesAssumption DEF Manifest, Path, Last, Job, WellFormed
<1>6. PlanOf(p)' \in Promise!Plan
  BY <1>2, <1>3, <1>4, <1>5 DEF Promise!Plan, Job
<1>7. StatusOf(p) = "idle" /\ StatusOf(p)' = "working"
  BY <1>1 DEF Start, StatusOf, Running, AfterRead, IInv, Shape, TypeOK
<1>8. Steps(p) /\ Shape
  BY DEF Steps, IInv
<1>9. /\ StatusFn[p] = "idle" /\ StatusFn' = [StatusFn EXCEPT ![p] = "working"]
      /\ \E pl \in Promise!Plan : PlanFn' = [PlanFn EXCEPT ![p] = pl]
  BY <1>6, <1>7, <1>8, MapLocal DEF StatusFn
<1>10. holder' = holder /\ WholeSet' = WholeSet
  BY DEF Start, WholeSet, Whole
<1>11. QED
  BY <1>9, <1>10 DEF Promise!Begin, StatusFn, PlanFn, WholeSet

\* create-new claims a path that was free, for a command whose source is whole
\* and, when it is the manifest, whose documents are written.
LEMMA MapClaim ==
    ASSUME IInv, EmptyInv, NEW p \in Proc, Open(p), pc'[p] # "done"
    PROVE  Promise!Claim(p, Target(p))
<1> DEFINE f == Target(p)
<1>1. /\ pc[p] = "open" /\ f \in Path /\ f \in Outs(job[p]) /\ holder[f] = NoProc
      /\ holder' = [holder EXCEPT ![f] = p] /\ job' = job /\ len' = len /\ pc'[p] = "write"
  BY TargetIsPath DEF Open, Goto, End, IInv, Shape, TypeOK
<1>2. PlanFn' = PlanFn
  BY <1>1, PlanStands DEF IInv, Steps, Command
<1>3. StatusFn[p] = "working" /\ StatusFn' = StatusFn
  <2>1. StatusOf(p) = "working" /\ StatusOf(p)' = "working"
    BY <1>1 DEF StatusOf, Running
  <2>2. QED
    BY <2>1, MapLocal DEF StatusFn, IInv, Steps, Command
<1>4. WholeSet' = WholeSet
  <2>1. len[f] # Chunks
    BY <1>1, OutputFilesAssumption DEF EmptyInv
  <2>2. QED
    BY <1>1, <2>1, OutputFilesAssumption DEF WholeSet, Whole, IInv, Shape, TypeOK
<1>5. PlanFn[p].source # NoPath => PlanFn[p].source \in WholeSet
  <2>1. job[p].source # NoPath => Readable(job[p].source, job[p].kind)
    BY <1>1 DEF IInv, SourceInv
  <2>2. job[p].source \in Path \cup {NoPath}
    BY DEF IInv, Shape, TypeOK, Job
  <2>3. QED
    BY <2>1, <2>2 DEF PlanFn, PlanOf, WholeSet, Whole, Readable
<1>6. f = PlanFn[p].seal =>
        \A g \in PlanFn[p].goal \ {f} : holder[g] = p /\ g \in WholeSet
  <2> SUFFICES ASSUME f = PlanFn[p].seal, NEW g \in PlanFn[p].goal \ {f}
               PROVE  holder[g] = p /\ g \in WholeSet
    OBVIOUS
  <2>1. job[p].kind = "package" /\ nxt[p] = Last
    BY <1>1, OutputFilesAssumption DEF PlanFn, PlanOf, Manifest, Target
  <2>2. PICK i \in 1..Last : g = <<job[p].dir, i>>
    BY <2>1 DEF PlanFn, PlanOf, Outs, Packet
  <2>3. i < nxt[p]
    BY <2>1, <2>2, Sizes DEF Target
  <2>4. Written(p, g)
    BY <2>1, <2>2, <2>3 DEF IInv, ProgressInv
  <2>5. g \in Path
    BY <2>1, <2>2, PacketPath DEF IInv
  <2>6. QED
    BY <2>4, <2>5, OutputFilesAssumption DEF Written, WholeSet, Whole
<1>7. f \in PlanFn[p].goal
  BY <1>1 DEF PlanFn, PlanOf
<1>8. QED
  BY <1>1, <1>2, <1>3, <1>4, <1>5, <1>6, <1>7
  DEF Promise!Claim, Promise!RestWhole, StatusFn, PlanFn, WholeSet

\* Every step of a command is a step of the promise, or none.
LEMMA MapStep ==
    ASSUME IInv, EmptyInv, NEW p \in Proc, Steps(p)
    PROVE  Promise!Next \/ UNCHANGED Promise!vars
<1>0. Shape /\ (Running(p) => StatusOf(p) = "working")
  BY DEF IInv, StatusOf, Running
<1> USE DEF Goto, End
<1>1. CASE Start(p)
  BY <1>1, MapStart DEF Promise!Next
<1>2. ASSUME Running(p), job' = job, holder' = holder, WholeSet' = WholeSet,
             pc'[p] = "done", exit'[p] \notin {"success", "threshold"}
      PROVE  Promise!Next
  BY <1>0, <1>2, MapGiveUp DEF Promise!Next
<1>3. CASE ReadSource(p)
  <2>1. job' = job /\ holder' = holder /\ len' = len /\ Running(p)
    BY <1>3 DEF ReadSource, Running
  <2>2. WholeSet' = WholeSet
    BY <2>1 DEF WholeSet, Whole
  <2>3. \/ Running(p)'
        \/ pc'[p] = "done" /\ exit'[p] = "error"
    BY <1>0, <1>3 DEF ReadSource, AfterRead, Running, Shape, TypeOK
  <2>4. QED
    BY <1>0, <1>2, <2>1, <2>2, <2>3, MapStutter
<1>4. CASE MakeDir(p)
  <2>1. job' = job /\ holder' = holder /\ len' = len /\ Running(p)
    BY <1>4 DEF MakeDir, Running
  <2>2. WholeSet' = WholeSet
    BY <2>1 DEF WholeSet, Whole
  <2>3. \/ Running(p)'
        \/ pc'[p] = "done" /\ exit'[p] = "error"
    BY <1>0, <1>4 DEF MakeDir, Running, Shape, TypeOK
  <2>4. QED
    BY <1>0, <1>2, <2>1, <2>2, <2>3, MapStutter
<1>5. CASE Open(p)
  <2>1. CASE pc'[p] # "done"
    <3>1. Promise!Claim(p, Target(p)) /\ Target(p) \in Path
      BY <1>0, <1>5, <2>1, MapClaim, TargetIsPath DEF Open
    <3>2. QED
      BY <3>1 DEF Promise!Next
  <2>2. CASE pc'[p] = "done"
    <3>1. job' = job /\ holder' = holder /\ len' = len /\ Running(p) /\ exit'[p] = "error"
      BY <1>0, <1>5, <2>2 DEF Open, Running, Shape, TypeOK
    <3>2. WholeSet' = WholeSet
      BY <3>1 DEF WholeSet, Whole
    <3>3. QED
      BY <1>2, <2>2, <3>1, <3>2
  <2>3. QED
    BY <2>1, <2>2
<1>6. CASE EmitStdout(p)
  BY <1>0, <1>6, MapStutter DEF EmitStdout, Running, Shape, TypeOK
<1>7. CASE WriteAll(p) \/ Flush(p)
  <2>1. job' = job /\ holder' = holder /\ Running(p) /\ Running(p)' /\ pc[p] \in {"write", "flush"}
    BY <1>0, <1>7 DEF WriteAll, Flush, Running, Shape, TypeOK
  <2>2. StatusOf(p)' = StatusOf(p) /\ PlanFn' = PlanFn
    BY <1>0, <2>1, PlanStands DEF StatusOf, Running
  <2>3. StatusFn' = StatusFn /\ StatusFn[p] = "working"
    BY <1>0, <2>1, <2>2, MapLocal DEF StatusFn
  <2>4. /\ WholeSet' = WholeSet \/ WholeSet' = WholeSet \cup {Target(p)}
        /\ Target(p) \in Path /\ holder[Target(p)] = p
    BY <1>7, <2>1, WholeGrows
  <2>5. CASE WholeSet' = WholeSet
    BY <2>1, <2>2, <2>3, <2>5 DEF Promise!vars, StatusFn, PlanFn, WholeSet
  <2>6. CASE WholeSet' = WholeSet \cup {Target(p)}
    <3>1. Promise!Complete(p, Target(p))
      BY <2>1, <2>2, <2>3, <2>4, <2>6 DEF Promise!Complete, StatusFn, PlanFn, WholeSet
    <3>2. QED
      BY <2>4, <3>1 DEF Promise!Next
  <2>7. QED
    BY <2>4, <2>5, <2>6
<1>8. CASE SyncAll(p)
  BY <1>0, <1>8, MapStutter DEF SyncAll, Running, Shape, TypeOK
<1>9. CASE Finish(p)
  <2>1. /\ job' = job /\ holder' = holder /\ len' = len /\ Running(p) /\ pc'[p] = "done"
        /\ pc[p] = "finish" /\ exit'[p] \in {"success", "threshold", "error"}
    BY <1>0, <1>9 DEF Finish, Exits, Running, Shape, TypeOK
  <2>2. WholeSet' = WholeSet
    BY <2>1 DEF WholeSet, Whole
  <2>3. CASE exit'[p] = "error"
    BY <1>2, <2>1, <2>2, <2>3
  <2>4. CASE exit'[p] \in {"success", "threshold"}
    <3>1. StatusOf(p)' = "published" /\ PlanFn' = PlanFn
      BY <1>0, <2>1, <2>4, PlanStands DEF StatusOf, Running
    <3>2. StatusFn[p] = "working" /\ StatusFn' = [StatusFn EXCEPT ![p] = "published"]
      BY <1>0, <2>1, <3>1, MapLocal DEF StatusFn
    <3>3. \A f \in PlanFn[p].goal : holder[f] = p /\ f \in WholeSet
      BY <1>0, <2>1, OutsInPath, OutputFilesAssumption
      DEF PlanFn, PlanOf, IInv, ProgressInv, Written, WholeSet, Whole
    <3>4. Promise!Publish(p)
      BY <2>1, <2>2, <3>1, <3>2, <3>3 DEF Promise!Publish, StatusFn, PlanFn, WholeSet
    <3>5. QED
      BY <3>4 DEF Promise!Next
  <2>5. QED
    BY <2>1, <2>3, <2>4
<1>10. CASE Fail(p)
  <2>1. job' = job /\ holder' = holder /\ Running(p) /\ pc'[p] = "done" /\ exit'[p] = "error"
    BY <1>0, <1>10 DEF Fail, Shape, TypeOK
  <2>2. CASE pc[p] \in {"write", "flush"}
    <3>1. /\ WholeSet' = WholeSet \/ WholeSet' = WholeSet \cup {Target(p)}
          /\ Target(p) \in Path /\ holder[Target(p)] = p
      BY <1>10, <2>1, <2>2, WholeGrows
    <3>2. Promise!GiveUp(p)
      BY <1>0, <2>1, <3>1, MapGiveUp
    <3>3. QED
      BY <3>2 DEF Promise!Next
  <2>3. CASE pc[p] \notin {"write", "flush"}
    <3>1. WholeSet' = WholeSet
      BY <1>10, <2>1, <2>3 DEF Fail, WholeSet, Whole
    <3>2. QED
      BY <1>2, <2>1, <3>1
  <2>4. QED
    BY <2>2, <2>3
<1>11. CASE Kill(p)
  <2>1. /\ job' = job /\ holder' = holder /\ len' = len /\ Running(p) /\ pc'[p] = "done"
        /\ exit'[p] = "killed"
    BY <1>0, <1>11 DEF Kill, Shape, TypeOK
  <2>2. WholeSet' = WholeSet
    BY <2>1 DEF WholeSet, Whole
  <2>3. QED
    BY <1>2, <2>1, <2>2
<1>12. QED
  BY <1>1, <1>3, <1>4, <1>5, <1>6, <1>7, <1>8, <1>9, <1>10, <1>11 DEF Steps, Command

\* The commands keep the promise of Publication, for any number of them.
THEOREM Implements == Spec => KeepsPromise
<1>1. Init => EmptyInv
  BY DEF Init, EmptyInv
<1>2. IInv /\ EmptyInv /\ [Next]_vars => Promise!Next \/ UNCHANGED Promise!vars
  <2> SUFFICES ASSUME IInv, EmptyInv, [Next]_vars
               PROVE  Promise!Next \/ UNCHANGED Promise!vars
    OBVIOUS
  <2>1. CASE UNCHANGED vars
    <3>1. \A p \in Proc : PlanOf(p)' = PlanOf(p) /\ StatusOf(p)' = StatusOf(p)
      BY <2>1 DEF vars, PlanOf, StatusOf, Running, Outs
    <3>2. WholeSet' = WholeSet /\ holder' = holder
      BY <2>1 DEF vars, WholeSet, Whole
    <3>3. QED
      BY <3>1, <3>2 DEF Promise!vars, WholeSet
  <2>2. CASE Next
    BY <2>2, MapStep DEF Next, Steps
  <2>3. QED
    BY <2>1, <2>2
<1>3. Spec => []EmptyInv
  BY <1>1, Inductive, EmptyStep, PTL DEF Spec
<1>4. QED
  BY <1>2, <1>3, MapInit, Inductive, PTL DEF Spec, KeepsPromise, Promise!Spec

-----------------------------------------------------------------------------
(* Losses of power.  The invariants of OutputFiles do not survive a loss,  *)
(* which takes files from commands that wrote them; what survives is what  *)
(* they say of the files that are still there.                             *)

Settled(p, f) == holder[f] = p => len[f] = Chunks /\ f \in synced

\* What a command has left behind it, and what a command that succeeded wrote, is
\* settled, as far as it is there.
SettledInv ==
    \A p \in Proc :
        /\ job[p].kind = "package" =>
              \A i \in 1..Last : i < nxt[p] => Settled(p, <<job[p].dir, i>>)
        /\ pc[p] = "finish" \/ exit[p] \in {"success", "threshold"} =>
              \A f \in Outs(job[p]) : Settled(p, f)

LossInv == Shape /\ OwnInv /\ HolderInv /\ SettledInv

LEMMA LossInvInit == LossInit => LossInv
<1> SUFFICES ASSUME Init PROVE HolderInv /\ SettledInv
  BY ShapeInit, OwnInit DEF LossInit, LossInv
<1>1. \A p \in Proc, f \in Path : holder[f] # p
  BY OutputFilesAssumption DEF Init
<1>2. \A p \in Proc : pc[p] = "idle" /\ exit[p] = "none" /\ job[p].kind = "assess"
  BY DEF Init, IdleJob
<1> QED BY <1>1, <1>2 DEF HolderInv, SettledInv

-----------------------------------------------------------------------------
\* The steps of the commands

\* What is settled stays so, except for what its own command opens now.
LEMMA SettledStays ==
    ASSUME Shape, Keeps, NEW p \in Proc, Steps(p), NEW q \in Proc, NEW f \in Path,
           Settled(q, f), ~(Open(p) /\ f = Target(p) /\ q = p)
    PROVE  holder'[f] = q => len'[f] = Chunks /\ f \in synced'
<1> SUFFICES ASSUME holder'[f] = q PROVE len'[f] = Chunks /\ f \in synced'
  OBVIOUS
<1>1. holder[f] = q
  BY StepLocal DEF Local
<1>2. len[f] = Chunks /\ f \in synced
  BY <1>1 DEF Settled
<1> QED BY <1>1, <1>2, OutputFilesAssumption, Sizes DEF Keeps

LEMMA SettledStep ==
    ASSUME Shape, OwnInv, SettledInv, Keeps, Shape', NEW p \in Proc, Steps(p)
    PROVE  SettledInv'
<1>1. ASSUME NEW q \in Proc \ {p}
      PROVE  /\ job'[q].kind = "package" =>
                  \A i \in 1..Last : i < nxt'[q] => Settled(q, <<job[q].dir, i>>)'
             /\ pc'[q] = "finish" \/ exit'[q] \in {"success", "threshold"} =>
                  \A f \in Outs(job'[q]) : Settled(q, f)'
  <2>1. pc'[q] = pc[q] /\ nxt'[q] = nxt[q] /\ job'[q] = job[q] /\ exit'[q] = exit[q]
    BY StepLocal DEF Local
  <2>2. ASSUME job[q].kind = "package", NEW i \in 1..Last, i < nxt[q]
        PROVE  Settled(q, <<job[q].dir, i>>)'
    <3>1. <<job[q].dir, i>> \in Path /\ Settled(q, <<job[q].dir, i>>)
      BY <2>2, PacketPath DEF SettledInv
    <3> QED BY <2>1, <3>1, SettledStays DEF Settled
  <2>3. ASSUME pc[q] = "finish" \/ exit[q] \in {"success", "threshold"}, NEW f \in Outs(job[q])
        PROVE  Settled(q, f)'
    <3>1. f \in Path /\ Settled(q, f)
      BY <2>3, OutsInPath DEF SettledInv
    <3> QED BY <3>1, SettledStays DEF Settled
  <2> QED BY <2>1, <2>2, <2>3
<1>2. ASSUME job'[p].kind = "package", NEW i \in 1..Last, i < nxt'[p]
      PROVE  Settled(p, <<job[p].dir, i>>)'
  <2>1. pc[p] # "idle"
    <3>1. ASSUME Start(p) PROVE FALSE
      BY <3>1, <1>2, Sizes DEF Start, Shape, JobInv
    <3> QED BY <3>1 DEF Steps, Command, ReadSource, MakeDir, Open, EmitStdout, WriteAll, Flush,
                        SyncAll, Finish, Fail, Kill, Running
  <2>2. job'[p] = job[p] /\ job[p].kind = "package"
    BY <1>2, <2>1 DEF Keeps
  <2>3. <<job[p].dir, i>> \in Path
    BY <2>2, PacketPath
  <2>4. CASE i < nxt[p]
    <3>1. Settled(p, <<job[p].dir, i>>)
      BY <2>2, <2>4 DEF SettledInv
    <3>2. <<job[p].dir, i>> # Target(p)
      BY <2>2, <2>4 DEF Target, Shape, TypeOK
    <3> QED BY <2>2, <2>3, <3>1, <3>2, SettledStays DEF Settled
  <2>5. CASE ~(i < nxt[p])
    <3>1. nxt'[p] # nxt[p]
      BY <1>2, <2>5
    <3>2. SyncAll(p) /\ nxt'[p] = nxt[p] + 1
      BY <3>1 DEF Steps, Start, Command, ReadSource, MakeDir, Open, EmitStdout, WriteAll,
                  Flush, SyncAll, Finish, Fail, Kill, Shape, TypeOK
    <3>3. i = nxt[p]
      BY <1>2, <2>5, <3>2 DEF Shape, TypeOK
    <3>4. <<job[p].dir, i>> = Target(p)
      BY <2>2, <3>3 DEF Target
    <3> QED BY <2>2, <3>2, <3>4, SyncWrites DEF Settled
  <2> QED BY <2>4, <2>5
<1>3. ASSUME pc'[p] = "finish" \/ exit'[p] \in {"success", "threshold"}, NEW f \in Outs(job'[p])
      PROVE  Settled(p, f)'
  <2>1. \/ Finish(p) /\ pc[p] = "finish"
        \/ EmitStdout(p) /\ Target(p) = NoPath
        \/ SyncAll(p) /\ ~(nxt[p] < LastOut(job[p]))
    <3>1. exit[p] = "none" \/ pc[p] = "done"
      BY DEF Shape, JobInv
    <3> QED BY <1>3, <3>1, OwnPlace
            DEF Steps, Start, Command, ReadSource, MakeDir, Open, EmitStdout, WriteAll, Flush,
                SyncAll, Finish, Fail, Kill, Shape, TypeOK, Goto, End, AfterRead
  <2>2. pc[p] # "idle" /\ job'[p] = job[p]
    BY <2>1 DEF Finish, EmitStdout, SyncAll, Keeps
  <2>3. f \in Path
    BY <1>3, <2>2, OutsInPath
  <2>4. ~Open(p)
    BY <2>1 DEF Open, Finish, EmitStdout, SyncAll
  <2>5. CASE Finish(p) /\ pc[p] = "finish"
    <3>1. Settled(p, f)
      BY <1>3, <2>2, <2>5 DEF SettledInv
    <3> QED BY <2>3, <2>4, <3>1, SettledStays DEF Settled
  <2>6. CASE EmitStdout(p) /\ Target(p) = NoPath
    <3>1. job[p].kind # "package"
      BY <2>6, PacketPath, OutputFilesAssumption DEF Target, Shape, TypeOK
    <3> QED BY <1>3, <2>2, <2>6, <3>1 DEF Outs, Target
  <2>7. CASE SyncAll(p) /\ ~(nxt[p] < LastOut(job[p]))
    <3>1. CASE f = Target(p)
      BY <2>7, <3>1, SyncWrites DEF Settled
    <3>2. CASE f # Target(p)
      <4>1. job[p].kind = "package"
        BY <1>3, <2>2, <2>7, <3>2 DEF Outs, Target
      <4>2. PICK i \in 1..Last : f = <<job[p].dir, i>>
        BY <1>3, <2>2, <4>1 DEF Outs, Packet
      <4>3. i < nxt[p]
        BY <2>7, <3>2, <4>1, <4>2, Sizes DEF Target, LastOut, Shape, TypeOK
      <4>4. Settled(p, f)
        BY <4>1, <4>2, <4>3 DEF SettledInv
      <4> QED BY <2>3, <2>4, <4>4, SettledStays DEF Settled
    <3> QED BY <3>1, <3>2
  <2> QED BY <2>1, <2>5, <2>6, <2>7
<1>4. ASSUME NEW q \in Proc \ {p} PROVE job'[q] = job[q]
  BY StepLocal DEF Local
<1>5. nxt'[p] = 1 \/ job'[p] = job[p]
  BY DEF Steps, Start, Command, ReadSource, MakeDir, Open, EmitStdout, WriteAll, Flush,
         SyncAll, Finish, Fail, Kill, Shape, JobInv
<1> QED BY <1>1, <1>2, <1>3, <1>4, <1>5 DEF SettledInv, Settled, Outs

LEMMA CommandsKeepLossInv == LossInv /\ Next => LossInv'
<1> SUFFICES ASSUME LossInv, Next PROVE LossInv'
  OBVIOUS
<1>1. PICK p \in Proc : Steps(p)
  BY DEF Next, Steps
<1>2. Shape' /\ OwnInv' /\ Keeps
  BY ShapeStep, OwnStep, StepKeeps DEF LossInv
<1>3. HolderInv'
  BY <1>1, <1>2, HolderStep DEF LossInv
<1>4. SettledInv'
  BY <1>1, <1>2, SettledStep DEF LossInv
<1> QED BY <1>2, <1>3, <1>4 DEF LossInv

-----------------------------------------------------------------------------
\* A loss of power

\* What is there afterwards was there before, and is torn only if it was not synced.
LEMMA WhatIsLeft ==
    ASSUME Shape, PowerLost, NEW f \in Path
    PROVE  \/ /\ holder'[f] = holder[f] /\ len'[f] \in 0..Chunks
              /\ f \in synced => len'[f] = len[f] /\ f \in synced'
           \/ holder'[f] = NoProc /\ len'[f] = 0
<1>1. PICK kept \in SUBSET Existing :
        /\ holder' = [g \in Path |-> IF g \in kept THEN holder[g] ELSE NoProc]
        /\ \E torn \in [kept \ synced -> 0..Chunks] :
             len' = [g \in Path |-> IF g \notin kept THEN 0
                                    ELSE IF g \in synced THEN len[g] ELSE torn[g]]
        /\ synced' = synced \cap kept
  BY DEF PowerLost
<1>2. PICK torn \in [kept \ synced -> 0..Chunks] :
        len' = [g \in Path |-> IF g \notin kept THEN 0
                               ELSE IF g \in synced THEN len[g] ELSE torn[g]]
  BY <1>1
<1>3. CASE f \in kept
  <2>1. holder'[f] = holder[f] /\ len[f] \in 0..Chunks
    BY <1>1, <1>3 DEF Shape, TypeOK
  <2>2. CASE f \in synced
    BY <1>1, <1>2, <1>3, <2>1, <2>2
  <2>3. CASE f \notin synced
    <3>1. f \in kept \ synced /\ torn[f] \in 0..Chunks
      BY <1>2, <1>3, <2>3
    <3>2. len'[f] = torn[f]
      BY <1>2, <1>3, <2>3
    <3> QED BY <2>1, <2>3, <3>1, <3>2
  <2> QED BY <2>2, <2>3
<1>4. CASE f \notin kept
  BY <1>1, <1>2, <1>4
<1> QED BY <1>3, <1>4

LEMMA LossKeepsLossInv == LossInv /\ PowerLost => LossInv'
<1> SUFFICES ASSUME LossInv, PowerLost PROVE LossInv'
  OBVIOUS
<1> USE OutputFilesAssumption, Sizes
<1>1. Shape
  BY DEF LossInv
<1>2. \A p \in Proc :
        /\ job'[p] = job[p] /\ nxt'[p] = nxt[p] /\ pc'[p] \in {"idle", "done"}
        /\ pc'[p] = "idle" <=> pc[p] = "idle"
        /\ exit'[p] = IF Running(p) THEN "killed" ELSE exit[p]
  BY <1>1 DEF PowerLost, Running, Shape, TypeOK
<1>3. TypeOK'
  <2>1. /\ holder' \in [Path -> Proc \cup {NoProc}] /\ len' \in [Path -> 0..Chunks]
    BY <1>1, WhatIsLeft DEF PowerLost, Shape, TypeOK
  <2>2. synced' \in SUBSET Path /\ made' \in [Dir -> Proc \cup {NoProc}]
    BY <1>1 DEF PowerLost, Shape, TypeOK
  <2>3. pc' \in [Proc -> Step] /\ exit' \in [Proc -> Exit]
    BY <1>1 DEF PowerLost, Shape, TypeOK, Step, Exit
  <2> QED BY <1>1, <2>1, <2>2, <2>3 DEF PowerLost, Shape, TypeOK
<1>4. JobInv'
  BY <1>1, <1>2 DEF Shape, JobInv, Running, WellFormed
<1>5. OwnInv'
  BY <1>2 DEF OwnInv
<1>6. HolderInv'
  <2> SUFFICES ASSUME NEW p \in Proc, NEW f \in Path, holder'[f] = p
               PROVE  /\ pc'[p] \notin {"idle", "read", "mkdir"}
                      /\ f \in Outs(job'[p])
                      /\ \A i \in 1..Last : job'[p].kind = "package" /\ f = <<job'[p].dir, i>> =>
                            i < nxt'[p] \/ (i = nxt'[p] /\ pc'[p] # "open")
    BY DEF HolderInv, Outs
  <2>1. holder[f] = p
    BY <1>1, WhatIsLeft
  <2>2. /\ pc[p] \notin {"idle", "read", "mkdir"} /\ f \in Outs(job[p])
        /\ \A i \in 1..Last : job[p].kind = "package" /\ f = <<job[p].dir, i>> => i <= nxt[p]
    BY <1>1, <2>1 DEF LossInv, HolderInv, Shape, TypeOK
  <2> QED BY <1>1, <1>2, <2>2 DEF Shape, TypeOK
<1>7. ASSUME NEW p \in Proc, NEW f \in Path, Settled(p, f)
      PROVE  Settled(p, f)'
  BY <1>1, <1>7, WhatIsLeft DEF Settled
<1>8. SettledInv'
  <2>1. ASSUME NEW p \in Proc, job[p].kind = "package", NEW i \in 1..Last, i < nxt[p]
        PROVE  Settled(p, <<job[p].dir, i>>)'
    <3>1. <<job[p].dir, i>> \in Path /\ Settled(p, <<job[p].dir, i>>)
      BY <1>1, <2>1, PacketPath DEF LossInv, SettledInv
    <3> QED BY <1>2, <1>7, <3>1 DEF Settled
  <2>2. ASSUME NEW p \in Proc, pc'[p] = "finish" \/ exit'[p] \in {"success", "threshold"},
               NEW f \in Outs(job[p])
        PROVE  Settled(p, f)'
    <3>1. exit[p] \in {"success", "threshold"}
      BY <1>2, <2>2
    <3>2. f \in Path /\ Settled(p, f)
      BY <1>1, <2>2, <3>1, OutsInPath DEF LossInv, SettledInv
    <3> QED BY <1>7, <3>2
  <2> QED BY <1>2, <2>1, <2>2 DEF SettledInv, Settled, Outs
<1> QED BY <1>3, <1>4, <1>5, <1>6, <1>8 DEF LossInv, Shape

LEMMA LossInvStep == LossInv /\ [LossNext]_lossVars => LossInv'
<1>1. LossInv /\ UNCHANGED vars => LossInv'
  BY DEF vars, LossInv, Shape, TypeOK, JobInv, OwnInv, HolderInv, SettledInv, Settled, Target,
         Outs, WellFormed
<1> QED BY <1>1, CommandsKeepLossInv, LossKeepsLossInv DEF LossNext, lossVars

-----------------------------------------------------------------------------

\* A manifest is the last output of its command, so its documents are settled.
LEMMA VouchedIsSettled ==
    ASSUME LossInv, NEW p \in Proc, NEW f \in Path, Vouched(p, f)
    PROVE  Settled(p, f)
<1>1. CASE exit[p] \in {"success", "threshold"} /\ f \in Outs(job[p])
  BY <1>1 DEF LossInv, SettledInv
<1>2. CASE /\ job[p].kind = "package" /\ holder[Manifest(job[p].dir)] = p
           /\ f \in Packet(job[p].dir) \ {Manifest(job[p].dir)}
  <2>1. PICK i \in 1..Last : f = <<job[p].dir, i>> /\ i # Last
    BY <1>2 DEF Packet, Manifest
  <2>2. Last \in 1..Last /\ Manifest(job[p].dir) \in Path
    BY <1>2, Sizes, PacketPath DEF LossInv, Manifest
  <2>3. Last <= nxt[p]
    BY <1>2, <2>2, Sizes DEF LossInv, HolderInv, Manifest, Shape, TypeOK
  <2>4. i < nxt[p]
    BY <2>1, <2>3, Sizes DEF LossInv, Shape, TypeOK
  <2> QED BY <1>2, <2>1, <2>4 DEF LossInv, SettledInv
<1> QED BY <1>1, <1>2 DEF Vouched

\* What a success or a manifest vouches for is never found torn, after any number
\* of losses of power, errors and kills.
THEOREM VouchedFilesSurvive == LossSpec => []VouchedFilesNotTorn
<1>1. LossInv => VouchedFilesNotTorn
  BY VouchedIsSettled DEF VouchedFilesNotTorn, Settled
<1> QED BY <1>1, LossInvInit, LossInvStep, PTL DEF LossSpec

=============================================================================
