---------------------------- MODULE OutputFiles ----------------------------
(***************************************************************************)
(* The file boundary of the canonical-auditor commands: src/app/output.rs  *)
(* and the commands of src/app.rs that publish through it.  Each process   *)
(* of Proc is one invocation.  It may read a file another invocation       *)
(* published (prompt reads a report, package a dossier), create a packet   *)
(* directory, and then write its outputs one after the other, each by      *)
(* create-new, write_all through a BufWriter, flush and sync_all.          *)
(*                                                                         *)
(* Data is abstracted to how much of a file's contents has reached the     *)
(* file (0..Chunks) and to whether a reader of it gets a dossier, a report *)
(* or something else.  A packet of the code has ten documents and then its *)
(* manifest; here it has Documents documents, the last of which is         *)
(* audit-dossier.json, and the manifest is file number Last.               *)
(***************************************************************************)
EXTENDS Naturals

CONSTANTS
    Proc,       \* command invocations
    File,       \* standalone output paths
    Dir,        \* packet directories
    Documents,  \* number of documents of a packet
    Chunks,     \* size of every file's contents
    Jobs,       \* the command lines an invocation may be started with
    Faults,     \* subset of {"error", "kill"}: what the environment may do
    NoProc, NoPath, NoDir

Last == Documents + 1

Packet(d) == {d} \X (1..Last)
Manifest(d) == <<d, Last>>
Path == File \cup (Dir \X (1..Last))

Kind == {"assess", "audit", "prompt", "readiness", "package"}

\* out = NoPath is the command line's "-": the output goes to stdout.
\* json: the format asked for; failOn: the value of --fail-on.
Job == [kind : Kind, source : Path \cup {NoPath}, dir : Dir \cup {NoDir},
        out : Path \cup {NoPath}, json : BOOLEAN,
        failOn : {"severity", "never", "invalid"}]

\* What the flags of cli.rs allow: only package and prompt read a published
\* file, and only package takes a directory.
WellFormed(j) ==
    /\ j.kind \in {"prompt", "package"} <=> j.source # NoPath
    /\ j.kind = "package" => j.dir # NoDir /\ j.out = NoPath
    /\ j.kind # "package" => j.dir = NoDir

ASSUME OutputFilesAssumption ==
    /\ Documents \in Nat \ {0}
    /\ Chunks \in Nat \ {0}
    /\ NoProc \notin Proc
    /\ NoPath \notin Path
    /\ NoDir \notin Dir
    /\ File \cap (Dir \X (1..Last)) = {}
    /\ Jobs \subseteq {j \in Job : WellFormed(j)}

VARIABLES
    job,        \* an invocation's command line
    pc,         \* the call an invocation makes next
    nxt,        \* the number of the output it is at
    exit,       \* how it ended
    holder,     \* the invocation whose create-new made a path, or NoProc
    len,        \* how much of the contents is in the file
    synced,     \* the files whose sync_all has returned
    made        \* the invocation whose mkdir made a directory, or NoProc

vars == <<job, pc, nxt, exit, holder, len, synced, made>>

Step == {"idle", "read", "mkdir", "open", "write", "flush", "sync", "finish", "done"}
Exit == {"none", "success", "threshold", "error", "killed"}

IdleJob == [kind |-> "assess", source |-> NoPath, dir |-> NoDir,
            out |-> NoPath, json |-> FALSE, failOn |-> "never"]

TypeOK ==
    /\ job \in [Proc -> Job]
    /\ pc \in [Proc -> Step]
    /\ nxt \in [Proc -> 1..Last]
    /\ exit \in [Proc -> Exit]
    /\ holder \in [Path -> Proc \cup {NoProc}]
    /\ len \in [Path -> 0..Chunks]
    /\ synced \in SUBSET Path
    /\ made \in [Dir -> Proc \cup {NoProc}]

Init ==
    /\ job = [p \in Proc |-> IdleJob]
    /\ pc = [p \in Proc |-> "idle"]
    /\ nxt = [p \in Proc |-> 1]
    /\ exit = [p \in Proc |-> "none"]
    /\ holder = [f \in Path |-> NoProc]
    /\ len = [f \in Path |-> 0]
    /\ synced = {}
    /\ made = [d \in Dir |-> NoProc]

-----------------------------------------------------------------------------

\* The outputs of a command line, and the one an invocation is writing.
Outs(j) ==
    IF j.kind = "package" THEN Packet(j.dir)
    ELSE IF j.out = NoPath THEN {} ELSE {j.out}

\* Mutant: the manifest is written before the documents it lists.
TargetManifestFirst(p) ==
    IF job[p].kind = "package"
    THEN <<job[p].dir, IF nxt[p] = 1 THEN Last ELSE nxt[p] - 1>>
    ELSE job[p].out

Target(p) == IF job[p].kind = "package" THEN <<job[p].dir, nxt[p]>> ELSE job[p].out

\* Mutant: one output too many.
LastOutPastEnd(j) == IF j.kind = "package" THEN Last + 1 ELSE 1

\* package writes the manifest when the documents are written.
LastOut(j) == IF j.kind = "package" THEN Last ELSE 1

Running(p) == pc[p] \notin {"idle", "done"}

Goto(p, step) ==
    /\ pc' = [pc EXCEPT ![p] = step]
    /\ UNCHANGED exit

End(p, code) ==
    /\ pc' = [pc EXCEPT ![p] = "done"]
    /\ exit' = [exit EXCEPT ![p] = code]

\* Reading to the end of a file and parsing it yields a verified dossier (for
\* package) or report (for prompt) exactly when the file holds all of one: a
\* proper prefix of its JSON does not parse, and verify_dossier and
\* verify_report accept what run_audit and assess produced. (To lack only the
\* newline that ends the file is to hold all of it: no reader looks at that.)
Readable(f, reader) ==
    /\ holder[f] # NoProc
    /\ len[f] = Chunks
    /\ LET j == job[holder[f]] IN
       IF reader = "package"
       THEN \/ j.kind = "audit" /\ j.json
            \/ j.kind = "package" /\ f = <<j.dir, Documents>>
       ELSE j.kind = "assess" /\ j.json

\* open fails with NotFound when the directory of the path does not exist.
Reachable(f) == \A d \in Dir : f \in Packet(d) => made[d] # NoProc

\* The exits of a command whose outputs are written: assess and audit look at
\* --fail-on only then, so a bad value ends in an error after the report is out.
Exits(j) ==
    IF j.kind \in {"prompt", "package"} THEN {"success"}
    ELSE IF j.kind = "readiness" THEN {"success", "threshold"}
    ELSE IF j.failOn = "invalid" THEN {"error"}
    ELSE IF j.failOn = "never" THEN {"success"}
    ELSE {"success", "threshold"}

-----------------------------------------------------------------------------
\* One action per call of a command.

AfterRead(j) == IF j.kind = "package" THEN "mkdir" ELSE "open"

Start(p) ==
    /\ pc[p] = "idle"
    /\ \E j \in Jobs :
         /\ job' = [job EXCEPT ![p] = j]
         /\ Goto(p, IF j.source # NoPath THEN "read" ELSE AfterRead(j))
    /\ UNCHANGED <<nxt, holder, len, synced, made>>

\* Mutant: any bytes will do for a source.
ReadAnyBytes(p) ==
    /\ pc[p] = "read"
    /\ Goto(p, AfterRead(job[p]))
    /\ UNCHANGED <<job, nxt, holder, len, synced, made>>

ReadSource(p) ==
    /\ pc[p] = "read"
    /\ IF Readable(job[p].source, job[p].kind)
       THEN Goto(p, AfterRead(job[p]))
       ELSE End(p, "error")
    /\ UNCHANGED <<job, nxt, holder, len, synced, made>>

MakeDir(p) ==
    /\ pc[p] = "mkdir"
    /\ IF made[job[p].dir] = NoProc
       THEN /\ made' = [made EXCEPT ![job[p].dir] = p]
            /\ Goto(p, "open")
       ELSE /\ End(p, "error")
            /\ UNCHANGED made
    /\ UNCHANGED <<job, nxt, holder, len, synced>>

\* Mutant: create(true).truncate(true) in place of create_new(true).
OpenTruncating(p) ==
    /\ pc[p] = "open" /\ Target(p) # NoPath
    /\ IF Reachable(Target(p))
       THEN /\ holder' = [holder EXCEPT ![Target(p)] = p]
            /\ len' = [len EXCEPT ![Target(p)] = 0]
            /\ Goto(p, "write")
       ELSE /\ End(p, "error")
            /\ UNCHANGED <<holder, len>>
    /\ UNCHANGED <<job, nxt, synced, made>>

\* Mutant: a taken path is waited for instead of refused.
OpenWaiting(p) ==
    /\ pc[p] = "open" /\ Target(p) # NoPath
    /\ holder[Target(p)] = NoProc /\ Reachable(Target(p))
    /\ holder' = [holder EXCEPT ![Target(p)] = p]
    /\ Goto(p, "write")
    /\ UNCHANGED <<job, nxt, len, synced, made>>

Open(p) ==
    /\ pc[p] = "open" /\ Target(p) # NoPath
    /\ IF holder[Target(p)] = NoProc /\ Reachable(Target(p))
       THEN /\ holder' = [holder EXCEPT ![Target(p)] = p]
            /\ Goto(p, "write")
       ELSE /\ End(p, "error")
            /\ UNCHANGED holder
    /\ UNCHANGED <<job, nxt, len, synced, made>>

EmitStdout(p) ==
    /\ pc[p] = "open" /\ Target(p) = NoPath
    /\ Goto(p, "finish")
    /\ UNCHANGED <<job, nxt, holder, len, synced, made>>

\* write_all hands the buffer any part of the contents through to the file.
WriteAll(p) ==
    /\ pc[p] = "write"
    /\ \E n \in len[Target(p)]..Chunks : len' = [len EXCEPT ![Target(p)] = n]
    /\ Goto(p, "flush")
    /\ UNCHANGED <<job, nxt, holder, synced, made>>

\* Mutant: the buffer is dropped without being flushed.
FlushNothing(p) ==
    /\ pc[p] = "flush"
    /\ Goto(p, "sync")
    /\ UNCHANGED <<job, nxt, holder, len, synced, made>>

Flush(p) ==
    /\ pc[p] = "flush"
    /\ len' = [len EXCEPT ![Target(p)] = Chunks]
    /\ Goto(p, "sync")
    /\ UNCHANGED <<job, nxt, holder, synced, made>>

\* Mutant: the sync_all call is left out.
SyncNothing(p) ==
    /\ pc[p] = "sync"
    /\ IF nxt[p] < LastOut(job[p])
       THEN /\ nxt' = [nxt EXCEPT ![p] = @ + 1]
            /\ Goto(p, "open")
       ELSE /\ Goto(p, "finish")
            /\ UNCHANGED nxt
    /\ UNCHANGED <<job, holder, len, synced, made>>

SyncAll(p) ==
    /\ pc[p] = "sync"
    /\ synced' = synced \cup {Target(p)}
    /\ IF nxt[p] < LastOut(job[p])
       THEN /\ nxt' = [nxt EXCEPT ![p] = @ + 1]
            /\ Goto(p, "open")
       ELSE /\ Goto(p, "finish")
            /\ UNCHANGED nxt
    /\ UNCHANGED <<job, holder, len, made>>

Finish(p) ==
    /\ pc[p] = "finish"
    /\ \E code \in Exits(job[p]) : End(p, code)
    /\ UNCHANGED <<job, nxt, holder, len, synced, made>>

\* Some call returns an error and `?` leaves the command.  An error in write_all
\* or flush drops the BufWriter, which tries once more to write what it holds.
Fail(p) ==
    /\ "error" \in Faults
    /\ Running(p)
    /\ End(p, "error")
    /\ IF pc[p] \in {"write", "flush"}
       THEN \E n \in len[Target(p)]..Chunks : len' = [len EXCEPT ![Target(p)] = n]
       ELSE UNCHANGED len
    /\ UNCHANGED <<job, nxt, holder, synced, made>>

\* The process is killed: what its buffer holds is gone.
Kill(p) ==
    /\ "kill" \in Faults
    /\ Running(p)
    /\ End(p, "killed")
    /\ UNCHANGED <<job, nxt, holder, len, synced, made>>

Command(p) ==
    \/ ReadSource(p) \/ MakeDir(p) \/ Open(p) \/ EmitStdout(p)
    \/ WriteAll(p) \/ Flush(p) \/ SyncAll(p) \/ Finish(p)

Next == \E p \in Proc : Start(p) \/ Command(p) \/ Fail(p) \/ Kill(p)

Spec == Init /\ [][Next]_vars

\* A started command runs until it ends: nothing in it waits for another
\* invocation.  Nobody has to start one.
FairSpec == Spec /\ \A p \in Proc : WF_vars(Command(p))

-----------------------------------------------------------------------------

Whole(f) == holder[f] # NoProc /\ len[f] = Chunks
Ended(p) == pc[p] = "done"

\* An exit code that says the output was written (app.rs, Exit) is right about
\* every file of the command, whatever other invocations did to the same paths.
OutcomeSound ==
    \A p \in Proc : exit[p] \in {"success", "threshold"} =>
        \A f \in Outs(job[p]) : holder[f] = p /\ len[f] = Chunks /\ f \in synced

\* A packet whose package command has created the manifest, even an empty one,
\* is complete: its directory and its documents are that command's, whole and
\* synced.  The manifest's presence is what a consumer can rely on.
ManifestSealsPacket ==
    \A p \in Proc : \A d \in Dir :
        job[p].kind = "package" /\ job[p].dir = d /\ holder[Manifest(d)] = p =>
            /\ made[d] = p
            /\ \A f \in Packet(d) \ {Manifest(d)} : holder[f] = p /\ Whole(f) /\ f \in synced

\* Nothing is published from a source that was still being written or was
\* abandoned: whoever made a directory or holds an output read a whole source
\* of the right sort, and that source is still there.
PublishedFromWhole ==
    \A p \in Proc :
        /\ job[p].source # NoPath
        /\ (\E d \in Dir : made[d] = p) \/ (\E f \in Path : holder[f] = p)
        => Readable(job[p].source, job[p].kind)

\* A file of an invocation that has ended, well or badly, never changes again,
\* and no path ever changes hands or loses contents: a retry cannot repair or
\* replace what an earlier run left.
FrozenOnceEnded ==
    [][\A f \in Path : holder[f] # NoProc =>
          /\ holder'[f] = holder[f]
          /\ len'[f] >= len[f]
          /\ Ended(holder[f]) => len'[f] = len[f]]_vars

\* The promise of the module Publication.
PlanOf(p) ==
    [source |-> job[p].source, goal |-> Outs(job[p]),
     seal |-> IF job[p].kind = "package" THEN Manifest(job[p].dir) ELSE NoPath]

StatusOf(p) ==
    IF pc[p] = "idle" THEN "idle"
    ELSE IF Running(p) THEN "working"
    ELSE IF exit[p] \in {"success", "threshold"} THEN "published"
    ELSE "gaveUp"

Promise == INSTANCE Publication WITH
    holder <- holder,
    whole <- {f \in Path : Whole(f)},
    plan <- [p \in Proc |-> PlanOf(p)],
    status <- [p \in Proc |-> StatusOf(p)]

KeepsPromise == Promise!Spec

\* A started command ends, whatever the others do.
EveryCommandEnds == \A p \in Proc : Running(p) ~> Ended(p)

\* When nothing fails, a path somebody tries to create ends up whole: of the
\* contenders one wins, and the losers do not damage what it writes.
ContestedPathFilled ==
    \A f \in Path :
        (\E p \in Proc : pc[p] = "open" /\ Target(p) = f /\ Reachable(f)) ~> Whole(f)

=============================================================================
