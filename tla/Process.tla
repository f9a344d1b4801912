------------------------------- MODULE Process ------------------------------
(***************************************************************************)
(* One process of the binary that publishes no file: src/main.rs and       *)
(* src/flags.rs, and under them the commands catalog, validate and config  *)
(* of src/app.rs, which write to stdout, and serve.  (OutputFiles has the  *)
(* commands that publish.)                                                 *)
(***************************************************************************)
EXTENDS Server, AuditConfig

CONSTANTS
    Invocations,    \* [refusedBy, command, file, arguments, inputs]
    Configs         \* the documents config may be run on

\* A command is run on such a document, and no secret sources are not some.
ASSUME ProcessAssumption ==
    /\ \A i \in Invocations : i.file \in Configs
    /\ \A c \in Configs \ {Unreadable} :
         DocumentTyped(c) /\ (RedactedJson(c).sources = NoSources => c.sources = NoSources)

VARIABLES
    invocation,
    stage,      \* "argv", "command", "ended"
    exit,       \* the exit code, or Killed
    printed,    \* what config wrote to stdout
    dropped     \* the clients whose connection the process took with it

processVars == <<invocation, stage, exit, printed, dropped>>
vars == <<serverVars, processVars>>

\* What main makes of the result of a command.
ExitCode == [success |-> 0, threshold |-> 2, error |-> 1]

\* A process that a signal ended has no code of its own; a shell says 128 or more.
Killed == 128

Init ==
    /\ invocation \in Invocations
    /\ settings \in IF invocation.command = "serve" THEN Settings ELSE {None}
    /\ ServerInit
    /\ stage = "argv" /\ exit = None /\ printed = {} /\ dropped = {}

\* The process is over, and with it whatever connection is still open.
End(code) ==
    /\ stage' = "ended" /\ exit' = code
    /\ dropped' = {c \in Clients : conn[c] # "closed"}
    /\ conn' = [c \in Clients |-> "closed"] /\ request' = [c \in Clients |-> None]
    /\ UNCHANGED <<invocation, settings, service>>

\* flags.rs refuses before clap does, and also when it cannot write its contract
\* to a temporary file; help is clap's, and no failure.
ParseArgv ==
    /\ stage = "argv" /\ UNCHANGED printed
    /\ \/ End(2)
       \/ invocation.refusedBy \in {"flags", "clap"} /\ End(2)
       \/ invocation.refusedBy = "help" /\ End(0)
       \/ /\ invocation.refusedBy = None
          /\ stage' = "command" /\ UNCHANGED <<serverVars, invocation, exit, dropped>>

Runs(command) == stage = "command" /\ invocation.command = command

\* Stdout may fail under any command that writes to it.
Catalog ==
    /\ Runs("catalog") /\ UNCHANGED printed
    /\ \E result \in {"success", "error"} : End(ExitCode[result])

ValidateInputs ==
    /\ Runs("validate") /\ UNCHANGED printed
    /\ \/ invocation.inputs = "accepted" /\ End(ExitCode["success"])
       \/ End(ExitCode["error"])

ShowConfig ==
    /\ Runs("config")
    /\ \/ LET outcome == ConfigCommand(invocation.file, invocation.arguments)
          IN  printed' = outcome.output /\ End(ExitCode[outcome.result])
       \/ UNCHANGED printed /\ End(ExitCode["error"])

Serve == Runs("serve") /\ ServerNext /\ UNCHANGED processVars

ServeReturns ==
    /\ Runs("serve") /\ UNCHANGED printed
    /\ \/ service = "stopped" /\ End(ExitCode["success"])
       \/ service = "failed" /\ End(ExitCode["error"])

\* Any other signal than a Ctrl-C that the service handles.
Kill == stage # "ended" /\ End(Killed) /\ UNCHANGED printed

Next ==
    \/ ParseArgv \/ Catalog \/ ValidateInputs \/ ShowConfig
    \/ Serve \/ ServeReturns \/ Kill

Spec == Init /\ [][Next]_vars

\* The runtime runs every task that can run; it owes nobody a client.
FairSpec ==
    /\ Spec
    /\ WF_vars(ServeReturns)
    /\ WF_vars(Runs("serve") /\ Return /\ UNCHANGED processVars)
    /\ \A c \in Clients :
         /\ WF_vars(Runs("serve") /\ Answer(c) /\ UNCHANGED processVars)
         /\ WF_vars(Runs("serve") /\ CloseIdle(c) /\ UNCHANGED processVars)

-----------------------------------------------------------------------------

\* Beyond the host nobody gets the engine to work on a body without having signed
\* exactly that body with the secret the service was started with, and nobody
\* anywhere gets it to work on more bytes than any service may admit.
OnlySignedWork ==
    \A c \in Clients :
        conn[c] = "answered" /\ request[c].route \in DOMAIN Posting
        /\ Response(request[c])[1] \in {200, 400, 422} =>
            /\ request[c].body.bytes <= MaxBodyBytes
            /\ IF settings.secret = None THEN settings.bind = "loopback"
               ELSE request[c].signature = Signed(settings.secret.key, request[c].body)

\* A service that ends as one that was asked to leaves no request behind: every
\* client it still had read its answer, went away, or had not begun to ask.
CleanExit == exit = 0 => dropped = {}

\* After a Ctrl-C the service ends, if its clients, whoever they are, neither stop
\* in the middle of a request for ever nor leave an answer unread for ever.  There
\* is no deadline, so that one who does so holds it up, later Ctrl-Cs or not.
ShutdownEnds ==
    (\A c \in Clients : []<>(conn[c] \notin {"sending", "answered"}))
        => (service = "draining" ~> stage = "ended")

\* What config prints tells its document from another that loads exactly when they
\* differ in more than the targets of their secret references: nothing of a target
\* is shown or digested, and whatever else changes changes what is printed.
TargetsStayIn ==
    printed # {} =>
        \A d \in Configs :
            LET outcome == ConfigCommand(d, invocation.arguments) IN
            outcome.result # "error" =>
                (outcome.output = printed <=> SameButTargets(invocation.file, d))

=============================================================================
