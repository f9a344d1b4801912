--------------------------- MODULE ProcessProofs ----------------------------
(***************************************************************************)
(* What Process promises for any number of clients, whatever they send,    *)
(* under any settings and for any command line: the service starts under a *)
(* policy that holds, answers signed requests only beyond the host, and    *)
(* ends as a success with no request pending; and config prints nothing of *)
(* the targets of its document's secret references.                        *)
(***************************************************************************)
EXTENDS Process, TLAPS

ExitCodes == {0, 1, 2, Killed}

\* The state that is not the service's own.
ProcessTypeOK ==
    /\ invocation \in Invocations /\ stage \in {"argv", "command", "ended"}
    /\ exit \in ExitCodes \cup {None}
    /\ dropped \subseteq Clients

TypeOK == ServerTypeOK /\ ProcessTypeOK

\* There are connections only while the command serve has a service that has
\* listened under a policy that holds, and none once it has returned.
NobodyBefore ==
    /\ service \in {"start", "stopped"} => \A c \in Clients : conn[c] = "closed"
    /\ stage = "argv" => service = "start"
    /\ stage = "command" /\ invocation.command # "serve" => service = "start"

RunsUnderPolicy == service \in {"listening", "draining"} => PolicyHolds(settings)

OpenUnderPolicy == \A c \in Clients : conn[c] # "closed" => PolicyHolds(settings)

\* Whoever is owed or has an answer has sent a request.
Asked ==
    \A c \in Clients : conn[c] \in {"sending", "received", "answered"} => request[c] \in Requests

Inv == TypeOK /\ NobodyBefore /\ RunsUnderPolicy /\ OpenUnderPolicy /\ Asked /\ CleanExit

-----------------------------------------------------------------------------
\* The steps that end the process, together.

LEMMA EndKeepsInv ==
    ASSUME Inv, NEW code \in ExitCodes, End(code),
           code = 0 => \A c \in Clients : conn[c] = "closed"
    PROVE  Inv'
<1> USE DEF ExitCodes, Killed
<1>1. ServerTypeOK'
  BY DEF Inv, TypeOK, ServerTypeOK, End
<1>2. ProcessTypeOK'
  BY DEF Inv, TypeOK, ProcessTypeOK, End
<1>3. NobodyBefore'
  BY DEF NobodyBefore, End
<1>4. RunsUnderPolicy'
  BY DEF Inv, RunsUnderPolicy, PolicyHolds, End
<1>5. (OpenUnderPolicy /\ Asked)'
  BY DEF OpenUnderPolicy, Asked, End
<1>6. CleanExit'
  BY DEF CleanExit, End
<1> QED BY <1>1, <1>2, <1>3, <1>4, <1>5, <1>6 DEF Inv, TypeOK

LEMMA ParseKeepsInv ==
    ASSUME Inv, ParseArgv
    PROVE  Inv'
<1> USE DEF ExitCodes, Killed
<1>1. \A c \in Clients : conn[c] = "closed"
  BY DEF Inv, NobodyBefore, ParseArgv
<1>2. CASE End(2)
  BY <1>2, EndKeepsInv
<1>3. CASE End(0)
  BY <1>1, <1>3, EndKeepsInv
<1>4. CASE stage' = "command" /\ UNCHANGED <<serverVars, invocation, exit, dropped>>
  <2> USE <1>4 DEF serverVars
  <2>1. TypeOK'
    BY DEF Inv, TypeOK, ServerTypeOK, ProcessTypeOK
  <2>2. NobodyBefore'
    BY DEF Inv, NobodyBefore, ParseArgv
  <2>3. (RunsUnderPolicy /\ OpenUnderPolicy /\ Asked /\ CleanExit)'
    BY DEF Inv, RunsUnderPolicy, OpenUnderPolicy, Asked, CleanExit, PolicyHolds
  <2> QED BY <2>1, <2>2, <2>3 DEF Inv
<1> QED BY <1>2, <1>3, <1>4 DEF ParseArgv

\* The commands that have no service.
LEMMA CommandKeepsInv ==
    ASSUME Inv, Catalog \/ ValidateInputs \/ ShowConfig
    PROVE  Inv'
<1> USE DEF ExitCodes, Killed
<1>1. \A c \in Clients : conn[c] = "closed"
  BY DEF Inv, NobodyBefore, Catalog, ValidateInputs, ShowConfig, Runs
<1>2. \A result \in {"success", "threshold", "error"} : ExitCode[result] \in ExitCodes
  BY DEF ExitCode
<1>3. CASE Catalog
  BY <1>1, <1>2, <1>3, EndKeepsInv DEF Catalog
<1>4. CASE ValidateInputs
  BY <1>1, <1>2, <1>4, EndKeepsInv DEF ValidateInputs
<1>5. CASE ShowConfig
  <2>1. ConfigCommand(invocation.file, invocation.arguments).result
            \in {"success", "threshold", "error"}
    BY DEF ConfigCommand, Failure
  <2> QED BY <1>1, <1>2, <1>5, <2>1, EndKeepsInv DEF ShowConfig
<1> QED BY <1>3, <1>4, <1>5

LEMMA ReturnKeepsInv ==
    ASSUME Inv, ServeReturns \/ Kill
    PROVE  Inv'
<1> USE DEF ExitCodes, Killed
<1>1. CASE ServeReturns
  <2>1. CASE service = "stopped"
    BY <1>1, <2>1, EndKeepsInv DEF Inv, NobodyBefore, ServeReturns, ExitCode
  <2>2. CASE service = "failed"
    BY <1>1, <2>2, EndKeepsInv DEF ServeReturns, ExitCode
  <2> QED BY <1>1, <2>1, <2>2 DEF ServeReturns
<1>2. CASE Kill
  BY <1>2, EndKeepsInv DEF Kill
<1> QED BY <1>1, <1>2

-----------------------------------------------------------------------------
\* The steps of the service.

LEMMA LifecycleKeepsInv ==
    ASSUME Inv, Runs("serve"), UNCHANGED processVars,
           Listen \/ Interrupt \/ Return \/ ListenerFails
    PROVE  Inv'
<1> USE DEF processVars, Listen, Interrupt, Return, ListenerFails
<1>1. TypeOK'
  BY DEF Inv, TypeOK, ServerTypeOK, ProcessTypeOK
<1>2. NobodyBefore'
  BY DEF Inv, NobodyBefore, Runs
<1>3. RunsUnderPolicy'
  BY DEF Inv, RunsUnderPolicy, PolicyHolds
<1>4. (OpenUnderPolicy /\ Asked /\ CleanExit)'
  BY DEF Inv, OpenUnderPolicy, Asked, CleanExit, PolicyHolds
<1> QED BY <1>1, <1>2, <1>3, <1>4 DEF Inv

LEMMA ConnectionKeepsInv ==
    ASSUME Inv, Runs("serve"), UNCHANGED processVars, NEW c \in Clients,
           \/ Connect(c) \/ Send(c) \/ SendRest(c) \/ Answer(c) \/ Read(c) \/ HangUp(c)
           \/ CloseIdle(c)
    PROVE  Inv'
<1> USE DEF processVars, Connect, Send, SendRest, Answer, Read, HangUp, CloseIdle, Serving
<1>1. UNCHANGED <<settings, service>> /\ service \in {"listening", "draining"}
  OBVIOUS
<1>2. TypeOK'
  BY DEF Inv, TypeOK, ServerTypeOK, ProcessTypeOK
<1>3. NobodyBefore'
  BY <1>1 DEF Inv, NobodyBefore, Runs
<1>4. PolicyHolds(settings) /\ PolicyHolds(settings)'
  BY <1>1 DEF Inv, RunsUnderPolicy, PolicyHolds
<1>5. (RunsUnderPolicy /\ OpenUnderPolicy)'
  BY <1>4 DEF RunsUnderPolicy, OpenUnderPolicy
<1>6. Asked'
  BY DEF Inv, TypeOK, ServerTypeOK, Asked
<1>7. CleanExit'
  BY DEF Inv, CleanExit
<1> QED BY <1>2, <1>3, <1>5, <1>6, <1>7 DEF Inv

-----------------------------------------------------------------------------

LEMMA InitInv == Init => Inv
<1> SUFFICES ASSUME Init PROVE Inv
  OBVIOUS
<1> USE DEF Init, ServerInit
<1>1. TypeOK
  BY DEF TypeOK, ServerTypeOK, ProcessTypeOK
<1>2. NobodyBefore /\ RunsUnderPolicy /\ OpenUnderPolicy /\ Asked /\ CleanExit
  BY DEF NobodyBefore, RunsUnderPolicy, OpenUnderPolicy, Asked, CleanExit
<1> QED BY <1>1, <1>2 DEF Inv

LEMMA StepInv == Inv /\ [Next]_vars => Inv'
<1> SUFFICES ASSUME Inv, [Next]_vars PROVE Inv'
  OBVIOUS
<1>1. CASE ParseArgv
  BY <1>1, ParseKeepsInv
<1>2. CASE Catalog \/ ValidateInputs \/ ShowConfig
  BY <1>2, CommandKeepsInv
<1>3. CASE Serve
  <2>1. Runs("serve") /\ UNCHANGED processVars
    BY <1>3 DEF Serve
  <2>2. CASE Listen \/ Interrupt \/ Return \/ ListenerFails
    BY <2>1, <2>2, LifecycleKeepsInv
  <2>3. CASE \E c \in Clients :
                \/ Connect(c) \/ Send(c) \/ SendRest(c) \/ Answer(c) \/ Read(c) \/ HangUp(c)
                \/ CloseIdle(c)
    BY <2>1, <2>3, ConnectionKeepsInv
  <2> QED BY <1>3, <2>2, <2>3 DEF Serve, ServerNext
<1>4. CASE ServeReturns \/ Kill
  BY <1>4, ReturnKeepsInv
<1>5. CASE UNCHANGED vars
  BY <1>5 DEF Inv, TypeOK, ServerTypeOK, ProcessTypeOK, NobodyBefore, RunsUnderPolicy,
              OpenUnderPolicy, Asked, CleanExit, PolicyHolds, vars, serverVars, processVars
<1> QED BY <1>1, <1>2, <1>3, <1>4, <1>5 DEF Next

\* The variables of the service and of its process have the values they may have,
\* for any clients and command lines.
THEOREM ProcessTypeCorrect == Spec => []TypeOK
<1>1. Inv => TypeOK
  BY DEF Inv
<1> QED BY <1>1, InitInv, StepInv, PTL DEF Spec

\* The process exits as a success only with every connection closed, however many
\* clients there were: shutting down leaves nobody's request behind.
THEOREM ShutdownIsClean == Spec => []CleanExit
<1>1. Inv => CleanExit
  BY DEF Inv
<1> QED BY <1>1, InitInv, StepInv, PTL DEF Spec

\* No request beyond the host reaches the engine unsigned or larger than any
\* service may admit, under whatever settings the service started.
THEOREM WorkIsSigned == Spec => []OnlySignedWork
<1>1. Inv => OnlySignedWork
  <2> SUFFICES ASSUME Inv, NEW c \in Clients, conn[c] = "answered",
                      request[c].route \in DOMAIN Posting,
                      Response(request[c])[1] \in {200, 400, 422}
               PROVE  /\ request[c].body.bytes <= MaxBodyBytes
                      /\ IF settings.secret = None THEN settings.bind = "loopback"
                         ELSE request[c].signature
                                = Signed(settings.secret.key, request[c].body)
    BY DEF OnlySignedWork
  <2>1. PolicyHolds(settings) /\ request[c] \in Requests
    BY DEF Inv, OpenUnderPolicy, Asked
  <2>2. request[c].route \notin Getting
    BY DEF Posting, Getting
  <2>3. ~TooLarge(request[c]) /\ Authenticated(request[c])
    BY <2>2 DEF Response
  <2>4. request[c].body.bytes <= settings.limit
    BY <2>1, <2>3, ServerAssumption DEF TooLarge, PolicyHolds
  <2> QED BY <2>1, <2>3, <2>4, ServerAssumption DEF PolicyHolds, Authenticated
<1> QED BY <1>1, InitInv, StepInv, PTL DEF Spec

-----------------------------------------------------------------------------
\* What config prints.

\* What is left of references whose targets are hidden.
Schemed(references) == [i \in DOMAIN references |-> references[i].scheme]

LEMMA ShownTellsSchemes ==
    ASSUME NEW p, NEW q, ReferencesTyped(p), ReferencesTyped(q)
    PROVE  Shown(p) = Shown(q) <=> Schemed(p) = Schemed(q)
<1>1. /\ \A i \in DOMAIN p : p[i] = [scheme |-> p[i].scheme, target |-> p[i].target]
      /\ \A i \in DOMAIN q : q[i] = [scheme |-> q[i].scheme, target |-> q[i].target]
  BY DEF ReferencesTyped, Range
<1>2. /\ \A i \in DOMAIN p : [p[i] EXCEPT !.target = Redacted]
                               = [scheme |-> p[i].scheme, target |-> Redacted]
      /\ \A i \in DOMAIN q : [q[i] EXCEPT !.target = Redacted]
                               = [scheme |-> q[i].scheme, target |-> Redacted]
  <2>1. ASSUME NEW r, r = [scheme |-> r.scheme, target |-> r.target]
        PROVE  [r EXCEPT !.target = Redacted] = [scheme |-> r.scheme, target |-> Redacted]
    BY <2>1
  <2> QED BY <1>1, <2>1
<1>3. /\ DOMAIN Shown(p) = DOMAIN p /\ DOMAIN Shown(q) = DOMAIN q
      /\ DOMAIN Schemed(p) = DOMAIN p /\ DOMAIN Schemed(q) = DOMAIN q
  BY DEF Shown, Schemed
<1>4. /\ \A i \in DOMAIN p : Shown(p)[i] = [scheme |-> p[i].scheme, target |-> Redacted]
                              /\ Schemed(p)[i] = p[i].scheme
      /\ \A i \in DOMAIN q : Shown(q)[i] = [scheme |-> q[i].scheme, target |-> Redacted]
                              /\ Schemed(q)[i] = q[i].scheme
  BY <1>2 DEF Shown, Schemed
<1>5. ASSUME Shown(p) = Shown(q) PROVE Schemed(p) = Schemed(q)
  <2>1. DOMAIN p = DOMAIN q
    BY <1>3, <1>5
  <2>2. ASSUME NEW i \in DOMAIN p PROVE p[i].scheme = q[i].scheme
    <3>1. [scheme |-> p[i].scheme, target |-> Redacted] = [scheme |-> q[i].scheme, target |-> Redacted]
      BY <1>4, <1>5, <2>1
    <3> QED BY <3>1
  <2> QED BY <2>1, <2>2 DEF Schemed
<1>6. ASSUME Schemed(p) = Schemed(q) PROVE Shown(p) = Shown(q)
  <2>1. DOMAIN p = DOMAIN q
    BY <1>3, <1>6
  <2>2. \A i \in DOMAIN p : p[i].scheme = q[i].scheme
    BY <1>4, <1>6, <2>1
  <2>3. \A i \in DOMAIN p : [p[i] EXCEPT !.target = Redacted] = [q[i] EXCEPT !.target = Redacted]
    BY <1>2, <2>1, <2>2
  <2> QED BY <2>1, <2>3 DEF Shown
<1> QED BY <1>5, <1>6

\* Records with some fields replaced are equal when these and the others are.
LEMMA FieldsReplaced ==
    ASSUME NEW c, NEW d, NEW C, NEW D, NEW fields,
           IsRecord(C, fields), DOMAIN C = DOMAIN c, \A f \in DOMAIN c \ fields : C[f] = c[f],
           IsRecord(D, fields), DOMAIN D = DOMAIN d, \A f \in DOMAIN d \ fields : D[f] = d[f]
    PROVE  C = D <=> /\ \A f \in fields : C[f] = D[f]
                     /\ DOMAIN c = DOMAIN d /\ \A f \in DOMAIN c \ fields : c[f] = d[f]
<1>1. ASSUME \A f \in fields : C[f] = D[f], DOMAIN c = DOMAIN d,
             \A f \in DOMAIN c \ fields : c[f] = d[f]
      PROVE  C = D
  <2>1. \A f \in DOMAIN c : C[f] = D[f]
    BY <1>1
  <2> QED BY <1>1, <2>1 DEF IsRecord
<1>2. C = D => /\ \A f \in fields : C[f] = D[f]
               /\ DOMAIN c = DOMAIN d /\ \A f \in DOMAIN c \ fields : c[f] = d[f]
  OBVIOUS
<1> QED BY <1>1, <1>2

\* Two documents are redacted to one exactly when they are the same but for targets.
LEMMA RedactionHidesTargets ==
    ASSUME NEW c, NEW d, DocumentTyped(c), DocumentTyped(d),
           RedactedJson(c).sources = NoSources => c.sources = NoSources,
           RedactedJson(d).sources = NoSources => d.sources = NoSources
    PROVE  RedactedJson(c) = RedactedJson(d) <=> SameButTargets(c, d)
<1> DEFINE Services(b) == ShownServices(b.services)
           Sources(b) == IF b.sources = NoSources THEN NoSources
                         ELSE [f \in DOMAIN b.sources |-> Shown(b.sources[f])]
           Fields == {"services", "sources"}
           Rest == DOMAIN c = DOMAIN d /\ \A f \in DOMAIN c \ Fields : c[f] = d[f]
<1>1. ASSUME NEW b, DocumentTyped(b)
      PROVE  /\ IsRecord(RedactedJson(b), Fields) /\ DOMAIN RedactedJson(b) = DOMAIN b
             /\ RedactedJson(b)["services"] = Services(b)
             /\ RedactedJson(b)["sources"] = Sources(b)
             /\ \A f \in DOMAIN b \ Fields : RedactedJson(b)[f] = b[f]
  <2> DEFINE u == Services(b)
             x == Sources(b)
             B == [b EXCEPT !.services = u, !.sources = x]
  <2>1. RedactedJson(b) = B
    BY DEF RedactedJson
  <2> HIDE DEF u, x
  <2>2. /\ IsRecord(B, Fields) /\ DOMAIN B = DOMAIN b
        /\ B["services"] = u /\ B["sources"] = x
        /\ \A f \in DOMAIN b \ Fields : B[f] = b[f]
    BY <1>1 DEF DocumentTyped, IsRecord
  <2> HIDE DEF B
  <2> QED BY <2>1, <2>2 DEF u, x
<1>2. RedactedJson(c) = RedactedJson(d)
        <=> Services(c) = Services(d) /\ Sources(c) = Sources(d) /\ Rest
  <2> HIDE DEF Services, Sources
  <2>1. RedactedJson(c) = RedactedJson(d)
          <=> (\A f \in Fields : RedactedJson(c)[f] = RedactedJson(d)[f]) /\ Rest
    BY <1>1, FieldsReplaced
  <2> QED BY <1>1, <2>1
<1>3. [c EXCEPT !.services = <<>>, !.sources = NoSources]
         = [d EXCEPT !.services = <<>>, !.sources = NoSources] <=> Rest
  <2> DEFINE C == [c EXCEPT !.services = <<>>, !.sources = NoSources]
             D == [d EXCEPT !.services = <<>>, !.sources = NoSources]
  <2>1. /\ IsRecord(C, Fields) /\ DOMAIN C = DOMAIN c
        /\ C["services"] = <<>> /\ C["sources"] = NoSources
        /\ \A f \in DOMAIN c \ Fields : C[f] = c[f]
    BY DEF DocumentTyped, IsRecord
  <2>2. /\ IsRecord(D, Fields) /\ DOMAIN D = DOMAIN d
        /\ D["services"] = <<>> /\ D["sources"] = NoSources
        /\ \A f \in DOMAIN d \ Fields : D[f] = d[f]
    BY DEF DocumentTyped, IsRecord
  <2> HIDE DEF C, D
  <2>3. C = D <=> (\A f \in Fields : C[f] = D[f]) /\ Rest
    BY <2>1, <2>2, FieldsReplaced
  <2>4. C = D <=> Rest
    BY <2>1, <2>2, <2>3
  <2> QED BY <2>4 DEF C, D
<1>4. Services(c) = Services(d)
        <=> /\ Len(c.services) = Len(d.services)
            /\ \A i \in DOMAIN c.services :
                 /\ [c.services[i] EXCEPT !.authRefs = <<>>]
                      = [d.services[i] EXCEPT !.authRefs = <<>>]
                 /\ Schemed(c.services[i].authRefs) = Schemed(d.services[i].authRefs)
  <2>1. /\ DOMAIN c.services = 1..Len(c.services) /\ Len(c.services) \in Nat
        /\ DOMAIN d.services = 1..Len(d.services) /\ Len(d.services) \in Nat
    BY DEF DocumentTyped
  <2>2. Len(c.services) = Len(d.services) <=> DOMAIN c.services = DOMAIN d.services
    BY <2>1
  <2>3. ASSUME NEW i \in DOMAIN c.services, i \in DOMAIN d.services
        PROVE  [c.services[i] EXCEPT !.authRefs = Shown(c.services[i].authRefs)]
                 = [d.services[i] EXCEPT !.authRefs = Shown(d.services[i].authRefs)]
               <=> /\ [c.services[i] EXCEPT !.authRefs = <<>>]
                        = [d.services[i] EXCEPT !.authRefs = <<>>]
                   /\ Schemed(c.services[i].authRefs) = Schemed(d.services[i].authRefs)
    <3> DEFINE s == c.services[i]
               t == d.services[i]
    <3>1. /\ IsRecord(s, {"authRefs"}) /\ ReferencesTyped(s.authRefs)
          /\ IsRecord(t, {"authRefs"}) /\ ReferencesTyped(t.authRefs)
      BY <2>3 DEF DocumentTyped, IsRecord, Range
    <3>2. Shown(s.authRefs) = Shown(t.authRefs) <=> Schemed(s.authRefs) = Schemed(t.authRefs)
      BY <3>1, ShownTellsSchemes
    <3> HIDE DEF s, t
    <3>3. ASSUME NEW r, IsRecord(r, {"authRefs"}), NEW u
          PROVE  LET R == [r EXCEPT !.authRefs = u] IN
                 /\ IsRecord(R, {"authRefs"}) /\ DOMAIN R = DOMAIN r /\ R["authRefs"] = u
                 /\ \A f \in DOMAIN r \ {"authRefs"} : R[f] = r[f]
      BY <3>3 DEF IsRecord
    <3>4. ASSUME NEW u, NEW v
          PROVE  [s EXCEPT !.authRefs = u] = [t EXCEPT !.authRefs = v]
                   <=> /\ u = v /\ DOMAIN s = DOMAIN t
                       /\ \A f \in DOMAIN s \ {"authRefs"} : s[f] = t[f]
      <4> DEFINE S == [s EXCEPT !.authRefs = u]
                 T == [t EXCEPT !.authRefs = v]
      <4>1. /\ IsRecord(S, {"authRefs"}) /\ DOMAIN S = DOMAIN s /\ S["authRefs"] = u
            /\ \A f \in DOMAIN s \ {"authRefs"} : S[f] = s[f]
        BY <3>1, <3>3
      <4>2. /\ IsRecord(T, {"authRefs"}) /\ DOMAIN T = DOMAIN t /\ T["authRefs"] = v
            /\ \A f \in DOMAIN t \ {"authRefs"} : T[f] = t[f]
        BY <3>1, <3>3
      <4> HIDE DEF S, T
      <4>3. S = T <=> /\ \A f \in {"authRefs"} : S[f] = T[f]
                      /\ DOMAIN s = DOMAIN t
                      /\ \A f \in DOMAIN s \ {"authRefs"} : s[f] = t[f]
        BY <4>1, <4>2, FieldsReplaced
      <4>4. S = T <=> /\ u = v /\ DOMAIN s = DOMAIN t
                      /\ \A f \in DOMAIN s \ {"authRefs"} : s[f] = t[f]
        BY <4>1, <4>2, <4>3
      <4> QED BY <4>4 DEF S, T
    <3> QED BY <3>2, <3>4 DEF s, t
  <2> DEFINE F(b, i) == [b.services[i] EXCEPT !.authRefs = Shown(b.services[i].authRefs)]
             E(i) == /\ [c.services[i] EXCEPT !.authRefs = <<>>]
                          = [d.services[i] EXCEPT !.authRefs = <<>>]
                     /\ Schemed(c.services[i].authRefs) = Schemed(d.services[i].authRefs)
  <2>4. \A i \in DOMAIN c.services : i \in DOMAIN d.services => (F(c, i) = F(d, i) <=> E(i))
    BY <2>3
  <2> HIDE DEF F, E
  <2>5. [i \in DOMAIN c.services |-> F(c, i)] = [i \in DOMAIN d.services |-> F(d, i)]
          <=> DOMAIN c.services = DOMAIN d.services
              /\ \A i \in DOMAIN c.services : F(c, i) = F(d, i)
    <3> DEFINE C == [i \in DOMAIN c.services |-> F(c, i)]
               D == [i \in DOMAIN d.services |-> F(d, i)]
    <3>1. C = D => DOMAIN C = DOMAIN D /\ \A i \in DOMAIN C : C[i] = D[i]
      BY Zenon
    <3> QED BY <3>1
  <2> QED BY <2>2, <2>4, <2>5 DEF F, E, ShownServices
<1>5. Sources(c) = Sources(d)
        <=> /\ (c.sources = NoSources) = (d.sources = NoSources)
            /\ c.sources # NoSources =>
                 /\ DOMAIN c.sources = DOMAIN d.sources
                 /\ \A f \in DOMAIN c.sources : Schemed(c.sources[f]) = Schemed(d.sources[f])
  <2>1. /\ RedactedJson(c).sources = Sources(c) /\ RedactedJson(d).sources = Sources(d)
    BY DEF RedactedJson, DocumentTyped, IsRecord
  <2>2. /\ Sources(c) = NoSources <=> c.sources = NoSources
        /\ Sources(d) = NoSources <=> d.sources = NoSources
    BY <2>1
  <2>3. CASE c.sources = NoSources \/ d.sources = NoSources
    BY <2>2, <2>3
  <2>4. CASE c.sources # NoSources /\ d.sources # NoSources
    <3>1. \A f \in DOMAIN c.sources : f \in DOMAIN d.sources =>
            (Shown(c.sources[f]) = Shown(d.sources[f])
               <=> Schemed(c.sources[f]) = Schemed(d.sources[f]))
      BY <2>4, ShownTellsSchemes DEF DocumentTyped
    <3> DEFINE C == [f \in DOMAIN c.sources |-> Shown(c.sources[f])]
               D == [f \in DOMAIN d.sources |-> Shown(d.sources[f])]
    <3>2. C = D => DOMAIN C = DOMAIN D /\ \A i \in DOMAIN C : C[i] = D[i]
      BY Zenon
    <3>3. C = D <=> /\ DOMAIN c.sources = DOMAIN d.sources
                    /\ \A f \in DOMAIN c.sources : Shown(c.sources[f]) = Shown(d.sources[f])
      BY <3>2
    <3>4. Sources(c) = C /\ Sources(d) = D
      BY <2>4
    <3> QED BY <2>4, <3>1, <3>3, <3>4
  <2> QED BY <2>3, <2>4
<1> HIDE DEF Services, Sources, Rest
<1> QED BY <1>2, <1>3, <1>4, <1>5 DEF SameButTargets, Schemed

\* Neither what is missing nor the mode depends on a target.
LEMMA RedactionKeepsRest ==
    ASSUME NEW c, DocumentTyped(c)
    PROVE  /\ RedactedJson(c).customer = c.customer /\ RedactedJson(c).interaction = c.interaction
           /\ MissingRequiredFields(RedactedJson(c)) = MissingRequiredFields(c)
<1> DEFINE u == ShownServices(c.services)
           x == IF c.sources = NoSources THEN NoSources
                ELSE [f \in DOMAIN c.sources |-> Shown(c.sources[f])]
           C == [c EXCEPT !.services = u, !.sources = x]
<1>1. RedactedJson(c) = C
  BY DEF RedactedJson
<1>2. /\ DOMAIN u = DOMAIN c.services
      /\ \A i \in DOMAIN c.services :
           /\ u[i].id = c.services[i].id /\ u[i].provider = c.services[i].provider
           /\ u[i].enabled = c.services[i].enabled /\ u[i].settings = c.services[i].settings
  <2>1. ASSUME NEW i \in DOMAIN c.services
        PROVE  /\ u[i].id = c.services[i].id /\ u[i].provider = c.services[i].provider
               /\ u[i].enabled = c.services[i].enabled /\ u[i].settings = c.services[i].settings
    BY DEF ShownServices, DocumentTyped, IsRecord, Range
  <2>2. DOMAIN u = DOMAIN c.services
    BY DEF ShownServices
  <2> QED BY <2>1, <2>2
<1> HIDE DEF u, x
<1>3. C.customer = c.customer /\ C.interaction = c.interaction /\ C.services = u
  BY DEF DocumentTyped, IsRecord
<1> HIDE DEF C
<1>4. MissingRequiredFields(C) = MissingRequiredFields(c)
  <2> DEFINE M(s) == {s.id} \X (Selectors[s.provider] \ s.settings)
  <2>1. \A y : y \in MissingRequiredFields(C)
                 <=> \E i \in DOMAIN u : u[i].enabled /\ y \in M(u[i])
    BY <1>3 DEF MissingRequiredFields, Range
  <2>2. \A y : y \in MissingRequiredFields(c)
                 <=> \E i \in DOMAIN c.services :
                       c.services[i].enabled /\ y \in M(c.services[i])
    BY DEF MissingRequiredFields, Range
  <2>3. \A i \in DOMAIN u : M(u[i]) = M(c.services[i]) /\ u[i].enabled = c.services[i].enabled
    BY <1>2
  <2> HIDE DEF M
  <2>4. \A y : y \in MissingRequiredFields(C) <=> y \in MissingRequiredFields(c)
    BY <1>2, <2>1, <2>2, <2>3
  <2> QED BY <2>4
<1> QED BY <1>1, <1>3, <1>4

LEMMA OutputHidesTargets ==
    ASSUME NEW c \in Configs, NEW d \in Configs, NEW arguments,
           ConfigCommand(c, arguments).result # "error",
           ConfigCommand(d, arguments).result # "error"
    PROVE  ConfigCommand(d, arguments).output = ConfigCommand(c, arguments).output
             <=> SameButTargets(c, d)
<1> DEFINE Told(b) ==
             [customer |-> b.customer, valid |-> MissingRequiredFields(b) = {},
              mode |-> Mode(b, arguments),
              promptRequired |-> MissingRequiredFields(b) # {}
                                   /\ Mode(b, arguments) = "interactive",
              missing |-> MissingRequiredFields(b), digest |-> RedactedJson(b),
              config |-> IF arguments.show THEN {RedactedJson(b)} ELSE {}]
<1>1. \A b \in {c, d} : Loads(b) /\ ConfigCommand(b, arguments).output = {Told(b)}
  BY DEF ConfigCommand, Failure
<1>2. \A b \in {c, d} : /\ DocumentTyped(b)
                        /\ RedactedJson(b).sources = NoSources => b.sources = NoSources
  BY <1>1, ProcessAssumption DEF Loads
<1>3. RedactedJson(c) = RedactedJson(d) <=> SameButTargets(c, d)
  BY <1>2, RedactionHidesTargets
<1>4. ASSUME {Told(d)} = {Told(c)} PROVE RedactedJson(c) = RedactedJson(d)
  <2>1. Told(c) = Told(d)
    <3> HIDE DEF Told
    <3> QED BY <1>4
  <2>2. Told(c).digest = Told(d).digest
    <3> HIDE DEF Told
    <3> QED BY <2>1
  <2> QED BY <2>2
<1>5. ASSUME RedactedJson(c) = RedactedJson(d) PROVE Told(c) = Told(d)
  <2>1. /\ c.customer = d.customer /\ c.interaction = d.interaction
        /\ MissingRequiredFields(c) = MissingRequiredFields(d)
    BY <1>2, <1>5, RedactionKeepsRest
  <2> QED BY <1>5, <2>1 DEF Mode
<1> HIDE DEF Told
<1> QED BY <1>1, <1>3, <1>4, <1>5

-----------------------------------------------------------------------------

\* Nothing has been printed but what the one run of config makes of its document.
PrintedIsOutcome ==
    printed # {} =>
        LET outcome == ConfigCommand(invocation.file, invocation.arguments) IN
        outcome.result # "error" /\ printed = outcome.output

LEMMA StepPrinted == PrintedIsOutcome /\ [Next]_vars => PrintedIsOutcome'
<1> SUFFICES ASSUME PrintedIsOutcome, [Next]_vars PROVE PrintedIsOutcome'
  OBVIOUS
<1> DEFINE outcome == ConfigCommand(invocation.file, invocation.arguments)
<1>1. UNCHANGED invocation
  BY DEF Next, ParseArgv, Catalog, ValidateInputs, ShowConfig, Serve, ServeReturns, Kill, End,
         vars, processVars
<1>2. UNCHANGED printed \/ printed' = outcome.output
  BY DEF Next, ParseArgv, Catalog, ValidateInputs, ShowConfig, Serve, ServeReturns, Kill,
         vars, processVars
<1>3. outcome.result = "error" => outcome.output = {}
  BY DEF ConfigCommand, Failure
<1> QED BY <1>1, <1>2, <1>3 DEF PrintedIsOutcome

\* What config prints of a document is what it prints of every other that differs in
\* the targets of its secret references only, and of no other: the report and its
\* digest hide the targets and nothing else, whatever the documents are.
THEOREM TargetsNeverShown == Spec => []TargetsStayIn
<1>1. Init => PrintedIsOutcome
  BY DEF Init, PrintedIsOutcome
<1>2. Inv => invocation \in Invocations
  BY DEF Inv, TypeOK, ProcessTypeOK
<1>3. PrintedIsOutcome /\ invocation \in Invocations => TargetsStayIn
  <2> SUFFICES ASSUME PrintedIsOutcome, invocation \in Invocations, printed # {},
                      NEW d \in Configs,
                      ConfigCommand(d, invocation.arguments).result # "error"
               PROVE  ConfigCommand(d, invocation.arguments).output = printed
                        <=> SameButTargets(invocation.file, d)
    BY DEF TargetsStayIn
  <2>1. invocation.file \in Configs
    BY ProcessAssumption
  <2> QED BY <2>1, OutputHidesTargets DEF PrintedIsOutcome
<1> QED BY <1>1, <1>2, <1>3, InitInv, StepInv, StepPrinted, PTL DEF Spec

=============================================================================
