------------------------------- MODULE Server -------------------------------
(***************************************************************************)
(* The HTTP service: src/server.rs, from the policy it starts under to its *)
(* graceful shutdown.  Each client has one connection at a time and one    *)
(* request on it at a time; connections run beside each other.  What axum  *)
(* does (accepting, reading, writing, draining) is modelled from how run   *)
(* and router use it.  A body is known by what it decodes to, whether the  *)
(* engine takes it, and its size; a signature by the key and the body it   *)
(* was made of.                                                            *)
(***************************************************************************)
EXTENDS Naturals, FiniteSets

CONSTANTS
    Clients,
    Requests,       \* [route, body, signature]: what clients may send
    Settings,       \* [bind, limit, secret]: what the service may be started with
    MinBodyBytes, MaxBodyBytes,
    None

ASSUME ServerAssumption ==
    /\ MinBodyBytes \in Nat /\ MaxBodyBytes \in Nat
    /\ \A r \in Requests : r.body.bytes \in Nat

VARIABLES
    settings,
    service,    \* "start", "listening", "draining", then "stopped" or "failed"
    conn,       \* each client's connection
    request     \* the request on it

serverVars == <<settings, service, conn, request>>

Getting == {"/healthz", "/v1/catalog", "/v1/prompts/{known}", "/v1/prompts/{unknown}"}

\* What a posted body must decode to.
Posting ==
    [assessments |-> "AssessmentRequest", webhooks |-> "AssessmentRequest",
     audits |-> "AuditRequest", packages |-> "AuditDossier"]

ServerTypeOK ==
    /\ settings \in Settings \cup {None}
    /\ service \in {"start", "listening", "draining", "stopped", "failed"}
    /\ conn \in [Clients -> {"closed", "idle", "sending", "received", "answered"}]
    /\ request \in [Clients -> Requests \cup {None}]

-----------------------------------------------------------------------------
\* Starting

\* CANONICAL_WEBHOOK_SECRET: absent, refused for its length or its encoding, or a key.
SecretAdmitted(secret) == secret = None \/ (secret.unicode /\ secret.long)

\* Mutant: a secret is asked for, but not of what listens beyond the host.
PolicyHoldsLocally(s) ==
    /\ s.limit \in MinBodyBytes..MaxBodyBytes /\ s.bind # "malformed"
    /\ SecretAdmitted(s.secret)
    /\ s.bind = "loopback" \/ SecretAdmitted(s.secret)

PolicyHolds(s) ==
    /\ s.limit \in MinBodyBytes..MaxBodyBytes /\ s.bind # "malformed"
    /\ SecretAdmitted(s.secret)
    /\ s.bind = "loopback" \/ s.secret # None

ServerInit ==
    /\ service = "start"
    /\ conn = [c \in Clients |-> "closed"] /\ request = [c \in Clients |-> None]

\* The listener may fail to bind.
Listen ==
    /\ service = "start"
    /\ service' \in (IF PolicyHolds(settings) THEN {"listening", "failed"} ELSE {"failed"})
    /\ UNCHANGED <<settings, conn, request>>

-----------------------------------------------------------------------------
\* Answering

Signed(key, body) == [key |-> key, body |-> body]

Authenticated(r) ==
    settings.secret # None => r.signature = Signed(settings.secret.key, r.body)

Unauthorized(r) == IF r.signature = None THEN "signature_required" ELSE "invalid_signature"

TooLarge(r) == r.route \in DOMAIN Posting /\ r.body.bytes > settings.limit

\* The answer to a request: its status, and the document it carries or its error.
Response(r) ==
    IF r.route \in Getting
    THEN IF r.route = "/v1/prompts/{unknown}" THEN <<404, "unknown_prompt">> ELSE <<200, r.route>>
    ELSE IF TooLarge(r) THEN <<413, "length_limit">>
    ELSE IF ~Authenticated(r) THEN <<401, Unauthorized(r)>>
    ELSE IF r.body.kind # Posting[r.route] THEN <<400, "invalid_request">>
    ELSE IF r.body.accepted THEN <<200, r.body>> ELSE <<422, r.route>>

-----------------------------------------------------------------------------
\* Connections

Serving == service \in {"listening", "draining"}

Connect(c) ==
    /\ service = "listening" /\ conn[c] = "closed"
    /\ conn' = [conn EXCEPT ![c] = "idle"]
    /\ UNCHANGED <<settings, service, request>>

\* A request's first bytes: also on a connection that is about to be closed.
Send(c) ==
    /\ Serving /\ conn[c] = "idle"
    /\ conn' = [conn EXCEPT ![c] = "sending"]
    /\ \E r \in Requests : request' = [request EXCEPT ![c] = r]
    /\ UNCHANGED <<settings, service>>

\* Its last bytes.
SendRest(c) ==
    /\ Serving /\ conn[c] = "sending"
    /\ conn' = [conn EXCEPT ![c] = "received"]
    /\ UNCHANGED <<settings, service, request>>

\* Mutant: once the drain has begun no handler runs.
AnswerWhileListening(c) ==
    /\ service = "listening"
    /\ conn[c] = "received" \/ (conn[c] = "sending" /\ TooLarge(request[c]))
    /\ conn' = [conn EXCEPT ![c] = "answered"]
    /\ UNCHANGED <<settings, service, request>>

\* The handler runs once it has the whole body, or too much of it.
Answer(c) ==
    /\ Serving
    /\ conn[c] = "received" \/ (conn[c] = "sending" /\ TooLarge(request[c]))
    /\ conn' = [conn EXCEPT ![c] = "answered"]
    /\ UNCHANGED <<settings, service, request>>

\* The client has read the answer.
Read(c) ==
    /\ Serving /\ conn[c] = "answered"
    /\ \E next \in IF service = "draining" THEN {"closed"} ELSE {"idle", "closed"} :
         conn' = [conn EXCEPT ![c] = next]
    /\ request' = [request EXCEPT ![c] = None]
    /\ UNCHANGED <<settings, service>>

\* The client goes away, whatever it was waiting for.
HangUp(c) ==
    /\ Serving /\ conn[c] # "closed"
    /\ conn' = [conn EXCEPT ![c] = "closed"]
    /\ request' = [request EXCEPT ![c] = None]
    /\ UNCHANGED <<settings, service>>

-----------------------------------------------------------------------------
\* Shutting down

\* Ctrl-C, or no handler for it.  Another one during the drain changes nothing.
Interrupt ==
    /\ service = "listening" /\ service' = "draining"
    /\ UNCHANGED <<settings, conn, request>>

CloseIdle(c) ==
    /\ service = "draining" /\ conn[c] = "idle"
    /\ conn' = [conn EXCEPT ![c] = "closed"]
    /\ UNCHANGED <<settings, service, request>>

\* Mutant: the service returns when nobody is being read from.
ReturnEarly ==
    /\ service = "draining" /\ \A c \in Clients : conn[c] \notin {"idle", "sending"}
    /\ service' = "stopped"
    /\ UNCHANGED <<settings, conn, request>>

Return ==
    /\ service = "draining" /\ \A c \in Clients : conn[c] = "closed"
    /\ service' = "stopped"
    /\ UNCHANGED <<settings, conn, request>>

\* An I/O failure of the listener ends the service, whatever its connections do:
\* run handles the error that the type of axum::serve allows, though its accept
\* loop retries rather than returns one. More behaviours than occur, never fewer.
ListenerFails ==
    /\ Serving /\ service' = "failed"
    /\ UNCHANGED <<settings, conn, request>>

ServerNext ==
    \/ Listen \/ Interrupt \/ Return \/ ListenerFails
    \/ \E c \in Clients :
         \/ Connect(c) \/ Send(c) \/ SendRest(c) \/ Answer(c) \/ Read(c) \/ HangUp(c)
         \/ CloseIdle(c)

=============================================================================
