---------------------------- MODULE NativeBridge ----------------------------
(***************************************************************************)
(* The native messaging host (kunkka-native-host, host.rs and bridge.rs):  *)
(* it answers the messages of the browser extension one by one, over a     *)
(* connection to the core that it keeps between them and drops after an    *)
(* error.                                                                  *)
(*                                                                         *)
(* The core may go down and come back at any time, and may push an event   *)
(* on the connection of a frontend (runtime.rs:258): the host takes the    *)
(* next frame it reads for its response.  A request left on a connection   *)
(* the host gave up is still read by the core, which acts on it, cannot    *)
(* send its response, and ends (runtime.rs:256).  Nothing is sent twice.   *)
(*                                                                         *)
(* A message is known by its place in the input; its command matters only  *)
(* as to whether it is a dispatch.  executed, drops, crashes and pushed    *)
(* are observations; the last two bound the model.                         *)
(***************************************************************************)
EXTENDS Naturals, Sequences

CONSTANTS
    MaxMessages,   \* bound: messages of the extension
    MaxCrashes,    \* bound: times the core goes down
    MaxPushed      \* bound: events pushed by the core

ASSUME BridgeAssumption ==
    MaxMessages \in Nat /\ MaxCrashes \in Nat /\ MaxPushed \in Nat

VARIABLES
    host,          \* run_native_host: where it is, and the message it is at
    connection,    \* NativeHostSession::connection, as its peer sees it
    next_request_id,
    toCore,        \* the request on its way to the core
    abandoned,     \* a request on a connection the host gave up
    line,          \* the frames on their way to the host
    coreUp,
    stdout,        \* responses written
    executed,      \* how often the core acted on a message
    drops,         \* times the session dropped its connection
    crashes,
    pushed

bridgeVars == <<host, connection, next_request_id, toCore, abandoned, line, coreUp,
                stdout, executed, drops, crashes, pushed>>

MessageId == 1..MaxMessages
NoMessage == 0
NoRequest == [request |-> 0, message |-> NoMessage]

Event(n) == [type |-> "event", serial |-> n, request |-> 0, message |-> NoMessage, code |-> "none"]
Response(request, message, code) ==
    [type |-> "response", serial |-> 0, request |-> request, message |-> message, code |-> code]

\* What the core made of a request: a result, an error of its own, a
\* dispatch payload that is not JSON, or one too long for the extension.
CoreResult == {"ok", "platform_error", "not_json", "too_long"}

Code == {"ok", "platform_error", "invalid_request", "core_unavailable", "core_ipc_error",
         "unexpected_core_response"}

LineFrame == {Event(n) : n \in 1..MaxPushed}
               \cup {Response(r, m, c) : r \in MessageId, m \in MessageId, c \in CoreResult}

BridgeTypeOK ==
    /\ host \in [at: {"reading", "asking", "waiting", "ended", "failed"}, message: 0..MaxMessages,
                 dispatch: BOOLEAN, request: 0..MaxMessages]
    /\ connection \in {"none", "alive", "dead"}
    /\ next_request_id \in 1..(MaxMessages + 1)
    /\ toCore \in {NoRequest} \cup [request: MessageId, message: MessageId]
    /\ abandoned \in {NoRequest} \cup [request: MessageId, message: MessageId]
    /\ line \in Seq(LineFrame)
    /\ coreUp \in BOOLEAN
    /\ stdout \in Seq([id: 0..MaxMessages, code: Code])
    /\ executed \in [MessageId -> Nat]
    /\ drops \in Nat
    /\ crashes \in Nat
    /\ pushed \in 0..MaxPushed

BridgeInit ==
    /\ host = [at |-> "reading", message |-> NoMessage, dispatch |-> FALSE, request |-> 0]
    /\ connection = "none"
    /\ next_request_id = 1
    /\ toCore = NoRequest
    /\ abandoned = NoRequest
    /\ line = <<>>
    /\ coreUp \in BOOLEAN
    /\ stdout = <<>>
    /\ executed = [m \in MessageId |-> 0]
    /\ drops = 0
    /\ crashes = 0
    /\ pushed = 0

sessionVars == <<connection, next_request_id, toCore, abandoned, line>>
coreVars == <<coreUp, executed, crashes, pushed>>

Write(id, code) == stdout' = Append(stdout, [id |-> id, code |-> code])

-----------------------------------------------------------------------------
(* run_native_host.                                                        *)

ReadMessage ==
    /\ host.at = "reading"
    /\ host.message < MaxMessages
    /\ \E dispatch \in BOOLEAN :
          host' = [host EXCEPT !.at = "asking", !.message = @ + 1, !.dispatch = dispatch]
    /\ UNCHANGED <<sessionVars, coreVars, stdout, drops>>

\* A message that does not decode is answered, with its id if it has one.
ReadUndecodable ==
    /\ host.at = "reading"
    /\ host.message < MaxMessages
    /\ host' = [host EXCEPT !.message = @ + 1]
    /\ \E id \in {NoMessage, host.message + 1} : Write(id, "invalid_request")
    /\ UNCHANGED <<sessionVars, coreVars, drops>>

\* One that is too long, or cut off, is answered and ends the host.
ReadBroken ==
    /\ host.at = "reading"
    /\ host.message < MaxMessages
    /\ host' = [host EXCEPT !.at = "ended", !.message = @ + 1]
    /\ Write(NoMessage, "invalid_request")
    /\ UNCHANGED <<sessionVars, coreVars, drops>>

ReadEof ==
    /\ host.at = "reading"
    /\ host' = [host EXCEPT !.at = "ended"]
    /\ UNCHANGED <<sessionVars, coreVars, stdout, drops>>

Answered == host' = [host EXCEPT !.at = "reading"]

-----------------------------------------------------------------------------
(* NativeHostSession::handle_request.                                      *)

\* A variant for the checks: the host waits for a core that is not there.
EnsureConnectionVariant ==
    /\ host.at = "asking"
    /\ connection = "none"
    /\ coreUp
    /\ connection' = "alive"
    /\ UNCHANGED <<host, stdout>>
    /\ UNCHANGED <<next_request_id, toCore, abandoned, line, coreVars, drops>>

EnsureConnection ==
    /\ host.at = "asking"
    /\ connection = "none"
    /\ IF coreUp
       THEN connection' = "alive" /\ UNCHANGED <<host, stdout>>
       ELSE Answered /\ Write(host.message, "core_unavailable") /\ UNCHANGED connection
    /\ UNCHANGED <<next_request_id, toCore, abandoned, line, coreVars, drops>>

\* A variant for the checks: the connection is kept after an error.
DropAndAnswerKeepingVariant(code) ==
    /\ drops' = drops + 1
    /\ UNCHANGED <<connection, line, toCore, abandoned>>
    /\ Answered
    /\ Write(host.message, code)

\* A variant for the checks: after an error the request goes out again.
DropAndAnswerRetryingVariant(code) ==
    /\ connection' = "none"
    /\ line' = <<>>
    /\ toCore' = NoRequest
    /\ abandoned' = IF toCore = NoRequest THEN abandoned ELSE toCore
    /\ drops' = drops + 1
    /\ IF drops = 0
       THEN host' = [host EXCEPT !.at = "asking"] /\ UNCHANGED stdout
       ELSE Answered /\ Write(host.message, code)

(* Any error of send_..._on_cached_connection gives the connection up, and *)
(* whatever was on it.                                                     *)
DropAndAnswer(code) ==
    /\ connection' = "none"
    /\ line' = <<>>
    /\ toCore' = NoRequest
    /\ abandoned' = IF toCore = NoRequest THEN abandoned ELSE toCore
    /\ drops' = drops + 1
    /\ Answered
    /\ Write(host.message, code)

SendRequestFrame ==
    /\ host.at = "asking"
    /\ connection # "none"
    /\ next_request_id' = next_request_id + 1
    /\ IF connection = "alive"
       THEN /\ toCore' = [request |-> next_request_id, message |-> host.message]
            /\ host' = [host EXCEPT !.at = "waiting", !.request = next_request_id]
            /\ UNCHANGED <<connection, abandoned, line, stdout, drops>>
       ELSE DropAndAnswer("core_ipc_error")
    /\ UNCHANGED coreVars

\* A payload that is not JSON is an error of the answer, not of the
\* connection; a message over MAX_NATIVE_MESSAGE_LEN is not written, and the
\* host ends.
Deliver(code) ==
    IF code = "too_long"
    THEN host' = [host EXCEPT !.at = "failed"] /\ UNCHANGED stdout
    ELSE /\ Answered
         /\ Write(host.message,
                  IF code = "not_json" THEN "unexpected_core_response" ELSE code)

ReceiveFrame ==
    /\ host.at = "waiting"
    /\ \/ /\ line = <<>>
          /\ connection = "dead"
          /\ DropAndAnswer("core_ipc_error")
       \/ /\ line # <<>>
          /\ IF Head(line).type = "response" /\ Head(line).request = host.request
             THEN /\ line' = Tail(line)
                  /\ Deliver(Head(line).code)
                  /\ UNCHANGED <<connection, toCore, abandoned, drops>>
             ELSE DropAndAnswer("unexpected_core_response")
    /\ UNCHANGED <<next_request_id, coreVars>>

-----------------------------------------------------------------------------
(* The core, as far as this connection sees it.                            *)

CoreAnswers ==
    /\ coreUp
    /\ connection = "alive"
    /\ abandoned = NoRequest
    /\ toCore # NoRequest
    /\ toCore' = NoRequest
    /\ executed' = [executed EXCEPT ![toCore.message] = @ + 1]
    /\ \E code \in IF host.dispatch THEN CoreResult ELSE {"ok", "too_long"} :
          line' = Append(line, Response(toCore.request, toCore.message, code))
    /\ UNCHANGED <<host, connection, next_request_id, abandoned, coreUp, stdout, drops,
                   crashes, pushed>>

CorePushesEvent ==
    /\ coreUp
    /\ connection = "alive"
    /\ abandoned = NoRequest
    /\ pushed < MaxPushed
    /\ pushed' = pushed + 1
    /\ line' = Append(line, Event(pushed + 1))
    /\ UNCHANGED <<host, connection, next_request_id, toCore, abandoned, coreUp, stdout,
                   executed, drops, crashes>>

CoreIsGone ==
    /\ crashes' = crashes + 1
    /\ coreUp' = FALSE
    /\ connection' = IF connection = "alive" THEN "dead" ELSE connection
    /\ toCore' = NoRequest
    /\ abandoned' = NoRequest
    /\ UNCHANGED <<host, next_request_id, line, stdout, drops, pushed>>

\* The core serves one frontend at a time: the connection that was given up
\* comes before the one that replaced it.
CoreMeetsAbandoned ==
    /\ coreUp
    /\ abandoned # NoRequest
    /\ executed' = [executed EXCEPT ![abandoned.message] = @ + 1]
    /\ CoreIsGone

\* The core ends by itself, before or after it acted on a request.
CoreGoesDown ==
    /\ coreUp
    /\ crashes < MaxCrashes
    /\ LET request == IF abandoned = NoRequest THEN toCore ELSE abandoned
       IN  \/ UNCHANGED executed
           \/ /\ request # NoRequest
              /\ executed' = [executed EXCEPT ![request.message] = @ + 1]
    /\ CoreIsGone

CoreComesBack ==
    /\ ~coreUp
    /\ coreUp' = TRUE
    /\ UNCHANGED <<host, sessionVars, stdout, executed, drops, crashes, pushed>>

HostStep == EnsureConnection \/ SendRequestFrame \/ ReceiveFrame

BridgeNext ==
    \/ ReadMessage \/ ReadUndecodable \/ ReadBroken \/ ReadEof
    \/ HostStep
    \/ CoreAnswers \/ CoreMeetsAbandoned \/ CorePushesEvent \/ CoreGoesDown \/ CoreComesBack

(* The host's own steps are all that is sure to come: the core may be held *)
(* by the connection of another frontend, or wait for a worker, for ever   *)
(* (runtime.rs:249-284, worker_dispatch.rs:461), and may stay down.        *)
BridgeFairness == WF_bridgeVars(HostStep)

BridgeSpec == BridgeInit /\ [][BridgeNext]_bridgeVars /\ BridgeFairness

-----------------------------------------------------------------------------
\* The messages answered so far.
Taken == host.message - (IF host.at \in {"asking", "waiting", "failed"} THEN 1 ELSE 0)

Dead == IF connection = "dead" THEN 1 ELSE 0

(* Where each part of an exchange stands. *)
ExchangeFits ==
    /\ next_request_id <= host.message + 1
    /\ host.at \in {"asking", "waiting", "failed"} => host.message \in MessageId
    /\ host.at = "asking" =>
         next_request_id <= host.message /\ toCore = NoRequest /\ executed[host.message] = 0
    /\ host.at = "waiting" => host.request \in MessageId /\ host.request < next_request_id
    /\ host.at \in {"reading", "ended", "failed"} => toCore = NoRequest
    /\ toCore # NoRequest =>
         /\ host.at = "waiting"
         /\ connection = "alive"
         /\ toCore = [request |-> host.request, message |-> host.message]
         /\ executed[host.message] = 0
    /\ abandoned # NoRequest =>
         /\ coreUp
         /\ abandoned.message <= Taken
         /\ executed[abandoned.message] = 0
    /\ \A m \in MessageId : executed[m] <= 1 /\ (m > host.message => executed[m] = 0)
    /\ connection = "alive" => coreUp

(* What a drop is paid with: a crash, or an event that has been read. *)
LossesPaid == drops + Dead <= crashes + pushed

(* The frames the host has not read: events that may still cost it a       *)
(* message, and one response at most, to the request it waits on.          *)
LineFits ==
    /\ connection = "none" => line = <<>>
    /\ \A i \in DOMAIN line : line[i].type = "event" =>
         line[i].serial <= pushed /\ drops + Dead < crashes + line[i].serial
    /\ \A i \in DOMAIN line : line[i].type = "response" =>
         /\ host.at = "waiting"
         /\ line[i].request = host.request
         /\ line[i].message = host.message
         /\ toCore = NoRequest
         /\ executed[host.message] = 1
    /\ \A i, j \in DOMAIN line :
         line[i].type = "response" /\ line[j].type = "response" => i = j

(* One answer for each message, in the order of the messages, until one    *)
(* is too long, and "ok" only for a message the core acted on, once: an    *)
(* error or a lost connection never makes the session send a request       *)
(* again.                                                                  *)
EachMessageOnce ==
    /\ BridgeTypeOK
    /\ Len(stdout) = Taken
    /\ \A i \in DOMAIN stdout :
         /\ stdout[i].id \in {i, NoMessage}
         /\ stdout[i].code = "ok" => executed[i] = 1
    /\ \A m \in MessageId : executed[m] <= 1

(* The inductive invariant of the bridge. *)
BridgeIInv == EachMessageOnce /\ ExchangeFits /\ LossesPaid /\ LineFits

(* A restart of the core makes the host drop one connection at most, and   *)
(* with it fail one message, and so does an event nobody asked for: the    *)
(* connection that failed is given up and not met again.  The end of the   *)
(* core over an abandoned request counts as a restart too; a message that  *)
(* finds no core is answered core_unavailable and drops nothing            *)
(* (bridge.rs:212-236).                                                    *)
OneLossPerFault == drops <= crashes + pushed

(* The request in hand lies with a core that is up.                        *)
AtTheCore == host.at = "waiting" /\ coreUp /\ toCore # NoRequest

(* Every message that was read is answered, though the core is down, goes  *)
(* down before, while or after it acts on it, or pushes an event in        *)
(* between; only an answer that is too long ends the host instead, and     *)
(* only a core that is up, holds the request and never serves it keeps the *)
(* host waiting (bridge.rs:262 has no timeout).                            *)
MessagesAreAnswered ==
    \/ <>[]AtTheCore
    \/ host.at \in {"asking", "waiting"} ~> host.at \in {"reading", "failed"}
=============================================================================
