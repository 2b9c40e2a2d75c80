--------------------------- MODULE CapabilityStream ---------------------------
(***************************************************************************)
(* One capability request of a worker over a connection of its own: the    *)
(* SDK's call_capability, open_capability_stream and collect_llm_chat      *)
(* (kunkka-worker-sdk, capability.rs and llm.rs) against the core's        *)
(* handle_capability_connection and handle_llm_stream_connection (kunkka-  *)
(* core, runtime.rs).  The chat service behind the core is external: it    *)
(* sends chunks, ends or fails when it likes.                              *)
(*                                                                         *)
(* The connection is an ordered sequence of frames that may end early: the *)
(* core may go down between two frames or inside one.  Pieces of text are  *)
(* numbered in the order of the service.  crashed and told are             *)
(* observations; no guard reads them.                                      *)
(***************************************************************************)
EXTENDS Naturals, Sequences, SequencesExt

CONSTANT MaxChunks     \* bound: chunks of the service that reach the wire

ASSUME StreamAssumption == MaxChunks \in Nat

VARIABLES
    caller,     \* the SDK's side: where it is, and what it collected
    coreSide,   \* the core's side of this connection
    wire,       \* frames on their way to the caller
    service,    \* the chat service: "open", "ended" or "failed"
    told,       \* what the service has sent; bare: usage on a chunk without a choice
    crashed     \* the core went down by itself

streamVars == <<caller, coreSide, wire, service, told, crashed>>

\* Frames.  text is a piece's number, 0 for none.
Chunk(text, finish, usage) ==
    [type |-> "stream", text |-> text, finish |-> finish, usage |-> usage, end |-> FALSE]
EndFrame == [type |-> "stream", text |-> 0, finish |-> FALSE, usage |-> FALSE, end |-> TRUE]
ResponseFrame(ok) == [type |-> "response", ok |-> ok]
ErrorFrame == [type |-> "error"]
CutFrame == [type |-> "cut"]      \* the first bytes of a frame, and no more

NoChunk == [type |-> "none"]

Frames == [type: {"stream"}, text: 0..MaxChunks, finish: BOOLEAN, usage: BOOLEAN, end: BOOLEAN]
            \cup {ResponseFrame(ok) : ok \in BOOLEAN} \cup {ErrorFrame, CutFrame}

Told == [chunks: 0..MaxChunks, pieces: 0..MaxChunks, finish: BOOLEAN, usage: BOOLEAN,
         bare: BOOLEAN]

StreamTypeOK ==
    /\ caller \in [at: {"new", "waiting", "reading", "ok", "err", "gone"},
                   stream: BOOLEAN,      \* open_capability_stream, or call_capability
                   params: {"chat", "other", "broken"}, \* stream = true, no chat of that kind,
                                         \* or a chat that does not decode
                   buffered: Frames \cup {NoChunk},
                   content: Seq(1..MaxChunks), finish: BOOLEAN, usage: BOOLEAN]
    /\ coreSide \in {"idle", "asked", "streaming", "closed", "down"}
    /\ wire \in Seq(Frames)
    /\ service \in {"open", "ended", "failed"}
    /\ told \in Told
    /\ crashed \in BOOLEAN

StreamInit ==
    /\ caller \in [at: {"new"}, stream: BOOLEAN, params: {"chat", "other", "broken"},
                   buffered: {NoChunk}, content: {<<>>}, finish: {FALSE}, usage: {FALSE}]
    /\ coreSide = "idle"
    /\ wire = <<>>
    /\ service = "open"
    /\ told = [chunks |-> 0, pieces |-> 0, finish |-> FALSE, usage |-> FALSE, bare |-> FALSE]
    /\ crashed = FALSE

-----------------------------------------------------------------------------
(* The core.  An error while it sends is the end of the core, as           *)
(* run_connection's result is returned from the event loop.                *)

SendFrames(frames, next) ==
    IF caller.at \in {"ok", "err", "gone"} /\ frames # <<>>
    THEN /\ coreSide' = "down"
         /\ UNCHANGED wire
    ELSE /\ coreSide' = next
         /\ wire' = wire \o frames

\* A request with stream = true goes to the service before any manifest is
\* looked at; every other one is handled whole, and answered once.
AnswerRequest ==
    /\ coreSide = "asked"
    /\ \/ /\ caller.params = "other"
          /\ \E ok \in BOOLEAN : SendFrames(<<ResponseFrame(ok)>>, "closed")
       \/ /\ caller.params = "broken"     \* is_streaming_chat fails
          /\ coreSide' = "down"
          /\ UNCHANGED wire
       \/ /\ caller.params = "chat"       \* create_chat_stream fails
          /\ SendFrames(<<ResponseFrame(FALSE)>>, "closed")
       \/ /\ caller.params = "chat"
          /\ coreSide' = "streaming"
          /\ UNCHANGED wire
    /\ UNCHANGED <<caller, service, told, crashed>>

(* A chunk has at most one choice, as one is asked for.  Usage rides on    *)
(* the choices: what a chunk without one says of it is dropped, and so is  *)
(* a choice with nothing in it.                                            *)
ForwardChunk(choices, text, finish, usage) ==
    /\ coreSide = "streaming"
    /\ service = "open"
    /\ IF choices = 0 \/ ~(text \/ finish \/ usage)
       THEN SendFrames(<<>>, "streaming") /\ told' = [told EXCEPT !.bare = @ \/ usage]
       ELSE /\ told.chunks < MaxChunks
            /\ told' = [chunks |-> told.chunks + 1,
                        pieces |-> told.pieces + IF text THEN 1 ELSE 0,
                        finish |-> told.finish \/ finish,
                        usage |-> told.usage \/ usage,
                        bare |-> told.bare]
            /\ SendFrames(<<Chunk(IF text THEN told.pieces + 1 ELSE 0, finish, usage)>>,
                          "streaming")
    /\ UNCHANGED <<caller, service, crashed>>

\* A variant for the checks: a failure of the service just ends the loop.
ForwardFailureAsEndVariant ==
    /\ coreSide = "streaming"
    /\ service = "failed"
    /\ SendFrames(<<EndFrame>>, "closed")
    /\ UNCHANGED <<caller, service, told, crashed>>

ForwardFailure ==
    /\ coreSide = "streaming"
    /\ service = "failed"
    /\ SendFrames(<<ErrorFrame>>, "closed")
    /\ UNCHANGED <<caller, service, told, crashed>>

\* A variant for the checks: after the last chunk the connection stays open.
ForwardEndKeepingOpenVariant ==
    /\ coreSide = "streaming"
    /\ service = "ended"
    /\ UNCHANGED streamVars

ForwardEnd ==
    /\ coreSide = "streaming"
    /\ service = "ended"
    /\ SendFrames(<<EndFrame>>, "closed")
    /\ UNCHANGED <<caller, service, told, crashed>>

ServiceStops ==
    /\ coreSide = "streaming"
    /\ service = "open"
    /\ service' \in {"ended", "failed"}
    /\ UNCHANGED <<caller, coreSide, wire, told, crashed>>

\* The core goes down, between two frames or inside one.
CoreCrashes ==
    /\ coreSide \in {"asked", "streaming"}
    /\ coreSide' = "down"
    /\ crashed' = TRUE
    /\ wire' \in {wire, Append(wire, CutFrame)}
    /\ UNCHANGED <<caller, service, told>>

-----------------------------------------------------------------------------
(* The SDK.                                                                *)

SendRequest ==
    /\ caller.at = "new"
    /\ caller' = [caller EXCEPT !.at = "waiting"]
    /\ coreSide' = "asked"
    /\ UNCHANGED <<wire, service, told, crashed>>

AtEof == wire = <<>> /\ coreSide \in {"closed", "down"}

(* call_capability takes one response; open_capability_stream takes a      *)
(* chunk, which it keeps for the first next_chunk.  Anything else, and the *)
(* end of the connection, is an error.                                     *)
ReceiveFirst ==
    /\ caller.at = "waiting"
    /\ \/ /\ AtEof
          /\ caller' = [caller EXCEPT !.at = "err"]
          /\ UNCHANGED wire
       \/ /\ wire # <<>>
          /\ wire' = Tail(wire)
          /\ caller' =
               CASE caller.stream /\ Head(wire).type = "stream" ->
                      [caller EXCEPT !.at = "reading", !.buffered = Head(wire)]
                 [] ~caller.stream /\ Head(wire).type = "response" ->
                      [caller EXCEPT !.at = IF Head(wire).ok THEN "ok" ELSE "err"]
                 [] OTHER -> [caller EXCEPT !.at = "err"]
    /\ UNCHANGED <<coreSide, service, told, crashed>>

\* collect_llm_chat on one chunk that next_chunk returned.
Collect(chunk) ==
    IF chunk.end
    THEN [caller EXCEPT !.at = "ok", !.buffered = NoChunk]
    ELSE [caller EXCEPT !.buffered = NoChunk,
                        !.content = IF chunk.text = 0 THEN @ ELSE Append(@, chunk.text),
                        !.finish = @ \/ chunk.finish,
                        !.usage = @ \/ chunk.usage]

\* A variant for the checks: the chunk kept by the opening is forgotten.
NextEventDroppingFirstVariant ==
    /\ caller.at = "reading"
    /\ IF caller.buffered # NoChunk
       THEN caller' = [caller EXCEPT !.buffered = NoChunk] /\ UNCHANGED wire
       ELSE \/ AtEof /\ caller' = [caller EXCEPT !.at = "ok"] /\ UNCHANGED wire
            \/ /\ wire # <<>>
               /\ wire' = Tail(wire)
               /\ caller' = IF Head(wire).type = "stream" THEN Collect(Head(wire))
                            ELSE [caller EXCEPT !.at = "err"]
    /\ UNCHANGED <<coreSide, service, told, crashed>>

(* One turn of collect_llm_chat: the end of the connection reads like the  *)
(* end of the stream.                                                      *)
NextEvent ==
    /\ caller.at = "reading"
    /\ IF caller.buffered # NoChunk
       THEN caller' = Collect(caller.buffered) /\ UNCHANGED wire
       ELSE \/ AtEof /\ caller' = [caller EXCEPT !.at = "ok"] /\ UNCHANGED wire
            \/ /\ wire # <<>>
               /\ wire' = Tail(wire)
               /\ caller' = IF Head(wire).type = "stream" THEN Collect(Head(wire))
                            ELSE [caller EXCEPT !.at = "err"]
    /\ UNCHANGED <<coreSide, service, told, crashed>>

\* The worker ends while it waits or reads.
WorkerGone ==
    /\ caller.at \in {"waiting", "reading"}
    /\ caller' = [caller EXCEPT !.at = "gone"]
    /\ UNCHANGED <<coreSide, wire, service, told, crashed>>

CoreStep ==
    \/ AnswerRequest
    \/ \E choices \in {0, 1}, text, finish, usage \in BOOLEAN :
          ForwardChunk(choices, text, finish, usage)
    \/ ForwardFailure
    \/ ForwardEnd

CallerStep == ReceiveFirst \/ NextEvent

StreamNext ==
    SendRequest \/ CoreStep \/ CallerStep \/ ServiceStops \/ CoreCrashes \/ WorkerGone

(* The core's loop awaits its connection and the service, and the worker   *)
(* its connection: neither stops of itself.  The service may never end.    *)
StreamFairness ==
    /\ WF_streamVars(AnswerRequest)
    /\ WF_streamVars(ForwardFailure)
    /\ WF_streamVars(ForwardEnd)
    /\ WF_streamVars(CallerStep)

StreamSpec == StreamInit /\ [][StreamNext]_streamVars /\ StreamFairness

-----------------------------------------------------------------------------
(* The text collected so far is the service's text from its beginning,     *)
(* without a gap or a repetition, whatever is still on the way: the chunk  *)
(* kept by open_capability_stream is counted once.                         *)
CollectedIsAPrefix ==
    /\ StreamTypeOK
    /\ Len(caller.content) <= told.pieces
    /\ \A i \in DOMAIN caller.content : caller.content[i] = i
    /\ caller.usage => told.usage
    /\ caller.finish => told.finish

(* When collect_llm_chat returns a chat and the core did not go down on    *)
(* its own, the service has ended and the chat is all that came on its     *)
(* choices: text, finish reason, and the usage if it came with a choice.   *)
(* Usage in a chunk without one is lost (told.bare; runtime.rs:396-418),   *)
(* though docs/SDK/capability-llm.md:67 and worker-llm-usage.md:59 have it *)
(* in the last chunk: a whole chat is not whole in that.  A connection     *)
(* that ends early reads as an ordinary end, so the code owes the rest to  *)
(* the core sending Error or an end chunk on every way out.                *)
OkMeansComplete ==
    caller.at = "ok" /\ caller.stream /\ ~crashed =>
       /\ service = "ended"
       /\ Len(caller.content) = told.pieces
       /\ caller.usage = told.usage
       /\ caller.finish = told.finish

(* Once the service has ended or failed, or the core is down, a waiting    *)
(* worker gets its result: no path leaves it on an open, silent            *)
(* connection.                                                             *)
StreamsEnd ==
    (caller.at \in {"waiting", "reading"} /\ (service # "open" \/ coreSide \in {"closed", "down"}))
       ~> caller.at \in {"ok", "err", "gone"}

-----------------------------------------------------------------------------
(* What is behind the two.  The frames the caller has before it: the chunk *)
(* it keeps, and the wire.                                                 *)
Ahead == IF caller.buffered = NoChunk THEN wire ELSE <<caller.buffered>> \o wire

Listening == caller.at \in {"new", "waiting", "reading"}

HasText(frame) == frame.type = "stream" /\ frame.text # 0

\* The pieces after those collected are ahead, each once and in order.
PiecesIn(q, collected, pieces) ==
    /\ \A i \in DOMAIN q : HasText(q[i]) => collected < q[i].text /\ q[i].text <= pieces
    /\ \A i, j \in DOMAIN q :
          i < j /\ HasText(q[i]) /\ HasText(q[j]) => q[i].text < q[j].text
    /\ \A n \in 0..MaxChunks : collected < n /\ n <= pieces =>
          \E i \in DOMAIN q : HasText(q[i]) /\ q[i].text = n

\* Whether the service gave a finish reason, and its usage: nothing ahead
\* says so untruly, and it is collected or ahead.
NotesIn(q, c, t) ==
    /\ \A i \in DOMAIN q : q[i].type = "stream" =>
          (q[i].finish => t.finish) /\ (q[i].usage => t.usage)
    /\ t.finish => c.finish \/ \E i \in DOMAIN q : q[i].type = "stream" /\ q[i].finish
    /\ t.usage => c.usage \/ \E i \in DOMAIN q : q[i].type = "stream" /\ q[i].usage

\* The end chunk is the last frame, says nothing else, and is true.
EndIsLast(q, s) ==
    \A i \in DOMAIN q : q[i].type = "stream" /\ q[i].end =>
       /\ i = Len(q)
       /\ q[i].text = 0 /\ ~q[i].finish /\ ~q[i].usage
       /\ s = "ended"

\* Where the core is, and what that leaves for a caller that listens.
StagesFit ==
    /\ coreSide \in {"idle", "asked"} => wire = <<>> /\ caller.at \in {"new", "waiting", "gone"}
    /\ coreSide = "idle" <=> caller.at = "new"
    /\ caller.at \in {"new", "waiting"} => caller.buffered = NoChunk
    /\ caller.buffered # NoChunk => caller.buffered.type = "stream"
    /\ caller.at = "reading" => caller.stream
    /\ told.pieces <= told.chunks
    /\ Listening /\ coreSide = "streaming" =>
          \A i \in DOMAIN Ahead : Ahead[i].type = "stream" /\ ~Ahead[i].end
    /\ Listening /\ coreSide = "closed" =>
          Ahead # <<>> /\ (Ahead[Len(Ahead)].type = "stream" => Ahead[Len(Ahead)].end)
    /\ Listening /\ coreSide = "down" /\ ~crashed => caller.at = "waiting" /\ wire = <<>>

(* The inductive invariant of the stream.                                  *)
StreamIInv ==
    /\ CollectedIsAPrefix
    /\ OkMeansComplete
    /\ StagesFit
    /\ Listening =>
          /\ PiecesIn(Ahead, Len(caller.content), told.pieces)
          /\ NotesIn(Ahead, caller, told)
          /\ EndIsLast(Ahead, service)
=============================================================================
