---------------------------- MODULE FrontendProofs ----------------------------
(***************************************************************************)
(* Safety of the two frontends that end with their task: the native        *)
(* messaging host, for any number of messages, ends of the core and pushed *)
(* events, and the command line, for any number of approvals and restarts  *)
(* of the core it talks to.                                                *)
(***************************************************************************)
EXTENDS NativeBridge, CommandLine, Integers, TLAPS

-----------------------------------------------------------------------------
(* Sequences of frames and of responses.                                   *)

LEMMA AppendFacts ==
    ASSUME NEW S, NEW s \in Seq(S), NEW e \in S
    PROVE  /\ Append(s, e) \in Seq(S)
           /\ Len(Append(s, e)) = Len(s) + 1
           /\ DOMAIN Append(s, e) = DOMAIN s \cup {Len(s) + 1}
           /\ \A i \in DOMAIN s : Append(s, e)[i] = s[i]
           /\ Append(s, e)[Len(s) + 1] = e
  OBVIOUS

LEMMA TailFacts ==
    ASSUME NEW S, NEW s \in Seq(S), s # <<>>
    PROVE  /\ Tail(s) \in Seq(S)
           /\ Head(s) = s[1] /\ 1 \in DOMAIN s /\ Head(s) \in S
           /\ \A i \in DOMAIN Tail(s) : i + 1 \in DOMAIN s /\ Tail(s)[i] = s[i + 1] /\ i + 1 # 1
           /\ \A i, j \in DOMAIN Tail(s) : i + 1 = j + 1 => i = j
  OBVIOUS

LEMMA EmptyFacts ==
    ASSUME NEW S
    PROVE  <<>> \in Seq(S) /\ DOMAIN <<>> = {}
  OBVIOUS

\* A frame of the core is an event or a response, never both.
LEMMA FrameFacts ==
    ASSUME NEW f \in LineFrame
    PROVE  /\ f.type \in {"event", "response"}
           /\ f.type = "event" => f.serial \in 1..MaxPushed
           /\ f.type = "response" => /\ f.request \in MessageId /\ f.message \in MessageId
                                     /\ f.code \in CoreResult
  BY DEF LineFrame, Event, Response

\* What the types say of the host, and its next state in a step that moves it.
LEMMA HostFacts ==
    ASSUME BridgeTypeOK
    PROVE  /\ host.at \in {"reading", "asking", "waiting", "ended", "failed"}
           /\ host.message \in 0..MaxMessages /\ host.request \in 0..MaxMessages
           /\ host.dispatch \in BOOLEAN
           /\ host = [at |-> host.at, message |-> host.message, dispatch |-> host.dispatch,
                      request |-> host.request]
           /\ host.message \in Nat /\ host.request \in Nat
           /\ next_request_id \in Nat /\ drops \in Nat /\ crashes \in Nat /\ pushed \in Nat
           /\ Taken \in Int /\ Dead \in {0, 1}
  BY BridgeAssumption DEF BridgeAssumption, BridgeTypeOK, Taken, Dead

LEMMA BridgeStart == BridgeInit => BridgeIInv
<1> SUFFICES ASSUME BridgeInit PROVE BridgeIInv
  OBVIOUS
<1>1. /\ line \in Seq(LineFrame) /\ stdout \in Seq([id: 0..MaxMessages, code: Code])
      /\ DOMAIN line = {} /\ DOMAIN stdout = {} /\ Len(stdout) = 0
  BY EmptyFacts DEF BridgeInit
<1>2. BridgeTypeOK
  BY <1>1, BridgeAssumption DEF BridgeAssumption, BridgeInit, BridgeTypeOK, MessageId, NoMessage
<1>3. EachMessageOnce
  BY <1>1, <1>2 DEF BridgeInit, EachMessageOnce, Taken, NoMessage
<1>4. ExchangeFits
  BY DEF BridgeInit, ExchangeFits, MessageId, NoMessage
<1>5. LossesPaid /\ LineFits
  BY <1>1 DEF BridgeInit, LossesPaid, LineFits, Dead
<1>6. QED
  BY <1>3, <1>4, <1>5 DEF BridgeIInv

-----------------------------------------------------------------------------
(* Answers.                                                                *)

\* One more response is written, to the message the host is at.
LEMMA AnswerWritten ==
    ASSUME EachMessageOnce, BridgeTypeOK',
           NEW id, NEW code, Write(id, code),
           id \in {Taken + 1, NoMessage}, id \in 0..MaxMessages, code \in Code,
           code = "ok" => executed[Taken + 1] = 1,
           Taken \in Nat, Taken' = Taken + 1, UNCHANGED executed
    PROVE  EachMessageOnce'
<1> DEFINE answer == [id |-> id, code |-> code]
           S == [id: 0..MaxMessages, code: Code]
<1>1. stdout \in Seq(S) /\ Len(stdout) = Taken
  BY DEF EachMessageOnce, BridgeTypeOK
<1>2. answer \in S /\ answer.id = id /\ answer.code = code
  OBVIOUS
<1>3. stdout' = Append(stdout, answer)
  BY DEF Write
<1> HIDE DEF answer, S
<1>4. /\ Len(stdout') = Taken + 1
      /\ DOMAIN stdout' = DOMAIN stdout \cup {Taken + 1}
      /\ \A i \in DOMAIN stdout : stdout'[i] = stdout[i]
      /\ stdout'[Taken + 1] = answer
  <2>1. /\ Len(Append(stdout, answer)) = Len(stdout) + 1
        /\ DOMAIN Append(stdout, answer) = DOMAIN stdout \cup {Len(stdout) + 1}
        /\ \A i \in DOMAIN stdout : Append(stdout, answer)[i] = stdout[i]
        /\ Append(stdout, answer)[Len(stdout) + 1] = answer
    BY <1>1, <1>2
  <2>2. QED
    BY <1>1, <1>3, <2>1
<1>5. QED
  BY <1>2, <1>4 DEF EachMessageOnce

\* Nothing is written, and the core acts at most once on each message.
LEMMA AnswersKept ==
    ASSUME EachMessageOnce, BridgeTypeOK', UNCHANGED stdout, Taken' = Taken,
           \A m \in MessageId : executed'[m] <= 1 /\ (executed[m] = 1 => executed'[m] = 1),
           DOMAIN stdout \subseteq MessageId
    PROVE  EachMessageOnce'
  BY DEF EachMessageOnce

\* The answers written are of messages the extension sent.
LEMMA AnswersAreOfMessages ==
    ASSUME BridgeIInv
    PROVE  DOMAIN stdout \subseteq MessageId /\ BridgeTypeOK /\ Taken \in Nat
<1>1. BridgeTypeOK /\ Len(stdout) = Taken /\ stdout \in Seq([id: 0..MaxMessages, code: Code])
  BY DEF BridgeIInv, EachMessageOnce, BridgeTypeOK
<1>2. /\ host.message \in 0..MaxMessages
      /\ host.at \in {"asking", "waiting", "failed"} => host.message \in 1..MaxMessages
  BY <1>1, HostFacts DEF BridgeIInv, ExchangeFits, MessageId
<1>3. Taken \in Nat /\ Taken <= MaxMessages
  BY <1>2, BridgeAssumption DEF BridgeAssumption, Taken
<1>4. DOMAIN stdout = 1..Len(stdout)
  BY <1>1
<1>5. QED
  BY <1>1, <1>3, <1>4, BridgeAssumption DEF BridgeAssumption, MessageId

-----------------------------------------------------------------------------
(* The host reads.                                                         *)

\* Reading changes nothing of the exchanges but the message the host is at.
LEMMA ReadKeeps ==
    ASSUME BridgeIInv, ReadMessage \/ ReadUndecodable \/ ReadBroken \/ ReadEof
    PROVE  BridgeIInv'
<1>1. /\ BridgeTypeOK /\ EachMessageOnce /\ ExchangeFits /\ LossesPaid /\ LineFits
      /\ Taken \in Nat /\ DOMAIN stdout \subseteq MessageId
  BY AnswersAreOfMessages DEF BridgeIInv
<1>0. host.at = "reading" /\ UNCHANGED <<sessionVars, coreVars, drops>>
  BY DEF ReadMessage, ReadUndecodable, ReadBroken, ReadEof
<1>2. /\ host.at = "reading" /\ UNCHANGED <<sessionVars, coreVars, drops>>
      /\ Taken = host.message /\ toCore = NoRequest
      /\ \A i \in DOMAIN line : line[i].type # "response"
  <2>1. host.message \in Nat
    BY <1>1, HostFacts
  <2>2. Taken = host.message
    BY <1>0, <2>1 DEF Taken
  <2>3. QED
    BY <1>0, <1>1, <2>2 DEF ExchangeFits, LineFits
<1>3. /\ host.message \in 0..MaxMessages /\ host.request \in 0..MaxMessages
      /\ host.dispatch \in BOOLEAN /\ host.message \in Nat /\ next_request_id \in Nat
      /\ host = [at |-> host.at, message |-> host.message, dispatch |-> host.dispatch,
                 request |-> host.request]
  BY <1>1, HostFacts
<1>4. /\ host' \in [at: {"reading", "asking", "waiting", "ended", "failed"},
                     message: 0..MaxMessages, dispatch: BOOLEAN, request: 0..MaxMessages]
      /\ host'.at \in {"reading", "asking", "ended"}
      /\ host'.message \in {host.message, host.message + 1}
      /\ host'.message \in 0..MaxMessages
      /\ host'.at = "asking" => host'.message = host.message + 1
      /\ ReadUndecodable \/ ReadBroken =>
            host'.at # "asking" /\ host'.message = host.message + 1
      /\ ReadMessage => host'.at = "asking"
      /\ ReadEof => host'.at = "ended" /\ host'.message = host.message
  <2>1. ASSUME host.message < MaxMessages PROVE host.message + 1 \in 0..MaxMessages
    BY <1>3, <2>1, BridgeAssumption DEF BridgeAssumption
  <2>2. CASE ReadMessage
    <3>1. PICK dispatch \in BOOLEAN :
             host' = [host EXCEPT !.at = "asking", !.message = @ + 1, !.dispatch = dispatch]
      BY <2>2 DEF ReadMessage
    <3>2. host' = [at |-> "asking", message |-> host.message + 1, dispatch |-> dispatch,
                   request |-> host.request]
      BY <3>1, <1>3
    <3>3. QED
      BY <1>3, <2>1, <2>2, <3>2 DEF ReadMessage, ReadUndecodable, ReadBroken, ReadEof
  <2>3. CASE ReadUndecodable
    <3>1. host' = [at |-> "reading", message |-> host.message + 1, dispatch |-> host.dispatch,
                   request |-> host.request]
      BY <2>3, <1>2, <1>3 DEF ReadUndecodable
    <3>2. QED
      BY <1>3, <2>1, <2>3, <3>1 DEF ReadMessage, ReadUndecodable, ReadBroken, ReadEof
  <2>4. CASE ReadBroken
    <3>1. host' = [at |-> "ended", message |-> host.message + 1, dispatch |-> host.dispatch,
                   request |-> host.request]
      BY <2>4, <1>3 DEF ReadBroken
    <3>2. QED
      BY <1>3, <2>1, <2>4, <3>1 DEF ReadMessage, ReadUndecodable, ReadBroken, ReadEof
  <2>5. CASE ReadEof
    <3>1. host' = [at |-> "ended", message |-> host.message, dispatch |-> host.dispatch,
                   request |-> host.request]
      BY <2>5, <1>3 DEF ReadEof
    <3>2. ReadMessage \/ ReadUndecodable \/ ReadBroken =>
             host'.message = host.message + 1
      BY <1>3 DEF ReadMessage, ReadUndecodable, ReadBroken
    <3>3. ~ReadMessage /\ ~ReadUndecodable /\ ~ReadBroken
      BY <1>3, <3>1, <3>2
    <3>4. QED
      BY <1>3, <3>1, <3>3
  <2>6. QED
    BY <2>2, <2>3, <2>4, <2>5
<1>5. ExchangeFits'
  <2>1. /\ next_request_id' <= host'.message + 1
        /\ host'.at = "asking" => next_request_id' <= host'.message
    BY <1>1, <1>2, <1>3, <1>4 DEF ExchangeFits, sessionVars
  <2>2. Taken' >= Taken
    BY <1>2, <1>3, <1>4 DEF Taken
  <2>3. host'.at = "asking" => host'.message \in MessageId /\ executed'[host'.message] = 0
    BY <1>1, <1>2, <1>3, <1>4 DEF ExchangeFits, MessageId, coreVars
  <2>4. \A m \in MessageId : executed'[m] <= 1 /\ (m > host'.message => executed'[m] = 0)
    BY <1>1, <1>2, <1>3, <1>4 DEF ExchangeFits, MessageId, coreVars
  <2>5. abandoned' # NoRequest =>
          coreUp' /\ abandoned'.message <= Taken' /\ executed'[abandoned'.message] = 0
    <3>1. abandoned # NoRequest => abandoned.message \in Nat
      BY <1>1 DEF BridgeTypeOK, MessageId
    <3>2. Taken' \in Nat
      BY <1>3, <1>4 DEF Taken
    <3>3. QED
      BY <1>1, <1>2, <2>2, <3>1, <3>2 DEF ExchangeFits, sessionVars, coreVars
  <2>6. QED
    BY <1>1, <1>2, <1>4, <2>1, <2>3, <2>4, <2>5 DEF ExchangeFits, sessionVars, coreVars
<1>6. LossesPaid' /\ LineFits'
  BY <1>1, <1>2 DEF LossesPaid, LineFits, Dead, sessionVars, coreVars
<1>7. EachMessageOnce'
  <2>1. CASE ReadMessage \/ ReadEof
    <3>0. UNCHANGED stdout
      BY <2>1 DEF ReadMessage, ReadEof
    <3>1. UNCHANGED stdout /\ Taken' = Taken
      BY <2>1, <3>0, <1>2, <1>3, <1>4 DEF Taken
    <3>2. BridgeTypeOK'
      BY <1>1, <1>2, <1>4, <3>1 DEF BridgeTypeOK, sessionVars, coreVars
    <3>3. QED
      BY <1>1, <1>2, <3>1, <3>2 DEF EachMessageOnce, coreVars
  <2>2. CASE ReadUndecodable \/ ReadBroken
    <3>1. PICK id \in {NoMessage, host.message + 1} : Write(id, "invalid_request")
      BY <2>2 DEF ReadUndecodable, ReadBroken
    <3>2. Taken' = Taken + 1 /\ id \in 0..MaxMessages
      BY <2>2, <3>1, <1>2, <1>3, <1>4, BridgeAssumption
      DEF BridgeAssumption, Taken, NoMessage
    <3>3. stdout' \in Seq([id: 0..MaxMessages, code: Code])
      <4>1. [id |-> id, code |-> "invalid_request"] \in [id: 0..MaxMessages, code: Code]
        BY <3>2 DEF Code
      <4>2. stdout \in Seq([id: 0..MaxMessages, code: Code])
        BY <1>1 DEF BridgeTypeOK
      <4>3. Append(stdout, [id |-> id, code |-> "invalid_request"])
              \in Seq([id: 0..MaxMessages, code: Code])
        BY <4>1, <4>2, AppendFacts, Zenon
      <4>4. QED
        BY <3>1, <4>3 DEF Write
    <3>4. BridgeTypeOK'
      BY <1>1, <1>2, <1>4, <3>3 DEF BridgeTypeOK, sessionVars, coreVars
    <3>5. UNCHANGED executed /\ "invalid_request" \in Code
      BY <1>2 DEF coreVars, Code
    <3>6. QED
      BY <1>1, <1>2, <3>1, <3>2, <3>4, <3>5, AnswerWritten
  <2>3. QED
    BY <2>1, <2>2
<1>8. QED
  BY <1>5, <1>6, <1>7 DEF BridgeIInv

-----------------------------------------------------------------------------
(* The host asks, and gives a connection up.                               *)

\* The session drops its connection and answers with an error; the drop is
\* paid for by what made it.
LEMMA DropKeeps ==
    ASSUME BridgeIInv, host.at \in {"asking", "waiting"}, UNCHANGED coreVars,
           NEW code \in Code \ {"ok"}, DropAndAnswer(code),
           next_request_id' \in 1..(MaxMessages + 1), next_request_id' <= host.message + 1,
           drops + 1 <= crashes + pushed
    PROVE  BridgeIInv'
<1>1. /\ BridgeTypeOK /\ EachMessageOnce /\ ExchangeFits /\ LossesPaid /\ LineFits
      /\ Taken \in Nat /\ DOMAIN stdout \subseteq MessageId
  BY AnswersAreOfMessages DEF BridgeIInv
<1>2. /\ host.message \in MessageId /\ host.message \in Nat /\ drops \in Nat
      /\ host.message \in 0..MaxMessages /\ host.request \in 0..MaxMessages
      /\ host.dispatch \in BOOLEAN
      /\ host = [at |-> host.at, message |-> host.message, dispatch |-> host.dispatch,
                 request |-> host.request]
  BY <1>1, HostFacts DEF ExchangeFits
<1>3. /\ host' = [at |-> "reading", message |-> host.message, dispatch |-> host.dispatch,
                  request |-> host.request]
      /\ host'.at = "reading" /\ host'.message = host.message
  BY <1>2 DEF DropAndAnswer, Answered
<1>4. Taken' = host.message /\ Taken = host.message - 1 /\ Taken' = Taken + 1
  BY <1>2, <1>3 DEF Taken
<1>5. /\ connection' = "none" /\ line' = <<>> /\ toCore' = NoRequest
      /\ abandoned' = (IF toCore = NoRequest THEN abandoned ELSE toCore)
      /\ drops' = drops + 1 /\ Write(host.message, code)
      /\ UNCHANGED <<coreUp, executed, crashes, pushed>>
  BY DEF DropAndAnswer, coreVars
<1>6. line' \in Seq(LineFrame) /\ DOMAIN line' = {}
  BY <1>5, EmptyFacts
<1>7. BridgeTypeOK'
  <2>1. stdout' \in Seq([id: 0..MaxMessages, code: Code])
    <3> DEFINE S == [id: 0..MaxMessages, code: Code]
               answer == [id |-> host.message, code |-> code]
    <3>1. answer \in S /\ stdout \in Seq(S) /\ stdout' = Append(stdout, answer)
      BY <1>1, <1>2, <1>5 DEF Write, BridgeTypeOK
    <3> HIDE DEF S, answer
    <3>2. stdout' \in Seq(S)
      BY <3>1
    <3>3. QED
      BY <3>2 DEF S
  <2>2. host' \in [at: {"reading", "asking", "waiting", "ended", "failed"},
                   message: 0..MaxMessages, dispatch: BOOLEAN, request: 0..MaxMessages]
    BY <1>2, <1>3
  <2>3. QED
    BY <1>1, <1>2, <1>5, <1>6, <2>1, <2>2 DEF BridgeTypeOK
<1>8. ExchangeFits'
  <2>1. abandoned' # NoRequest =>
          coreUp' /\ abandoned'.message <= Taken' /\ executed'[abandoned'.message] = 0
    <3>1. CASE toCore = NoRequest
      <4>1. abandoned # NoRequest => abandoned.message \in Nat
        BY <1>1 DEF BridgeTypeOK, MessageId
      <4>2. QED
        BY <1>1, <1>4, <1>5, <3>1, <4>1 DEF ExchangeFits
    <3>2. CASE toCore # NoRequest
      <4>1. toCore.message = host.message /\ coreUp /\ executed[host.message] = 0
        BY <1>1, <3>2 DEF ExchangeFits
      <4>2. QED
        BY <1>2, <1>4, <1>5, <3>2, <4>1
    <3>3. QED
      BY <3>1, <3>2
  <2>2. \A m \in MessageId : executed'[m] <= 1 /\ (m > host'.message => executed'[m] = 0)
    BY <1>1, <1>3, <1>5 DEF ExchangeFits
  <2>3. QED
    BY <1>3, <1>5, <2>1, <2>2 DEF ExchangeFits
<1>9. LossesPaid' /\ LineFits'
  <2>1. Dead' = 0 /\ drops' + Dead' = drops + 1
    BY <1>2, <1>5 DEF Dead
  <2>2. QED
    BY <1>5, <1>6, <2>1 DEF LossesPaid, LineFits
<1>10. EachMessageOnce'
  <2>1. host.message \in {Taken + 1, NoMessage}
    BY <1>2, <1>4
  <2>2. QED
    BY <1>1, <1>2, <1>4, <1>5, <1>7, <2>1, AnswerWritten
<1>11. QED
  BY <1>8, <1>9, <1>10 DEF BridgeIInv

\* What holds of a host that is at a message.
LEMMA AtMessage ==
    ASSUME BridgeIInv
    PROVE  /\ BridgeTypeOK /\ EachMessageOnce /\ ExchangeFits /\ LossesPaid /\ LineFits
           /\ Taken \in Nat /\ DOMAIN stdout \subseteq MessageId
           /\ host.message \in Nat /\ host.message \in 0..MaxMessages
           /\ host.request \in 0..MaxMessages /\ host.dispatch \in BOOLEAN
           /\ host = [at |-> host.at, message |-> host.message, dispatch |-> host.dispatch,
                      request |-> host.request]
           /\ host.at \in {"asking", "waiting", "failed"} =>
                 host.message \in MessageId /\ Taken = host.message - 1
           /\ next_request_id \in Nat /\ drops \in Nat /\ crashes \in Nat /\ pushed \in Nat
           /\ Dead \in {0, 1}
<1>1. /\ BridgeTypeOK /\ EachMessageOnce /\ ExchangeFits /\ LossesPaid /\ LineFits
      /\ Taken \in Nat /\ DOMAIN stdout \subseteq MessageId
  BY AnswersAreOfMessages DEF BridgeIInv
<1>2. /\ host.message \in Nat /\ host.message \in 0..MaxMessages
      /\ host.request \in 0..MaxMessages /\ host.dispatch \in BOOLEAN
      /\ host = [at |-> host.at, message |-> host.message, dispatch |-> host.dispatch,
                 request |-> host.request]
      /\ next_request_id \in Nat /\ drops \in Nat /\ crashes \in Nat /\ pushed \in Nat
      /\ Dead \in {0, 1}
  BY <1>1, HostFacts
<1>3. host.at \in {"asking", "waiting", "failed"} =>
         host.message \in MessageId /\ Taken = host.message - 1
  BY <1>1, <1>2 DEF ExchangeFits, Taken
<1>4. QED
  BY <1>1, <1>2, <1>3

LEMMA EnsureKeeps ==
    ASSUME BridgeIInv, EnsureConnection
    PROVE  BridgeIInv'
<1>1. /\ BridgeTypeOK /\ EachMessageOnce /\ ExchangeFits /\ LossesPaid /\ LineFits
      /\ Taken \in Nat /\ DOMAIN stdout \subseteq MessageId
      /\ host.message \in Nat /\ host.message \in 0..MaxMessages
      /\ host.request \in 0..MaxMessages /\ host.dispatch \in BOOLEAN
      /\ host = [at |-> host.at, message |-> host.message, dispatch |-> host.dispatch,
                 request |-> host.request]
      /\ host.message \in MessageId /\ Taken = host.message - 1
      /\ next_request_id \in Nat
  BY AtMessage DEF EnsureConnection
<1>2. /\ host.at = "asking" /\ connection = "none" /\ toCore = NoRequest /\ line = <<>>
      /\ UNCHANGED <<next_request_id, toCore, abandoned, line, coreUp, executed, crashes,
                     pushed, drops>>
  BY <1>1 DEF EnsureConnection, coreVars, ExchangeFits, LineFits
<1>3. DOMAIN line = {} /\ line' = line
  BY <1>2, EmptyFacts
<1>4. CASE coreUp
  <2>1. connection' = "alive" /\ UNCHANGED <<host, stdout>>
    BY <1>4 DEF EnsureConnection
  <2>2. Taken' = Taken /\ Dead' = Dead
    BY <1>2, <2>1 DEF Taken, Dead
  <2>3. BridgeTypeOK'
    BY <1>1, <1>2, <2>1 DEF BridgeTypeOK
  <2>4. ExchangeFits'
    BY <1>1, <1>2, <1>4, <2>1, <2>2 DEF ExchangeFits
  <2>5. LossesPaid' /\ LineFits'
    BY <1>1, <1>2, <1>3, <2>1, <2>2 DEF LossesPaid, LineFits
  <2>6. EachMessageOnce'
    BY <1>1, <1>2, <2>1, <2>2, <2>3 DEF EachMessageOnce
  <2>7. QED
    BY <2>4, <2>5, <2>6 DEF BridgeIInv
<1>5. CASE ~coreUp
  <2>1. Answered /\ Write(host.message, "core_unavailable") /\ UNCHANGED connection
    BY <1>5 DEF EnsureConnection
  <2>2. /\ host' = [at |-> "reading", message |-> host.message, dispatch |-> host.dispatch,
                    request |-> host.request]
        /\ host'.at = "reading" /\ host'.message = host.message
    BY <1>1, <2>1 DEF Answered
  <2>3. Taken' = host.message /\ Taken' = Taken + 1 /\ Dead' = Dead
    BY <1>1, <2>1, <2>2 DEF Taken, Dead
  <2>4. stdout' \in Seq([id: 0..MaxMessages, code: Code])
    <3> DEFINE S == [id: 0..MaxMessages, code: Code]
               answer == [id |-> host.message, code |-> "core_unavailable"]
    <3>1. answer \in S /\ stdout \in Seq(S) /\ stdout' = Append(stdout, answer)
      BY <1>1, <2>1 DEF Write, BridgeTypeOK, Code
    <3> HIDE DEF S, answer
    <3>2. stdout' \in Seq(S)
      BY <3>1
    <3>3. QED
      BY <3>2 DEF S
  <2>5. BridgeTypeOK'
    BY <1>1, <1>2, <2>1, <2>2, <2>4 DEF BridgeTypeOK
  <2>6. abandoned # NoRequest => FALSE
    BY <1>1, <1>5 DEF ExchangeFits
  <2>7. ExchangeFits'
    BY <1>1, <1>2, <2>1, <2>2, <2>6 DEF ExchangeFits
  <2>8. LossesPaid' /\ LineFits'
    BY <1>1, <1>2, <1>3, <2>1, <2>3 DEF LossesPaid, LineFits
  <2>9. EachMessageOnce'
    <3>1. host.message \in {Taken + 1, NoMessage} /\ "core_unavailable" \in Code
      BY <1>1, <2>3 DEF Code
    <3>2. QED
      BY <1>1, <1>2, <2>1, <2>3, <2>5, <3>1, AnswerWritten
  <2>10. QED
    BY <2>7, <2>8, <2>9 DEF BridgeIInv
<1>6. QED
  BY <1>4, <1>5

LEMMA SendKeeps ==
    ASSUME BridgeIInv, SendRequestFrame
    PROVE  BridgeIInv'
<1>1. /\ BridgeTypeOK /\ EachMessageOnce /\ ExchangeFits /\ LossesPaid /\ LineFits
      /\ Taken \in Nat /\ DOMAIN stdout \subseteq MessageId
      /\ host.message \in Nat /\ host.message \in 0..MaxMessages
      /\ host.request \in 0..MaxMessages /\ host.dispatch \in BOOLEAN
      /\ host = [at |-> host.at, message |-> host.message, dispatch |-> host.dispatch,
                 request |-> host.request]
      /\ host.message \in MessageId /\ Taken = host.message - 1
      /\ next_request_id \in Nat /\ drops \in Nat
  BY AtMessage DEF SendRequestFrame
<1>2. /\ host.at = "asking" /\ connection \in {"alive", "dead"}
      /\ next_request_id' = next_request_id + 1 /\ next_request_id <= host.message
      /\ next_request_id \in MessageId /\ next_request_id' \in 1..(MaxMessages + 1)
      /\ toCore = NoRequest /\ executed[host.message] = 0
      /\ \A i \in DOMAIN line : line[i].type # "response"
      /\ UNCHANGED <<coreUp, executed, crashes, pushed>>
  BY <1>1, BridgeAssumption
  DEF BridgeAssumption, SendRequestFrame, coreVars, ExchangeFits, LineFits, BridgeTypeOK, MessageId
<1>3. CASE connection = "alive"
  <2>1. /\ toCore' = [request |-> next_request_id, message |-> host.message]
        /\ host' = [host EXCEPT !.at = "waiting", !.request = next_request_id]
        /\ UNCHANGED <<connection, abandoned, line, stdout, drops>>
    BY <1>3 DEF SendRequestFrame
  <2>2. /\ host' = [at |-> "waiting", message |-> host.message, dispatch |-> host.dispatch,
                    request |-> next_request_id]
        /\ host'.at = "waiting" /\ host'.message = host.message
        /\ host'.request = next_request_id
    BY <1>1, <2>1
  <2>3. Taken' = Taken /\ Dead' = Dead
    BY <1>2, <2>1, <2>2 DEF Taken, Dead
  <2>4. host' \in [at: {"reading", "asking", "waiting", "ended", "failed"},
                   message: 0..MaxMessages, dispatch: BOOLEAN, request: 0..MaxMessages]
    BY <1>1, <1>2, <2>2, BridgeAssumption DEF BridgeAssumption, MessageId
  <2>5. BridgeTypeOK'
    BY <1>1, <1>2, <2>1, <2>4 DEF BridgeTypeOK
  <2>6. ExchangeFits'
    BY <1>1, <1>2, <1>3, <2>1, <2>2, <2>3 DEF ExchangeFits
  <2>7. LossesPaid' /\ LineFits'
    BY <1>1, <1>2, <2>1, <2>3 DEF LossesPaid, LineFits
  <2>8. EachMessageOnce'
    BY <1>1, <1>2, <2>1, <2>3, <2>5 DEF EachMessageOnce
  <2>9. QED
    BY <2>6, <2>7, <2>8 DEF BridgeIInv
<1>4. CASE connection = "dead"
  <2>1. DropAndAnswer("core_ipc_error") /\ UNCHANGED coreVars
    BY <1>4 DEF SendRequestFrame
  <2>2. drops + 1 <= crashes + pushed
    BY <1>1, <1>4 DEF LossesPaid, Dead
  <2>3. "core_ipc_error" \in Code \ {"ok"} /\ next_request_id' <= host.message + 1
    BY <1>1, <1>2 DEF Code
  <2>4. QED
    BY <1>2, <2>1, <2>2, <2>3, DropKeeps
<1>5. QED
  BY <1>2, <1>3, <1>4

LEMMA DeliverKeeps ==
    ASSUME BridgeIInv, host.at = "waiting", line # <<>>, Head(line).type = "response",
           line' = Tail(line), Deliver(Head(line).code),
           UNCHANGED <<connection, toCore, abandoned, drops, next_request_id, coreVars>>
    PROVE  BridgeIInv'
<1>1. /\ BridgeTypeOK /\ EachMessageOnce /\ ExchangeFits /\ LossesPaid /\ LineFits
      /\ Taken \in Nat /\ DOMAIN stdout \subseteq MessageId
      /\ host.message \in Nat /\ host.message \in 0..MaxMessages
      /\ host.request \in 0..MaxMessages /\ host.dispatch \in BOOLEAN
      /\ host = [at |-> host.at, message |-> host.message, dispatch |-> host.dispatch,
                 request |-> host.request]
      /\ host.message \in MessageId /\ Taken = host.message - 1
  BY AtMessage
<1>2. line \in Seq(LineFrame)
  BY <1>1 DEF BridgeTypeOK
<1>3. /\ Tail(line) \in Seq(LineFrame)
      /\ Head(line) = line[1] /\ 1 \in DOMAIN line /\ Head(line) \in LineFrame
      /\ \A i \in DOMAIN Tail(line) :
            i + 1 \in DOMAIN line /\ Tail(line)[i] = line[i + 1] /\ i + 1 # 1
      /\ \A i, j \in DOMAIN Tail(line) : i + 1 = j + 1 => i = j
  BY <1>2, TailFacts, Zenon
<1> DEFINE code == Head(line).code
<1>4. code \in CoreResult
  BY <1>3, FrameFacts
<1>5. toCore = NoRequest /\ executed[host.message] = 1
  BY <1>1, <1>3 DEF LineFits
<1>6. \A i \in DOMAIN line' : line'[i].type # "response"
  BY <1>1, <1>3 DEF LineFits
<1>7. /\ UNCHANGED <<connection, toCore, abandoned, drops, next_request_id>>
      /\ UNCHANGED <<coreUp, executed, crashes, pushed>>
      /\ Dead' = Dead
  BY DEF coreVars, Dead
<1>8. LossesPaid' /\ LineFits'
  <2>1. \A i \in DOMAIN line' : line'[i].type = "event" =>
           line'[i].serial <= pushed' /\ drops' + Dead' < crashes' + line'[i].serial
    BY <1>1, <1>3, <1>7 DEF LineFits
  <2>2. connection' # "none"
    BY <1>1, <1>7 DEF LineFits
  <2>3. QED
    BY <1>1, <1>6, <1>7, <2>1, <2>2 DEF LossesPaid, LineFits
<1>9. ASSUME host'.at \in {"reading", "failed"}, host'.message = host.message, Taken' >= Taken,
             Taken' \in Nat
      PROVE  ExchangeFits'
  <2>1. abandoned # NoRequest => abandoned.message \in Nat
    BY <1>1 DEF BridgeTypeOK, MessageId
  <2>2. QED
    BY <1>1, <1>5, <1>7, <1>9, <2>1 DEF ExchangeFits
<1>10. CASE code = "too_long"
  <2>1. host' = [host EXCEPT !.at = "failed"] /\ UNCHANGED stdout
    BY <1>10 DEF Deliver
  <2>2. /\ host' = [at |-> "failed", message |-> host.message, dispatch |-> host.dispatch,
                    request |-> host.request]
        /\ host'.at = "failed" /\ host'.message = host.message
    BY <1>1, <2>1
  <2>3. Taken' = Taken
    BY <1>1, <2>2 DEF Taken
  <2>4. BridgeTypeOK'
    BY <1>1, <1>3, <1>7, <2>1, <2>2 DEF BridgeTypeOK
  <2>5. EachMessageOnce'
    BY <1>1, <1>7, <2>1, <2>3, <2>4 DEF EachMessageOnce
  <2>6. QED
    BY <1>1, <1>8, <1>9, <2>2, <2>3, <2>5 DEF BridgeIInv
<1>11. CASE code # "too_long"
  <2> DEFINE written == IF code = "not_json" THEN "unexpected_core_response" ELSE code
  <2>1. Answered /\ Write(host.message, written)
    BY <1>11 DEF Deliver
  <2>2. /\ host' = [at |-> "reading", message |-> host.message, dispatch |-> host.dispatch,
                    request |-> host.request]
        /\ host'.at = "reading" /\ host'.message = host.message
    BY <1>1, <2>1 DEF Answered
  <2>3. Taken' = host.message /\ Taken' = Taken + 1
    BY <1>1, <2>2 DEF Taken
  <2>4. written \in Code
    BY <1>4, <1>11 DEF CoreResult, Code
  <2> HIDE DEF written
  <2>5. stdout' \in Seq([id: 0..MaxMessages, code: Code])
    <3> DEFINE S == [id: 0..MaxMessages, code: Code]
               answer == [id |-> host.message, code |-> written]
    <3>1. answer \in S /\ stdout \in Seq(S) /\ stdout' = Append(stdout, answer)
      BY <1>1, <2>1, <2>4 DEF Write, BridgeTypeOK
    <3> HIDE DEF S, answer
    <3>2. stdout' \in Seq(S)
      BY <3>1
    <3>3. QED
      BY <3>2 DEF S
  <2>6. BridgeTypeOK'
    BY <1>1, <1>3, <1>7, <2>2, <2>5 DEF BridgeTypeOK
  <2>7. EachMessageOnce'
    <3>1. host.message \in {Taken + 1, NoMessage} /\ executed[Taken + 1] = 1
      BY <1>1, <1>5, <2>3
    <3>2. QED
      BY <1>1, <1>7, <2>1, <2>3, <2>4, <2>6, <3>1, AnswerWritten
  <2>8. QED
    BY <1>1, <1>8, <1>9, <2>2, <2>3, <2>7 DEF BridgeIInv
<1>12. QED
  BY <1>10, <1>11

LEMMA ReceiveKeeps ==
    ASSUME BridgeIInv, ReceiveFrame
    PROVE  BridgeIInv'
<1>1. /\ BridgeTypeOK /\ ExchangeFits /\ LossesPaid /\ LineFits
      /\ next_request_id \in Nat /\ host.message \in Nat
      /\ drops \in Nat /\ crashes \in Nat /\ pushed \in Nat /\ Dead \in {0, 1}
  BY AtMessage
<1>2. /\ host.at = "waiting" /\ UNCHANGED coreVars /\ next_request_id' = next_request_id
      /\ next_request_id' \in 1..(MaxMessages + 1) /\ next_request_id' <= host.message + 1
  BY <1>1 DEF ReceiveFrame, BridgeTypeOK, ExchangeFits
<1>3. "core_ipc_error" \in Code \ {"ok"} /\ "unexpected_core_response" \in Code \ {"ok"}
  BY DEF Code
<1>4. CASE line = <<>> /\ connection = "dead" /\ DropAndAnswer("core_ipc_error")
  <2>1. drops + 1 <= crashes + pushed
    BY <1>1, <1>4 DEF LossesPaid, Dead
  <2>2. QED
    BY <1>2, <1>3, <1>4, <2>1, DropKeeps
<1>5. ASSUME line # <<>>,
             IF Head(line).type = "response" /\ Head(line).request = host.request
             THEN /\ line' = Tail(line)
                  /\ Deliver(Head(line).code)
                  /\ UNCHANGED <<connection, toCore, abandoned, drops>>
             ELSE DropAndAnswer("unexpected_core_response")
      PROVE  BridgeIInv'
  <2>1. Head(line) = line[1] /\ 1 \in DOMAIN line /\ Head(line) \in LineFrame
    <3>1. line \in Seq(LineFrame)
      BY <1>1 DEF BridgeTypeOK
    <3>2. QED
      BY <1>5, <3>1, TailFacts, Zenon
  <2>2. CASE Head(line).type = "response"
    <3>1. Head(line).request = host.request
      BY <1>1, <2>1, <2>2 DEF LineFits
    <3>2. QED
      BY <1>2, <1>5, <2>2, <3>1, DeliverKeeps
  <2>3. CASE Head(line).type = "event"
    <3>1. Head(line).serial <= pushed /\ drops + Dead < crashes + Head(line).serial
      BY <1>1, <2>1, <2>3 DEF LineFits
    <3>2. Head(line).serial \in 1..MaxPushed
      BY <2>1, <2>3, FrameFacts
    <3>3. drops + 1 <= crashes + pushed
      BY <1>1, <3>1, <3>2
    <3>4. DropAndAnswer("unexpected_core_response")
      BY <1>5, <2>3
    <3>5. QED
      BY <1>2, <1>3, <3>3, <3>4, DropKeeps
  <2>4. QED
    BY <2>1, <2>2, <2>3, FrameFacts
<1>6. QED
  BY <1>4, <1>5 DEF ReceiveFrame

-----------------------------------------------------------------------------
(* The core's steps.                                                       *)

\* A frame joins the line: an event that pays for itself, or the response.
LEMMA LineGrows ==
    ASSUME BridgeTypeOK, LineFits, NEW frame \in LineFrame, line' = Append(line, frame),
           UNCHANGED <<host, connection, drops, crashes>>, connection = "alive",
           pushed' \in Nat, pushed' >= pushed, pushed \in Nat,
           frame.type = "event" =>
              /\ frame.serial <= pushed' /\ drops + Dead < crashes + frame.serial
              /\ UNCHANGED <<toCore, executed>>,
           frame.type = "response" =>
              /\ host.at = "waiting"
              /\ frame.request = host.request
              /\ frame.message = host.message
              /\ toCore' = NoRequest
              /\ executed'[host.message] = 1
              /\ \A i \in DOMAIN line : line[i].type # "response"
    PROVE  LineFits' /\ line' \in Seq(LineFrame)
<1>1. line \in Seq(LineFrame) /\ Dead' = Dead
  BY DEF BridgeTypeOK, Dead
<1>2. /\ line' \in Seq(LineFrame)
      /\ DOMAIN line' = DOMAIN line \cup {Len(line) + 1}
      /\ \A i \in DOMAIN line : line'[i] = line[i]
      /\ line'[Len(line) + 1] = frame
  <2> HIDE DEF LineFrame
  <2>1. QED
    BY <1>1
<1>3. frame.type \in {"event", "response"}
  BY FrameFacts
<1>4. \A i \in DOMAIN line : line[i].type = "event" =>
         line[i].serial <= pushed' /\ drops + Dead < crashes + line[i].serial
  <2>1. ASSUME NEW i \in DOMAIN line, line[i].type = "event"
        PROVE  line[i].serial \in Nat
    <3>1. line[i] \in LineFrame
      BY <1>1
    <3>2. QED
      BY <2>1, <3>1, FrameFacts
  <2>2. QED
    BY <2>1 DEF LineFits
<1>5. \A i \in DOMAIN line' : line'[i].type = "event" =>
         line'[i].serial <= pushed' /\ drops' + Dead' < crashes' + line'[i].serial
  BY <1>1, <1>2, <1>4
<1>6. CASE frame.type = "event"
  BY <1>2, <1>5, <1>6 DEF LineFits
<1>7. CASE frame.type = "response"
  BY <1>2, <1>5, <1>7 DEF LineFits
<1>8. QED
  BY <1>2, <1>3, <1>6, <1>7

LEMMA AnswerKeeps ==
    ASSUME BridgeIInv, CoreAnswers
    PROVE  BridgeIInv'
<1>1. /\ BridgeTypeOK /\ EachMessageOnce /\ ExchangeFits /\ LossesPaid /\ LineFits
      /\ host.message \in Nat /\ pushed \in Nat
      /\ host.at \in {"asking", "waiting", "failed"} => host.message \in MessageId
  BY AtMessage
<1>2. /\ coreUp /\ connection = "alive" /\ abandoned = NoRequest /\ toCore # NoRequest
      /\ toCore' = NoRequest /\ executed' = [executed EXCEPT ![toCore.message] = @ + 1]
      /\ UNCHANGED <<host, connection, next_request_id, abandoned, coreUp, stdout, drops,
                     crashes, pushed>>
  BY DEF CoreAnswers
<1>3. /\ host.at = "waiting" /\ toCore.message = host.message /\ toCore.request = host.request
      /\ executed[host.message] = 0 /\ host.message \in MessageId /\ host.request \in MessageId
  BY <1>1, <1>2 DEF ExchangeFits
<1>4. /\ executed' \in [MessageId -> Nat] /\ executed'[host.message] = 1
      /\ \A m \in MessageId \ {host.message} : executed'[m] = executed[m]
  BY <1>1, <1>2, <1>3 DEF BridgeTypeOK
<1>5. PICK code \in CoreResult :
         line' = Append(line, Response(toCore.request, toCore.message, code))
  BY DEF CoreAnswers, CoreResult
<1> DEFINE frame == Response(toCore.request, toCore.message, code)
<1>6. /\ frame \in LineFrame /\ frame.type = "response"
      /\ frame.request = host.request /\ frame.message = host.message
  BY <1>3 DEF LineFrame, Response
<1>7. \A i \in DOMAIN line : line[i].type # "response"
  BY <1>1, <1>2 DEF LineFits
<1>8. LineFits' /\ line' \in Seq(LineFrame)
  <2> HIDE DEF frame
  <2>1. line' = Append(line, frame)
    BY <1>5 DEF frame
  <2>2. QED
    BY <1>1, <1>2, <1>3, <1>4, <1>6, <1>7, <2>1, LineGrows
<1>9. Taken' = Taken /\ Dead' = Dead
  BY <1>2 DEF Taken, Dead
<1>10. BridgeTypeOK'
  BY <1>1, <1>2, <1>4, <1>8 DEF BridgeTypeOK
<1>11. ExchangeFits'
  BY <1>1, <1>2, <1>3, <1>4 DEF ExchangeFits
<1>12. LossesPaid'
  BY <1>1, <1>2, <1>9 DEF LossesPaid
<1>13. EachMessageOnce'
  BY <1>1, <1>2, <1>3, <1>4, <1>9, <1>10, AnswersAreOfMessages DEF EachMessageOnce
<1>14. QED
  BY <1>8, <1>11, <1>12, <1>13 DEF BridgeIInv

LEMMA PushKeeps ==
    ASSUME BridgeIInv, CorePushesEvent
    PROVE  BridgeIInv'
<1>1. /\ BridgeTypeOK /\ EachMessageOnce /\ ExchangeFits /\ LossesPaid /\ LineFits
      /\ pushed \in Nat /\ drops \in Nat /\ crashes \in Nat /\ Dead \in {0, 1}
  BY AtMessage
<1>2. /\ connection = "alive" /\ pushed < MaxPushed /\ pushed' = pushed + 1
      /\ line' = Append(line, Event(pushed + 1))
      /\ UNCHANGED <<host, connection, next_request_id, toCore, abandoned, coreUp, stdout,
                     executed, drops, crashes>>
  BY DEF CorePushesEvent
<1> DEFINE frame == Event(pushed + 1)
<1>3. /\ pushed' \in 0..MaxPushed /\ pushed + 1 \in 1..MaxPushed /\ pushed' \in Nat
      /\ frame.type = "event" /\ frame.serial = pushed + 1
  BY <1>1, <1>2, BridgeAssumption DEF BridgeAssumption, Event
<1>4. frame \in LineFrame
  BY <1>3 DEF LineFrame
<1>5. drops + Dead < crashes + frame.serial
  BY <1>1, <1>3 DEF LossesPaid
<1>6. LineFits' /\ line' \in Seq(LineFrame)
  <2> HIDE DEF frame
  <2>1. line' = Append(line, frame)
    BY <1>2 DEF frame
  <2>2. QED
    BY <1>1, <1>2, <1>3, <1>4, <1>5, <2>1, LineGrows
<1>7. Taken' = Taken /\ Dead' = Dead
  BY <1>2 DEF Taken, Dead
<1>8. BridgeTypeOK'
  BY <1>1, <1>2, <1>3, <1>6 DEF BridgeTypeOK
<1>9. ExchangeFits' /\ LossesPaid'
  BY <1>1, <1>2, <1>7 DEF ExchangeFits, LossesPaid
<1>10. EachMessageOnce'
  BY <1>1, <1>2, <1>7, <1>8 DEF EachMessageOnce
<1>11. QED
  BY <1>6, <1>9, <1>10 DEF BridgeIInv

\* The core ends, and may have acted on the request it would read next.
LEMMA GoneKeeps ==
    ASSUME BridgeIInv, coreUp, CoreIsGone,
           \/ UNCHANGED executed
           \/ \E request \in {toCore, abandoned} \ {NoRequest} :
                 executed' = [executed EXCEPT ![request.message] = @ + 1]
    PROVE  BridgeIInv'
<1>1. /\ BridgeTypeOK /\ EachMessageOnce /\ ExchangeFits /\ LossesPaid /\ LineFits
      /\ Taken \in Nat /\ DOMAIN stdout \subseteq MessageId
      /\ host.message \in Nat /\ pushed \in Nat /\ drops \in Nat /\ crashes \in Nat
      /\ host.at \in {"asking", "waiting", "failed"} =>
            host.message \in MessageId /\ Taken = host.message - 1
      /\ Taken <= host.message
  <2>1. host.message \in Nat
    BY AtMessage
  <2>2. Taken <= host.message
    BY <2>1 DEF Taken
  <2>3. QED
    BY <2>2, AtMessage
<1>2. /\ crashes' = crashes + 1 /\ coreUp' = FALSE /\ toCore' = NoRequest
      /\ abandoned' = NoRequest
      /\ connection' = (IF connection = "alive" THEN "dead" ELSE connection)
      /\ UNCHANGED <<host, next_request_id, line, stdout, drops, pushed>>
  BY DEF CoreIsGone
<1>3. /\ executed' \in [MessageId -> Nat]
      /\ \A m \in MessageId :
            \/ executed'[m] = executed[m]
            \/ /\ executed[m] = 0 /\ executed'[m] = 1 /\ m <= host.message
               /\ host.at = "asking" => m # host.message
  <2>1. CASE UNCHANGED executed
    BY <1>1, <2>1 DEF BridgeTypeOK
  <2>2. CASE \E request \in {toCore, abandoned} \ {NoRequest} :
                executed' = [executed EXCEPT ![request.message] = @ + 1]
    <3>1. PICK request \in {toCore, abandoned} \ {NoRequest} :
             executed' = [executed EXCEPT ![request.message] = @ + 1]
      BY <2>2
    <3>2. /\ request.message \in MessageId /\ request.message \in Nat
          /\ executed[request.message] = 0
      BY <1>1 DEF BridgeTypeOK, ExchangeFits, MessageId
    <3>3. /\ request.message <= host.message
          /\ host.at = "asking" => request.message # host.message
      <4>1. CASE request = toCore
        BY <1>1, <4>1 DEF ExchangeFits
      <4>2. CASE request = abandoned
        <5>1. request.message <= Taken
          BY <1>1, <4>2 DEF ExchangeFits
        <5>2. QED
          BY <1>1, <3>2, <5>1
      <4>3. QED
        BY <4>1, <4>2
    <3>4. /\ executed' \in [MessageId -> Nat] /\ executed'[request.message] = 1
          /\ \A m \in MessageId \ {request.message} : executed'[m] = executed[m]
      BY <1>1, <3>1, <3>2 DEF BridgeTypeOK
    <3>5. QED
      BY <3>2, <3>3, <3>4
  <2>3. QED
    BY <2>1, <2>2
<1>4. Taken' = Taken
  BY <1>2 DEF Taken
<1>5. Dead' <= Dead + 1 /\ Dead \in Nat /\ Dead' \in Nat
  BY <1>2 DEF Dead
<1>6. BridgeTypeOK'
  <2>1. connection' \in {"none", "alive", "dead"}
    BY <1>1, <1>2 DEF BridgeTypeOK
  <2>2. crashes' \in Nat
    BY <1>1, <1>2
  <2>3. coreUp' \in BOOLEAN
    BY <1>2
  <2>4. QED
    BY <1>1, <1>2, <1>3, <2>1, <2>2, <2>3 DEF BridgeTypeOK
<1>7. ExchangeFits'
  <2>1. \A m \in MessageId : executed'[m] <= 1 /\ (m > host'.message => executed'[m] = 0)
    <3>1. MessageId \subseteq Nat
      BY BridgeAssumption DEF BridgeAssumption, MessageId
    <3>2. QED
      BY <1>1, <1>2, <1>3, <3>1 DEF ExchangeFits
  <2>2. host'.at = "asking" =>
          /\ next_request_id' <= host'.message /\ toCore' = NoRequest
          /\ executed'[host'.message] = 0
    BY <1>1, <1>2, <1>3 DEF ExchangeFits
  <2>3. connection' # "alive"
    BY <1>2
  <2>4. QED
    BY <1>1, <1>2, <2>1, <2>2, <2>3 DEF ExchangeFits
<1>8. LossesPaid'
  <2>1. drops + Dead <= crashes + pushed
    BY <1>1 DEF LossesPaid
  <2>2. drops + Dead' <= crashes + 1 + pushed
    <3>1. \A d, e, n, c, q \in Nat : d + e <= c + q /\ n <= e + 1 => d + n <= c + 1 + q
      OBVIOUS
    <3>2. QED
      BY <1>1, <1>5, <2>1, <3>1
  <2>3. QED
    BY <1>2, <2>2 DEF LossesPaid
<1>9. LineFits'
  <2>1. \A i \in DOMAIN line' : line'[i].type = "event" =>
           line'[i].serial <= pushed' /\ drops' + Dead' < crashes' + line'[i].serial
    <3>1. ASSUME NEW i \in DOMAIN line, line[i].type = "event"
          PROVE  line[i].serial \in Nat
      <4>1. line[i] \in LineFrame
        BY <1>1 DEF BridgeTypeOK
      <4>2. QED
        BY <3>1, <4>1, FrameFacts
    <3>2. QED
      BY <1>1, <1>2, <1>5, <3>1 DEF LineFits
  <2>2. \A i \in DOMAIN line' : line'[i].type = "response" =>
           /\ host'.at = "waiting"
           /\ line'[i].request = host'.request
           /\ line'[i].message = host'.message
           /\ toCore' = NoRequest
           /\ executed'[host'.message] = 1
    BY <1>1, <1>2, <1>3 DEF LineFits
  <2>3. connection' = "none" => line' = <<>>
    BY <1>1, <1>2 DEF LineFits
  <2>4. QED
    BY <1>1, <1>2, <2>1, <2>2, <2>3 DEF LineFits
<1>10. EachMessageOnce'
  <2>1. \A m \in MessageId : executed'[m] <= 1 /\ (executed[m] = 1 => executed'[m] = 1)
    BY <1>1, <1>3 DEF EachMessageOnce
  <2>2. QED
    BY <1>1, <1>2, <1>4, <1>6, <2>1, AnswersKept
<1>11. QED
  BY <1>7, <1>8, <1>9, <1>10 DEF BridgeIInv

LEMMA BackKeeps ==
    ASSUME BridgeIInv, CoreComesBack
    PROVE  BridgeIInv'
<1>1. /\ BridgeTypeOK /\ EachMessageOnce /\ ExchangeFits /\ LossesPaid /\ LineFits
  BY DEF BridgeIInv, EachMessageOnce
<1>2. /\ coreUp' = TRUE
      /\ UNCHANGED <<host, connection, next_request_id, toCore, abandoned, line, stdout,
                     executed, drops, crashes, pushed>>
      /\ Taken' = Taken /\ Dead' = Dead
  BY DEF CoreComesBack, sessionVars, Taken, Dead
<1>3. BridgeTypeOK'
  BY <1>1, <1>2 DEF BridgeTypeOK
<1>4. QED
  BY <1>1, <1>2, <1>3
  DEF BridgeIInv, EachMessageOnce, ExchangeFits, LossesPaid, LineFits

-----------------------------------------------------------------------------
(* Every step, and the properties.                                         *)

LEMMA BridgeStep == BridgeIInv /\ [BridgeNext]_bridgeVars => BridgeIInv'
<1> SUFFICES ASSUME BridgeIInv, [BridgeNext]_bridgeVars PROVE BridgeIInv'
  OBVIOUS
<1>1. CASE ReadMessage \/ ReadUndecodable \/ ReadBroken \/ ReadEof
  BY <1>1, ReadKeeps
<1>2. CASE HostStep
  BY <1>2, EnsureKeeps, SendKeeps, ReceiveKeeps DEF HostStep
<1>3. CASE CoreAnswers
  BY <1>3, AnswerKeeps
<1>4. CASE CoreMeetsAbandoned
  BY <1>4, GoneKeeps DEF CoreMeetsAbandoned
<1>5. CASE CorePushesEvent
  BY <1>5, PushKeeps
<1>6. CASE CoreGoesDown
  BY <1>6, GoneKeeps DEF CoreGoesDown
<1>7. CASE CoreComesBack
  BY <1>7, BackKeeps
<1>8. CASE UNCHANGED bridgeVars
  <2>1. Taken' = Taken /\ Dead' = Dead
    BY <1>8 DEF bridgeVars, Taken, Dead
  <2>2. QED
    BY <1>8, <2>1
    DEF bridgeVars, BridgeIInv, EachMessageOnce, ExchangeFits, LossesPaid, LineFits, BridgeTypeOK
<1>9. QED
  BY <1>1, <1>2, <1>3, <1>4, <1>5, <1>6, <1>7, <1>8 DEF BridgeNext

(* The host answers each message once and in order, and the core acts at   *)
(* most once on each, although the core may go down at any point of an     *)
(* exchange, push events into it and read a request that was given up.     *)
THEOREM EachMessageIsHandledOnce == BridgeSpec => []EachMessageOnce
<1>1. BridgeIInv => EachMessageOnce
  BY DEF BridgeIInv
<1>2. QED
  BY <1>1, BridgeStart, BridgeStep, PTL DEF BridgeSpec

(* The host gives no more connections up than the core ended times and     *)
(* pushed events.                                                          *)
THEOREM LossesAreFew == BridgeSpec => []OneLossPerFault
<1>1. BridgeIInv => OneLossPerFault
  BY AtMessage DEF LossesPaid, OneLossPerFault
<1>2. QED
  BY <1>1, BridgeStart, BridgeStep, PTL DEF BridgeSpec

-----------------------------------------------------------------------------
(* The command line.                                                       *)

(* The life of an approval.                                                *)

\* What no step but the use of an approval, or a new start, does to it.
LifeGoesOn ==
    /\ Approvals!TypeOK'
    /\ \A i \in AnyId : /\ life[i] = "closed" => life'[i] = "closed"
                        /\ life[i] # "unasked" => life'[i] # "unasked"
                        /\ life'[i] = "used" => life[i] = "used"

LEMMA LifeSteps ==
    ASSUME Approvals!TypeOK
    PROVE  /\ \A id \in AnyId : Approvals!AskFor(id) => LifeGoesOn
           /\ \A S \in SUBSET Approvals!Waiting : Approvals!Lapse(S) => LifeGoesOn
           /\ \A id \in AnyId, S \in SUBSET Approvals!Waiting :
                 Approvals!Grant(id, S) \/ Approvals!Refuse(id, S) => LifeGoesOn
           /\ UNCHANGED life => LifeGoesOn
<1> USE DEF LifeGoesOn, Approvals!TypeOK, Approvals!States
<1>1. ASSUME NEW id \in AnyId, Approvals!AskFor(id) PROVE LifeGoesOn
  BY <1>1 DEF Approvals!AskFor
<1>2. ASSUME NEW S \in SUBSET Approvals!Waiting, Approvals!Lapse(S) PROVE LifeGoesOn
  BY <1>2 DEF Approvals!Lapse, Approvals!Waiting
<1>3. ASSUME NEW id \in AnyId, NEW S \in SUBSET Approvals!Waiting, Approvals!Grant(id, S)
      PROVE  LifeGoesOn
  BY <1>3 DEF Approvals!Grant, Approvals!Waiting
<1>4. ASSUME NEW id \in AnyId, NEW S \in SUBSET Approvals!Waiting, Approvals!Refuse(id, S)
      PROVE  LifeGoesOn
  BY <1>4 DEF Approvals!Refuse, Approvals!Waiting
<1>5. ASSUME UNCHANGED life PROVE LifeGoesOn
  BY <1>5
<1> HIDE DEF LifeGoesOn
<1>6. QED
  BY <1>1, <1>2, <1>3, <1>4, <1>5

\* A decision of somebody, and the lapses a decision comes with.
LEMMA Decisions ==
    ASSUME Approvals!TypeOK
    PROVE  /\ (\E id \in AnyId : Approvals!Grant(id, {}) \/ Approvals!Refuse(id, {}))
                 => LifeGoesOn
           /\ \A S \in SUBSET Approvals!Waiting : Lapses(S) => LifeGoesOn
<1>1. {} \in SUBSET Approvals!Waiting
  OBVIOUS
<1>2. QED
  BY <1>1, LifeSteps DEF Lapses

-----------------------------------------------------------------------------
(* The answers to the LLM commands.                                        *)

\* The place of a variant, when it has one place.
LEMMA Place ==
    ASSUME NEW answer, NEW k \in 1..14,
           \A i \in 1..14 : CoreVariants[i] = answer <=> i = k
    PROVE  DecodedAs(answer) = IF k \in 1..11 THEN CliVariants[k] ELSE "none"
<1>1. Len(CoreVariants) = 14 /\ DOMAIN CliVariants = 1..11
  BY DEF CoreVariants, CliVariants
<1>2. {i \in 1..Len(CoreVariants) : CoreVariants[i] = answer} = {k}
  BY <1>1
<1>3. (CHOOSE x \in {k} : \A y \in {k} : x <= y) = k
  OBVIOUS
<1>4. SelectInSeq(CoreVariants, LAMBDA variant : variant = answer) = k
  BY <1>2, <1>3 DEF SelectInSeq, Min
<1>5. QED
  BY <1>1, <1>4 DEF DecodedAs

\* Nothing that the core sends in answer to a read is taken for another
\* kind of answer that the command waits for.
LEMMA ReadsAreTrue ==
    ASSUME NEW command \in DOMAIN LlmReads,
           DecodedAs(LlmReads[command].answer) \in LlmReads[command].expects
    PROVE  DecodedAs(LlmReads[command].answer) = LlmReads[command].answer
<1>1. /\ DecodedAs("Presets") = "ProviderTestResult"
      /\ DecodedAs("ProviderDetails") = "UsageSummary"
      /\ DecodedAs("RoleDetails") = "UsageRecords"
      /\ DecodedAs("ProviderTestResult") = "DefaultRole"
      /\ DecodedAs("UsageSummary") = "Success"
      /\ DecodedAs("UsageRecords") = "none"
      /\ DecodedAs("DefaultRole") = "none"
  <2>1. \A i \in 1..14 : CoreVariants[i] = "Presets" <=> i = 7
    BY DEF CoreVariants
  <2>2. \A i \in 1..14 : CoreVariants[i] = "ProviderDetails" <=> i = 8
    BY DEF CoreVariants
  <2>3. \A i \in 1..14 : CoreVariants[i] = "RoleDetails" <=> i = 9
    BY DEF CoreVariants
  <2>4. \A i \in 1..14 : CoreVariants[i] = "ProviderTestResult" <=> i = 10
    BY DEF CoreVariants
  <2>5. \A i \in 1..14 : CoreVariants[i] = "UsageSummary" <=> i = 11
    BY DEF CoreVariants
  <2>6. \A i \in 1..14 : CoreVariants[i] = "UsageRecords" <=> i = 12
    BY DEF CoreVariants
  <2>7. \A i \in 1..14 : CoreVariants[i] = "DefaultRole" <=> i = 13
    BY DEF CoreVariants
  <2>8. /\ DecodedAs("Presets") = CliVariants[7]
        /\ DecodedAs("ProviderDetails") = CliVariants[8]
        /\ DecodedAs("RoleDetails") = CliVariants[9]
        /\ DecodedAs("ProviderTestResult") = CliVariants[10]
        /\ DecodedAs("UsageSummary") = CliVariants[11]
        /\ DecodedAs("UsageRecords") = "none"
        /\ DecodedAs("DefaultRole") = "none"
    BY <2>1, <2>2, <2>3, <2>4, <2>5, <2>6, <2>7, Place
  <2>9. QED
    BY <2>8 DEF CliVariants
<1>2. QED
  BY <1>1 DEF LlmReads

-----------------------------------------------------------------------------
(* The invariant.                                                          *)

LEMMA CommandTypes ==
    ASSUME CommandLineIInv
    PROVE  /\ CommandLineTypeOK /\ Approvals!TypeOK
           /\ cli = [command |-> cli.command, at |-> cli.at, id |-> cli.id,
                     consent |-> cli.consent, result |-> cli.result]
           /\ cli.command \in Command /\ cli.id \in 0..MaxIds /\ cli.consent \in BOOLEAN
           /\ cli.id # NoId => cli.id \in AnyId
           /\ 0 \in 0..MaxIds /\ AnyId \subseteq 0..MaxIds
  BY CommandLineAssumption
     DEF CommandLineIInv, ReportIsTrue, CommandLineTypeOK, AnyId, NoId

LEMMA CommandLineStart == CommandLineInit => CommandLineIInv
<1> SUFFICES ASSUME CommandLineInit PROVE CommandLineIInv
  OBVIOUS
<1>1. /\ cli.at = "run" /\ cli.id = NoId /\ cli.result = "none" /\ cli.consent = FALSE
      /\ ran = 0 /\ cli.command \in Command
  BY DEF CommandLineInit
<1>2. CommandLineTypeOK
  <2>1. NoId \in 0..MaxIds /\ 0 \in 0..MaxRestarts /\ 0 \in Nat
    BY CommandLineAssumption DEF CommandLineAssumption, NoId
  <2>2. cli \in [command: Command,
                at: {"run", "list", "prompt", "approve", "reject", "retry", "end"},
                id: 0..MaxIds, consent: BOOLEAN,
                result: {"none", "ok", "error", "rejected"}]
    BY <2>1 DEF CommandLineInit
  <2>3. Approvals!TypeOK /\ requester \in [AnyId -> {"nobody", "cli", "twin", "other"}]
    BY DEF CommandLineInit, Approvals!TypeOK, Approvals!States
  <2>4. QED
    BY <2>1, <2>2, <2>3 DEF CommandLineInit, CommandLineTypeOK
<1>3. QED
  BY <1>1, <1>2 DEF CommandLineIInv, ReportIsTrue

\* A step of the others.
LEMMA WorldMoves ==
    ASSUME CommandLineIInv, CommandLineTypeOK', UNCHANGED <<cli, ran, done>>,
           sameLife' =>
              /\ sameLife
              /\ \A i \in AnyId :
                    /\ life[i] = "closed" => life'[i] = "closed"
                    /\ requester[i] = "cli" /\ life[i] # "unasked" =>
                          /\ requester'[i] = "cli"
                          /\ life'[i] # "unasked"
                          /\ life'[i] = "used" => life[i] = "used"
    PROVE  CommandLineIInv'
<1>1. cli.id # NoId => cli.id \in AnyId
  BY CommandTypes
<1>2. ReportIsTrue'
  BY <1>1 DEF CommandLineIInv, ReportIsTrue
<1>3. QED
  BY <1>1, <1>2 DEF CommandLineIInv

LEMMA LifeTyped ==
    ASSUME CommandLineIInv, LifeGoesOn, UNCHANGED <<cli, requester, restarts, sameLife, ran, done>>
    PROVE  CommandLineTypeOK'
  BY CommandTypes DEF CommandLineTypeOK, LifeGoesOn, AnyId

LEMMA OthersKeep ==
    ASSUME CommandLineIInv,
           OthersAsk \/ OthersDecide \/ OthersUse \/ ApprovalsLapse \/ CoreStartsAnew
    PROVE  CommandLineIInv'
<1>1. CommandLineTypeOK /\ Approvals!TypeOK
  BY CommandTypes
<1>2. ASSUME NEW who \in {"twin", "other"}, Ask(who),
             UNCHANGED <<cli, restarts, sameLife, ran, done>>
      PROVE  CommandLineIInv'
  <2> DEFINE new == NextId
  <2>1. /\ new \in AnyId /\ Approvals!AskFor(new) /\ life[new] = "unasked"
        /\ requester' = [requester EXCEPT ![new] = who]
    BY <1>2 DEF Ask, Approvals!AskFor
  <2> HIDE DEF new
  <2>2. LifeGoesOn
    BY <1>1, <2>1, LifeSteps
  <2>3. CommandLineTypeOK'
    BY <1>1, <1>2, <2>1, <2>2 DEF CommandLineTypeOK, LifeGoesOn
  <2>4. \A i \in AnyId : life[i] # "unasked" => requester'[i] = requester[i]
    BY <1>1, <2>1 DEF CommandLineTypeOK
  <2>5. QED
    BY <1>2, <2>2, <2>3, <2>4, WorldMoves DEF LifeGoesOn
<1>3. ASSUME LifeGoesOn, UNCHANGED <<cli, requester, restarts, sameLife, ran, done>>
      PROVE  CommandLineIInv'
  BY <1>1, <1>3, LifeTyped, WorldMoves DEF LifeGoesOn
<1>4. CASE OthersUse
  <2>1. PICK id \in AnyId : requester[id] # "cli" /\ Approvals!Use(id)
    BY <1>4 DEF OthersUse
  <2>2. /\ life' \in [AnyId -> Approvals!States] /\ life[id] = "granted"
        /\ \A i \in AnyId : i # id => life'[i] = life[i]
    BY <1>1, <2>1 DEF Approvals!Use, Approvals!TypeOK, Approvals!States
  <2>3. CommandLineTypeOK'
    BY <1>1, <1>4, <2>2 DEF OthersUse, CommandLineTypeOK, Approvals!TypeOK
  <2>4. QED
    BY <1>4, <2>1, <2>2, <2>3, WorldMoves DEF OthersUse
<1>5. CASE CoreStartsAnew
  <2>1. /\ restarts' \in 0..MaxRestarts
        /\ Approvals!TypeOK' /\ requester' \in [AnyId -> {"nobody", "cli", "twin", "other"}]
    <3>1. restarts' \in 0..MaxRestarts
      BY <1>1, <1>5, CommandLineAssumption
         DEF CommandLineAssumption, CoreStartsAnew, CommandLineTypeOK
    <3>2. Approvals!TypeOK' /\ requester' \in [AnyId -> {"nobody", "cli", "twin", "other"}]
      BY <1>5 DEF CoreStartsAnew, Approvals!TypeOK, Approvals!States
    <3>3. QED
      BY <3>1, <3>2
  <2>2. CommandLineTypeOK'
    BY <1>1, <1>5, <2>1 DEF CoreStartsAnew, CommandLineTypeOK
  <2>3. QED
    BY <1>5, <2>2, WorldMoves DEF CoreStartsAnew
<1>6. CASE OthersDecide
  BY <1>1, <1>3, <1>6, Decisions DEF OthersDecide
<1>7. CASE ApprovalsLapse
  BY <1>1, <1>3, <1>7, Decisions DEF ApprovalsLapse
<1>8. QED
  BY <1>2, <1>4, <1>5, <1>6, <1>7 DEF OthersAsk

\* The end of the run.
LEMMA RunEnds ==
    ASSUME CommandLineIInv, cli.at # "end", NEW result \in {"ok", "error", "rejected"},
           Report(result), Approvals!TypeOK', UNCHANGED <<requester, restarts, sameLife>>,
           done' \in BOOLEAN, ran' \in {0, 1},
           ran' = 1 /\ cli.id # NoId => cli.consent,
           result = "ok" =>
              /\ cli.command = "shell" => ran' = 1
              /\ cli.command \in LlmChanges => done'
              /\ cli.command \in DOMAIN LlmReads =>
                   DecodedAs(LlmReads[cli.command].answer) = LlmReads[cli.command].answer,
           result = "rejected" =>
              /\ ran' = 0 /\ cli.id # NoId
              /\ sameLife => life'[cli.id] = "closed",
           \A i \in AnyId : life[i] # "unasked" => life'[i] # "unasked"
    PROVE  CommandLineIInv'
<1>1. /\ CommandLineTypeOK /\ cli' = [cli EXCEPT !.at = "end", !.result = result]
      /\ cli.id # NoId => cli.id \in AnyId
  BY CommandTypes DEF Report
<1>2. /\ cli'.at = "end" /\ cli'.result = result /\ cli'.id = cli.id
      /\ cli'.command = cli.command /\ cli'.consent = cli.consent
  BY <1>1, CommandTypes
<1>3. CommandLineTypeOK'
  <2>1. ran' \in Nat
    OBVIOUS
  <2>2. cli' \in [command: Command,
                 at: {"run", "list", "prompt", "approve", "reject", "retry", "end"},
                 id: 0..MaxIds, consent: BOOLEAN,
                 result: {"none", "ok", "error", "rejected"}]
    BY <1>1 DEF CommandLineTypeOK
  <2>3. QED
    BY <1>1, <2>1, <2>2 DEF CommandLineTypeOK
<1>4. ReportIsTrue'
  BY <1>2, <1>3 DEF ReportIsTrue
<1>5. QED
  BY <1>1, <1>2, <1>4 DEF CommandLineIInv

\* The way from one request of the run to the next.
LEMMA RunGoesOn ==
    ASSUME CommandLineIInv, NEW step \in {"prompt", "approve", "reject", "retry"},
           NEW consent \in BOOLEAN,
           cli.at \in {"list", "prompt", "approve"},
           cli' = [cli EXCEPT !.at = step, !.consent = consent],
           step \in {"approve", "retry"} => consent,
           LifeGoesOn, UNCHANGED <<requester, restarts, sameLife, ran, done>>
    PROVE  CommandLineIInv'
<1>1. CommandLineTypeOK /\ cli.id \in AnyId /\ cli.id # NoId /\ ran = 0 /\ cli.result = "none"
  BY CommandTypes DEF CommandLineIInv
<1>2. /\ cli'.at = step /\ cli'.result = "none" /\ cli'.id = cli.id
      /\ cli'.command = cli.command /\ cli'.consent = consent
  BY <1>1, CommandTypes
<1>3. CommandLineTypeOK'
  BY <1>1 DEF CommandLineTypeOK, LifeGoesOn
<1>4. ReportIsTrue'
  BY <1>1, <1>2, <1>3 DEF ReportIsTrue
<1>5. QED
  BY <1>1, <1>2, <1>4 DEF CommandLineIInv, LifeGoesOn

LEMMA FailureKeeps ==
    ASSUME CommandLineIInv, cli.at # "end", Report("error"), LifeGoesOn,
           UNCHANGED <<requester, restarts, sameLife>>, done' \in BOOLEAN, ran' = 0
    PROVE  CommandLineIInv'
  BY RunEnds DEF LifeGoesOn

LEMMA RequestFailsKeeps == CommandLineIInv /\ RequestFails => CommandLineIInv'
  BY CommandTypes, LifeSteps, FailureKeeps
     DEF RequestFails, worldVars, CommandLineIInv, CommandLineTypeOK

LEMMA OneRequestKeeps ==
    ASSUME CommandLineIInv, RunControl \/ RunLlmChange \/ RunLlmRead \/ RunShellAtOnce
    PROVE  CommandLineIInv'
<1>1. /\ CommandLineTypeOK /\ Approvals!TypeOK /\ cli.at = "run" /\ cli.id = NoId /\ ran = 0
      /\ done \in BOOLEAN /\ UNCHANGED <<requester, restarts, sameLife>>
  BY CommandTypes
     DEF CommandLineIInv, CommandLineTypeOK, RunControl, RunLlmChange, RunLlmRead,
         RunShellAtOnce, worldVars
<1>2. LifeGoesOn
  BY <1>1, LifeSteps, Decisions
     DEF RunControl, RunLlmChange, RunLlmRead, RunShellAtOnce, worldVars
<1>3. CASE RunControl
  <2>1. PICK result \in {"ok", "error"} : Report(result)
    BY <1>3 DEF RunControl
  <2>2. cli.command \notin LlmChanges /\ cli.command \notin DOMAIN LlmReads
    BY <1>3 DEF RunControl, LlmChanges, LlmReads
  <2>3. QED
    BY <1>1, <1>2, <1>3, <2>1, <2>2, RunEnds DEF RunControl, LifeGoesOn
<1>4. CASE RunLlmChange
  <2>1. cli.command # "shell" /\ cli.command \notin DOMAIN LlmReads
    BY <1>4 DEF RunLlmChange, LlmChanges, LlmReads
  <2>2. CASE Report("error")
    BY <1>1, <1>2, <1>4, <2>2, FailureKeeps DEF RunLlmChange
  <2>3. CASE Report("ok") /\ done'
    BY <1>1, <1>2, <1>4, <2>1, <2>3, RunEnds DEF RunLlmChange, LifeGoesOn
  <2>4. QED
    BY <1>4, <2>2, <2>3 DEF RunLlmChange, Then
<1>5. CASE RunLlmRead
  <2>1. cli.command # "shell" /\ cli.command \notin LlmChanges
    BY <1>5 DEF RunLlmRead, LlmChanges, LlmReads
  <2>2. CASE Report("error")
    BY <1>1, <1>2, <1>5, <2>2, FailureKeeps DEF RunLlmRead, worldVars
  <2>3. CASE /\ Report("ok")
             /\ DecodedAs(LlmReads[cli.command].answer) \in LlmReads[cli.command].expects
    BY <1>1, <1>2, <1>5, <2>1, <2>3, ReadsAreTrue, RunEnds DEF RunLlmRead, LifeGoesOn
  <2>4. QED
    BY <1>5, <2>2, <2>3 DEF RunLlmRead
<1>6. CASE RunShellAtOnce
  <2>1. cli.command \notin LlmChanges /\ cli.command \notin DOMAIN LlmReads
    BY <1>6 DEF RunShellAtOnce, LlmChanges, LlmReads
  <2>2. CASE Report("error") /\ ran' = ran
    BY <1>1, <1>2, <1>6, <2>2, FailureKeeps DEF RunShellAtOnce
  <2>3. CASE ran' = ran + 1
    <3>1. Report("ok") \/ Report("error")
      BY <1>6 DEF RunShellAtOnce, Then
    <3>2. QED
      BY <1>1, <1>2, <1>6, <2>1, <2>3, <3>1, RunEnds DEF RunShellAtOnce, LifeGoesOn
  <2>4. QED
    BY <1>6, <2>2, <2>3 DEF RunShellAtOnce
<1>7. QED
  BY <1>3, <1>4, <1>5, <1>6

LEMMA AsksKeeps == CommandLineIInv /\ RunShellAsks => CommandLineIInv'
<1> SUFFICES ASSUME CommandLineIInv, RunShellAsks PROVE CommandLineIInv'
  OBVIOUS
<1> DEFINE new == NextId
<1>1. /\ new \in AnyId /\ Approvals!AskFor(new) /\ life[new] = "unasked"
      /\ requester' = [requester EXCEPT ![new] = "cli"]
      /\ cli' = [cli EXCEPT !.at = "list", !.id = new] \/ Report("error")
  BY DEF RunShellAsks, Ask, Then, Approvals!AskFor
<1> HIDE DEF new
<1>2. /\ CommandLineTypeOK /\ Approvals!TypeOK /\ cli.at = "run" /\ cli.id = NoId /\ ran = 0
      /\ cli.result = "none" /\ cli.command = "shell" /\ new # NoId /\ new \in 0..MaxIds
      /\ UNCHANGED <<restarts, ran, done>> /\ sameLife' = TRUE
  BY <1>1, CommandTypes DEF RunShellAsks, CommandLineIInv, AnyId, NoId
<1>3. /\ LifeGoesOn /\ life'[new] = "waiting"
  BY <1>1, <1>2, LifeSteps DEF Approvals!AskFor, Approvals!TypeOK
<1>4. requester' \in [AnyId -> {"nobody", "cli", "twin", "other"}] /\ requester'[new] = "cli"
  BY <1>1, <1>2 DEF CommandLineTypeOK
<1>5. CASE cli' = [cli EXCEPT !.at = "list", !.id = new]
  <2>1. /\ cli'.at = "list" /\ cli'.result = "none" /\ cli'.id = new /\ cli'.command = "shell"
    BY <1>2, <1>5, CommandTypes
  <2>2. CommandLineTypeOK'
    BY <1>2, <1>3, <1>4, <1>5 DEF CommandLineTypeOK, LifeGoesOn
  <2>3. QED
    BY <1>2, <1>3, <1>4, <2>1, <2>2 DEF CommandLineIInv, ReportIsTrue
<1>6. CASE Report("error")
  <2>1. /\ cli'.at = "end" /\ cli'.result = "error" /\ cli'.id = NoId /\ cli'.command = "shell"
    BY <1>2, <1>6, CommandTypes DEF Report
  <2>2. CommandLineTypeOK'
    BY <1>2, <1>3, <1>4, <1>6 DEF CommandLineTypeOK, LifeGoesOn, Report
  <2>3. QED
    BY <1>2, <2>1, <2>2 DEF CommandLineIInv, ReportIsTrue
<1>7. QED
  BY <1>1, <1>5, <1>6

LEMMA DialogueKeeps ==
    ASSUME CommandLineIInv, ListPendingApprovals \/ Prompt \/ ApprovePendingApproval
    PROVE  CommandLineIInv'
<1>1. /\ CommandLineTypeOK /\ Approvals!TypeOK /\ cli.at \in {"list", "prompt", "approve"}
      /\ ran = 0 /\ ran' = 0 /\ done \in BOOLEAN /\ cli.consent \in BOOLEAN
      /\ UNCHANGED <<requester, restarts, sameLife, ran, done>>
  BY CommandTypes
     DEF CommandLineIInv, CommandLineTypeOK, ListPendingApprovals, Prompt,
         ApprovePendingApproval, worldVars
<1>2. LifeGoesOn
  <2>1. CASE ListPendingApprovals
    BY <1>1, <2>1, Decisions DEF ListPendingApprovals
  <2>2. CASE Prompt
    BY <1>1, <2>2, LifeSteps DEF Prompt, worldVars
  <2>3. CASE ApprovePendingApproval
    <3>1. PICK S \in SUBSET (Approvals!Waiting \ {cli.id}) :
             IF life[cli.id] = "waiting" THEN Approvals!Grant(cli.id, S) ELSE Lapses(S)
      BY <2>3 DEF ApprovePendingApproval
    <3>2. S \in SUBSET Approvals!Waiting /\ cli.id \in AnyId
      BY <2>3, CommandTypes DEF ApprovePendingApproval, CommandLineIInv
    <3>3. QED
      BY <1>1, <3>1, <3>2, LifeSteps, Decisions
  <2>4. QED
    BY <2>1, <2>2, <2>3
<1>3. CASE Report("error")
  BY <1>1, <1>2, <1>3, FailureKeeps
<1>4. ASSUME NEW step \in {"prompt", "retry"}, GoTo(step), step = "retry" => cli.consent
      PROVE  CommandLineIInv'
  <2>1. cli' = [cli EXCEPT !.at = step, !.consent = cli.consent]
    BY <1>4, CommandTypes DEF GoTo
  <2>2. QED
    BY <1>1, <1>2, <1>4, <2>1, RunGoesOn
<1>5. CASE Prompt
  <2>1. PICK consent \in BOOLEAN :
           cli' = [cli EXCEPT !.at = IF consent THEN "approve" ELSE "reject",
                              !.consent = consent]
    BY <1>5 DEF Prompt
  <2>2. CASE consent
    BY <1>1, <1>2, <2>1, <2>2, RunGoesOn
  <2>3. CASE ~consent
    BY <1>1, <1>2, <2>1, <2>3, RunGoesOn
  <2>4. QED
    BY <2>2, <2>3
<1>6. CASE ListPendingApprovals
  BY <1>3, <1>4, <1>6 DEF ListPendingApprovals, Then
<1>7. CASE ApprovePendingApproval
  BY <1>3, <1>4, <1>7 DEF ApprovePendingApproval, Then, CommandLineIInv
<1>8. QED
  BY <1>5, <1>6, <1>7

LEMMA RejectKeeps == CommandLineIInv /\ RejectPendingApproval => CommandLineIInv'
<1> SUFFICES ASSUME CommandLineIInv, RejectPendingApproval PROVE CommandLineIInv'
  OBVIOUS
<1>1. /\ CommandLineTypeOK /\ Approvals!TypeOK /\ cli.at = "reject" /\ cli.id # NoId
      /\ cli.id \in AnyId /\ ran = 0 /\ done \in BOOLEAN
      /\ UNCHANGED <<requester, restarts, sameLife, ran, done>>
      /\ Report("rejected") \/ Report("error")
  BY CommandTypes DEF CommandLineIInv, CommandLineTypeOK, RejectPendingApproval, Then
<1>2. PICK S \in SUBSET Approvals!Waiting :
         IF life[cli.id] \in {"waiting", "granted"} THEN Approvals!Refuse(cli.id, S) ELSE Lapses(S)
  BY DEF RejectPendingApproval
<1>3. LifeGoesOn
  BY <1>1, <1>2, LifeSteps, Decisions
<1>4. sameLife => life'[cli.id] = "closed"
  <2>1. sameLife => life[cli.id] \in {"waiting", "granted", "closed"}
    BY <1>1 DEF CommandLineIInv, Approvals!TypeOK, Approvals!States
  <2>2. life[cli.id] \in {"waiting", "granted"} => life'[cli.id] = "closed"
    BY <1>1, <1>2 DEF Approvals!Refuse
  <2>3. QED
    BY <1>1, <1>3, <2>1, <2>2 DEF LifeGoesOn
<1>5. QED
  BY <1>1, <1>3, <1>4, RunEnds DEF LifeGoesOn

LEMMA RetryKeeps == CommandLineIInv /\ RetryShell => CommandLineIInv'
<1> SUFFICES ASSUME CommandLineIInv, RetryShell PROVE CommandLineIInv'
  OBVIOUS
<1>1. /\ CommandLineTypeOK /\ Approvals!TypeOK /\ cli.at = "retry" /\ cli.id # NoId
      /\ cli.id \in AnyId /\ cli.consent /\ cli.command = "shell" /\ ran = 0 /\ done \in BOOLEAN
      /\ UNCHANGED <<requester, restarts, sameLife, done>>
  BY CommandTypes DEF CommandLineIInv, CommandLineTypeOK, RetryShell
<1>2. CASE Report("error") /\ UNCHANGED <<life, ran>>
  BY <1>1, <1>2, LifeSteps, FailureKeeps
<1>3. CASE Approvals!Use(cli.id)
  <2>1. /\ Approvals!TypeOK'
        /\ \A i \in AnyId : life[i] # "unasked" => life'[i] # "unasked"
    BY <1>1, <1>3 DEF Approvals!Use, Approvals!TypeOK, Approvals!States
  <2>2. cli.command \notin LlmChanges /\ cli.command \notin DOMAIN LlmReads
    BY <1>1 DEF LlmChanges, LlmReads
  <2>3. \/ Report("error") /\ ran' \in {0, 1}
        \/ Report("ok") /\ ran' = 1
    BY <1>1, <1>3 DEF RetryShell, Then
  <2>4. QED
    BY <1>1, <2>1, <2>2, <2>3, RunEnds
<1>4. QED
  BY <1>2, <1>3 DEF RetryShell

(* A run of the command line reports what happened, for any number of      *)
(* approvals and restarts, whatever other frontends decide and whichever   *)
(* answer is lost: lib.rs and client.rs of kunkka-cli.                     *)
THEOREM ReportIsAlwaysTrue == CommandLineSpec => []ReportIsTrue
<1>1. CommandLineInit => CommandLineIInv
  BY CommandLineStart
<1>2. CommandLineIInv /\ [CommandLineNext]_cliVars => CommandLineIInv'
  <2> SUFFICES ASSUME CommandLineIInv, [CommandLineNext]_cliVars PROVE CommandLineIInv'
    OBVIOUS
  <2>1. CASE RequestFails
    BY <2>1, RequestFailsKeeps
  <2>2. CASE RunControl \/ RunLlmChange \/ RunLlmRead \/ RunShellAtOnce
    BY <2>2, OneRequestKeeps
  <2>3. CASE RunShellAsks
    BY <2>3, AsksKeeps
  <2>4. CASE ListPendingApprovals \/ Prompt \/ ApprovePendingApproval
    BY <2>4, DialogueKeeps
  <2>5. CASE RejectPendingApproval
    BY <2>5, RejectKeeps
  <2>6. CASE RetryShell
    BY <2>6, RetryKeeps
  <2>7. CASE OthersAsk \/ OthersDecide \/ OthersUse \/ ApprovalsLapse \/ CoreStartsAnew
    BY <2>7, OthersKeep
  <2>8. CASE UNCHANGED cliVars
    BY <2>8, CommandTypes, LifeSteps, LifeTyped, WorldMoves DEF cliVars, LifeGoesOn
  <2>9. QED
    BY <2>1, <2>2, <2>3, <2>4, <2>5, <2>6, <2>7, <2>8 DEF CommandLineNext
<1>3. CommandLineIInv => ReportIsTrue
  BY DEF CommandLineIInv
<1>4. QED
  BY <1>1, <1>2, <1>3, PTL DEF CommandLineSpec
=============================================================================
