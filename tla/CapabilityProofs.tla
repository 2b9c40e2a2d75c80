--------------------------- MODULE CapabilityProofs ---------------------------
(***************************************************************************)
(* Safety of what the capabilities answer: a request and a streamed chat,  *)
(* for any number of chunks; the files and hosts of an app, for every      *)
(* path, manifest and number of redirects; and the records of LLM use, for *)
(* any number of them and any width of a token count.                      *)
(***************************************************************************)
EXTENDS CapabilityStream, AppAccess, LlmUsage, Integers, FiniteSetTheorems, TLAPS

-----------------------------------------------------------------------------
(* A capability request and a streamed chat.                               *)

LEMMA FrameShapes ==
    ASSUME NEW f \in Frames
    PROVE  /\ f.type \in {"stream", "response", "error", "cut"}
           /\ f.type = "stream" => /\ f.text \in 0..MaxChunks
                                   /\ f.finish \in BOOLEAN /\ f.usage \in BOOLEAN
                                   /\ f.end \in BOOLEAN
           /\ f.type = "response" => f.ok \in BOOLEAN
           /\ f # NoChunk
  BY DEF Frames, ResponseFrame, ErrorFrame, CutFrame, NoChunk

LEMMA FramesSent ==
    /\ \A text \in 0..MaxChunks, finish, usage \in BOOLEAN :
          /\ Chunk(text, finish, usage) \in Frames
          /\ Chunk(text, finish, usage).type = "stream"
          /\ Chunk(text, finish, usage).end = FALSE
          /\ Chunk(text, finish, usage).text = text
          /\ Chunk(text, finish, usage).finish = finish
          /\ Chunk(text, finish, usage).usage = usage
    /\ EndFrame \in Frames /\ EndFrame.type = "stream" /\ EndFrame.end /\ EndFrame.text = 0
    /\ ~EndFrame.finish /\ ~EndFrame.usage
    /\ \A ok \in BOOLEAN : ResponseFrame(ok) \in Frames /\ ResponseFrame(ok).type = "response"
    /\ ErrorFrame \in Frames /\ ErrorFrame.type = "error"
    /\ CutFrame \in Frames /\ CutFrame.type = "cut"
<1>1. 0 \in 0..MaxChunks
  BY StreamAssumption
<1>2. QED
  BY <1>1 DEF Frames, Chunk, EndFrame, ResponseFrame, ErrorFrame, CutFrame

LEMMA SeqEqual ==
    ASSUME NEW S, NEW s \in Seq(S), NEW t \in Seq(S),
           Len(s) = Len(t), \A i \in 1..Len(s) : s[i] = t[i]
    PROVE  s = t
  OBVIOUS

LEMMA AppendFacts ==
    ASSUME NEW S, NEW s \in Seq(S), NEW e \in S
    PROVE  /\ Append(s, e) \in Seq(S) /\ s \o <<e>> = Append(s, e)
           /\ Len(Append(s, e)) = Len(s) + 1 /\ Append(s, e) # <<>>
           /\ DOMAIN Append(s, e) = DOMAIN s \cup {Len(s) + 1}
           /\ \A i \in DOMAIN s : Append(s, e)[i] = s[i] /\ i \in Nat /\ i < Len(s) + 1
           /\ Append(s, e)[Len(s) + 1] = e
  OBVIOUS

LEMMA TailFacts ==
    ASSUME NEW S, NEW s \in Seq(S), s # <<>>
    PROVE  /\ Tail(s) \in Seq(S)
           /\ Head(s) = s[1] /\ 1 \in DOMAIN s /\ Head(s) \in S
           /\ Len(Tail(s)) = Len(s) - 1 /\ Len(s) \in Nat \ {0}
           /\ \A i \in DOMAIN Tail(s) : /\ i + 1 \in DOMAIN s /\ Tail(s)[i] = s[i + 1]
                                        /\ i \in Nat /\ i > 0
           /\ \A i \in DOMAIN s : i \in Nat /\ i > 0 /\ (i # 1 => i - 1 \in DOMAIN Tail(s))
  OBVIOUS

LEMMA TailElements ==
    ASSUME NEW S, NEW s \in Seq(S), s # <<>>
    PROVE  \A i \in DOMAIN s : i # 1 => Tail(s)[i - 1] = s[i]
<1>1. \A i \in DOMAIN s : i # 1 => i - 1 \in DOMAIN Tail(s) /\ (i - 1) + 1 = i
  BY TailFacts
<1>2. QED
  BY <1>1, TailFacts

LEMMA TailLast ==
    ASSUME NEW S, NEW s \in Seq(S), s # <<>>
    PROVE  /\ Tail(s) # <<>> => Tail(s)[Len(Tail(s))] = s[Len(s)]
           /\ Tail(s) = <<>> => Len(s) = 1
<1>1. ASSUME Tail(s) # <<>>
      PROVE  Tail(s)[Len(Tail(s))] = s[Len(s)]
  <2>1. Len(s) # 1 /\ Len(s) \in DOMAIN s
    BY <1>1
  <2>2. QED
    BY <2>1, TailElements, TailFacts
<1>2. ASSUME Tail(s) = <<>>
      PROVE  Len(s) = 1
  <2>1. Len(Tail(s)) = 0 /\ Len(Tail(s)) = Len(s) - 1 /\ Len(s) \in Nat
    BY <1>2, TailFacts
  <2>2. QED
    BY <2>1
<1>3. QED
  BY <1>1, <1>2

LEMMA KeptFacts ==
    ASSUME NEW S, NEW s \in Seq(S), NEW e \in S
    PROVE  /\ <<e>> \o s \in Seq(S) /\ <<e>> \o s # <<>>
           /\ Tail(<<e>> \o s) = s /\ (<<e>> \o s)[1] = e
           /\ \A f \in S : Append(<<e>> \o s, f) = <<e>> \o Append(s, f)
           /\ s # <<>> => <<Head(s)>> \o Tail(s) = s
<1>1. <<e>> \in Seq(S) /\ Len(<<e>>) = 1 /\ <<e>>[1] = e
  OBVIOUS
<1>2. /\ <<e>> \o s \in Seq(S) /\ Len(<<e>> \o s) = Len(s) + 1
      /\ (<<e>> \o s)[1] = e
      /\ \A i \in 1..Len(s) : (<<e>> \o s)[i + 1] = s[i]
  BY <1>1
<1>3. <<e>> \o s # <<>>
  BY <1>2
<1>4. Tail(<<e>> \o s) = s
  <2>1. /\ Tail(<<e>> \o s) \in Seq(S)
        /\ Len(Tail(<<e>> \o s)) = Len(s)
        /\ \A i \in 1..Len(s) : Tail(<<e>> \o s)[i] = s[i]
    BY <1>2, <1>3, TailFacts
  <2>2. QED
    BY <2>1, SeqEqual
<1>5. ASSUME NEW f \in S
      PROVE  Append(<<e>> \o s, f) = <<e>> \o Append(s, f)
  OBVIOUS
<1>6. ASSUME s # <<>>
      PROVE  <<Head(s)>> \o Tail(s) = s
  <2>1. <<Head(s)>> \in Seq(S) /\ <<Head(s)>>[1] = s[1] /\ Len(<<Head(s)>>) = 1
    BY <1>6
  <2>2. Tail(s) \in Seq(S) /\ Len(Tail(s)) = Len(s) - 1
    BY <1>6
  <2>3. <<Head(s)>> \o Tail(s) \in Seq(S) /\ Len(<<Head(s)>> \o Tail(s)) = Len(s)
    BY <2>1, <2>2
  <2>4. \A i \in 1..Len(s) : (<<Head(s)>> \o Tail(s))[i] = s[i]
    BY <2>1, <2>2, <1>6, TailElements
  <2>5. QED
    BY <2>3, <2>4, SeqEqual
<1>7. QED
  BY <1>2, <1>3, <1>4, <1>5, <1>6

-----------------------------------------------------------------------------
(* A queue of frames that grows at its end and is taken from its head.     *)

Queue == Seq(Frames)

LEMMA PiecesSent ==
    ASSUME NEW q \in Queue, NEW f \in Frames, NEW n \in Nat, NEW pieces \in Nat,
           PiecesIn(q, n, pieces), n <= pieces,
           HasText(f) => f.text = pieces + 1
    PROVE  PiecesIn(Append(q, f), n, IF HasText(f) THEN pieces + 1 ELSE pieces)
<1> DEFINE r == Append(q, f)
           last == Len(q) + 1
           m == IF HasText(f) THEN pieces + 1 ELSE pieces
<1>1. /\ DOMAIN r = DOMAIN q \cup {last} /\ r[last] = f
      /\ \A i \in DOMAIN q : r[i] = q[i] /\ i \in Nat /\ i < last
      /\ last \in Nat
  BY AppendFacts DEF Queue
<1> HIDE DEF r, last
<1>2. \A i \in DOMAIN r : HasText(r[i]) => n < r[i].text /\ r[i].text <= m
  <2> SUFFICES ASSUME NEW i \in DOMAIN r, HasText(r[i])
               PROVE  n < r[i].text /\ r[i].text <= m
    OBVIOUS
  <2>1. CASE i = last
    BY <2>1, <1>1
  <2>2. CASE i \in DOMAIN q
    <3>1. q[i] \in Frames
      BY <2>2 DEF Queue
    <3>2. q[i].text \in 0..MaxChunks
      BY <3>1, <2>2, <1>1, FrameShapes DEF HasText
    <3>3. QED
      BY <2>2, <1>1, <3>2, StreamAssumption DEF PiecesIn
  <2>3. QED
    BY <2>1, <2>2, <1>1
<1>3. \A i, j \in DOMAIN r :
          i < j /\ HasText(r[i]) /\ HasText(r[j]) => r[i].text < r[j].text
  <2> SUFFICES ASSUME NEW i \in DOMAIN r, NEW j \in DOMAIN r,
                      i < j, HasText(r[i]), HasText(r[j])
               PROVE  r[i].text < r[j].text
    OBVIOUS
  <2>1. i \in DOMAIN q
    BY <1>1
  <2>2. q[i].text <= pieces /\ q[i].text \in Nat
    <3>1. q[i] \in Frames
      BY <2>1 DEF Queue
    <3>2. q[i].text \in 0..MaxChunks
      BY <3>1, <2>1, <1>1, FrameShapes DEF HasText
    <3>3. QED
      BY <2>1, <1>1, <3>2, StreamAssumption DEF PiecesIn
  <2>3. CASE j = last
    BY <2>1, <2>2, <2>3, <1>1
  <2>4. CASE j \in DOMAIN q
    BY <2>1, <2>4, <1>1 DEF PiecesIn
  <2>5. QED
    BY <2>3, <2>4, <1>1
<1>4. \A k \in 0..MaxChunks : n < k /\ k <= m =>
          \E i \in DOMAIN r : HasText(r[i]) /\ r[i].text = k
  <2> SUFFICES ASSUME NEW k \in 0..MaxChunks, n < k, k <= m
               PROVE  \E i \in DOMAIN r : HasText(r[i]) /\ r[i].text = k
    OBVIOUS
  <2>1. CASE k <= pieces
    BY <2>1, <1>1 DEF PiecesIn
  <2>2. CASE ~(k <= pieces)
    BY <2>2, <1>1, StreamAssumption
  <2>3. QED
    BY <2>1, <2>2
<1>5. QED
  BY <1>2, <1>3, <1>4 DEF PiecesIn, r

LEMMA PiecesTaken ==
    ASSUME NEW q \in Queue, q # <<>>, NEW n \in Nat, NEW pieces \in 0..MaxChunks,
           PiecesIn(q, n, pieces)
    PROVE  /\ HasText(q[1]) => q[1].text = n + 1 /\ n + 1 <= pieces
           /\ PiecesIn(Tail(q), IF HasText(q[1]) THEN n + 1 ELSE n, pieces)
<1> DEFINE r == Tail(q)
           m == IF HasText(q[1]) THEN n + 1 ELSE n
<1>1. /\ 1 \in DOMAIN q
      /\ \A i \in DOMAIN r : i + 1 \in DOMAIN q /\ r[i] = q[i + 1] /\ i \in Nat /\ i > 0
      /\ \A i \in DOMAIN q : i \in Nat /\ i > 0
      /\ \A i \in DOMAIN q : i # 1 => i - 1 \in DOMAIN r /\ r[i - 1] = q[i]
  BY TailFacts, TailElements DEF Queue
<1>2. \A i \in DOMAIN q : HasText(q[i]) => q[i].text \in 0..MaxChunks
  BY FrameShapes DEF Queue, HasText
<1> HIDE DEF r
<1>3. ASSUME HasText(q[1])
      PROVE  q[1].text = n + 1 /\ n + 1 <= pieces
  <2>1. n < q[1].text /\ q[1].text <= pieces /\ q[1].text \in 0..MaxChunks
    BY <1>1, <1>2, <1>3 DEF PiecesIn
  <2>2. n + 1 \in 0..MaxChunks /\ n < n + 1 /\ n + 1 <= pieces
    BY <2>1, StreamAssumption
  <2>3. PICK i \in DOMAIN q : HasText(q[i]) /\ q[i].text = n + 1
    BY <2>2 DEF PiecesIn
  <2>4. i # 1 => q[1].text < n + 1
    BY <2>3, <1>1, <1>3 DEF PiecesIn
  <2>5. QED
    BY <2>1, <2>2, <2>3, <2>4, StreamAssumption
<1>4. \A i \in DOMAIN r : HasText(r[i]) => m < r[i].text /\ r[i].text <= pieces
  <2> SUFFICES ASSUME NEW i \in DOMAIN r, HasText(r[i])
               PROVE  m < r[i].text /\ r[i].text <= pieces
    OBVIOUS
  <2>1. i + 1 \in DOMAIN q /\ HasText(q[i + 1]) /\ 1 < i + 1 /\ r[i] = q[i + 1]
    BY <1>1
  <2>2. n < r[i].text /\ r[i].text <= pieces
    BY <2>1 DEF PiecesIn
  <2>3. HasText(q[1]) => q[1].text < r[i].text
    BY <2>1, <1>1 DEF PiecesIn
  <2>4. QED
    BY <2>2, <2>3, <1>3
<1>5. \A i, j \in DOMAIN r :
          i < j /\ HasText(r[i]) /\ HasText(r[j]) => r[i].text < r[j].text
  <2> SUFFICES ASSUME NEW i \in DOMAIN r, NEW j \in DOMAIN r,
                      i < j, HasText(r[i]), HasText(r[j])
               PROVE  r[i].text < r[j].text
    OBVIOUS
  <2>1. /\ i + 1 \in DOMAIN q /\ r[i] = q[i + 1]
        /\ j + 1 \in DOMAIN q /\ r[j] = q[j + 1]
        /\ i + 1 < j + 1
    BY <1>1
  <2>2. QED
    BY <2>1 DEF PiecesIn
<1>6. \A k \in 0..MaxChunks : m < k /\ k <= pieces =>
          \E i \in DOMAIN r : HasText(r[i]) /\ r[i].text = k
  <2> SUFFICES ASSUME NEW k \in 0..MaxChunks, m < k, k <= pieces
               PROVE  \E i \in DOMAIN r : HasText(r[i]) /\ r[i].text = k
    OBVIOUS
  <2>1. PICK i \in DOMAIN q : HasText(q[i]) /\ q[i].text = k
    BY StreamAssumption DEF PiecesIn
  <2>2. i # 1
    BY <2>1, <1>3
  <2>3. i - 1 \in DOMAIN r /\ r[i - 1] = q[i]
    BY <2>2, <1>1
  <2>4. QED
    BY <2>1, <2>3
<1>7. QED
  BY <1>3, <1>4, <1>5, <1>6 DEF PiecesIn, r

LEMMA NotesSent ==
    ASSUME NEW q \in Queue, NEW f \in Frames, NEW c, NEW t, NEW u, NotesIn(q, c, t),
           t.finish => u.finish, t.usage => u.usage,
           u.finish <=> t.finish \/ (f.type = "stream" /\ f.finish),
           u.usage <=> t.usage \/ (f.type = "stream" /\ f.usage)
    PROVE  NotesIn(Append(q, f), c, u)
<1> DEFINE r == Append(q, f)
           last == Len(q) + 1
<1>1. /\ DOMAIN r = DOMAIN q \cup {last} /\ r[last] = f
      /\ \A i \in DOMAIN q : r[i] = q[i]
  BY AppendFacts DEF Queue
<1> HIDE DEF r, last
<1>2. NotesIn(r, c, u)
  BY <1>1 DEF NotesIn
<1>3. QED
  BY <1>2 DEF r

LEMMA NotesTaken ==
    ASSUME NEW q \in Queue, q # <<>>, NEW c, NEW d, NEW t, NotesIn(q, c, t),
           c.finish \/ (q[1].type = "stream" /\ q[1].finish) => d.finish,
           c.usage \/ (q[1].type = "stream" /\ q[1].usage) => d.usage
    PROVE  /\ NotesIn(Tail(q), d, t)
           /\ q[1].type = "stream" => (q[1].finish => t.finish) /\ (q[1].usage => t.usage)
<1> DEFINE r == Tail(q)
<1>1. /\ 1 \in DOMAIN q
      /\ \A i \in DOMAIN r : i + 1 \in DOMAIN q /\ r[i] = q[i + 1]
      /\ \A i \in DOMAIN q : i # 1 => i - 1 \in DOMAIN r /\ r[i - 1] = q[i]
  BY TailFacts, TailElements DEF Queue
<1> HIDE DEF r
<1>2. \A i \in DOMAIN r : r[i].type = "stream" =>
          (r[i].finish => t.finish) /\ (r[i].usage => t.usage)
  BY <1>1 DEF NotesIn
<1>3. t.finish => d.finish \/ \E i \in DOMAIN r : r[i].type = "stream" /\ r[i].finish
  BY <1>1 DEF NotesIn
<1>4. t.usage => d.usage \/ \E i \in DOMAIN r : r[i].type = "stream" /\ r[i].usage
  BY <1>1 DEF NotesIn
<1>5. QED
  BY <1>1, <1>2, <1>3, <1>4 DEF NotesIn, r

\* No frame of q ends the stream.
Open(q) == \A i \in DOMAIN q : q[i].type = "stream" /\ ~q[i].end

LEMMA OpenSent ==
    ASSUME NEW q \in Queue, NEW f \in Frames, Open(q), f.type = "stream", ~f.end
    PROVE  Open(Append(q, f))
<1>1. /\ DOMAIN Append(q, f) = DOMAIN q \cup {Len(q) + 1} /\ Append(q, f)[Len(q) + 1] = f
      /\ \A i \in DOMAIN q : Append(q, f)[i] = q[i]
  BY AppendFacts DEF Queue
<1>2. QED
  BY <1>1 DEF Open

LEMMA EndSent ==
    ASSUME NEW q \in Queue, NEW f \in Frames, NEW s, Open(q),
           f.type = "stream" /\ f.end =>
              f.text = 0 /\ ~f.finish /\ ~f.usage /\ s = "ended"
    PROVE  EndIsLast(Append(q, f), s)
<1> DEFINE r == Append(q, f)
<1>1. /\ DOMAIN r = DOMAIN q \cup {Len(q) + 1} /\ r[Len(q) + 1] = f /\ Len(r) = Len(q) + 1
      /\ \A i \in DOMAIN q : r[i] = q[i]
  BY AppendFacts DEF Queue
<1> HIDE DEF r
<1>2. QED
  BY <1>1 DEF Open, EndIsLast, r

LEMMA EndTaken ==
    ASSUME NEW q \in Queue, q # <<>>, NEW s, EndIsLast(q, s)
    PROVE  /\ EndIsLast(Tail(q), s)
           /\ q[1].type = "stream" /\ q[1].end => Tail(q) = <<>> /\ s = "ended"
<1> DEFINE r == Tail(q)
<1>1. /\ 1 \in DOMAIN q /\ r \in Queue
      /\ Len(r) = Len(q) - 1 /\ Len(q) \in Nat
      /\ \A i \in DOMAIN r : i + 1 \in DOMAIN q /\ r[i] = q[i + 1] /\ i \in Nat
  BY TailFacts DEF Queue
<1> HIDE DEF r
<1>2. \A i \in DOMAIN r : r[i].type = "stream" /\ r[i].end =>
         i = Len(r) /\ r[i].text = 0 /\ ~r[i].finish /\ ~r[i].usage /\ s = "ended"
  <2> SUFFICES ASSUME NEW i \in DOMAIN r, r[i].type = "stream", r[i].end
               PROVE  i = Len(r) /\ r[i].text = 0 /\ ~r[i].finish /\ ~r[i].usage /\ s = "ended"
    OBVIOUS
  <2>1. i + 1 \in DOMAIN q /\ r[i] = q[i + 1] /\ i \in Nat
    BY <1>1
  <2>2. i + 1 = Len(q)
    BY <2>1 DEF EndIsLast
  <2>3. QED
    BY <2>1, <2>2, <1>1 DEF EndIsLast
<1>3. q[1].type = "stream" /\ q[1].end => Len(q) = 1 /\ s = "ended"
  BY <1>1 DEF EndIsLast
<1>4. Len(q) = 1 => r = <<>>
  BY <1>1 DEF Queue
<1>5. QED
  BY <1>2, <1>3, <1>4 DEF EndIsLast, r

-----------------------------------------------------------------------------
(* The frames ahead of the caller.                                         *)

LEMMA AheadIsAQueue ==
    ASSUME StreamTypeOK
    PROVE  /\ Ahead \in Queue
           /\ wire \in Queue
           /\ caller.buffered # NoChunk => caller.buffered \in Frames
<1>1. wire \in Queue /\ (caller.buffered # NoChunk => caller.buffered \in Frames)
  BY DEF StreamTypeOK, Queue
<1>2. caller.buffered # NoChunk => <<caller.buffered>> \o wire \in Queue
  BY <1>1, KeptFacts DEF Queue
<1>3. QED
  BY <1>1, <1>2 DEF Ahead

LEMMA AheadSent ==
    ASSUME StreamTypeOK, NEW f \in Frames, caller' = caller, wire' = wire \o <<f>>
    PROVE  Ahead' = Append(Ahead, f)
<1>1. wire' = Append(wire, f)
  BY AheadIsAQueue, AppendFacts DEF Queue
<1>2. caller.buffered # NoChunk =>
         Append(<<caller.buffered>> \o wire, f) = <<caller.buffered>> \o Append(wire, f)
  BY AheadIsAQueue, KeptFacts DEF Queue
<1>3. QED
  BY <1>1, <1>2 DEF Ahead

\* A core that may still send has sent nothing that ends the stream.
LEMMA StillOpen ==
    ASSUME StreamIInv, Listening, coreSide \in {"idle", "asked", "streaming"}
    PROVE  Open(Ahead)
<1>1. CASE coreSide = "streaming"
  BY <1>1 DEF StreamIInv, StagesFit, Open
<1>2. CASE coreSide # "streaming"
  <2>1. Ahead = <<>>
    BY <1>2 DEF StreamIInv, StagesFit, Listening, Ahead
  <2>2. QED
    BY <2>1 DEF Open
<1>3. QED
  BY <1>1, <1>2

LEMMA Types == StreamIInv => StreamTypeOK
  BY DEF StreamIInv, CollectedIsAPrefix

LEMMA Typed ==
    ASSUME StreamTypeOK
    PROVE  /\ caller = [at |-> caller.at, stream |-> caller.stream, params |-> caller.params,
                        buffered |-> caller.buffered, content |-> caller.content,
                        finish |-> caller.finish, usage |-> caller.usage]
           /\ caller.content \in Seq(1..MaxChunks) /\ Len(caller.content) \in Nat
           /\ told.pieces \in 0..MaxChunks /\ told.chunks \in 0..MaxChunks
           /\ 0..MaxChunks \subseteq Nat
  BY StreamAssumption DEF StreamTypeOK, Told

LEMMA StreamStart == StreamInit => StreamIInv
<1> SUFFICES ASSUME StreamInit PROVE StreamIInv
  OBVIOUS
<1>1. /\ caller.at = "new" /\ caller.buffered = NoChunk /\ caller.content = <<>>
      /\ caller.finish = FALSE /\ caller.usage = FALSE
      /\ caller.stream \in BOOLEAN /\ caller.params \in {"chat", "other", "broken"}
  BY DEF StreamInit
<1>2. /\ told.pieces = 0 /\ told.chunks = 0 /\ told.finish = FALSE /\ told.usage = FALSE
      /\ coreSide = "idle" /\ wire = <<>>
  BY DEF StreamInit
<1>3. StreamTypeOK
  <2>1. /\ <<>> \in Seq(1..MaxChunks) /\ <<>> \in Seq(Frames) /\ 0 \in 0..MaxChunks
    BY StreamAssumption
  <2>2. QED
    BY <2>1 DEF StreamInit, StreamTypeOK, Told
<1>4. Ahead = <<>>
  BY <1>1, <1>2 DEF Ahead
<1>5. CollectedIsAPrefix /\ OkMeansComplete
  BY <1>1, <1>2, <1>3 DEF CollectedIsAPrefix, OkMeansComplete
<1>6. StagesFit
  BY <1>1, <1>2 DEF StagesFit
<1>7. /\ PiecesIn(Ahead, Len(caller.content), told.pieces)
      /\ NotesIn(Ahead, caller, told)
      /\ EndIsLast(Ahead, service)
  <2>1. Len(caller.content) = 0
    BY <1>1
  <2>2. \A n \in 0..MaxChunks : ~(0 < n /\ n <= 0)
    BY StreamAssumption
  <2>3. QED
    BY <1>2, <1>4, <2>1, <2>2 DEF PiecesIn, NotesIn, EndIsLast
<1>8. QED
  BY <1>5, <1>6, <1>7 DEF StreamIInv

-----------------------------------------------------------------------------
(* The steps of the core.                                                  *)

\* A caller that is gone, done or failed hears nothing.
LEMMA NobodyListens ==
    ASSUME StreamIInv, ~Listening, StreamTypeOK', caller' = caller,
           coreSide \notin {"idle"}, coreSide' \notin {"idle"},
           coreSide' = "asked" => coreSide = "asked" /\ wire' = wire,
           crashed => crashed',
           (told' = told /\ service' = service) \/ service = "open",
           told.pieces <= told'.pieces, told'.pieces <= told'.chunks,
           told.usage => told'.usage, told.finish => told'.finish
    PROVE  StreamIInv'
<1>1. StreamTypeOK
  BY Types
<1>2. CollectedIsAPrefix'
  BY <1>1, Typed DEF StreamIInv, CollectedIsAPrefix, StreamTypeOK, Told
<1>3. OkMeansComplete'
  BY DEF StreamIInv, OkMeansComplete
<1>4. ~Listening'
  BY DEF Listening
<1>5. StagesFit'
  BY <1>4 DEF StreamIInv, StagesFit, Listening
<1>6. QED
  BY <1>2, <1>3, <1>4, <1>5 DEF StreamIInv

LEMMA SendRequestStep == StreamIInv /\ SendRequest => StreamIInv'
<1> SUFFICES ASSUME StreamIInv, SendRequest PROVE StreamIInv'
  OBVIOUS
<1>1. StreamTypeOK
  BY Types
<1>2. /\ coreSide = "idle" /\ wire = <<>> /\ caller.buffered = NoChunk /\ Listening
      /\ told.pieces <= told.chunks
  BY DEF SendRequest, StreamIInv, StagesFit, Listening
<1>3. /\ caller'.at = "waiting" /\ caller'.buffered = NoChunk
      /\ caller'.content = caller.content /\ caller'.stream = caller.stream
      /\ caller'.finish = caller.finish /\ caller'.usage = caller.usage
      /\ UNCHANGED <<wire, service, told, crashed>> /\ coreSide' = "asked"
  BY <1>1, <1>2, Typed DEF SendRequest, StreamTypeOK
<1>4. StreamTypeOK'
  BY <1>1 DEF SendRequest, StreamTypeOK
<1>5. Ahead = <<>> /\ Ahead' = <<>>
  BY <1>2, <1>3 DEF Ahead
<1>6. CollectedIsAPrefix' /\ OkMeansComplete'
  BY <1>3, <1>4 DEF StreamIInv, CollectedIsAPrefix, OkMeansComplete
<1>7. StagesFit'
  BY <1>2, <1>3 DEF StagesFit
<1>8. /\ PiecesIn(Ahead, Len(caller.content), told.pieces)'
      /\ NotesIn(Ahead, caller, told)'
      /\ EndIsLast(Ahead, service)'
  BY <1>2, <1>3, <1>5 DEF StreamIInv, PiecesIn, NotesIn, EndIsLast
<1>9. QED
  BY <1>6, <1>7, <1>8 DEF StreamIInv

\* One frame to a caller that listens, and the connection stays open or is
\* closed behind it.
LEMMA FrameSent ==
    ASSUME StreamIInv, Listening, StreamTypeOK', NEW f \in Frames,
           coreSide \in {"asked", "streaming"}, coreSide' \in {"streaming", "closed", "down"},
           wire' = wire \o <<f>>, caller' = caller, service' = service,
           crashed => crashed', coreSide' = "down" => crashed',
           f.type = "stream" /\ f.end =>
              f.text = 0 /\ ~f.finish /\ ~f.usage /\ service = "ended",
           coreSide' = "streaming" => f.type = "stream" /\ ~f.end,
           coreSide' = "closed" /\ f.type = "stream" => f.end,
           HasText(f) => f.text = told.pieces + 1,
           told'.pieces = (IF HasText(f) THEN told.pieces + 1 ELSE told.pieces),
           told'.pieces <= told'.chunks,
           told'.finish <=> told.finish \/ (f.type = "stream" /\ f.finish),
           told'.usage <=> told.usage \/ (f.type = "stream" /\ f.usage)
    PROVE  StreamIInv'
<1>1. StreamTypeOK
  BY Types
<1>2. Ahead \in Queue /\ Ahead' = Append(Ahead, f) /\ Open(Ahead)
  BY <1>1, AheadIsAQueue, AheadSent, StillOpen
<1>3. caller.at \in {"waiting", "reading"}
  BY DEF StreamIInv, StagesFit, Listening
<1>4. /\ told.pieces \in Nat /\ told'.pieces \in Nat /\ told.pieces <= told'.pieces
      /\ Len(caller.content) \in Nat /\ Len(caller.content) <= told.pieces
  <2>1. told.pieces \in Nat /\ Len(caller.content) \in Nat
    BY <1>1, Typed
  <2>2. QED
    BY <2>1 DEF StreamIInv, CollectedIsAPrefix
<1>5. CollectedIsAPrefix'
  BY <1>4 DEF StreamIInv, CollectedIsAPrefix
<1>6. OkMeansComplete'
  BY <1>3 DEF OkMeansComplete
<1>7. PiecesIn(Ahead, Len(caller.content), told.pieces)'
  <2>1. PiecesIn(Ahead, Len(caller.content), told.pieces)
    BY DEF StreamIInv
  <2>2. PiecesIn(Append(Ahead, f), Len(caller.content), told'.pieces)
    BY <1>2, <1>4, <2>1, PiecesSent
  <2>3. QED
    BY <1>2, <2>2
<1>8. NotesIn(Ahead, caller, told)'
  <2>1. NotesIn(Ahead, caller, told)
    BY DEF StreamIInv
  <2>2. NotesIn(Append(Ahead, f), caller, told')
    BY <1>2, <2>1, NotesSent
  <2>3. QED
    BY <1>2, <2>2
<1>9. EndIsLast(Ahead, service)'
  <2>1. EndIsLast(Append(Ahead, f), service)
    BY <1>2, EndSent
  <2>2. QED
    BY <1>2, <2>1
<1>10. StagesFit'
  <2>1. /\ Append(Ahead, f) # <<>> /\ Append(Ahead, f)[Len(Append(Ahead, f))] = f
    BY <1>2, AppendFacts DEF Queue
  <2>2. coreSide' = "streaming" => Open(Append(Ahead, f))
    BY <1>2, OpenSent
  <2>3. coreSide' = "streaming" =>
          \A i \in DOMAIN Ahead' : Ahead'[i].type = "stream" /\ ~Ahead'[i].end
    BY <1>2, <2>2 DEF Open
  <2>4. QED
    BY <1>2, <1>3, <2>1, <2>3 DEF StreamIInv, StagesFit
<1>11. QED
  BY <1>5, <1>6, <1>7, <1>8, <1>9, <1>10 DEF StreamIInv

\* Nothing is sent, and nothing is taken.
LEMMA QuietStep ==
    ASSUME StreamIInv, StreamTypeOK', StagesFit', UNCHANGED <<caller, wire>>,
           UNCHANGED <<told.pieces, told.finish, told.usage>>,
           service' = service \/ service = "open", crashed => crashed'
    PROVE  StreamIInv'
<1>1. Ahead' = Ahead /\ Listening' = Listening
  BY DEF Ahead, Listening
<1>2. CollectedIsAPrefix' /\ OkMeansComplete'
  BY DEF StreamIInv, CollectedIsAPrefix, OkMeansComplete
<1>3. Listening => PiecesIn(Ahead, Len(caller.content), told.pieces)'
                   /\ NotesIn(Ahead, caller, told)' /\ EndIsLast(Ahead, service)'
  BY <1>1 DEF StreamIInv, PiecesIn, NotesIn, EndIsLast
<1>4. QED
  BY <1>1, <1>2, <1>3 DEF StreamIInv

LEMMA Answers ==
    ASSUME NEW f \in Frames, StreamIInv, SendFrames(<<f>>, "closed"),
           coreSide \in {"asked", "streaming"}, UNCHANGED <<caller, service, told, crashed>>,
           f.type = "stream" =>
              f.end /\ f.text = 0 /\ ~f.finish /\ ~f.usage /\ service = "ended"
    PROVE  StreamIInv'
<1>1. StreamTypeOK /\ told.pieces <= told.chunks /\ caller.at # "new"
  BY Types DEF StreamIInv, StagesFit
<1>2. CASE caller.at \in {"ok", "err", "gone"}
  <2>1. coreSide' = "down" /\ wire' = wire /\ ~Listening
    BY <1>2 DEF SendFrames, Listening
  <2>2. StreamTypeOK'
    BY <1>1, <2>1 DEF StreamTypeOK
  <2>3. told.pieces <= told.pieces
    BY <1>1, Typed
  <2>4. QED
    BY <1>1, <2>1, <2>2, <2>3, NobodyListens
<1>3. CASE caller.at \notin {"ok", "err", "gone"}
  <2>1. coreSide' = "closed" /\ wire' = wire \o <<f>>
    BY <1>3 DEF SendFrames
  <2>2. Listening
    BY <1>1, <1>3 DEF Listening, StreamTypeOK
  <2>3. StreamTypeOK'
    <3>1. wire' \in Seq(Frames)
      BY <1>1, <2>1 DEF StreamTypeOK
    <3>2. QED
      BY <1>1, <2>1, <3>1 DEF StreamTypeOK
  <2>4. ~HasText(f)
    BY DEF HasText
  <2>5. QED
    BY <1>1, <2>1, <2>2, <2>3, <2>4, FrameSent
<1>4. QED
  BY <1>2, <1>3

LEMMA AnswerRequestStep == StreamIInv /\ AnswerRequest => StreamIInv'
<1> SUFFICES ASSUME StreamIInv, AnswerRequest PROVE StreamIInv'
  OBVIOUS
<1>1. /\ StreamTypeOK /\ coreSide = "asked" /\ UNCHANGED <<caller, service, told, crashed>>
      /\ wire = <<>> /\ caller.at \in {"waiting", "gone"} /\ caller.at # "new"
      /\ (Listening => caller.at = "waiting")
  BY Types DEF AnswerRequest, StreamIInv, StagesFit, Listening
<1>2. ASSUME NEW ok \in BOOLEAN, SendFrames(<<ResponseFrame(ok)>>, "closed")
      PROVE  StreamIInv'
  BY <1>1, <1>2, FramesSent, Answers
<1>3. ASSUME coreSide' \in {"down", "streaming"}, UNCHANGED wire
      PROVE  StreamIInv'
  <2>1. StreamTypeOK'
    BY <1>1, <1>3 DEF StreamTypeOK
  <2>2. caller.buffered = NoChunk \/ ~Listening
    BY <1>1 DEF StreamIInv, StagesFit
  <2>3. Listening => Ahead' = <<>>
    BY <1>1, <1>3, <2>2 DEF Ahead
  <2>4. StagesFit'
    BY <1>1, <1>3, <2>3 DEF StreamIInv, StagesFit, Listening
  <2>5. QED
    BY <1>1, <1>3, <2>1, <2>4, QuietStep
<1>4. QED
  BY <1>1, <1>2, <1>3 DEF AnswerRequest

LEMMA ForwardFailureStep == StreamIInv /\ ForwardFailure => StreamIInv'
  BY FramesSent, Answers DEF ForwardFailure

LEMMA ForwardEndStep == StreamIInv /\ ForwardEnd => StreamIInv'
  BY FramesSent, Answers DEF ForwardEnd

LEMMA ForwardChunkStep ==
    ASSUME StreamIInv, NEW choices \in {0, 1}, NEW text \in BOOLEAN, NEW finish \in BOOLEAN,
           NEW usage \in BOOLEAN, ForwardChunk(choices, text, finish, usage)
    PROVE  StreamIInv'
<1> DEFINE n == IF text THEN told.pieces + 1 ELSE 0
           f == Chunk(n, finish, usage)
<1>1. /\ StreamTypeOK /\ coreSide = "streaming" /\ service = "open"
      /\ UNCHANGED <<caller, service, crashed>>
      /\ told.pieces <= told.chunks /\ caller.at # "new"
  BY Types DEF ForwardChunk, StreamIInv, StagesFit
<1>2. CASE choices = 0 \/ ~(text \/ finish \/ usage)
  <2>1. /\ UNCHANGED coreSide /\ wire' = wire \o <<>>
        /\ told' = [told EXCEPT !.bare = @ \/ usage]
    BY <1>1, <1>2 DEF ForwardChunk, SendFrames
  <2>2. wire' = wire
    BY <1>1, <2>1 DEF StreamTypeOK
  <2>3. /\ UNCHANGED <<told.chunks, told.pieces, told.finish, told.usage>>
        /\ told' \in Told
    BY <1>1, <2>1 DEF StreamTypeOK, Told
  <2>4. StreamTypeOK'
    BY <1>1, <2>1, <2>2, <2>3 DEF StreamTypeOK
  <2>5. StagesFit'
    BY <1>1, <2>1, <2>2, <2>3 DEF StreamIInv, StagesFit, Listening, Ahead
  <2>6. QED
    BY <1>1, <2>1, <2>2, <2>3, <2>4, <2>5, QuietStep
<1>3. CASE ~(choices = 0 \/ ~(text \/ finish \/ usage))
  <2>1. /\ told.chunks < MaxChunks
        /\ told' = [chunks |-> told.chunks + 1,
                    pieces |-> told.pieces + IF text THEN 1 ELSE 0,
                    finish |-> told.finish \/ finish,
                    usage |-> told.usage \/ usage,
                    bare |-> told.bare]
        /\ SendFrames(<<f>>, "streaming")
    BY <1>3 DEF ForwardChunk
  <2>2. /\ told.pieces \in Nat /\ told.chunks \in Nat
        /\ told.finish \in BOOLEAN /\ told.usage \in BOOLEAN /\ told.bare \in BOOLEAN
    BY <1>1, Typed DEF StreamTypeOK, Told
  <2>3. /\ told'.chunks \in 0..MaxChunks /\ told'.pieces \in 0..MaxChunks
        /\ told'.pieces <= told'.chunks /\ told.pieces <= told'.pieces
        /\ n \in 0..MaxChunks
    BY <1>1, <2>1, <2>2, StreamAssumption
  <2>4. /\ told'.finish \in BOOLEAN /\ told'.usage \in BOOLEAN
        /\ told'.finish <=> told.finish \/ finish
        /\ told'.usage <=> told.usage \/ usage
    BY <2>1, <2>2
  <2>5. told' \in Told
    BY <2>1, <2>2, <2>3, <2>4 DEF Told
  <2>6. f \in Frames /\ f.type = "stream" /\ f.end = FALSE /\ f.text = n
        /\ f.finish = finish /\ f.usage = usage
    BY <2>3, FramesSent
  <2> HIDE DEF f
  <2>7. CASE caller.at \in {"ok", "err", "gone"}
    <3>1. coreSide' = "down" /\ wire' = wire /\ ~Listening
      BY <2>1, <2>7 DEF SendFrames, Listening
    <3>2. StreamTypeOK'
      BY <1>1, <2>5, <3>1 DEF StreamTypeOK
    <3>3. QED
      BY <1>1, <2>3, <2>4, <3>1, <3>2, NobodyListens
  <2>8. CASE caller.at \notin {"ok", "err", "gone"}
    <3>1. coreSide' = "streaming" /\ wire' = wire \o <<f>>
      BY <2>1, <2>8 DEF SendFrames
    <3>2. Listening
      BY <1>1, <2>8 DEF Listening, StreamTypeOK
    <3>3. StreamTypeOK'
      <4>1. wire' \in Seq(Frames)
        BY <1>1, <2>6, <3>1 DEF StreamTypeOK
      <4>2. QED
        BY <1>1, <2>5, <3>1, <4>1 DEF StreamTypeOK
    <3>4. /\ HasText(f) => f.text = told.pieces + 1
          /\ told'.pieces = IF HasText(f) THEN told.pieces + 1 ELSE told.pieces
      BY <2>1, <2>2, <2>6 DEF HasText
    <3>5. QED
      BY <1>1, <2>3, <2>4, <2>6, <3>1, <3>2, <3>3, <3>4, FrameSent
  <2>9. QED
    BY <2>7, <2>8
<1>4. QED
  BY <1>2, <1>3

LEMMA ServiceStopsStep == StreamIInv /\ ServiceStops => StreamIInv'
<1> SUFFICES ASSUME StreamIInv, ServiceStops PROVE StreamIInv'
  OBVIOUS
<1>1. StreamTypeOK'
  BY Types DEF ServiceStops, StreamTypeOK
<1>2. StagesFit'
  BY DEF ServiceStops, StreamIInv, StagesFit, Listening, Ahead
<1>3. QED
  BY <1>1, <1>2, QuietStep DEF ServiceStops

LEMMA CoreCrashesStep == StreamIInv /\ CoreCrashes => StreamIInv'
<1> SUFFICES ASSUME StreamIInv, CoreCrashes PROVE StreamIInv'
  OBVIOUS
<1>1. /\ StreamTypeOK /\ told.pieces <= told.chunks /\ caller.at # "new"
      /\ coreSide \in {"asked", "streaming"} /\ coreSide' = "down" /\ crashed'
      /\ crashed' \in BOOLEAN /\ UNCHANGED <<caller, service, told>>
  BY Types DEF CoreCrashes, StreamIInv, StagesFit
<1>2. CASE wire' = wire
  <2>1. StreamTypeOK' /\ StagesFit'
    BY <1>1, <1>2 DEF StreamTypeOK, StreamIInv, StagesFit, Listening
  <2>2. QED
    BY <1>1, <1>2, <2>1, QuietStep
<1>3. CASE wire' = Append(wire, CutFrame)
  <2>1. CutFrame \in Frames /\ CutFrame.type = "cut" /\ ~HasText(CutFrame)
    BY FramesSent DEF HasText
  <2>2. wire' \in Seq(Frames) /\ wire' = wire \o <<CutFrame>>
    <3>1. wire \in Seq(Frames)
      BY <1>1 DEF StreamTypeOK
    <3>2. QED
      BY <3>1, <1>3, <2>1, AppendFacts
  <2>3. StreamTypeOK'
    BY <1>1, <2>2 DEF StreamTypeOK
  <2>4. told.pieces <= told.pieces
    BY <1>1, Typed
  <2>5. CASE Listening
    BY <1>1, <2>1, <2>2, <2>3, <2>5, FrameSent
  <2>6. CASE ~Listening
    BY <1>1, <2>3, <2>4, <2>6, NobodyListens
  <2>7. QED
    BY <2>5, <2>6
<1>4. QED
  BY <1>2, <1>3 DEF CoreCrashes

-----------------------------------------------------------------------------
(* The steps of the caller.                                                *)

\* A caller that has its result, or is gone, is past what is ahead.
LEMMA CallerStops ==
    ASSUME StreamIInv, CollectedIsAPrefix', OkMeansComplete',
           caller.at \in {"waiting", "reading"}, caller'.at \in {"ok", "err", "gone"},
           caller'.at = "gone" \/ coreSide # "asked",
           caller'.buffered = NoChunk \/ caller'.buffered = caller.buffered,
           wire = <<>> => wire' = <<>>, UNCHANGED <<coreSide, told>>
    PROVE  StreamIInv'
<1>1. ~Listening'
  BY DEF Listening
<1>2. StagesFit'
  BY <1>1 DEF StreamIInv, StagesFit
<1>3. QED
  BY <1>1, <1>2 DEF StreamIInv

LEMMA ReceiveFirstStep == StreamIInv /\ ReceiveFirst => StreamIInv'
<1> SUFFICES ASSUME StreamIInv, ReceiveFirst PROVE StreamIInv'
  OBVIOUS
<1>1. /\ StreamTypeOK /\ caller.at = "waiting" /\ caller.buffered = NoChunk
      /\ coreSide # "idle" /\ UNCHANGED <<coreSide, service, told, crashed>> /\ Listening
      /\ told.pieces <= told.chunks
      /\ coreSide = "asked" => wire = <<>>
  BY Types DEF ReceiveFirst, StreamIInv, StagesFit, Listening
<1>2. ASSUME NEW at \in {"ok", "err"}, caller' = [caller EXCEPT !.at = at],
             at = "ok" => ~caller.stream, coreSide # "asked",
             wire' = wire \/ (wire # <<>> /\ wire' = Tail(wire))
      PROVE  StreamIInv'
  <2>1. /\ caller'.at = at /\ caller'.buffered = NoChunk /\ caller'.stream = caller.stream
        /\ caller'.content = caller.content
        /\ caller'.usage = caller.usage /\ caller'.finish = caller.finish
    BY <1>1, <1>2, Typed
  <2>2. wire' \in Seq(Frames)
    BY <1>1, <1>2 DEF StreamTypeOK
  <2>3. StreamTypeOK'
    BY <1>1, <1>2, <2>2 DEF StreamTypeOK
  <2>4. CollectedIsAPrefix' /\ OkMeansComplete'
    BY <1>1, <1>2, <2>1, <2>3 DEF StreamIInv, CollectedIsAPrefix, OkMeansComplete
  <2>5. QED
    BY <1>1, <1>2, <2>1, <2>4, CallerStops
<1>3. CASE AtEof /\ caller' = [caller EXCEPT !.at = "err"] /\ UNCHANGED wire
  BY <1>2, <1>3 DEF AtEof
<1>4. ASSUME wire # <<>>, wire' = Tail(wire), caller.stream, Head(wire).type = "stream",
             caller' = [caller EXCEPT !.at = "reading", !.buffered = Head(wire)]
      PROVE  StreamIInv'
  <2>1. wire \in Seq(Frames) /\ Head(wire) \in Frames /\ Head(wire) # NoChunk
        /\ Tail(wire) \in Seq(Frames) /\ <<Head(wire)>> \o Tail(wire) = wire
    <3>1. wire \in Seq(Frames)
      BY <1>1 DEF StreamTypeOK
    <3>2. Head(wire) \in Frames /\ Tail(wire) \in Seq(Frames)
      BY <1>4, <3>1, TailFacts
    <3>3. QED
      BY <1>4, <3>1, <3>2, KeptFacts, FrameShapes
  <2>2. /\ caller'.at = "reading" /\ caller'.buffered = Head(wire)
        /\ caller'.stream = caller.stream /\ caller'.content = caller.content
        /\ caller'.usage = caller.usage /\ caller'.finish = caller.finish
    BY <1>1, <1>4, Typed
  <2>3. StreamTypeOK'
    BY <1>1, <1>4, <2>1 DEF StreamTypeOK
  <2>4. Ahead' = Ahead /\ Ahead # <<>>
    BY <1>1, <1>4, <2>1, <2>2 DEF Ahead
  <2>5. CollectedIsAPrefix' /\ OkMeansComplete'
    BY <1>1, <2>2, <2>3 DEF StreamIInv, CollectedIsAPrefix, OkMeansComplete
  <2>6. StagesFit'
    BY <1>1, <1>4, <2>2, <2>4 DEF StreamIInv, StagesFit, Listening
  <2>7. /\ PiecesIn(Ahead, Len(caller.content), told.pieces)'
        /\ NotesIn(Ahead, caller, told)'
        /\ EndIsLast(Ahead, service)'
    BY <1>1, <2>2, <2>4 DEF StreamIInv, PiecesIn, NotesIn, EndIsLast
  <2>8. QED
    BY <2>5, <2>6, <2>7 DEF StreamIInv
<1>5. CASE /\ wire # <<>> /\ wire' = Tail(wire)
           /\ ~(caller.stream /\ Head(wire).type = "stream")
  <2>1. \/ /\ ~caller.stream
           /\ caller' = [caller EXCEPT !.at = IF Head(wire).ok THEN "ok" ELSE "err"]
        \/ caller' = [caller EXCEPT !.at = "err"]
    BY <1>1, <1>5 DEF ReceiveFirst, AtEof
  <2>2. CASE caller' = [caller EXCEPT !.at = "err"]
    BY <1>1, <1>2, <1>5, <2>2
  <2>3. CASE ~caller.stream /\ caller' = [caller EXCEPT !.at = IF Head(wire).ok THEN "ok" ELSE "err"]
    BY <1>1, <1>2, <1>5, <2>3
  <2>4. QED
    BY <2>1, <2>2, <2>3
<1>6. QED
  BY <1>3, <1>4, <1>5 DEF ReceiveFirst

\* One chunk from the head of what is ahead.
LEMMA CollectStep ==
    ASSUME StreamIInv, caller.at = "reading", coreSide # "asked",
           Ahead # <<>>, Ahead[1].type = "stream", caller' = Collect(Ahead[1]),
           Ahead' = Tail(Ahead), wire' \in Seq(Frames),
           UNCHANGED <<coreSide, service, told, crashed>>, wire = <<>> => wire' = <<>>
    PROVE  StreamIInv'
<1> DEFINE f == Ahead[1]
           n == Len(caller.content)
<1>1. /\ StreamTypeOK /\ Listening /\ Ahead \in Queue /\ caller.stream /\ coreSide # "idle"
      /\ n \in Nat /\ n <= told.pieces /\ told.pieces \in 0..MaxChunks
      /\ told.pieces <= told.chunks
  BY Types, AheadIsAQueue, Typed
     DEF StreamIInv, CollectedIsAPrefix, StagesFit, Listening
<1>2. /\ f \in Frames /\ f.text \in 0..MaxChunks /\ f.end \in BOOLEAN
      /\ f.finish \in BOOLEAN /\ f.usage \in BOOLEAN
      /\ HasText(f) <=> f.text # 0
  <2>1. f \in Frames
    BY <1>1, TailFacts DEF Queue
  <2>2. QED
    BY <2>1, FrameShapes DEF HasText
<1>3. /\ HasText(f) => f.text = n + 1 /\ n + 1 <= told.pieces
      /\ PiecesIn(Tail(Ahead), IF HasText(f) THEN n + 1 ELSE n, told.pieces)
  <2>1. PiecesIn(Ahead, n, told.pieces)
    BY <1>1 DEF StreamIInv
  <2>2. QED
    BY <1>1, <2>1, PiecesTaken
<1>4. /\ EndIsLast(Tail(Ahead), service)
      /\ f.end => Tail(Ahead) = <<>> /\ service = "ended"
                  /\ f.text = 0 /\ ~f.finish /\ ~f.usage
  <2>1. EndIsLast(Ahead, service) /\ 1 \in DOMAIN Ahead
    BY <1>1, TailFacts DEF StreamIInv, Queue
  <2>2. QED
    BY <1>1, <2>1, EndTaken DEF EndIsLast
<1>5. /\ f.finish => told.finish
      /\ f.usage => told.usage
      /\ \A d : (caller.finish \/ f.finish => d.finish) /\ (caller.usage \/ f.usage => d.usage)
            => NotesIn(Tail(Ahead), d, told)
  <2>1. NotesIn(Ahead, caller, told)
    BY <1>1 DEF StreamIInv
  <2>2. f.finish => told.finish
    BY <1>1, <2>1, TailFacts DEF NotesIn, Queue
  <2>3. f.usage => told.usage
    BY <1>1, <2>1, TailFacts DEF NotesIn, Queue
  <2>4. ASSUME NEW d, caller.finish \/ f.finish => d.finish, caller.usage \/ f.usage => d.usage
        PROVE  NotesIn(Tail(Ahead), d, told)
    BY <1>1, <2>1, <2>4, NotesTaken
  <2>5. QED
    BY <2>2, <2>3, <2>4
<1>6. Tail(Ahead) \in Queue
  BY <1>1, TailFacts DEF Queue
<1> HIDE DEF f
<1>7. CASE f.end
  <2>1. /\ caller'.at = "ok" /\ caller'.buffered = NoChunk /\ caller'.stream = caller.stream
        /\ caller'.content = caller.content
        /\ caller'.usage = caller.usage /\ caller'.finish = caller.finish
    BY <1>1, <1>7, Typed DEF Collect, f
  <2>2. StreamTypeOK'
    BY <1>1, <1>7 DEF StreamTypeOK, Collect, f
  <2>3. CollectedIsAPrefix'
    BY <2>1, <2>2 DEF StreamIInv, CollectedIsAPrefix
  <2>4. n = told.pieces
    <3>1. PiecesIn(<<>>, n, told.pieces)
      BY <1>2, <1>3, <1>4, <1>7
    <3>2. ~(n < told.pieces /\ told.pieces <= told.pieces)
      BY <1>1, <3>1 DEF PiecesIn
    <3>3. QED
      BY <1>1, <3>2, StreamAssumption
  <2>5. caller.finish = told.finish /\ caller.usage = told.usage
    <3>1. NotesIn(<<>>, caller, told)
      BY <1>4, <1>5, <1>7
    <3>2. (told.finish => caller.finish) /\ (told.usage => caller.usage)
      BY <3>1 DEF NotesIn
    <3>3. (caller.finish => told.finish) /\ (caller.usage => told.usage)
      BY DEF StreamIInv, CollectedIsAPrefix
    <3>4. /\ caller.finish \in BOOLEAN /\ caller.usage \in BOOLEAN
          /\ told.finish \in BOOLEAN /\ told.usage \in BOOLEAN
      BY <1>1 DEF StreamTypeOK, Told
    <3>5. QED
      BY <3>2, <3>3, <3>4
  <2>6. OkMeansComplete'
    BY <1>4, <1>7, <2>1, <2>4, <2>5 DEF OkMeansComplete
  <2>7. QED
    BY <2>1, <2>3, <2>6, CallerStops
<1>8. CASE ~f.end
  <2> DEFINE m == IF HasText(f) THEN n + 1 ELSE n
  <2>1. /\ caller'.at = "reading" /\ caller'.buffered = NoChunk
        /\ caller'.stream = caller.stream /\ caller'.params = caller.params
        /\ caller'.content = (IF f.text = 0 THEN caller.content
                              ELSE Append(caller.content, f.text))
        /\ caller'.finish = (caller.finish \/ f.finish)
        /\ caller'.usage = (caller.usage \/ f.usage)
    BY <1>1, <1>8, Typed DEF Collect, f
  <2>2. /\ caller'.content \in Seq(1..MaxChunks)
        /\ Len(caller'.content) = m /\ m <= told.pieces
        /\ \A i \in DOMAIN caller'.content : caller'.content[i] = i
    <3>1. /\ caller.content \in Seq(1..MaxChunks)
          /\ \A i \in DOMAIN caller.content : caller.content[i] = i
      BY <1>1, Typed DEF StreamIInv, CollectedIsAPrefix
    <3>2. CASE f.text = 0
      BY <1>1, <1>2, <2>1, <3>1, <3>2
    <3>3. CASE f.text # 0
      <4>1. f.text = n + 1 /\ f.text \in 1..MaxChunks /\ n + 1 <= told.pieces /\ m = n + 1
        BY <1>1, <1>2, <1>3, <3>3, StreamAssumption
      <4>2. caller'.content = Append(caller.content, n + 1)
        BY <2>1, <3>3, <4>1
      <4>3. QED
        BY <3>1, <4>1, <4>2, AppendFacts
    <3>4. QED
      BY <3>2, <3>3
  <2> HIDE DEF m
  <2>3. StreamTypeOK'
    <3>1. /\ caller.finish \in BOOLEAN /\ caller.usage \in BOOLEAN /\ caller.stream \in BOOLEAN
          /\ caller.params \in {"chat", "other", "broken"}
      BY <1>1 DEF StreamTypeOK
    <3>2. caller'.finish \in BOOLEAN /\ caller'.usage \in BOOLEAN
      BY <2>1, <3>1, <1>2
    <3>3. caller' = [at |-> "reading", stream |-> caller.stream, params |-> caller.params,
                     buffered |-> NoChunk, content |-> caller'.content,
                     finish |-> caller'.finish, usage |-> caller'.usage]
      BY <1>1, <1>8, <2>1, Typed DEF Collect, f
    <3>4. caller' \in [at: {"new", "waiting", "reading", "ok", "err", "gone"},
                       stream: BOOLEAN, params: {"chat", "other", "broken"},
                       buffered: Frames \cup {NoChunk},
                       content: Seq(1..MaxChunks), finish: BOOLEAN, usage: BOOLEAN]
      BY <2>2, <3>1, <3>2, <3>3
    <3>5. QED
      BY <1>1, <3>4 DEF StreamTypeOK
  <2>4. CollectedIsAPrefix'
    <3>1. (caller.usage => told.usage) /\ (caller.finish => told.finish)
      BY DEF StreamIInv, CollectedIsAPrefix
    <3>2. (caller'.usage => told.usage) /\ (caller'.finish => told.finish)
      BY <1>5, <2>1, <3>1
    <3>3. QED
      BY <2>2, <2>3, <3>2 DEF CollectedIsAPrefix
  <2>5. OkMeansComplete'
    BY <2>1 DEF OkMeansComplete
  <2>6. PiecesIn(Ahead, Len(caller.content), told.pieces)'
    <3>1. PiecesIn(Tail(Ahead), m, told.pieces)
      BY <1>3 DEF m
    <3>2. QED
      BY <2>2, <3>1
  <2>7. NotesIn(Ahead, caller, told)'
    <3>1. NotesIn(Tail(Ahead), caller', told)
      BY <1>5, <2>1
    <3>2. QED
      BY <3>1
  <2>8. EndIsLast(Ahead, service)'
    BY <1>4
  <2>9. StagesFit'
    <3>1. coreSide = "streaming" =>
             \A i \in DOMAIN Ahead' : Ahead'[i].type = "stream" /\ ~Ahead'[i].end
      <4>1. \A i \in DOMAIN Tail(Ahead) :
               i + 1 \in DOMAIN Ahead /\ Tail(Ahead)[i] = Ahead[i + 1]
        BY <1>1, TailFacts DEF Queue
      <4>2. coreSide = "streaming" => Open(Ahead)
        BY <1>1, StillOpen
      <4>3. QED
        BY <4>1, <4>2 DEF Open
    <3>2. coreSide = "closed" =>
             Ahead' # <<>> /\ (Ahead'[Len(Ahead')].type = "stream" => Ahead'[Len(Ahead')].end)
      <4>1. ASSUME coreSide = "closed"
            PROVE  Ahead[Len(Ahead)].type = "stream" => Ahead[Len(Ahead)].end
        BY <1>1, <4>1 DEF StreamIInv, StagesFit
      <4>2. /\ Tail(Ahead) # <<>> => Tail(Ahead)[Len(Tail(Ahead))] = Ahead[Len(Ahead)]
            /\ Tail(Ahead) = <<>> => Len(Ahead) = 1
        BY <1>1, TailLast DEF Queue
      <4>3. coreSide = "closed" => Tail(Ahead) # <<>>
        BY <1>8, <4>1, <4>2 DEF f
      <4>4. QED
        BY <4>1, <4>2, <4>3
    <3>3. ~(coreSide = "down" /\ ~crashed)
      BY <1>1 DEF StreamIInv, StagesFit
    <3>4. QED
      BY <1>1, <2>1, <3>1, <3>2, <3>3 DEF StagesFit
  <2>10. QED
    BY <2>4, <2>5, <2>6, <2>7, <2>8, <2>9 DEF StreamIInv
<1>9. QED
  BY <1>2, <1>7, <1>8

LEMMA NextEventStep == StreamIInv /\ NextEvent => StreamIInv'
<1> SUFFICES ASSUME StreamIInv, NextEvent PROVE StreamIInv'
  OBVIOUS
<1>1. /\ StreamTypeOK /\ caller.at = "reading" /\ Listening
      /\ coreSide # "asked" /\ wire \in Seq(Frames)
      /\ UNCHANGED <<coreSide, service, told, crashed>>
  BY Types DEF NextEvent, StreamIInv, StagesFit, Listening, StreamTypeOK
<1>2. \A f : Collect(f).buffered = NoChunk
  BY <1>1, Typed DEF Collect
<1>3. CASE caller.buffered # NoChunk
  <2>1. /\ caller' = Collect(caller.buffered) /\ wire' = wire
        /\ caller.buffered.type = "stream" /\ caller.buffered \in Frames
    BY <1>1, <1>3, AheadIsAQueue DEF NextEvent, StreamIInv, StagesFit
  <2>2. Ahead = <<caller.buffered>> \o wire /\ Ahead' = wire
    BY <1>2, <1>3, <2>1 DEF Ahead
  <2>3. Ahead # <<>> /\ Tail(Ahead) = wire /\ Ahead[1] = caller.buffered
    BY <1>1, <2>1, <2>2, KeptFacts
  <2>4. QED
    BY <1>1, <2>1, <2>2, <2>3, CollectStep
<1>4. ASSUME caller.buffered = NoChunk, wire # <<>>, wire' = Tail(wire),
             Head(wire).type = "stream", caller' = Collect(Head(wire))
      PROVE  StreamIInv'
  <2>1. Ahead = wire /\ Ahead' = Tail(wire) /\ Head(wire) = wire[1] /\ Tail(wire) \in Seq(Frames)
    BY <1>1, <1>2, <1>4, TailFacts DEF Ahead
  <2>2. QED
    BY <1>1, <1>4, <2>1, CollectStep
<1>5. ASSUME NEW at \in {"ok", "err"}, caller' = [caller EXCEPT !.at = at],
             at = "ok" => crashed,
             wire' = wire \/ (wire # <<>> /\ wire' = Tail(wire))
      PROVE  StreamIInv'
  <2>1. /\ caller'.at = at /\ caller'.buffered = caller.buffered
        /\ caller'.content = caller.content
        /\ caller'.usage = caller.usage /\ caller'.finish = caller.finish
    BY <1>1, <1>5, Typed
  <2>2. wire' \in Seq(Frames)
    BY <1>1, <1>5
  <2>3. StreamTypeOK'
    BY <1>1, <1>5, <2>2 DEF StreamTypeOK
  <2>4. CollectedIsAPrefix' /\ OkMeansComplete'
    BY <1>1, <1>5, <2>1, <2>3 DEF StreamIInv, CollectedIsAPrefix, OkMeansComplete
  <2>5. QED
    BY <1>1, <1>5, <2>1, <2>4, CallerStops
<1>6. ASSUME caller.buffered = NoChunk, AtEof
      PROVE  crashed
  <2>1. Ahead = <<>> /\ coreSide \in {"closed", "down"}
    BY <1>6 DEF Ahead, AtEof
  <2>2. QED
    BY <1>1, <2>1 DEF StreamIInv, StagesFit
<1>7. QED
  BY <1>1, <1>3, <1>4, <1>5, <1>6 DEF NextEvent

LEMMA WorkerGoneStep == StreamIInv /\ WorkerGone => StreamIInv'
<1> SUFFICES ASSUME StreamIInv, WorkerGone PROVE StreamIInv'
  OBVIOUS
<1>1. StreamTypeOK
  BY Types
<1>2. /\ caller'.at = "gone" /\ caller'.buffered = caller.buffered
      /\ caller'.content = caller.content
      /\ caller'.usage = caller.usage /\ caller'.finish = caller.finish
      /\ caller.at \in {"waiting", "reading"}
      /\ UNCHANGED <<coreSide, wire, service, told, crashed>>
  BY <1>1, Typed DEF WorkerGone
<1>3. StreamTypeOK'
  BY <1>1 DEF WorkerGone, StreamTypeOK
<1>4. CollectedIsAPrefix' /\ OkMeansComplete'
  BY <1>2, <1>3 DEF StreamIInv, CollectedIsAPrefix, OkMeansComplete
<1>5. QED
  BY <1>2, <1>4, CallerStops

LEMMA StreamStutter == StreamIInv /\ UNCHANGED streamVars => StreamIInv'
<1> SUFFICES ASSUME StreamIInv, UNCHANGED streamVars PROVE StreamIInv'
  OBVIOUS
<1>1. StreamTypeOK'
  BY Types DEF streamVars, StreamTypeOK
<1>2. StagesFit'
  <2>1. Ahead' = Ahead /\ Listening' = Listening
    BY DEF streamVars, Ahead, Listening
  <2>2. QED
    BY <2>1 DEF streamVars, StreamIInv, StagesFit
<1>3. QED
  BY <1>1, <1>2, QuietStep DEF streamVars

-----------------------------------------------------------------------------
(* The invariant of the stream holds in every state: whatever the caller   *)
(* has not collected is ahead of it, in order, and the end chunk is last   *)
(* (call_capability, open_capability_stream and collect_llm_chat against   *)
(* handle_llm_stream_connection).                                          *)
THEOREM StreamInvariant == StreamSpec => []StreamIInv
<1>1. StreamInit => StreamIInv
  BY StreamStart
<1>2. StreamIInv /\ [StreamNext]_streamVars => StreamIInv'
  <2> SUFFICES ASSUME StreamIInv, [StreamNext]_streamVars PROVE StreamIInv'
    OBVIOUS
  <2>1. CASE SendRequest
    BY <2>1, SendRequestStep
  <2>2. CASE CoreStep
    BY <2>2, AnswerRequestStep, ForwardChunkStep, ForwardFailureStep, ForwardEndStep
       DEF CoreStep
  <2>3. CASE CallerStep
    BY <2>3, ReceiveFirstStep, NextEventStep DEF CallerStep
  <2>4. CASE ServiceStops
    BY <2>4, ServiceStopsStep
  <2>5. CASE CoreCrashes
    BY <2>5, CoreCrashesStep
  <2>6. CASE WorkerGone
    BY <2>6, WorkerGoneStep
  <2>7. CASE UNCHANGED streamVars
    BY <2>7, StreamStutter
  <2>8. QED
    BY <2>1, <2>2, <2>3, <2>4, <2>5, <2>6, <2>7 DEF StreamNext
<1>3. QED
  BY <1>1, <1>2, PTL DEF StreamSpec

(* The text a caller has collected is the service's from its beginning,    *)
(* without a gap or a repetition, for any number of chunks (next_chunk,    *)
(* collect_llm_chat).                                                      *)
THEOREM CollectedIsAlwaysAPrefix == StreamSpec => []CollectedIsAPrefix
<1>1. StreamIInv => CollectedIsAPrefix
  BY DEF StreamIInv
<1>2. QED
  BY <1>1, StreamInvariant, PTL

(* A chat that collect_llm_chat returns while the core has not gone down   *)
(* on its own is the whole of what the service sent on the choices of its  *)
(* chunks.  Usage on a chunk without a choice is lost, whatever the        *)
(* documents say (runtime.rs:396-418; told.bare).                          *)
THEOREM OkAlwaysMeansComplete == StreamSpec => []OkMeansComplete
<1>1. StreamIInv => OkMeansComplete
  BY DEF StreamIInv
<1>2. QED
  BY <1>1, StreamInvariant, PTL

-----------------------------------------------------------------------------
(* Files and hosts: the two ways to read a path, as folds over its names.  *)

StepBy(c, components) == Step(components, c)

WalkFold == INSTANCE FoldTheorems WITH step <- StepBy, pick <- Max
BackFold == INSTANCE FoldTheorems WITH step <- Back, pick <- Min

Walked(b, q) == FoldLeft(Step, b, q)
Backed(q, b) == FoldRight(Back, q, b)

\* FoldLeft and FoldRight are folds over the indices.
LEMMA WalkIsFold ==
    ASSUME NEW b, NEW q, NEW n \in Nat, DOMAIN q = 1..n
    PROVE  Walked(b, q) = WalkFold!Fold(b, q, 1..n)
BY DEF Walked, FoldLeft, MapThenFoldSet, WalkFold!Fold, WalkFold!MapThenFoldSet, StepBy, Max

LEMMA BackIsFold ==
    ASSUME NEW b, NEW q, NEW n \in Nat, DOMAIN q = 1..n
    PROVE  Backed(q, b) = BackFold!Fold(b, q, 1..n)
BY DEF Backed, FoldRight, MapThenFoldSet, BackFold!Fold, BackFold!MapThenFoldSet, Min

\* One more name is walked last, and read first.
LEMMA WalkSteps ==
    ASSUME NEW b
    PROVE  /\ Walked(b, <<>>) = b
           /\ \A q \in Seq(Component), c \in Component :
                 Walked(b, Append(q, c)) = Step(Walked(b, q), c)
<1>1. Walked(b, <<>>) = b
  <2>1. DOMAIN <<>> = 1..0 /\ 1..0 = {}
    OBVIOUS
  <2>2. QED
    BY <2>1, WalkIsFold, WalkFold!FoldEmpty
<1>2. ASSUME NEW q \in Seq(Component), NEW c \in Component
      PROVE  Walked(b, Append(q, c)) = Step(Walked(b, q), c)
  <2>1. /\ Len(q) \in Nat /\ Len(q) + 1 \in Nat /\ DOMAIN q = 1..Len(q)
        /\ DOMAIN Append(q, c) = 1..Len(q) + 1
    OBVIOUS
  <2>2. \A n \in Nat : WalkFold!PicksGreatest(n)
    BY DEF WalkFold!PicksGreatest, WalkFold!Max, Max
  <2>3. WalkFold!Fold(b, Append(q, c), 1..Len(q) + 1)
          = StepBy(c, WalkFold!Fold(b, q, 1..Len(q)))
    BY <2>2, WalkFold!FoldLeftAppend
  <2>4. QED
    BY <2>1, <2>3, WalkIsFold DEF StepBy
<1>3. QED
  BY <1>1, <1>2

LEMMA BackSteps ==
    ASSUME NEW b
    PROVE  /\ Backed(<<>>, b) = b
           /\ \A q \in Seq(Component), c \in Component :
                 Backed(Append(q, c), b) = Backed(q, Back(c, b))
<1>1. Backed(<<>>, b) = b
  <2>1. DOMAIN <<>> = 1..0 /\ 1..0 = {}
    OBVIOUS
  <2>2. QED
    <3>1. Backed(<<>>, b) = BackFold!Fold(b, <<>>, {})
      BY <2>1, BackIsFold
    <3>2. QED
      BY <3>1, BackFold!FoldEmpty
<1>2. ASSUME NEW q \in Seq(Component), NEW c \in Component
      PROVE  Backed(Append(q, c), b) = Backed(q, Back(c, b))
  <2>1. /\ Len(q) \in Nat /\ Len(q) + 1 \in Nat /\ DOMAIN q = 1..Len(q)
        /\ DOMAIN Append(q, c) = 1..Len(q) + 1
    OBVIOUS
  <2>2. \A n \in Nat : BackFold!PicksLeast(n)
    BY DEF BackFold!PicksLeast, BackFold!Min, Min
  <2>3. BackFold!Fold(b, Append(q, c), 1..Len(q) + 1)
          = BackFold!Fold(Back(c, b), q, 1..Len(q))
    BY <2>2, BackFold!FoldRightAppend
  <2>4. Backed(Append(q, c), b) = BackFold!Fold(b, Append(q, c), 1..Len(q) + 1)
    BY <2>1, BackIsFold
  <2>5. Backed(q, Back(c, b)) = BackFold!Fold(Back(c, b), q, 1..Len(q))
    BY <2>1, BackIsFold
  <2>6. QED
    BY <2>3, <2>4, <2>5
<1>3. QED
  BY <1>1, <1>2

-----------------------------------------------------------------------------
\* Walking from the root and reading from the end meet: what is kept after the
\* names q were read, when skip names are still to be skipped and those in kept
\* lie behind, is what the walk has below the root without its last skip
\* names, and kept after it.
Below(walk, skip) == IF Len(walk) > skip + 1 THEN Len(walk) - skip - 1 ELSE 0

Meets(walk, skip, kept, read) ==
    LET n == Below(walk, skip)
    IN  /\ read \in Seq(Component)
        /\ Len(read) = n + Len(kept)
        /\ \A i \in 1..n : read[i] = walk[i + 1]
        /\ \A i \in 1..Len(kept) : read[n + i] = kept[i]

FromRoot(walk) ==
    /\ walk \in Seq(Component \cup {Root})
    /\ Len(walk) > 0
    /\ walk[1] = Root
    /\ \A i \in 2..Len(walk) : walk[i] \in Component

Start(skip, kept) == [skip |-> skip, kept |-> kept]

\* A walk from the root stays below it, and the root its first component.
LEMMA StepFromRoot ==
    ASSUME NEW walk, FromRoot(walk), NEW c \in Component
    PROVE  /\ FromRoot(Step(walk, c))
           /\ c # Parent => /\ Len(Step(walk, c)) = Len(walk) + 1
                            /\ Step(walk, c)[Len(walk) + 1] = c
                            /\ \A i \in 1..Len(walk) : Step(walk, c)[i] = walk[i]
           /\ c = Parent /\ Len(walk) > 1 =>
                            /\ Len(Step(walk, c)) = Len(walk) - 1
                            /\ \A i \in 1..Len(walk) - 1 : Step(walk, c)[i] = walk[i]
           /\ c = Parent /\ ~(Len(walk) > 1) => Step(walk, c) = walk
<1>1. /\ walk \in Seq(Component \cup {Root}) /\ Len(walk) \in Nat /\ Len(walk) > 0
      /\ walk[1] = Root /\ \A i \in 2..Len(walk) : walk[i] \in Component
  BY DEF FromRoot
<1>2. CASE c # Parent
  <2>1. Step(walk, c) = Append(walk, c)
    BY <1>2 DEF Step
  <2>2. /\ Append(walk, c) \in Seq(Component \cup {Root})
        /\ Len(Append(walk, c)) = Len(walk) + 1 /\ Append(walk, c)[Len(walk) + 1] = c
        /\ \A i \in 1..Len(walk) : Append(walk, c)[i] = walk[i]
    BY <1>1
  <2>3. QED
    BY <1>1, <1>2, <2>1, <2>2 DEF FromRoot
<1>3. CASE c = Parent /\ Len(walk) > 1
  <2>1. Step(walk, c) = SubSeq(walk, 1, Len(walk) - 1)
    BY <1>3 DEF Step, Front
  <2>2. /\ SubSeq(walk, 1, Len(walk) - 1) \in Seq(Component \cup {Root})
        /\ Len(SubSeq(walk, 1, Len(walk) - 1)) = Len(walk) - 1
        /\ \A i \in 1..Len(walk) - 1 : SubSeq(walk, 1, Len(walk) - 1)[i] = walk[i]
    BY <1>1, <1>3
  <2>3. QED
    BY <1>1, <1>3, <2>1, <2>2 DEF FromRoot
<1>4. CASE c = Parent /\ ~(Len(walk) > 1)
  BY <1>4 DEF Step
<1>5. QED
  BY <1>2, <1>3, <1>4

\* One more name before what lies behind, by the three cases of Back.
LEMMA MeetsGoesOn ==
    ASSUME NEW walk, FromRoot(walk), NEW c \in Component,
           NEW skip \in Nat, NEW kept \in Seq(Component), NEW read,
           LET b == Back(c, Start(skip, kept)) IN Meets(walk, b.skip, b.kept, read)
    PROVE  Meets(Step(walk, c), skip, kept, read)
<1> DEFINE next == Step(walk, c)
           n == Below(next, skip)
<1>1. Len(walk) \in Nat /\ Len(walk) > 0 /\ Len(kept) \in Nat
  BY DEF FromRoot
<1>2. CASE c = Parent
  <2>1. Meets(walk, skip + 1, kept, read)
    BY <1>2 DEF Back, Start
  <2>2. CASE Len(walk) > 1
    <3>1. Len(next) = Len(walk) - 1 /\ \A i \in 1..Len(walk) - 1 : next[i] = walk[i]
      BY <1>2, <2>2, StepFromRoot
    <3> HIDE DEF next
    <3>2. n = Below(walk, skip + 1)
      BY <1>1, <2>2, <3>1 DEF Below
    <3>3. \A i \in 1..n : i + 1 \in 1..Len(walk) - 1
      BY <1>1, <3>1 DEF Below
    <3>4. QED
      BY <2>1, <3>1, <3>2, <3>3 DEF Meets, next
  <2>3. CASE ~(Len(walk) > 1)
    <3>1. next = walk
      BY <1>2, <2>3, StepFromRoot
    <3>2. n = 0 /\ Below(walk, skip + 1) = 0
      BY <1>1, <2>3, <3>1 DEF Below
    <3>3. QED
      BY <2>1, <3>1, <3>2 DEF Meets
  <2>4. QED
    BY <2>2, <2>3
<1>3. ASSUME c # Parent
      PROVE  Meets(next, skip, kept, read)
  <2>1. /\ Len(next) = Len(walk) + 1 /\ next[Len(walk) + 1] = c
        /\ \A i \in 1..Len(walk) : next[i] = walk[i]
    BY <1>3, StepFromRoot
  <2> HIDE DEF next
  <2>2. CASE skip > 0
    <3>1. Meets(walk, skip - 1, kept, read)
      BY <1>3, <2>2 DEF Back, Start
    <3>2. n = Below(walk, skip - 1)
      BY <1>1, <2>1, <2>2 DEF Below
    <3>3. \A i \in 1..n : i + 1 \in 1..Len(walk)
      BY <1>1, <2>1, <2>2 DEF Below
    <3>4. QED
      BY <2>1, <3>1, <3>2, <3>3 DEF Meets
  <2>3. CASE ~(skip > 0)
    <3> DEFINE longer == <<c>> \o kept
    <3>1. skip = 0 /\ Meets(walk, 0, longer, read)
      BY <1>3, <2>3 DEF Back, Start
    <3>2. /\ Len(longer) = Len(kept) + 1 /\ longer[1] = c
          /\ \A i \in 1..Len(kept) : longer[i + 1] = kept[i]
      OBVIOUS
    <3> HIDE DEF longer
    <3> DEFINE m == Below(walk, 0)
    <3>3. m = Len(walk) - 1 /\ n = m + 1 /\ m \in Nat
      <4>1. skip = 0 /\ Len(next) = Len(walk) + 1
        BY <2>1, <2>3
      <4>2. n = IF Len(next) > 0 + 1 THEN Len(next) - 0 - 1 ELSE 0
        BY <4>1 DEF Below
      <4>3. m = IF Len(walk) > 0 + 1 THEN Len(walk) - 0 - 1 ELSE 0
        BY DEF Below
      <4> HIDE DEF m, n
      <4>4. QED
        BY <1>1, <4>1, <4>2, <4>3
    <3>4. /\ read \in Seq(Component) /\ Len(read) = m + Len(longer)
          /\ \A i \in 1..m : read[i] = walk[i + 1]
          /\ \A i \in 1..Len(longer) : read[m + i] = longer[i]
      BY <3>1 DEF Meets
    <3> HIDE DEF m, n
    <3>5. Len(read) = n + Len(kept)
      BY <1>1, <3>2, <3>3, <3>4
    <3>6. \A i \in 1..n : read[i] = next[i + 1]
      <4> SUFFICES ASSUME NEW i \in 1..n
                   PROVE  read[i] = next[i + 1]
        OBVIOUS
      <4>1. CASE i \in 1..m
        <5>1. i + 1 \in 1..Len(walk)
          BY <1>1, <3>3, <4>1
        <5>2. QED
          BY <2>1, <3>4, <4>1, <5>1
      <4>2. CASE i = m + 1
        <5>1. 1 \in 1..Len(longer) /\ i + 1 = Len(walk) + 1
          BY <1>1, <3>2, <3>3, <4>2
        <5>2. QED
          BY <2>1, <3>2, <3>4, <4>2, <5>1
      <4>3. QED
        BY <3>3, <4>1, <4>2
    <3>7. \A i \in 1..Len(kept) : read[n + i] = kept[i]
      <4> SUFFICES ASSUME NEW i \in 1..Len(kept)
                   PROVE  read[n + i] = kept[i]
        OBVIOUS
      <4>1. i + 1 \in 1..Len(longer) /\ n + i = m + (i + 1)
        BY <1>1, <3>2, <3>3
      <4>2. QED
        BY <3>2, <3>4, <4>1
    <3>8. QED
      BY <3>4, <3>5, <3>6, <3>7 DEF Meets, n
  <2>4. QED
    BY <2>2, <2>3
<1>4. QED
  BY <1>2, <1>3

\* By induction over the names.
LEMMA WalkMeets ==
    ASSUME NEW q \in Seq(Component)
    PROVE  /\ FromRoot(Walked(<<Root>>, q))
           /\ \A skip \in Nat, kept \in Seq(Component) :
                 Meets(Walked(<<Root>>, q), skip, kept, Backed(q, Start(skip, kept)).kept)
<1> DEFINE W(s) == Walked(<<Root>>, s)
           Good == {s \in Seq(Component) :
                      /\ FromRoot(W(s))
                      /\ \A skip \in Nat, kept \in Seq(Component) :
                            Meets(W(s), skip, kept, Backed(s, Start(skip, kept)).kept)}
<1>1. <<>> \in Good
  <2>1. W(<<>>) = <<Root>>
    BY WalkSteps
  <2>2. FromRoot(<<Root>>)
    BY DEF FromRoot
  <2>3. ASSUME NEW skip \in Nat, NEW kept \in Seq(Component)
        PROVE  Meets(<<Root>>, skip, kept, Backed(<<>>, Start(skip, kept)).kept)
    <3>1. Backed(<<>>, Start(skip, kept)).kept = kept
      BY BackSteps DEF Start
    <3>2. Below(<<Root>>, skip) = 0
      BY DEF Below
    <3>3. QED
      BY <3>1, <3>2 DEF Meets
  <2> HIDE DEF W
  <2>4. QED
    BY <2>1, <2>2, <2>3
<1>2. ASSUME NEW s \in Seq(Component), NEW c \in Component, s \in Good
      PROVE  Append(s, c) \in Good
  <2>1. /\ FromRoot(W(s))
        /\ \A skip \in Nat, kept \in Seq(Component) :
              Meets(W(s), skip, kept, Backed(s, Start(skip, kept)).kept)
    BY <1>2
  <2>2. W(Append(s, c)) = Step(W(s), c)
    BY WalkSteps
  <2>3. FromRoot(W(Append(s, c)))
    BY <2>1, <2>2, StepFromRoot
  <2>4. ASSUME NEW skip \in Nat, NEW kept \in Seq(Component)
        PROVE  Meets(W(Append(s, c)), skip, kept,
                     Backed(Append(s, c), Start(skip, kept)).kept)
    <3> DEFINE b == Back(c, Start(skip, kept))
    <3>1. b = Start(b.skip, b.kept) /\ b.skip \in Nat /\ b.kept \in Seq(Component)
      <4>1. <<c>> \o kept \in Seq(Component)
        OBVIOUS
      <4>2. CASE c = Parent
        <5>1. b = Start(skip + 1, kept)
          BY <4>2 DEF Back, Start
        <5>2. QED
          BY <5>1 DEF Start
      <4>3. CASE c # Parent /\ skip > 0
        <5>1. b = Start(skip - 1, kept) /\ skip - 1 \in Nat
          BY <4>3 DEF Back, Start
        <5>2. QED
          BY <5>1 DEF Start
      <4>4. CASE c # Parent /\ ~(skip > 0)
        <5> DEFINE longer == <<c>> \o kept
        <5>1. b = Start(skip, longer) /\ longer \in Seq(Component)
          BY <4>1, <4>4 DEF Back, Start
        <5> HIDE DEF longer, b
        <5>2. QED
          BY <5>1 DEF Start
      <4>5. QED
        BY <4>2, <4>3, <4>4
    <3>2. Backed(Append(s, c), Start(skip, kept)) = Backed(s, b)
      BY BackSteps
    <3> HIDE DEF b, W
    <3>3. Meets(W(s), b.skip, b.kept, Backed(s, b).kept)
      BY <2>1, <3>1
    <3>4. Meets(Step(W(s), c), skip, kept, Backed(s, b).kept)
      BY <2>1, <3>3, MeetsGoesOn DEF b
    <3>5. QED
      BY <2>2, <3>2, <3>4
  <2>5. Append(s, c) \in Seq(Component)
    OBVIOUS
  <2> HIDE DEF W
  <2>6. QED
    BY <2>3, <2>4, <2>5
<1>3. Seq(Component) \subseteq Good
  <2> HIDE DEF Good
  <2> QED
    BY <1>1, <1>2, WalkFold!SeqInduction
<1>4. q \in Good
  BY <1>3
<1>5. QED
  BY <1>4

\* What an absolute path reaches is its normal form but for the root.
Names(walk, read) ==
    /\ FromRoot(walk)
    /\ read \in Seq(Component)
    /\ Len(walk) = Len(read) + 1
    /\ \A i \in 1..Len(read) : read[i] = walk[i + 1]

LEMMA AbsoluteNames ==
    ASSUME NEW p \in PathText, p.absolute
    PROVE  /\ Names(NormalizePath(p).components, Reached(p))
           /\ NormalizePath(p) = [components |-> NormalizePath(p).components,
                  slash |-> p.slash /\ NormalizePath(p).components # <<Root>>]
<1> DEFINE walk == Walked(<<Root>>, p.names)
           read == Backed(p.names, Start(0, <<>>)).kept
<1>1. p.names \in Seq(Component) /\ 0 \in Nat /\ <<>> \in Seq(Component)
  BY DEF PathText
<1>2. FromRoot(walk) /\ Meets(walk, 0, <<>>, read)
  BY <1>1, WalkMeets
<1>3. Reached(p) = read
  BY DEF Reached, Backed, Start
<1>4. walk # <<>>
  BY <1>2 DEF FromRoot
<1>5. NormalizePath(p) = [components |-> walk, slash |-> p.slash /\ walk # <<Root>>]
  BY <1>4 DEF NormalizePath, Walked
<1> HIDE DEF walk, read
<1>6. Names(walk, read)
  <2>1. Len(walk) \in Nat /\ Len(walk) > 0
    BY <1>2 DEF FromRoot
  <2>2. Below(walk, 0) = Len(walk) - 1
    BY <2>1 DEF Below
  <2>3. /\ read \in Seq(Component) /\ Len(read) = Len(walk) - 1 + Len(<<>>)
        /\ \A i \in 1..Len(walk) - 1 : read[i] = walk[i + 1]
    BY <1>2, <2>2 DEF Meets
  <2>4. QED
    BY <1>2, <2>1, <2>3 DEF Names
<1>7. QED
  BY <1>3, <1>5, <1>6

\* Equal and longer normal forms are equal and longer paths.
LEMMA NamesAgree ==
    ASSUME NEW u, NEW v, NEW r, NEW s, Names(u, r), Names(v, s)
    PROVE  /\ u = v <=> r = s
           /\ IsPrefix(u, v) <=> IsPrefix(r, s)
           /\ v = <<Root>> <=> s = <<>>
<1>1. /\ u \in Seq(Component \cup {Root}) /\ v \in Seq(Component \cup {Root})
      /\ r \in Seq(Component) /\ s \in Seq(Component)
      /\ Len(u) = Len(r) + 1 /\ Len(v) = Len(s) + 1 /\ u[1] = Root /\ v[1] = Root
      /\ Len(r) \in Nat /\ Len(s) \in Nat
      /\ \A i \in 1..Len(r) : r[i] = u[i + 1]
      /\ \A i \in 1..Len(s) : s[i] = v[i + 1]
  BY DEF Names, FromRoot
<1>2. IsPrefix(u, v) <=> Len(u) <= Len(v) /\ \A i \in 1..Len(u) : u[i] = v[i]
  BY <1>1 DEF IsPrefix
<1>3. IsPrefix(r, s) <=> Len(r) <= Len(s) /\ \A i \in 1..Len(r) : r[i] = s[i]
  BY <1>1 DEF IsPrefix
<1>4. u = v <=> Len(u) = Len(v) /\ \A i \in 1..Len(u) : u[i] = v[i]
  BY <1>1
<1>5. r = s <=> Len(r) = Len(s) /\ \A i \in 1..Len(r) : r[i] = s[i]
  BY <1>1
<1>6. Len(r) <= Len(s) =>
        ((\A i \in 1..Len(u) : u[i] = v[i]) <=> (\A i \in 1..Len(r) : r[i] = s[i]))
  <2> SUFFICES ASSUME Len(r) <= Len(s)
               PROVE  (\A i \in 1..Len(u) : u[i] = v[i]) <=> (\A i \in 1..Len(r) : r[i] = s[i])
    OBVIOUS
  <2>1. ASSUME \A i \in 1..Len(u) : u[i] = v[i], NEW i \in 1..Len(r)
        PROVE  r[i] = s[i]
    <3>1. i + 1 \in 1..Len(u) /\ i \in 1..Len(s)
      BY <1>1
    <3>2. QED
      BY <1>1, <2>1, <3>1
  <2>2. ASSUME \A i \in 1..Len(r) : r[i] = s[i], NEW i \in 1..Len(u)
        PROVE  u[i] = v[i]
    <3>1. CASE i = 1
      BY <1>1, <3>1
    <3>2. CASE i # 1
      <4>1. i - 1 \in 1..Len(r) /\ i - 1 \in 1..Len(s) /\ (i - 1) + 1 = i
        BY <1>1, <3>2
      <4>2. QED
        BY <1>1, <2>2, <4>1
    <3>3. QED
      BY <3>1, <3>2
  <2>3. QED
    BY <2>1, <2>2
<1>7. v = <<Root>> <=> s = <<>>
  BY <1>1
<1>8. QED
  BY <1>1, <1>2, <1>3, <1>4, <1>5, <1>6, <1>7

\* Nothing is left of a relative path when it has nothing but ".." in it.
LEMMA RelativeWalk ==
    ASSUME NEW q \in Seq(Component)
    PROVE  /\ Walked(<<>>, q) \in Seq(Component)
           /\ Walked(<<>>, q) = <<>> <=> \A i \in DOMAIN q : q[i] = Parent
<1> DEFINE W(s) == Walked(<<>>, s)
           Ups(s) == \A i \in DOMAIN s : s[i] = Parent
           Good == {s \in Seq(Component) : W(s) \in Seq(Component) /\ (W(s) = <<>> <=> Ups(s))}
<1>1. <<>> \in Good
  <2>1. W(<<>>) = <<>> /\ Ups(<<>>) /\ <<>> \in Seq(Component)
    BY WalkSteps
  <2> HIDE DEF W, Ups
  <2>2. QED
    BY <2>1
<1>2. ASSUME NEW s \in Seq(Component), NEW c \in Component, s \in Good
      PROVE  Append(s, c) \in Good
  <2>1. W(s) \in Seq(Component) /\ (W(s) = <<>> <=> Ups(s))
    BY <1>2
  <2>2. W(Append(s, c)) = Step(W(s), c)
    BY WalkSteps
  <2>3. Ups(Append(s, c)) <=> Ups(s) /\ c = Parent
    <3>1. /\ DOMAIN s = 1..Len(s) /\ DOMAIN Append(s, c) = 1..Len(s) + 1 /\ Len(s) \in Nat
          /\ Append(s, c)[Len(s) + 1] = c /\ \A i \in 1..Len(s) : Append(s, c)[i] = s[i]
      OBVIOUS
    <3>2. QED
      BY <3>1
  <2>4. Append(s, c) \in Seq(Component)
    OBVIOUS
  <2> HIDE DEF W, Ups
  <2>5. Step(W(s), c) \in Seq(Component) /\ (Step(W(s), c) = <<>> <=> W(s) = <<>> /\ c = Parent)
    BY <2>1 DEF Step, Front
  <2>6. QED
    BY <2>1, <2>2, <2>3, <2>4, <2>5
<1>3. Seq(Component) \subseteq Good
  <2> HIDE DEF Good
  <2> QED
    BY <1>1, <1>2, WalkFold!SeqInduction
<1>4. q \in Good
  BY <1>3
<1>5. QED
  BY <1>4

\* An entry of a manifest and an absolute path that is asked for.
LEMMA AbsoluteMatches ==
    ASSUME NEW entry \in PathText, entry.absolute, NEW p \in PathText, p.absolute
    PROVE  Matches(entry, p) <=> Covers(entry, p)
<1> DEFINE u == NormalizePath(entry).components
           v == NormalizePath(p).components
<1>1. /\ Names(u, Reached(entry)) /\ Names(v, Reached(p))
      /\ NormalizePath(entry) = [components |-> u, slash |-> entry.slash /\ u # <<Root>>]
      /\ NormalizePath(p) = [components |-> v, slash |-> p.slash /\ v # <<Root>>]
  BY AbsoluteNames
<1> HIDE DEF u, v
<1>2. /\ u = v <=> Reached(entry) = Reached(p)
      /\ IsPrefix(u, v) <=> IsPrefix(Reached(entry), Reached(p))
      /\ v = <<Root>> <=> Reached(p) = <<>>
  BY <1>1, NamesAgree
<1>3. entry.slash \in BOOLEAN /\ p.slash \in BOOLEAN
  BY DEF PathText
<1>4. CASE entry.slash
  BY <1>2, <1>4 DEF Matches, Covers, u, v
<1>5. CASE ~entry.slash
  <2>1. Matches(entry, p) <=> NormalizePath(entry) = NormalizePath(p)
    BY <1>5 DEF Matches
  <2>2. NormalizePath(entry) = NormalizePath(p) <=> u = v /\ (FALSE = (p.slash /\ v # <<Root>>))
    BY <1>1, <1>3, <1>5
  <2>3. QED
    BY <1>2, <1>3, <1>5, <2>1, <2>2 DEF Covers
<1>6. QED
  BY <1>3, <1>4, <1>5

\* A relative path is granted as the root or not at all.
LEMMA RelativeMatches ==
    ASSUME NEW entry \in PathText, entry.absolute, NEW p \in PathText, ~p.absolute,
           Matches(entry, p)
    PROVE  TakenForRoot(p) /\ Reached(entry) = <<>>
<1> DEFINE u == NormalizePath(entry).components
           v == NormalizePath(p).components
           walk == Walked(<<>>, p.names)
<1>1. Names(u, Reached(entry))
  BY AbsoluteNames
<1>2. p.names \in Seq(Component)
  BY DEF PathText
<1>3. walk \in Seq(Component) /\ (walk = <<>> <=> TakenForRoot(p))
  BY <1>2, RelativeWalk DEF TakenForRoot
<1>4. v = IF walk = <<>> THEN <<Root>> ELSE walk
  BY DEF NormalizePath, Walked
<1>5. u = v \/ IsPrefix(u, v)
  BY DEF Matches
<1> HIDE DEF u, v, walk
<1>6. /\ u \in Seq(Component \cup {Root}) /\ Len(u) \in Nat /\ Len(u) > 0 /\ u[1] = Root
      /\ Reached(entry) \in Seq(Component) /\ Len(u) = Len(Reached(entry)) + 1
  BY <1>1 DEF Names, FromRoot
<1>7. Len(v) > 0 /\ v[1] = Root /\ Len(u) <= Len(v)
  <2>1. v \in Seq(Component \cup {Root})
    <3>1. walk \in Seq(Component \cup {Root})
      BY <1>3
    <3>2. <<Root>> \in Seq(Component \cup {Root})
      OBVIOUS
    <3>3. QED
      BY <1>4, <3>1, <3>2
  <2>2. CASE u = v
    BY <1>6, <2>2
  <2>3. CASE IsPrefix(u, v)
    <3>1. Len(u) <= Len(v) /\ SubSeq(u, 1, Len(u)) = SubSeq(v, 1, Len(u))
      BY <2>3 DEF IsPrefix
    <3>2. 1 \in 1..Len(u) /\ Len(v) \in Nat
      BY <1>6, <2>1
    <3>3. SubSeq(u, 1, Len(u))[1] = u[1] /\ SubSeq(v, 1, Len(u))[1] = v[1]
      BY <1>6, <2>1, <3>1, <3>2
    <3>4. QED
      BY <1>6, <3>1, <3>2, <3>3
  <2>4. QED
    BY <1>5, <2>2, <2>3
<1>8. walk = <<>>
  <2> SUFFICES ASSUME walk # <<>>
               PROVE  FALSE
    OBVIOUS
  <2>1. v = walk /\ 1 \in 1..Len(walk) /\ walk[1] \in Component
    BY <1>3, <1>4, <1>7
  <2>2. QED
    BY <1>7, <2>1, AccessAssumption
<1>9. Len(Reached(entry)) = 0
  BY <1>4, <1>6, <1>7, <1>8
<1>10. QED
  BY <1>3, <1>6, <1>8, <1>9

-----------------------------------------------------------------------------
\* Who speaks for an app.
LEMMA LoadedManifests ==
    ASSUME NEW dir \in Contents, Loadable(dir)
    PROVE  \A f \in Written(dir) : /\ dir[f] \in Manifest
                                   /\ \A p \in dir[f].paths : p \in PathText /\ p.absolute
<1> SUFFICES ASSUME NEW f \in Written(dir)
             PROVE  /\ dir[f] \in Manifest
                    /\ \A p \in dir[f].paths : p \in PathText /\ p.absolute
  OBVIOUS
<1>1. dir[f] # Unreadable /\ Validate(dir[f]) /\ dir[f] # NoManifest /\ f \in ManifestFile
  BY DEF Loadable, Readable, Written
<1>2. dir[f] \in Manifest
  BY <1>1 DEF Contents
<1>3. dir[f].paths \subseteq PathText
  BY <1>2, AccessAssumption
<1>4. QED
  BY <1>1, <1>2, <1>3 DEF Validate

\* The registry holds for an app the one manifest that names it, or nothing.
LEMMA OneSpeaksForAnApp ==
    ASSUME startedFrom \in Contents, Loadable(startedFrom), registry = Load(startedFrom),
           NEW app
    PROVE  /\ Get(app) = SpeaksFor(app)
           /\ \A m \in Get(app) : m \in Manifest /\ \A p \in m.paths : p \in PathText /\ p.absolute
           /\ \A m, k \in Get(app) : m = k
<1> DEFINE dir == startedFrom
           files == {f \in Written(dir) : dir[f].app = app}
<1>1. \A f, g \in files : f = g
  BY DEF Loadable
<1>2. SpeaksFor(app) = {dir[f] : f \in files}
  <2>1. \A g \in files : files = {g}
    BY <1>1
  <2>2. QED
    BY <2>1 DEF SpeaksFor
<1>3. Get(app) = {dir[f] : f \in files}
  <2>1. DOMAIN registry = {dir[f].app : f \in Written(dir)}
    BY DEF Load
  <2>2. CASE files = {}
    BY <2>1, <2>2 DEF Get
  <2>3. CASE files # {}
    <3>1. PICK f \in files : files = {f}
      BY <1>1, <2>3
    <3>2. app \in DOMAIN registry
      BY <2>1, <3>1
    <3>3. registry[app] = dir[CHOOSE g \in Written(dir) : dir[g].app = app]
      BY <2>1, <3>2 DEF Load
    <3>4. (CHOOSE g \in Written(dir) : dir[g].app = app) \in files
      BY <3>1
    <3>5. registry[app] = dir[f]
      BY <3>1, <3>3, <3>4
    <3>6. QED
      BY <3>1, <3>2, <3>5 DEF Get
  <2>4. QED
    BY <2>2, <2>3
<1>4. QED
  BY <1>1, <1>2, <1>3, LoadedManifests

\* A file or a directory, by the entries of the one manifest.
LEMMA FilesAsDeclared ==
    ASSUME NEW m, \A e \in m.paths : e \in PathText /\ e.absolute, NEW p \in PathText
    PROVE  /\ p.absolute => (CheckFsPermission(m, p) <=> Declares(m, p))
           /\ CheckFsPermission(m, p) => Declares(m, p) \/ (TakenForRoot(p) /\ NamesRoot(m))
<1>1. p.absolute \in BOOLEAN
  BY DEF PathText
<1>2. p.absolute => (CheckFsPermission(m, p) <=> Declares(m, p))
  BY AbsoluteMatches DEF CheckFsPermission, Declares
<1>3. ASSUME ~p.absolute, CheckFsPermission(m, p)
      PROVE  TakenForRoot(p) /\ NamesRoot(m)
  <2>1. PICK e \in m.paths : Matches(e, p)
    BY <1>3 DEF CheckFsPermission
  <2>2. TakenForRoot(p) /\ Reached(e) = <<>>
    BY <1>3, <2>1, RelativeMatches
  <2>3. QED
    BY <2>2 DEF NamesRoot
<1>4. QED
  BY <1>1, <1>2, <1>3

\* The invariant is strong enough.
LEMMA AccessInvariant == AccessIInv => AccessIsAsDeclared
<1> SUFFICES ASSUME AccessIInv
             PROVE  AccessIsAsDeclared
  OBVIOUS
<1>1. ASSUME access.kind = "fs"
      PROVE  FileAccessIsAsDeclared
  <2> DEFINE app == access.app
             p == access.path
  <2>1. access \in FileAccess /\ p \in PathText
    BY <1>1, AccessAssumption DEF AccessIInv, NoAccess, FileAccess, HostAccess
  <2>2. Running
    BY <1>1 DEF AccessIInv, NoAccess
  <2>3. /\ Get(app) = SpeaksFor(app)
        /\ \A m \in Get(app) : \A e \in m.paths : e \in PathText /\ e.absolute
    BY <2>2, OneSpeaksForAnApp DEF AccessIInv
  <2>4. access.granted <=> \E m \in Get(app) : CheckFsPermission(m, p)
    BY <1>1 DEF AccessIInv
  <2>5. \A m \in Get(app) :
            /\ p.absolute => (CheckFsPermission(m, p) <=> Declares(m, p))
            /\ CheckFsPermission(m, p) => Declares(m, p) \/ (TakenForRoot(p) /\ NamesRoot(m))
    BY <2>1, <2>3, FilesAsDeclared
  <2> HIDE DEF p, app
  <2>6. /\ access.granted => (\E m \in SpeaksFor(app) : Declares(m, p))
                              \/ (TakenForRoot(p) /\ \E m \in SpeaksFor(app) : NamesRoot(m))
        /\ (\E m \in SpeaksFor(app) : Declares(m, p)) /\ p.absolute => access.granted
    BY <2>3, <2>4, <2>5
  <2>7. QED
    BY <2>6 DEF FileAccessIsAsDeclared, p, app
<1>2. ASSUME access.kind = "http"
      PROVE  HostAccessIsAsDeclared
  <2>1. Running
    BY <1>2 DEF AccessIInv, NoAccess
  <2>2. Get(access.app) = SpeaksFor(access.app)
    BY <2>1, OneSpeaksForAnApp DEF AccessIInv
  <2>3. QED
    BY <1>2, <2>2 DEF AccessIInv, HostAccessIsAsDeclared
<1>3. QED
  BY <1>1, <1>2 DEF AccessIsAsDeclared, FileAccessIsAsDeclared, HostAccessIsAsDeclared

LEMMA AccessStart == AccessInit => AccessIInv
BY DEF AccessInit, AccessIInv, NoAccess, Contents, Running

\* As long as the core runs on, what a request was decided by stays.
LEMMA AccessStep == AccessIInv /\ [AccessNext]_accessVars => AccessIInv'
<1> SUFFICES ASSUME AccessIInv, [AccessNext]_accessVars
             PROVE  AccessIInv'
  OBVIOUS
<1> USE DEF AccessIInv
<1>1. ASSUME StartCore
      PROVE  AccessIInv'
  BY <1>1 DEF StartCore, Running, NoAccess
<1>2. CASE StartRefused \/ UNCHANGED accessVars
  BY <1>2 DEF StartRefused, accessVars, Running, Get, CheckFsPermission
<1>3. CASE CoreStops
  BY <1>3 DEF CoreStops, Running, NoAccess
<1>4. ASSUME NEW f \in ManifestFile, NEW content \in Manifest \cup {NoManifest, Unreadable},
             EditManifest(f, content)
      PROVE  AccessIInv'
  <2>1. appsDir' \in Contents
    BY <1>4 DEF EditManifest, Contents
  <2>2. QED
    BY <1>4, <2>1 DEF EditManifest, Running, Get, CheckFsPermission
<1>5. ASSUME NEW app \in {m.app : m \in Manifest}, NEW p \in Path, FsRequest(app, p)
      PROVE  AccessIInv'
  <2> DEFINE granted == \E m \in Get(app) : CheckFsPermission(m, p)
  <2>1. access' = [kind |-> "fs", app |-> app, path |-> p, granted |-> granted]
        /\ UNCHANGED <<appsDir, startedFrom, registry>> /\ Running
    BY <1>5 DEF FsRequest
  <2>2. granted \in BOOLEAN
    OBVIOUS
  <2>3. access' \in FileAccess
    <3> HIDE DEF granted
    <3>1. QED
      BY <2>1, <2>2 DEF FileAccess
  <2>4. QED
    BY <2>1, <2>3 DEF Running, Get, CheckFsPermission
<1>6. ASSUME NEW app \in {m.app : m \in Manifest}, NEW host \in Host, HttpRequest(app, host)
      PROVE  AccessIInv'
  <2>1. access' = [kind |-> "http", app |-> app, hosts |-> {host}, hops |-> 0,
                   granted |-> AllowedDomain(app, host), pending |-> AllowedDomain(app, host)]
        /\ UNCHANGED <<appsDir, startedFrom, registry>> /\ Running
    BY <1>6 DEF HttpRequest
  <2>2. AllowedDomain(app, host) \in BOOLEAN
    BY DEF AllowedDomain
  <2>3. access' \in HostAccess
    BY <2>1, <2>2 DEF HostAccess
  <2>4. AllowedDomain(app, host) <=> \E m \in Get(app) : {host} \subseteq m.domains
    BY DEF AllowedDomain
  <2>5. QED
    BY <2>1, <2>3, <2>4, AccessAssumption DEF Running, Get
<1>7. CASE HttpEnds
  <2>1. access \in HostAccess /\ access.kind = "http"
    BY <1>7 DEF HttpEnds, InFlight, NoAccess, FileAccess, HostAccess
  <2>2. access' = [access EXCEPT !.pending = FALSE]
        /\ UNCHANGED <<appsDir, startedFrom, registry>>
    BY <1>7 DEF HttpEnds
  <2>3. /\ access' \in HostAccess /\ access'.kind = "http" /\ access'.pending = FALSE
        /\ access'.app = access.app /\ access'.hosts = access.hosts
        /\ access'.hops = access.hops /\ access'.granted = access.granted
    BY <2>1, <2>2 DEF HostAccess
  <2>4. QED
    BY <2>1, <2>2, <2>3 DEF Running, Get, NoAccess
<1>8. ASSUME NEW host \in Host, RedirectFollowed(host)
      PROVE  AccessIInv'
  <2>1. access \in HostAccess /\ access.kind = "http" /\ access.pending /\ access.granted
    BY <1>8 DEF RedirectFollowed, InFlight, NoAccess, FileAccess, HostAccess
  <2>2. /\ access' = [access EXCEPT !.hosts = access.hosts \cup {host}, !.hops = access.hops + 1]
        /\ UNCHANGED <<appsDir, startedFrom, registry>>
        /\ access.hops + 1 < MaxRedirects /\ AllowedDomain(access.app, host)
    BY <1>8 DEF RedirectFollowed
  <2>3. /\ access' \in HostAccess /\ access'.kind = "http" /\ access'.pending = access.pending
        /\ access'.app = access.app /\ access'.hosts = access.hosts \cup {host}
        /\ access'.hops = access.hops + 1 /\ access'.granted = access.granted
    <3> DEFINE hosts == access.hosts \cup {host}
               hops == access.hops + 1
               b == [access EXCEPT !.hosts = hosts, !.hops = hops]
    <3>1. hosts \in SUBSET Host /\ hops \in Nat /\ access \in HostAccess
      BY <2>1 DEF HostAccess
    <3>2. access' = b
      BY <2>2
    <3> HIDE DEF hosts, hops, AccessIInv
    <3>3. /\ b \in HostAccess /\ b.kind = "http" /\ b.pending = access.pending
          /\ b.app = access.app /\ b.hosts = hosts /\ b.hops = hops /\ b.granted = access.granted
      BY <3>1 DEF HostAccess
    <3> HIDE DEF b
    <3>4. QED
      BY <3>2, <3>3 DEF hosts, hops
  <2>4. Running /\ \A m, k \in Get(access.app) : m = k
    BY <2>1, OneSpeaksForAnApp DEF NoAccess
  <2>5. \E m \in Get(access.app) : access.hosts \cup {host} \subseteq m.domains
    <3>1. PICK m \in Get(access.app) : access.hosts \subseteq m.domains
      BY <2>1
    <3>2. PICK k \in Get(access.app) : host \in k.domains
      BY <2>2 DEF AllowedDomain
    <3>3. m = k
      BY <2>4
    <3>4. QED
      BY <3>1, <3>2, <3>3
  <2>6. Get(access.app)' = Get(access.app)
    BY <2>2, <2>3 DEF Get
  <2>7. QED
    BY <2>1, <2>2, <2>3, <2>4, <2>5, <2>6 DEF Running, NoAccess
<1>9. QED
  BY <1>1, <1>2, <1>3, <1>4, <1>5, <1>6, <1>7, <1>8
     DEF AccessNext, Responds, RedirectStopped, RedirectRefused

(* Whatever the user edits, however a path winds and wherever a server     *)
(* redirects to, an app gets at what its manifest declared when the core   *)
(* started, and at nothing else but for the one exception of the property. *)
THEOREM AccessIsAlwaysAsDeclared == AccessSpec => []AccessIsAsDeclared
<1>1. QED
  BY AccessStart, AccessStep, AccessInvariant, PTL DEF AccessSpec

-----------------------------------------------------------------------------
(* The records of use, as folds over them.                                 *)

CountRecord(r, sum) == CountIn(sum, r)
AddRecord(r, sum) == AddTotal(sum, r)
AddRequests(use, sum) == use.requests + sum
AddTokens(use, sum) == use.total_tokens + sum
AnyOf(s) == CHOOSE x \in s : TRUE

UseFold == INSTANCE FoldTheorems WITH step <- CountRecord, pick <- Max
TotalFold == INSTANCE FoldTheorems WITH step <- AddRecord, pick <- Max
RequestSum == INSTANCE FoldTheorems WITH step <- AddRequests, pick <- AnyOf
TokenSum == INSTANCE FoldTheorems WITH step <- AddTokens, pick <- AnyOf

Use(q) == FoldLeft(CountIn, NoUse, q)
RoleUse == [requests: Nat, total_tokens: Nat]
Uses == [requests: Nat, prompt: Nat, completion: Nat, by_role: [UsageRole -> RoleUse]]
Requests(f) == MapThenSumSet(LAMBDA role : f[role].requests, UsageRole)
Tokens(f) == MapThenSumSet(LAMBDA role : f[role].total_tokens, UsageRole)

\* The loop of summary and the sums over records and roles are folds.
LEMMA UseIsFold ==
    ASSUME NEW q, NEW n \in Nat, DOMAIN q = 1..n
    PROVE  Use(q) = UseFold!Fold(NoUse, q, 1..n)
BY DEF Use, FoldLeft, MapThenFoldSet, UseFold!Fold, UseFold!MapThenFoldSet, CountRecord, Max

LEMMA TotalsIsFold ==
    ASSUME NEW q, NEW n \in Nat, DOMAIN q = 1..n
    PROVE  Totals(q) = TotalFold!Fold(0, q, 1..n)
BY DEF Totals, FoldLeft, MapThenFoldSet, TotalFold!Fold, TotalFold!MapThenFoldSet, AddRecord, Max

LEMMA RequestsIsFold ==
    ASSUME NEW f
    PROVE  Requests(f) = RequestSum!Fold(0, f, UsageRole)
BY DEF Requests, MapThenSumSet, MapThenFoldSet, RequestSum!Fold, RequestSum!MapThenFoldSet,
       AddRequests, AnyOf

LEMMA TokensIsFold ==
    ASSUME NEW f
    PROVE  Tokens(f) = TokenSum!Fold(0, f, UsageRole)
BY DEF Tokens, MapThenSumSet, MapThenFoldSet, TokenSum!Fold, TokenSum!MapThenFoldSet,
       AddTokens, AnyOf

LEMMA UseOfNone == Use(<<>>) = NoUse /\ Totals(<<>>) = 0
<1>1. DOMAIN <<>> = 1..0 /\ 1..0 = {}
  OBVIOUS
<1>2. Use(<<>>) = UseFold!Fold(NoUse, <<>>, {}) /\ Totals(<<>>) = TotalFold!Fold(0, <<>>, {})
  BY <1>1, UseIsFold, TotalsIsFold
<1>3. QED
  BY <1>2, UseFold!FoldEmpty, TotalFold!FoldEmpty

\* A record more is one turn more of the loop.
LEMMA UseOfOneMore ==
    ASSUME NEW q \in Seq(UsageRecord), NEW e \in UsageRecord
    PROVE  /\ Use(Append(q, e)) = CountIn(Use(q), e)
           /\ Totals(Append(q, e)) = Totals(q) + e.total
<1>1. /\ Len(q) \in Nat /\ Len(q) + 1 \in Nat /\ DOMAIN q = 1..Len(q)
      /\ DOMAIN Append(q, e) = 1..Len(q) + 1
  OBVIOUS
<1>2. \A n \in Nat : UseFold!PicksGreatest(n) /\ TotalFold!PicksGreatest(n)
  BY DEF UseFold!PicksGreatest, TotalFold!PicksGreatest, UseFold!Max, TotalFold!Max, Max
<1>3. UseFold!Fold(NoUse, Append(q, e), 1..Len(q) + 1)
        = CountRecord(e, UseFold!Fold(NoUse, q, 1..Len(q)))
  BY <1>2, UseFold!FoldLeftAppend
<1>4. TotalFold!Fold(0, Append(q, e), 1..Len(q) + 1)
        = AddRecord(e, TotalFold!Fold(0, q, 1..Len(q)))
  BY <1>2, TotalFold!FoldLeftAppend
<1>5. /\ Use(q) = UseFold!Fold(NoUse, q, 1..Len(q))
      /\ Use(Append(q, e)) = UseFold!Fold(NoUse, Append(q, e), 1..Len(q) + 1)
  BY <1>1, UseIsFold
<1>6. /\ Totals(q) = TotalFold!Fold(0, q, 1..Len(q))
      /\ Totals(Append(q, e)) = TotalFold!Fold(0, Append(q, e), 1..Len(q) + 1)
  BY <1>1, TotalsIsFold
<1>7. QED
  BY <1>3, <1>4, <1>5, <1>6 DEF CountRecord, AddRecord, AddTotal

LEMMA AnyIsPicked ==
    ASSUME NEW S
    PROVE  \A s \in SUBSET S : s # {} => AnyOf(s) \in s
BY DEF AnyOf

LEMMA Finite ==
    ASSUME NEW S, IsFiniteSet(S)
    PROVE  RequestSum!IsFiniteSet(S) /\ TokenSum!IsFiniteSet(S)
BY DEF IsFiniteSet, RequestSum!IsFiniteSet, TokenSum!IsFiniteSet

\* Only the role that grew counts.
LEMMA RolesGrow ==
    ASSUME NEW f \in [UsageRole -> RoleUse], NEW g \in [UsageRole -> RoleUse],
           NEW role \in UsageRole, NEW d \in Nat, NEW t \in Nat,
           g[role] = [requests |-> f[role].requests + d,
                      total_tokens |-> f[role].total_tokens + t],
           \A x \in UsageRole : x # role => g[x] = f[x]
    PROVE  /\ Requests(f) \in Nat /\ Requests(g) = Requests(f) + d
           /\ Tokens(f) \in Nat /\ Tokens(g) = Tokens(f) + t
<1>1. /\ RequestSum!IsFiniteSet(UsageRole) /\ RequestSum!Picks(UsageRole)
      /\ TokenSum!IsFiniteSet(UsageRole) /\ TokenSum!Picks(UsageRole)
  BY UsageAssumption, Finite, AnyIsPicked DEF RequestSum!Picks, TokenSum!Picks
<1>2. \A x \in UsageRole : f[x].requests \in Nat /\ f[x].total_tokens \in Nat
  BY DEF RoleUse
<1>3. Requests(f) \in Nat /\ Requests(g) = Requests(f) + d
  <2>1. \A x \in UsageRole : \A n \in Nat :
            /\ AddRequests(f[x], n) \in Nat
            /\ AddRequests(f[x], n + d) = AddRequests(f[x], n) + d
    BY <1>2 DEF AddRequests
  <2>2. \A n \in Nat : AddRequests(g[role], n) = AddRequests(f[role], n) + d
    BY <1>2 DEF AddRequests
  <2>3. /\ RequestSum!Fold(0, f, UsageRole) \in Nat
        /\ RequestSum!Fold(0, g, UsageRole) = RequestSum!Fold(0, f, UsageRole) + d
    <3>1. RequestSum!Grown(f, g, UsageRole, role, d)
      BY <2>1, <2>2 DEF RequestSum!Grown
    <3>2. QED
      BY <1>1, <3>1, RequestSum!FoldGrows
  <2>4. QED
    BY <2>3, RequestsIsFold
<1>4. Tokens(f) \in Nat /\ Tokens(g) = Tokens(f) + t
  <2>1. \A x \in UsageRole : \A n \in Nat :
            /\ AddTokens(f[x], n) \in Nat
            /\ AddTokens(f[x], n + t) = AddTokens(f[x], n) + t
    BY <1>2 DEF AddTokens
  <2>2. \A n \in Nat : AddTokens(g[role], n) = AddTokens(f[role], n) + t
    BY <1>2 DEF AddTokens
  <2>3. /\ TokenSum!Fold(0, f, UsageRole) \in Nat
        /\ TokenSum!Fold(0, g, UsageRole) = TokenSum!Fold(0, f, UsageRole) + t
    <3>1. TokenSum!Grown(f, g, UsageRole, role, t)
      BY <2>1, <2>2 DEF TokenSum!Grown
    <3>2. QED
      BY <1>1, <3>1, TokenSum!FoldGrows
  <2>4. QED
    BY <2>3, TokensIsFold
<1>5. QED
  BY <1>3, <1>4

\* The sums over the roles begin at zero.
LEMMA NothingSummed == Requests(NoUse.by_role) = 0 /\ Tokens(NoUse.by_role) = 0
<1> DEFINE f == NoUse.by_role
<1>1. /\ RequestSum!IsFiniteSet(UsageRole) /\ RequestSum!Picks(UsageRole)
      /\ TokenSum!IsFiniteSet(UsageRole) /\ TokenSum!Picks(UsageRole)
  BY UsageAssumption, Finite, AnyIsPicked DEF RequestSum!Picks, TokenSum!Picks
<1>2. \A x \in UsageRole : AddRequests(f[x], 0) = 0 /\ AddTokens(f[x], 0) = 0
  BY DEF NoUse, AddRequests, AddTokens
<1> HIDE DEF f
<1>3. RequestSum!Fold(0, f, UsageRole) = 0
  BY <1>1, <1>2, RequestSum!FoldOfNothing
<1>4. TokenSum!Fold(0, f, UsageRole) = 0
  BY <1>1, <1>2, TokenSum!FoldOfNothing
<1>5. QED
  BY <1>3, <1>4, RequestsIsFold, TokensIsFold DEF f

-----------------------------------------------------------------------------
Wrapped(q) == {i \in DOMAIN q : Overflows(q[i].prompt, q[i].completion)}

Latest(q, limit) ==
    LET start == IF Len(q) > limit THEN Len(q) - limit ELSE 0
    IN  SubSeq(q, start + 1, Len(q))

\* What a list of records and the tokens charged for it have to do with each
\* other.
Exact(q, tokens) ==
    LET sum == Use(q)
    IN  /\ sum \in Uses
        /\ sum.requests = Len(q)
        /\ sum.prompt + sum.completion = tokens
        /\ Requests(sum.by_role) = Len(q)
        /\ Tokens(sum.by_role) + TokenLimit * Cardinality(Wrapped(q)) = tokens
        /\ \A limit \in Nat : Totals(Latest(q, limit)) \in Nat
                              /\ Totals(Latest(q, limit)) <= tokens

UsageIInv == UsageTypeOK /\ chats.calls = Len(records) /\ Exact(records, chats.tokens)

\* Empty records are exact.
LEMMA NoneIsExact == Exact(<<>>, 0)
<1>1. Use(<<>>) = NoUse /\ NoUse \in Uses
  BY UseOfNone DEF NoUse, Uses, RoleUse
<1>2. Wrapped(<<>>) = {} /\ Cardinality({}) = 0 /\ TokenLimit * 0 = 0
  BY FS_EmptySet, UsageAssumption DEF Wrapped
<1>3. \A limit \in Nat : Latest(<<>>, limit) = <<>>
  BY DEF Latest
<1>4. Requests(Use(<<>>).by_role) = 0 /\ Tokens(Use(<<>>).by_role) = 0
  BY <1>1, NothingSummed
<1>5. \A limit \in Nat : Totals(Latest(<<>>, limit)) = 0
  BY <1>3, UseOfNone
<1>6. Use(<<>>).requests = 0 /\ Use(<<>>).prompt = 0 /\ Use(<<>>).completion = 0
  BY <1>1 DEF NoUse
<1>7. Len(<<>>) = 0
  OBVIOUS
<1>8. QED
  <2> DEFINE sum == Use(<<>>)
  <2>1. sum \in Uses /\ sum.requests = Len(<<>>) /\ sum.prompt + sum.completion = 0
    BY <1>1, <1>6, <1>7
  <2>2. TokenLimit * Cardinality(Wrapped(<<>>)) = 0
    BY <1>2
  <2>3. Tokens(sum.by_role) + TokenLimit * Cardinality(Wrapped(<<>>)) = 0
    BY <1>4, <2>2
  <2>4. \A limit \in Nat : Totals(Latest(<<>>, limit)) \in Nat
                          /\ Totals(Latest(<<>>, limit)) <= 0
    BY <1>5
  <2>5. Requests(sum.by_role) = Len(<<>>)
    BY <1>4, <1>7
  <2> HIDE DEF sum
  <2>6. QED
    BY <2>1, <2>3, <2>4, <2>5 DEF Exact, sum

\* The latest limit records are the last one after the latest limit - 1 before.
LEMMA LatestOfOneMore ==
    ASSUME NEW q \in Seq(UsageRecord), NEW e \in UsageRecord, NEW limit \in Nat
    PROVE  /\ Latest(q, limit) \in Seq(UsageRecord)
           /\ limit = 0 => Latest(Append(q, e), limit) = <<>>
           /\ limit # 0 => Latest(Append(q, e), limit) = Append(Latest(q, limit - 1), e)
<1> DEFINE n == Len(q)
           long == Append(q, e)
<1>1. /\ n \in Nat /\ q \in [1..n -> UsageRecord]
      /\ long \in Seq(UsageRecord) /\ Len(long) = n + 1 /\ long[n + 1] = e
      /\ \A i \in 1..n : long[i] = q[i]
  OBVIOUS
<1>2. Latest(q, limit) \in Seq(UsageRecord)
  BY <1>1 DEF Latest
<1>6. n = Len(q)
  OBVIOUS
<1> HIDE DEF n, long
<1>3. ASSUME limit = 0
      PROVE  Latest(long, limit) = <<>>
  <2>1. Latest(long, 0) = SubSeq(long, n + 2, n + 1)
    <3>1. Latest(long, 0) = SubSeq(long, (n + 1 - 0) + 1, n + 1)
      BY <1>1 DEF Latest
    <3>2. (n + 1 - 0) + 1 = n + 2
      BY <1>1
    <3>3. QED
      BY <3>1, <3>2
  <2>2. QED
    BY <1>1, <1>3, <2>1
<1>4. ASSUME limit # 0
      PROVE  Latest(long, limit) = Append(Latest(q, limit - 1), e)
  <2>1. PICK m \in 1..n + 1 : /\ Latest(long, limit) = SubSeq(long, m, n + 1)
                             /\ Latest(q, limit - 1) = SubSeq(q, m, n)
    <3>1. CASE n + 1 > limit
      <4>1. n + 1 - limit + 1 \in 1..n + 1 /\ n > limit - 1
            /\ n - (limit - 1) + 1 = n + 1 - limit + 1
        BY <1>1, <1>4, <3>1
      <4>2. Latest(long, limit) = SubSeq(long, n + 1 - limit + 1, n + 1)
        BY <1>1, <3>1 DEF Latest
      <4>3. Latest(q, limit - 1) = SubSeq(q, n - (limit - 1) + 1, n)
        BY <1>6, <4>1 DEF Latest
      <4>4. QED
        BY <4>1, <4>2, <4>3
    <3>2. CASE ~(n + 1 > limit)
      <4>1. ~(n > limit - 1) /\ 0 + 1 \in 1..n + 1
        BY <1>1, <1>4, <3>2
      <4>2. Latest(long, limit) = SubSeq(long, 0 + 1, n + 1)
        BY <1>1, <3>2 DEF Latest
      <4>3. Latest(q, limit - 1) = SubSeq(q, 0 + 1, n)
        BY <1>6, <4>1 DEF Latest
      <4>4. QED
        BY <4>1, <4>2, <4>3
    <3>3. QED
      BY <3>1, <3>2
  <2>2. SubSeq(long, m, n + 1) = Append(SubSeq(q, m, n), e)
    BY <1>1
  <2>3. QED
    BY <2>1, <2>2
<1>5. QED
  BY <1>2, <1>3, <1>4 DEF long

\* One more record wraps or does not.
LEMMA WrappedByOneMore ==
    ASSUME NEW q \in Seq(UsageRecord), NEW e \in UsageRecord
    PROVE  /\ Cardinality(Wrapped(q)) \in Nat
           /\ Cardinality(Wrapped(Append(q, e)))
                = Cardinality(Wrapped(q)) + (IF Overflows(e.prompt, e.completion) THEN 1 ELSE 0)
<1> DEFINE n == Len(q)
           W == Wrapped(q)
<1>1. n \in Nat /\ DOMAIN q = 1..n /\ DOMAIN Append(q, e) = 1..n + 1
  OBVIOUS
<1>2. W \in SUBSET (1..n) /\ n + 1 \notin W
  BY <1>1 DEF Wrapped
<1>3. IsFiniteSet(W) /\ Cardinality(W) \in Nat
  <2>1. IsFiniteSet(1..n)
    BY <1>1, FS_Interval
  <2> HIDE DEF W
  <2>2. IsFiniteSet(W)
    BY <1>2, <2>1, FS_Subset
  <2>3. QED
    BY <2>2, FS_CardinalityType
<1>4. Append(q, e)[n + 1] = e /\ \A i \in 1..n : Append(q, e)[i] = q[i]
  BY <1>1
<1>5. Wrapped(Append(q, e))
        = IF Overflows(e.prompt, e.completion) THEN W \cup {n + 1} ELSE W
  BY <1>1, <1>4 DEF Wrapped
<1>6. Cardinality(W \cup {n + 1}) = Cardinality(W) + 1
  <2> HIDE DEF W, n
  <2> QED
    BY <1>2, <1>3, FS_AddElement
<1>7. QED
  BY <1>3, <1>5, <1>6

\* Addition in u32: what is lost is 2^32 or nothing.
LEMMA Wrapping ==
    ASSUME NEW prompt \in Token, NEW completion \in Token
    PROVE  /\ (prompt + completion) % TokenLimit \in Token
           /\ prompt + completion = ((prompt + completion) % TokenLimit)
                  + (IF Overflows(prompt, completion) THEN TokenLimit ELSE 0)
BY UsageAssumption DEF Token, Overflows

LEMMA Distributes ==
    \A a, c \in Nat : a * c \in Nat /\ a * (c + 1) = a * c + a
OBVIOUS

\* What one turn of the loop does to each of the sums.
LEMMA Counting ==
    ASSUME NEW sum \in Uses, NEW e \in UsageRecord
    PROVE  LET more == CountIn(sum, e)
               old == sum.by_role[e.role]
           IN  /\ more \in Uses
               /\ more.requests = sum.requests + 1
               /\ more.prompt = sum.prompt + e.prompt
               /\ more.completion = sum.completion + e.completion
               /\ more.by_role = [sum.by_role EXCEPT ![e.role] =
                      [requests |-> old.requests + 1, total_tokens |-> old.total_tokens + e.total]]
<1> DEFINE old == sum.by_role[e.role]
           own == [requests |-> old.requests + 1, total_tokens |-> old.total_tokens + e.total]
           roles == [sum.by_role EXCEPT ![e.role] = own]
<1>1. /\ sum.requests \in Nat /\ sum.prompt \in Nat /\ sum.completion \in Nat
      /\ sum.by_role \in [UsageRole -> RoleUse]
      /\ e.role \in UsageRole /\ e.prompt \in Nat /\ e.completion \in Nat /\ e.total \in Nat
  BY UsageAssumption DEF Uses, UsageRecord, Token
<1>2. old.requests \in Nat /\ old.total_tokens \in Nat
  BY <1>1 DEF RoleUse
<1>3. own \in RoleUse
  BY <1>1, <1>2 DEF RoleUse
<1>4. CountIn(sum, e)
        = [[[[sum EXCEPT !.requests = sum.requests + 1]
              EXCEPT !.prompt = sum.prompt + e.prompt]
             EXCEPT !.completion = sum.completion + e.completion]
            EXCEPT !.by_role = roles]
  BY <1>1 DEF CountIn, Uses
<1> HIDE DEF own
<1>5. roles \in [UsageRole -> RoleUse]
  BY <1>1, <1>3
<1> HIDE DEF roles
<1>6. sum = [requests |-> sum.requests, prompt |-> sum.prompt,
             completion |-> sum.completion, by_role |-> sum.by_role]
  BY DEF Uses
<1>7. CountIn(sum, e)
        = [requests |-> sum.requests + 1, prompt |-> sum.prompt + e.prompt,
           completion |-> sum.completion + e.completion, by_role |-> roles]
  BY <1>4, <1>6
<1>8. QED
  BY <1>1, <1>5, <1>7 DEF Uses, roles, own

\* Sums of sums.
LEMMA Adds ==
    \A p, c, t, u, v \in Nat : p + c = t => (p + u) + (c + v) = t + u + v
OBVIOUS

LEMMA AddsUp ==
    \A s, a, t, p, c, r, o \in Nat :
        s + a = t /\ p + c = r + o => (s + r) + (a + o) = t + p + c
OBVIOUS

\* What record appends.
RecordOf(role, prompt, completion) ==
    [role |-> role, prompt |-> prompt, completion |-> completion,
     total |-> (prompt + completion) % TokenLimit]

\* A record more is charged for in full.
LEMMA OneMoreIsExact ==
    ASSUME NEW q \in Seq(UsageRecord), NEW tokens \in Nat, Exact(q, tokens),
           NEW role \in UsageRole, NEW prompt \in Token, NEW completion \in Token,
           NEW e, e = RecordOf(role, prompt, completion)
    PROVE  /\ e \in UsageRecord
           /\ Exact(Append(q, e), tokens + prompt + completion)
<1> DEFINE sum == Use(q)
           more == CountIn(sum, e)
           old == sum.by_role[role]
           long == Append(q, e)
<1>1. prompt \in Nat /\ completion \in Nat /\ e.total \in Nat /\ e \in UsageRecord
  BY Wrapping, UsageAssumption DEF Token, UsageRecord, RecordOf
<1>2. /\ e.role = role /\ e.prompt = prompt /\ e.completion = completion
      /\ prompt + completion
           = e.total + (IF Overflows(e.prompt, e.completion) THEN TokenLimit ELSE 0)
  BY Wrapping DEF RecordOf
<1>3. /\ sum \in Uses /\ sum.requests = Len(q) /\ sum.prompt + sum.completion = tokens
      /\ Requests(sum.by_role) = Len(q)
      /\ Tokens(sum.by_role) + TokenLimit * Cardinality(Wrapped(q)) = tokens
      /\ \A limit \in Nat : Totals(Latest(q, limit)) \in Nat
                            /\ Totals(Latest(q, limit)) <= tokens
  BY DEF Exact
<1>4. Use(long) = more
  BY <1>1, UseOfOneMore
<1>5. Len(long) = Len(q) + 1 /\ Len(q) \in Nat
  OBVIOUS
<1>6. /\ sum.requests \in Nat /\ sum.prompt \in Nat /\ sum.completion \in Nat
      /\ sum.by_role \in [UsageRole -> RoleUse]
      /\ old.requests \in Nat /\ old.total_tokens \in Nat
  BY <1>3 DEF Uses, RoleUse
<1>7. /\ more \in Uses /\ more.requests = sum.requests + 1
      /\ more.prompt = sum.prompt + prompt /\ more.completion = sum.completion + completion
      /\ more.by_role = [sum.by_role EXCEPT ![role] =
             [requests |-> old.requests + 1, total_tokens |-> old.total_tokens + e.total]]
  <2> HIDE DEF sum
  <2>1. sum \in Uses /\ e \in UsageRecord /\ e.role = role
    BY <1>1, <1>2, <1>3
  <2>2. /\ CountIn(sum, e) \in Uses
        /\ CountIn(sum, e).requests = sum.requests + 1
        /\ CountIn(sum, e).prompt = sum.prompt + e.prompt
        /\ CountIn(sum, e).completion = sum.completion + e.completion
        /\ CountIn(sum, e).by_role = [sum.by_role EXCEPT ![e.role] =
               [requests |-> sum.by_role[e.role].requests + 1,
                total_tokens |-> sum.by_role[e.role].total_tokens + e.total]]
    BY <2>1, Counting
  <2>3. QED
    BY <1>2, <2>1, <2>2
<1> HIDE DEF sum, more, long
<1>8. /\ Requests(more.by_role) = Requests(sum.by_role) + 1
      /\ Tokens(more.by_role) = Tokens(sum.by_role) + e.total
      /\ Tokens(sum.by_role) \in Nat
  <2>1. /\ sum.by_role \in [UsageRole -> RoleUse] /\ more.by_role \in [UsageRole -> RoleUse]
    BY <1>6, <1>7 DEF Uses
  <2>2. more.by_role[role] = [requests |-> sum.by_role[role].requests + 1,
                              total_tokens |-> sum.by_role[role].total_tokens + e.total]
    BY <1>6, <1>7
  <2>3. \A x \in UsageRole : x # role => more.by_role[x] = sum.by_role[x]
    BY <1>6, <1>7
  <2>4. 1 \in Nat
    OBVIOUS
  <2>5. QED
    BY <1>1, <2>1, <2>2, <2>3, <2>4, RolesGrow
<1>9. Tokens(more.by_role) + TokenLimit * Cardinality(Wrapped(long))
        = tokens + prompt + completion
  <2> DEFINE c == Cardinality(Wrapped(q))
  <2>1. c \in Nat /\ Cardinality(Wrapped(long))
                       = c + (IF Overflows(e.prompt, e.completion) THEN 1 ELSE 0)
    BY <1>1, WrappedByOneMore DEF long
  <2>2. TokenLimit \in Nat
    BY UsageAssumption
  <2>3. /\ TokenLimit * c \in Nat /\ TokenLimit * (c + 1) = TokenLimit * c + TokenLimit
    BY <2>1, <2>2, Distributes
  <2>4. TokenLimit * Cardinality(Wrapped(long))
          = TokenLimit * c + (IF Overflows(e.prompt, e.completion) THEN TokenLimit ELSE 0)
    <3>1. c + 0 = c /\ TokenLimit * c + 0 = TokenLimit * c
      BY <2>1, <2>3
    <3>2. QED
      BY <2>1, <2>3, <3>1
  <2>5. Tokens(sum.by_role) + TokenLimit * c = tokens
    BY <1>3
  <2> DEFINE a == TokenLimit * c
             w == TokenLimit * Cardinality(Wrapped(long))
             s == Tokens(sum.by_role)
             m == Tokens(more.by_role)
  <2>6. /\ a \in Nat /\ s \in Nat /\ s + a = tokens /\ m = s + e.total
        /\ w = a + (IF Overflows(e.prompt, e.completion) THEN TokenLimit ELSE 0)
    BY <1>8, <2>3, <2>4, <2>5
  <2> HIDE DEF a, w, s, m
  <2> DEFINE o == IF Overflows(e.prompt, e.completion) THEN TokenLimit ELSE 0
  <2>7. o \in Nat /\ prompt + completion = e.total + o /\ w = a + o
    BY <1>2, <2>2, <2>6
  <2> HIDE DEF o
  <2>8. (s + e.total) + (a + o) = tokens + prompt + completion
    BY <1>1, <2>6, <2>7, AddsUp
  <2>9. QED
    BY <2>6, <2>7, <2>8 DEF m, w
<1>10. \A limit \in Nat : Totals(Latest(long, limit)) \in Nat
                          /\ Totals(Latest(long, limit)) <= tokens + prompt + completion
  <2> SUFFICES ASSUME NEW limit \in Nat
               PROVE  Totals(Latest(long, limit)) \in Nat
                      /\ Totals(Latest(long, limit)) <= tokens + prompt + completion
    OBVIOUS
  <2>1. CASE limit = 0
    <3>1. Latest(long, limit) = <<>>
      BY <1>1, <2>1, LatestOfOneMore DEF long
    <3>2. QED
      BY <1>1, <3>1, UseOfNone
  <2>2. CASE limit # 0
    <3>1. Latest(long, limit) = Append(Latest(q, limit - 1), e)
      BY <1>1, <2>2, LatestOfOneMore DEF long
    <3>2. limit - 1 \in Nat
      BY <2>2
    <3>3. Latest(q, limit - 1) \in Seq(UsageRecord)
      BY <1>1, <3>2, LatestOfOneMore
    <3>4. Totals(Latest(long, limit)) = Totals(Latest(q, limit - 1)) + e.total
      BY <1>1, <3>1, <3>3, UseOfOneMore
    <3>5. e.total <= prompt + completion
      BY <1>1, <1>2, UsageAssumption
    <3>6. /\ Totals(Latest(q, limit - 1)) \in Nat
          /\ Totals(Latest(q, limit - 1)) <= tokens
      BY <1>3, <3>2
    <3>7. QED
      BY <1>1, <3>4, <3>5, <3>6
  <2>3. QED
    BY <2>1, <2>2
<1>11. more.prompt + more.completion = tokens + prompt + completion
  <2>1. /\ more.prompt = sum.prompt + prompt
        /\ more.completion = sum.completion + completion
        /\ sum.prompt + sum.completion = tokens
    BY <1>3, <1>7
  <2>2. QED
    BY <1>1, <1>6, <2>1, Adds
<1>12. Exact(long, tokens + prompt + completion)
  BY <1>3, <1>4, <1>5, <1>7, <1>8, <1>9, <1>10, <1>11 DEF Exact
<1>13. QED
  BY <1>1, <1>12 DEF long

LEMMA UsageStep == UsageIInv /\ [UsageNext]_usageVars => UsageIInv'
<1> SUFFICES ASSUME UsageIInv, [UsageNext]_usageVars
             PROVE  UsageIInv'
  OBVIOUS
<1>1. /\ records \in Seq(UsageRecord) /\ chats \in Charge /\ others \in Charge
      /\ chats.calls = Len(records) /\ Exact(records, chats.tokens)
  BY DEF UsageIInv, UsageTypeOK
<1>2. CASE Emptied
  <2>1. /\ records' \in Seq(UsageRecord) /\ chats' \in Charge /\ others' \in Charge
        /\ chats'.calls = Len(records')
    BY <1>2 DEF Emptied, Charge, NoCharge
  <2>2. records' = <<>> /\ chats'.tokens = 0
    BY <1>2 DEF Emptied, NoCharge
  <2>3. Exact(records', chats'.tokens)
    BY <2>2, NoneIsExact
  <2>4. QED
    BY <2>1, <2>3 DEF UsageIInv, UsageTypeOK
<1>3. ASSUME NEW role \in UsageRole, NEW prompt \in Token, NEW completion \in Token,
             Record(role, prompt, completion),
             chats' = Charged(chats, prompt + completion), UNCHANGED others
      PROVE  UsageIInv'
  <2> DEFINE e == RecordOf(role, prompt, completion)
  <2>1. records' = Append(records, e)
    BY <1>3 DEF Record, RecordOf
  <2> HIDE DEF e
  <2>2. prompt \in Nat /\ completion \in Nat /\ chats.calls \in Nat /\ chats.tokens \in Nat
    BY <1>1, UsageAssumption DEF Token, Charge
  <2>3. e \in UsageRecord /\ Exact(Append(records, e), chats.tokens + prompt + completion)
    BY <1>1, <2>2, OneMoreIsExact DEF e
  <2>4. /\ chats' \in Charge /\ chats'.calls = chats.calls + 1
        /\ chats'.tokens = chats.tokens + prompt + completion
    BY <1>3, <2>2 DEF Charged, Charge
  <2>5. records' \in Seq(UsageRecord) /\ Len(records') = Len(records) + 1
    BY <1>1, <2>1, <2>3
  <2>6. Exact(records', chats'.tokens)
    BY <2>1, <2>3, <2>4
  <2>7. QED
    BY <1>1, <1>3, <2>4, <2>5, <2>6 DEF UsageIInv, UsageTypeOK
<1>4. ASSUME NEW tokens \in Token, OtherCall(tokens)
      PROVE  UsageIInv'
  <2>1. others' \in Charge
    BY <1>1, <1>4, UsageAssumption DEF OtherCall, Charged, Charge, Token
  <2>2. records' = records /\ chats' = chats
    BY <1>4 DEF OtherCall
  <2>3. QED
    BY <1>1, <2>1, <2>2 DEF UsageIInv, UsageTypeOK
<1>5. CASE UNCHANGED usageVars
  BY <1>1, <1>5 DEF UsageIInv, UsageTypeOK, usageVars
<1>6. QED
  BY <1>2, <1>3, <1>4, <1>5 DEF UsageNext, ChatAnswered, Clear, UsageLost

\* What is exact is what the property says.
LEMMA UsageInvariant == UsageIInv => UsageIsExact
<1> SUFFICES ASSUME UsageIInv
             PROVE  UsageIsExact
  OBVIOUS
<1> DEFINE sum == Use(records)
<1>1. /\ UsageTypeOK
      /\ sum \in Uses /\ sum.requests = Len(records) /\ chats.calls = Len(records)
      /\ sum.prompt + sum.completion = chats.tokens
      /\ Requests(sum.by_role) = Len(records)
      /\ Tokens(sum.by_role) + TokenLimit * Cardinality(Wrapped(records)) = chats.tokens
      /\ \A limit \in Nat : Totals(Latest(records, limit)) \in Nat
                            /\ Totals(Latest(records, limit)) <= chats.tokens
  BY DEF UsageIInv, Exact
<1>2. Summary = [total_requests |-> sum.requests,
                 total_prompt_tokens |-> sum.prompt,
                 total_completion_tokens |-> sum.completion,
                 total_tokens |-> sum.prompt + sum.completion, by_role |-> sum.by_role]
  BY DEF Summary, Use
<1> HIDE DEF sum
<1>3. /\ Summary.total_requests = chats.calls /\ Summary.total_tokens = chats.tokens
      /\ Summary.by_role = sum.by_role
  BY <1>1, <1>2
<1>4. MapThenSumSet(LAMBDA role : Summary.by_role[role].requests, UsageRole)
        = Requests(Summary.by_role)
  BY DEF Requests
<1>5. MapThenSumSet(LAMBDA role : Summary.by_role[role].total_tokens, UsageRole)
        = Tokens(Summary.by_role)
  BY DEF Tokens
<1>6. \A limit \in 0..MaxRecords + 1 : limit \in Nat /\ Recent(limit) = Latest(records, limit)
  BY UsageAssumption DEF Recent, Latest
<1>7. QED
  BY <1>1, <1>3, <1>4, <1>5, <1>6 DEF UsageIsExact, Wrapped

(* Whatever is recorded, cleared or lost, and whatever else the services   *)
(* charge for, the summary is what they charged for the recorded chats,    *)
(* each once, and its parts add up to it.                                  *)
THEOREM UsageIsAlwaysExact == UsageSpec => []UsageIsExact
<1>1. ASSUME UsageInit
      PROVE  UsageIInv
  <2>1. records = <<>> /\ chats.calls = 0 /\ chats.tokens = 0
    BY <1>1 DEF UsageInit, NoCharge
  <2>2. UsageTypeOK
    BY <1>1 DEF UsageInit, UsageTypeOK, Charge, NoCharge
  <2>3. QED
    BY <2>1, <2>2, NoneIsExact DEF UsageIInv
<1>2. QED
  BY <1>1, UsageStep, UsageInvariant, PTL DEF UsageSpec
=============================================================================
