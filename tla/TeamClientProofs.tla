-------------------------- MODULE TeamClientProofs --------------------------
(***************************************************************************)
(* Proofs about TeamClient for any number of workers, challenges, parts of *)
(* an answer and any size of the ring: whole answers, one for each         *)
(* challenge, a cut one only at the end, and how far answers overtake.     *)
(*                                                                         *)
(* The invariant is built up: the shape of the state (ShapeInv), what the  *)
(* parser has taken of the stream (StreamInv), who sends and what has been *)
(* sent of the last answer (WireInv), where each challenge is (QueueInv),  *)
(* and that none has been lost (ServedInv).                                *)
(***************************************************************************)
EXTENDS TeamClient, SequenceTheorems, FiniteSetTheorems, TLAPS

-----------------------------------------------------------------------------
(* The shape of the state.                                                 *)

InHand(w) == wpc[w] \in {"lock", "send"}

\* TypeOK without the flags, and what keeps it: there is something to write, to
\* push and to send where that is done.
ShapeInv ==
  /\ peer \in {"open", "gone", "broken"}
  /\ received \in 0 .. 2 * Challenges
  /\ ring \in Seq(Pieces) /\ Len(ring) <= RingPieces
  /\ ipc \in {"top", "recv", "write", "notify", "stop", "close", "notify_close",
              "done"}
  /\ ppc \in {"top", "test", "sleep", "asleep", "read", "push", "finish", "close",
              "done"}
  /\ held \in 0 .. Challenges
  /\ q \in Seq(Jobs)
  /\ wpc \in [Workers -> {"top", "pop", "waiting", "lock", "send", "close", "done"}]
  /\ job \in [Workers -> Jobs \cup {Nothing}]
  /\ sent \in [Workers -> 0 .. Parts]
  /\ sendMtx \in Workers \cup {Nobody}
  /\ wire \in Seq(Jobs \X (1 .. Parts))
  /\ mpc \in {"join_io", "join_parser", "join_workers", "exit", "reconnect"}
  /\ ipc = "write" => received >= 1
  /\ ppc = "push" => held # 0
  /\ \A w \in Workers : InHand(w) => job[w] \in Jobs
  /\ \A w \in Workers : wpc[w] = "send" => sent[w] < Parts

FlagsInv == ringClosed \in BOOLEAN /\ stop \in BOOLEAN /\ qClosed \in BOOLEAN

LEMMA JobType ==
  ASSUME NEW n \in 1 .. Challenges, NEW b \in BOOLEAN
  PROVE  [id |-> n, cut |-> b] \in Jobs
BY DEF Jobs

\* notify_one() moves at most one worker, from "waiting" to "pop".
LEMMA NotifyOneStep ==
  ASSUME wpc \in [Workers ->
                  {"top", "pop", "waiting", "lock", "send", "close", "done"}],
         NotifyOne
  PROVE  /\ wpc' \in [Workers ->
                      {"top", "pop", "waiting", "lock", "send", "close", "done"}]
         /\ \A w \in Workers :
              wpc'[w] = wpc[w] \/ (wpc[w] = "waiting" /\ wpc'[w] = "pop")
BY DEF NotifyOne, Waiting

\* close() of the queue moves all that wait.
LEMMA NotifiedAllStep ==
  ASSUME wpc \in [Workers ->
                  {"top", "pop", "waiting", "lock", "send", "close", "done"}]
  PROVE  /\ NotifiedAll \in [Workers ->
                             {"top", "pop", "waiting", "lock", "send", "close", "done"}]
         /\ \A w \in Workers :
              \/ NotifiedAll[w] = wpc[w]
              \/ wpc[w] = "waiting" /\ NotifiedAll[w] = "pop"
BY DEF NotifiedAll

\* push() adds a job at the end, or the queue is closed.
LEMMA PushStep ==
  ASSUME ShapeInv, NEW j \in Jobs, Push(j)
  PROVE  /\ \/ q' = Append(q, j) /\ ~qClosed
            \/ q' = q /\ qClosed
         /\ q' \in Seq(Jobs)
         /\ wpc' \in [Workers ->
                      {"top", "pop", "waiting", "lock", "send", "close", "done"}]
         /\ \A w \in Workers :
              wpc'[w] = wpc[w] \/ (wpc[w] = "waiting" /\ wpc'[w] = "pop")
<1>1. CASE qClosed BY <1>1 DEF Push, ShapeInv
<1>2. CASE ~qClosed
  <2>1. q' = Append(q, j) /\ NotifyOne BY <1>2 DEF Push, With
  <2>2. q' \in Seq(Jobs) BY <2>1, AppendProperties DEF ShapeInv
  <2> QED BY <1>2, <2>1, <2>2, NotifyOneStep DEF ShapeInv
<1> QED BY <1>1, <1>2

LEMMA IoShape == ASSUME ShapeInv, IoReceiver PROVE ShapeInv'
<1> USE ConstantsAssumption DEF workVars, queueVars
<1>1. /\ UNCHANGED <<peer, held, q, wpc, job, sent, sendMtx, wire, mpc>>
      /\ ppc' = ppc \/ (ppc = "asleep" /\ ppc' = "test")
  BY DEF IoReceiver, IoTop, IoRecv, IoEnds, IoWrite, IoNotify, IoStops, IoCloses,
     IoNotifiesClose, WakeParser
<1>2. CASE IoWrite
  <2>1. received \in Pieces BY <1>2 DEF IoWrite, ShapeInv, Pieces
  <2>2. ring' \in Seq(Pieces) /\ Len(ring') <= RingPieces
    <3>1. ring \in Seq(Pieces) /\ Len(ring) \in Nat BY LenProperties DEF ShapeInv
    <3> QED BY <1>2, <2>1, <3>1, AppendProperties DEF IoWrite
  <2>3. received' = received /\ ipc' = "notify" BY <1>2 DEF IoWrite
  <2> QED BY <1>1, <2>2, <2>3 DEF ShapeInv, InHand
<1>3. CASE IoRecv
  <2>1. /\ received' \in 0 .. 2 * Challenges /\ received' >= 1
        /\ ipc' = "write" /\ ring' = ring
    BY <1>3 DEF IoRecv, ShapeInv, ringVars
  <2> QED BY <1>1, <2>1 DEF ShapeInv, InHand
<1>4. CASE IoTop \/ IoEnds \/ IoNotify \/ IoStops \/ IoCloses \/ IoNotifiesClose
  <2>1. /\ UNCHANGED <<received, ring>>
        /\ ipc' \in {"stop", "recv", "top", "close", "notify_close", "done"}
    BY <1>4 DEF IoTop, IoEnds, IoNotify, IoStops, IoCloses, IoNotifiesClose, ringVars
  <2> QED BY <1>1, <2>1 DEF ShapeInv, InHand
<1> QED BY <1>2, <1>3, <1>4 DEF IoReceiver

LEMMA ParserShape == ASSUME ShapeInv, Parser PROVE ShapeInv'
<1> USE ConstantsAssumption
<1>1. UNCHANGED <<peer, received, ipc, job, sent, sendMtx, wire, mpc>>
  BY DEF Parser, ioVars
<1>2. ASSUME NEW j \in Jobs, Push(j), ring' = ring, held' \in {0, held},
             ppc' \in {"top", "close"}
      PROVE  ShapeInv'
  <2>1. /\ q' \in Seq(Jobs)
        /\ wpc' \in [Workers ->
                     {"top", "pop", "waiting", "lock", "send", "close", "done"}]
        /\ \A w \in Workers :
             wpc'[w] = wpc[w] \/ (wpc[w] = "waiting" /\ wpc'[w] = "pop")
    BY <1>2, PushStep
  <2>2. held' \in 0 .. Challenges BY <1>2 DEF ShapeInv
  <2> QED BY <1>1, <1>2, <2>1, <2>2 DEF ShapeInv, InHand
<1>3. CASE ParserPush
  <2>1. held \in 1 .. Challenges BY <1>3 DEF ParserPush, ShapeInv
  <2>2. Emitted \in Jobs BY <2>1, JobType DEF Emitted
  <2> QED BY <1>2, <1>3, <2>2 DEF ParserPush
<1>4. CASE ParserFinish
  <2>1. CASE held # 0 /\ Push([id |-> held, cut |-> TRUE])
    <3>1. held \in 1 .. Challenges BY <2>1 DEF ShapeInv
    <3>2. [id |-> held, cut |-> TRUE] \in Jobs BY <3>1, JobType
    <3> QED BY <1>2, <1>4, <2>1, <3>2 DEF ParserFinish
  <2>2. CASE UNCHANGED <<q, wpc>>
    BY <1>1, <1>4, <2>2 DEF ParserFinish, ShapeInv, InHand
  <2> QED BY <1>4, <2>1, <2>2 DEF ParserFinish
<1>5. CASE ParserCloses
  <2>1. /\ wpc' \in [Workers ->
                     {"top", "pop", "waiting", "lock", "send", "close", "done"}]
        /\ \A w \in Workers :
             wpc'[w] = wpc[w] \/ (wpc[w] = "waiting" /\ wpc'[w] = "pop")
    BY <1>5, NotifiedAllStep DEF ParserCloses, ShapeInv
  <2>2. UNCHANGED <<ring, held, q>> /\ ppc' = "done" BY <1>5 DEF ParserCloses
  <2> QED BY <1>1, <2>1, <2>2 DEF ShapeInv, InHand
<1>6. CASE ParserRead
  <2>1. UNCHANGED <<q, wpc>> BY <1>6 DEF ParserRead, queueVars
  <2>2. CASE ring = <<>> BY <1>1, <1>6, <2>1, <2>2 DEF ParserRead, ShapeInv, InHand
  <2>3. CASE ring # <<>>
    <3>1. ring \in Seq(Pieces) /\ Len(ring) \in Nat BY LenProperties DEF ShapeInv
    <3>2. /\ Head(ring) \in Pieces /\ Tail(ring) \in Seq(Pieces)
          /\ Len(Tail(ring)) = Len(ring) - 1
      BY <2>3, <3>1, HeadTailProperties
    <3>3. ChallengeOf(Head(ring)) \in 1 .. Challenges
      BY <3>2 DEF ChallengeOf, Pieces
    <3>4. /\ ring' = Tail(ring) /\ held' = ChallengeOf(Head(ring))
          /\ ppc' \in {"push", "top"}
      BY <1>6, <2>3 DEF ParserRead
    <3>5. ring' \in Seq(Pieces) /\ Len(ring') <= RingPieces
      BY <3>1, <3>2, <3>4 DEF ShapeInv
    <3>6. held' \in 0 .. Challenges /\ held' # 0 BY <3>3, <3>4
    <3> QED BY <1>1, <2>1, <3>4, <3>5, <3>6 DEF ShapeInv, InHand
  <2> QED BY <2>2, <2>3
<1>7. CASE ParserTop \/ ParserTest \/ ParserSleeps
  <2>1. /\ UNCHANGED <<ring, held, q, wpc>>
        /\ ppc' \in {"finish", "test", "read", "sleep", "asleep"}
    BY <1>7 DEF ParserTop, ParserTest, ParserSleeps, queueVars
  <2> QED BY <1>1, <2>1 DEF ShapeInv, InHand
<1> QED BY <1>3, <1>4, <1>5, <1>6, <1>7 DEF Parser

LEMMA WorkerShape ==
  ASSUME ShapeInv, NEW w \in Workers, Worker(w)
  PROVE  ShapeInv'
<1> USE ConstantsAssumption
<1>1. UNCHANGED <<received, ipc, ring, ppc, held, mpc>>
  BY DEF Worker, workerRest, ioVars, ringVars
<1>2. CASE WorkerTop(w)
  BY <1>1, <1>2 DEF WorkerTop, ShapeInv, InHand, queueVars
<1>3. CASE Pop(w)
  <2>1. UNCHANGED <<peer, sent, sendMtx, wire>> /\ wpc[w] = "pop" BY <1>3 DEF Pop
  <2>2. CASE q # <<>>
    <3>1. Head(q) \in Jobs /\ Tail(q) \in Seq(Jobs)
      BY <2>2, HeadTailProperties DEF ShapeInv
    <3>2. /\ job' = [job EXCEPT ![w] = Head(q)] /\ q' = Tail(q)
          /\ wpc' = [wpc EXCEPT ![w] = "lock"]
      BY <1>3, <2>2 DEF Pop, WithoutHead
    <3> QED BY <1>1, <2>1, <3>1, <3>2 DEF ShapeInv, InHand
  <2>3. CASE q = <<>>
    <3>1. PICK place \in {"done", "waiting"} : wpc' = [wpc EXCEPT ![w] = place]
      BY <1>3, <2>3 DEF Pop
    <3>2. UNCHANGED <<q, job>> BY <1>3, <2>3 DEF Pop
    <3> QED BY <1>1, <2>1, <3>1, <3>2 DEF ShapeInv, InHand
  <2> QED BY <2>2, <2>3
<1>4. CASE Lock(w)
  BY <1>1, <1>4 DEF Lock, ShapeInv, InHand, queueVars
<1>5. CASE SendPart(w)
  <2>1. /\ sent[w] \in 0 .. Parts /\ sent[w] < Parts /\ job[w] \in Jobs
        /\ wire' = Append(wire, <<job[w], sent[w] + 1>>)
        /\ sent' = [sent EXCEPT ![w] = sent[w] + 1]
        /\ UNCHANGED <<peer, q, job>>
        /\ wpc[w] = "send"
    BY <1>5 DEF SendPart, ShapeInv, InHand, queueVars
  <2>2. <<job[w], sent[w] + 1>> \in Jobs \X (1 .. Parts) BY <2>1
  <2>3. wire' \in Seq(Jobs \X (1 .. Parts))
    BY <2>1, <2>2, AppendProperties DEF ShapeInv
  <2>4. sent' \in [Workers -> 0 .. Parts] BY <2>1 DEF ShapeInv
  <2>5. \/ MoreToSend(w) /\ UNCHANGED <<wpc, sendMtx>>
        \/ wpc' = [wpc EXCEPT ![w] = "top"] /\ sendMtx' = Nobody
    BY <1>5 DEF SendPart
  <2>6. CASE MoreToSend(w) /\ UNCHANGED <<wpc, sendMtx>>
    BY <1>1, <2>1, <2>3, <2>4, <2>6 DEF ShapeInv, InHand, MoreToSend
  <2>7. CASE wpc' = [wpc EXCEPT ![w] = "top"] /\ sendMtx' = Nobody
    BY <1>1, <2>1, <2>3, <2>4, <2>7 DEF ShapeInv, InHand
  <2> QED BY <2>5, <2>6, <2>7
<1>6. CASE SendFails(w)
  BY <1>1, <1>6 DEF SendFails, ShapeInv, InHand, queueVars
<1>7. CASE WorkerCloses(w)
  <2>1. /\ wpc' = [NotifiedAll EXCEPT ![w] = "done"]
        /\ sendMtx' = Nobody
        /\ UNCHANGED <<peer, q, job, sent, wire>>
    BY <1>7 DEF WorkerCloses
  <2> QED BY <1>1, <2>1, NotifiedAllStep DEF ShapeInv, InHand
<1> QED BY <1>2, <1>3, <1>4, <1>5, <1>6, <1>7 DEF Worker

LEMMA Shape == Spec => []ShapeInv
<1>1. Init => ShapeInv
  <2> SUFFICES ASSUME Init PROVE ShapeInv OBVIOUS
  <2> USE ConstantsAssumption DEF Init
  <2>1. ring \in Seq(Pieces) /\ q \in Seq(Jobs) /\ wire \in Seq(Jobs \X (1 .. Parts))
    BY EmptySeq
  <2>2. Len(ring) <= RingPieces OBVIOUS
  <2>3. received \in 0 .. 2 * Challenges /\ held \in 0 .. Challenges
        /\ sent \in [Workers -> 0 .. Parts]
    OBVIOUS
  <2> QED BY <2>1, <2>2, <2>3, Zenon DEF ShapeInv, InHand
<1>2. ASSUME ShapeInv, [Next]_vars PROVE ShapeInv'
  <2>1. CASE ServerLeaves
    BY <1>2, <2>1 DEF ServerLeaves, ShapeInv, InHand, ioVars, ringVars, queueVars,
       workVars
  <2>2. CASE Main
    BY <1>2, <2>2 DEF Main, JoinIo, JoinParser, JoinWorkers, ShapeInv, InHand,
       ioVars, ringVars, queueVars, workVars
  <2>3. CASE UNCHANGED vars
    BY <1>2, <2>3 DEF vars, ShapeInv, InHand, ioVars, ringVars, queueVars, workVars
  <2> QED BY <1>2, <2>1, <2>2, <2>3, IoShape, ParserShape, WorkerShape DEF Next
<1> QED BY <1>1, <1>2, PTL DEF Spec

LEMMA Flags == Spec => []FlagsInv
<1>1. Init => FlagsInv BY DEF Init, FlagsInv
<1>2. ASSUME FlagsInv, [Next]_vars PROVE FlagsInv'
  <2>1. /\ ringClosed' = ringClosed \/ ringClosed' = TRUE
        /\ stop' = stop \/ stop' = TRUE
        /\ qClosed' = qClosed \/ qClosed' = TRUE
    <3>1. CASE ServerLeaves \/ Main \/ UNCHANGED vars
      BY <3>1, Zenon DEF ServerLeaves, Main, JoinIo, JoinParser, JoinWorkers, vars,
         ringVars, queueVars
    <3>2. CASE IoReceiver
      BY <3>2, Zenon DEF IoReceiver, IoTop, IoRecv, IoEnds, IoWrite, IoNotify,
         IoStops, IoCloses, IoNotifiesClose, ringVars, queueVars
    <3>3. CASE Parser
      BY <3>3, Zenon DEF Parser, ParserTop, ParserTest, ParserSleeps, ParserRead,
         ParserPush, ParserFinish, ParserCloses, queueVars
    <3>4. ASSUME NEW w \in Workers, Worker(w)
          PROVE  /\ UNCHANGED ringClosed
                 /\ stop' = stop \/ stop' = TRUE
                 /\ qClosed' = qClosed \/ qClosed' = TRUE
      BY <3>4, Zenon DEF Worker, WorkerTop, Pop, Lock, SendPart, SendFails,
         WorkerCloses, workerRest, ringVars, queueVars
    <3> QED BY <1>2, <3>1, <3>2, <3>3, <3>4 DEF Next
  <2> QED BY <1>2, <2>1, Zenon DEF FlagsInv
<1> QED BY <1>1, <1>2, PTL DEF Spec

\* Every variable has its type, always.
THEOREM TypeCorrect == Spec => []TypeOK
<1>1. ShapeInv /\ FlagsInv => TypeOK BY Zenon DEF ShapeInv, FlagsInv, TypeOK
<1> QED BY <1>1, Shape, Flags, PTL

-----------------------------------------------------------------------------
(* The receiver, the ring and the parser.                                  *)

Written == IF ipc = "write" THEN received - 1 ELSE received

\* How many pieces the parser has taken.
Consumed == Written - Len(ring)

\* The pieces go through the ring in order.
RingInOrder ==
  /\ Consumed >= 0
  /\ \A i \in 1 .. Len(ring) : ring[i] = Consumed + i

\* held is the challenge of which the first piece only has been taken.
HeldRight ==
  IF ppc = "push"
  THEN Completes(Consumed) /\ held = Consumed \div 2
  ELSE IF Completes(Consumed) THEN held = 0 ELSE held = (Consumed + 1) \div 2

\* The receiver and the parser leave their loops only when stopping.
StopFirst ==
  /\ ringClosed => stop
  /\ ipc \in {"close", "notify_close", "done"} => stop
  /\ ppc = "read" => ring # <<>> \/ ringClosed
  /\ ppc \in {"finish", "close", "done"} => stop

StreamInv == RingInOrder /\ HeldRight /\ StopFirst

LEMMA ConsumedType ==
  ASSUME ShapeInv
  PROVE  /\ ring \in Seq(Pieces) /\ Len(ring) \in Nat
         /\ received \in Nat /\ Written \in Nat /\ Consumed \in Int
<1>1. ring \in Seq(Pieces) /\ Len(ring) \in Nat BY LenProperties DEF ShapeInv
<1>2. received \in Nat BY ConstantsAssumption DEF ShapeInv
<1>3. Written \in Nat BY <1>2 DEF Written, ShapeInv
<1> QED BY <1>1, <1>2, <1>3 DEF Consumed

LEMMA IoStream ==
  ASSUME ShapeInv, StreamInv, IoReceiver
  PROVE  StreamInv' /\ Consumed' = Consumed
<1> USE ConsumedType DEF ringVars
<1>1. held' = held /\ (ppc' = ppc \/ (ppc = "asleep" /\ ppc' = "test"))
  BY DEF IoReceiver, IoTop, IoRecv, IoEnds, IoWrite, IoNotify, IoStops, IoCloses,
     IoNotifiesClose, WakeParser
<1>2. Consumed' = Consumed /\ RingInOrder'
  <2>1. CASE IoWrite
    <3>1. ring' = Append(ring, received) /\ received' = received
          /\ ipc = "write" /\ ipc' = "notify"
      BY <2>1 DEF IoWrite
    <3>2. received \in Pieces BY <3>1 DEF ShapeInv, Pieces
    <3>3. /\ Len(ring') = Len(ring) + 1
          /\ \A i \in 1 .. Len(ring) : ring'[i] = ring[i]
          /\ ring'[Len(ring) + 1] = received
      BY <3>1, <3>2, AppendProperties
    <3>4. Written = received - 1 /\ Written' = received BY <3>1 DEF Written
    <3>5. Consumed' = Consumed /\ Consumed = received - 1 - Len(ring)
      BY <3>3, <3>4 DEF Consumed
    <3>6. ASSUME NEW i \in 1 .. Len(ring') PROVE ring'[i] = Consumed' + i
      <4>1. Len(ring) \in Nat /\ Consumed \in Int /\ received \in Nat
        BY ConsumedType
      <4>2. CASE i \in 1 .. Len(ring)
        BY <3>3, <3>5, <4>1, <4>2 DEF StreamInv, RingInOrder
      <4>3. CASE i = Len(ring) + 1 BY <3>3, <3>5, <4>1, <4>3
      <4> QED BY <3>3, <4>1, <4>2, <4>3
    <3> QED BY <3>5, <3>6 DEF StreamInv, RingInOrder
  <2>2. CASE ~IoWrite
    <3>1. ring' = ring /\ Written' = Written
      BY <2>2 DEF IoReceiver, IoTop, IoRecv, IoEnds, IoNotify, IoStops, IoCloses,
         IoNotifiesClose, Written
    <3> QED BY <3>1 DEF StreamInv, RingInOrder, Consumed
  <2> QED BY <2>1, <2>2
<1>3. HeldRight' BY <1>1, <1>2 DEF StreamInv, HeldRight, Completes
<1>4. StopFirst'
  <2>1. /\ ringClosed' => ringClosed \/ ipc = "close"
        /\ ringClosed => ringClosed'
        /\ stop => stop'
        /\ ipc' \in {"close", "notify_close", "done"} =>
             stop' \/ ipc \in {"close", "notify_close", "done"}
    BY DEF IoReceiver, IoTop, IoRecv, IoEnds, IoWrite, IoNotify, IoStops, IoCloses,
       IoNotifiesClose
  <2>2. ring' = ring \/ ring' # <<>>
    <3>1. CASE IoWrite
      <4>1. ring' = Append(ring, received) BY <3>1 DEF IoWrite
      <4>2. received \in Pieces BY <3>1 DEF IoWrite, ShapeInv, Pieces
      <4> QED BY <4>1, <4>2, AppendProperties
    <3>2. CASE ~IoWrite
      BY <3>2 DEF IoReceiver, IoTop, IoRecv, IoEnds, IoNotify, IoStops, IoCloses,
         IoNotifiesClose
    <3> QED BY <3>1, <3>2
  <2> QED BY <1>1, <2>1, <2>2 DEF StreamInv, StopFirst
<1> QED BY <1>2, <1>3, <1>4 DEF StreamInv

\* The parser takes a piece, or none.
LEMMA ParserStream ==
  ASSUME ShapeInv, StreamInv, Parser
  PROVE  /\ StreamInv'
         /\ Consumed' = IF ppc = "read" /\ ring # <<>> THEN Consumed + 1 ELSE Consumed
<1> USE ConsumedType
<1>1. UNCHANGED <<received, ipc, ringClosed, stop>> BY DEF Parser, ioVars
<1>2. Written' = Written BY <1>1 DEF Written
<1>3. CASE ParserRead /\ ring # <<>>
  <2>1. /\ Head(ring) = ring[1] /\ Len(ring) >= 1
        /\ Len(Tail(ring)) = Len(ring) - 1
        /\ \A i \in 1 .. Len(Tail(ring)) : Tail(ring)[i] = ring[i + 1]
    BY <1>3, HeadTailProperties
  <2>2. /\ ppc = "read" /\ ring' = Tail(ring) /\ held' = ChallengeOf(Head(ring))
        /\ ppc' = IF Completes(Head(ring)) THEN "push" ELSE "top"
    BY <1>3 DEF ParserRead
  <2>3. Consumed' = Consumed + 1 BY <1>2, <2>1, <2>2 DEF Consumed
  <2>4. Head(ring) = Consumed + 1 /\ Consumed >= 0
    BY <2>1 DEF StreamInv, RingInOrder
  <2>5. RingInOrder'
    <3>1. ASSUME NEW i \in 1 .. Len(ring') PROVE ring'[i] = Consumed' + i
      <4>1. i \in 1 .. Len(Tail(ring)) /\ i + 1 \in 1 .. Len(ring) BY <2>1, <2>2
      <4> QED BY <2>1, <2>2, <2>3, <4>1 DEF StreamInv, RingInOrder
    <3> QED BY <2>3, <2>4, <3>1 DEF RingInOrder
  <2>6. HeldRight'
    <3>1. PICK c \in Nat : c = Consumed' /\ Head(ring) = c BY <2>3, <2>4
    <3>2. CASE c % 2 = 0
      <4>1. ppc' = "push" /\ held' = (c + 1) \div 2
        BY <2>2, <3>1, <3>2 DEF Completes, ChallengeOf
      <4>2. (c + 1) \div 2 = c \div 2 BY <3>2
      <4> QED BY <3>1, <3>2, <4>1, <4>2 DEF HeldRight, Completes
    <3>3. CASE c % 2 # 0
      <4>1. ppc' = "top" /\ held' = (c + 1) \div 2
        BY <2>2, <3>1, <3>3 DEF Completes, ChallengeOf
      <4> QED BY <3>1, <3>3, <4>1 DEF HeldRight, Completes
    <3> QED BY <3>2, <3>3
  <2>7. StopFirst' BY <1>1, <2>2 DEF StreamInv, StopFirst
  <2> QED BY <1>3, <2>2, <2>3, <2>5, <2>6, <2>7 DEF StreamInv
<1>4. CASE ~(ParserRead /\ ring # <<>>)
  <2>1. ring' = ring /\ ~(ppc = "read" /\ ring # <<>>)
    BY <1>4 DEF Parser, ParserTop, ParserTest, ParserSleeps, ParserRead, ParserPush,
       ParserFinish, ParserCloses
  <2>2. Consumed' = Consumed BY <1>2, <2>1 DEF Consumed
  <2>3. RingInOrder' BY <2>1, <2>2 DEF StreamInv, RingInOrder
  <2>4. HeldRight'
    <3>1. CASE ParserPush
      BY <2>2, <3>1 DEF ParserPush, StreamInv, HeldRight, Completes
    <3>2. CASE ~ParserPush
      <4>1. held' = held /\ ppc # "push" /\ ppc' # "push"
        BY <1>4, <3>2 DEF Parser, ParserTop, ParserTest, ParserSleeps, ParserRead,
           ParserFinish, ParserCloses
      <4> QED BY <2>2, <4>1 DEF StreamInv, HeldRight, Completes
    <3> QED BY <3>1, <3>2
  <2>5. StopFirst'
    <3>1. /\ ppc' = "read" => ring # <<>> \/ ringClosed
          /\ ppc' \in {"finish", "close", "done"} =>
               stop \/ ppc \in {"finish", "close", "done"}
               \/ (ppc = "read" /\ ring = <<>>)
      BY <1>4 DEF Parser, ParserTop, ParserTest, ParserSleeps, ParserRead, ParserPush,
         ParserFinish, ParserCloses
    <3> QED BY <1>1, <2>1, <3>1 DEF StreamInv, StopFirst
  <2> QED BY <2>1, <2>2, <2>3, <2>4, <2>5 DEF StreamInv
<1> QED BY <1>3, <1>4

\* No other thread touches the stream.
LEMMA OtherStream ==
  ASSUME StreamInv, UNCHANGED <<received, ipc, ring, ringClosed, ppc, held>>,
         stop' = stop \/ stop' = TRUE
  PROVE  StreamInv' /\ Consumed' = Consumed
<1>1. Consumed' = Consumed BY DEF Consumed, Written
<1>2. RingInOrder' /\ HeldRight'
  BY <1>1 DEF StreamInv, RingInOrder, HeldRight, Completes
<1>3. StopFirst' BY Zenon DEF StreamInv, StopFirst
<1> QED BY <1>1, <1>2, <1>3 DEF StreamInv

LEMMA Stream == Spec => []StreamInv
<1>1. Init => StreamInv
  BY DEF Init, StreamInv, RingInOrder, HeldRight, StopFirst, Consumed, Written,
     Completes
<1>2. ASSUME ShapeInv, StreamInv, [Next]_vars PROVE StreamInv'
  <2>1. CASE ServerLeaves \/ Main \/ UNCHANGED vars
    BY <1>2, <2>1, OtherStream DEF ServerLeaves, Main, JoinIo, JoinParser,
       JoinWorkers, vars, ioVars, ringVars
  <2>2. ASSUME NEW w \in Workers, Worker(w) PROVE StreamInv'
    <3>1. /\ UNCHANGED <<received, ipc, ring, ringClosed, ppc, held>>
          /\ stop' = stop \/ stop' = TRUE
      BY <2>2, Zenon DEF Worker, WorkerTop, Pop, Lock, SendPart, SendFails,
         WorkerCloses, workerRest, ioVars, ringVars
    <3> QED BY <1>2, <3>1, OtherStream
  <2> QED BY <1>2, <2>1, <2>2, IoStream, ParserStream DEF Next
<1> QED BY <1>1, <1>2, Shape, PTL DEF Spec

-----------------------------------------------------------------------------
(* The wire.                                                               *)

\* Who has send_mtx, sends or has failed to.
MutexInv ==
  /\ \A w \in Workers : sendMtx = w <=> wpc[w] \in {"send", "close"}
  /\ \A w \in Workers : wpc[w] = "close" => peer = "broken"

\* The parts of each answer are numbered, and follow each other.
PartsInv ==
  \A i \in 1 .. Len(wire) :
    /\ wire[i][2] = ((i - 1) % Parts) + 1
    /\ wire[i][2] > 1 => i - 1 \in 1 .. Len(wire) /\ wire[i][1] = wire[i - 1][1]

\* What a worker has sent of its answer is at the end of the wire.
SendsNext(w) ==
  /\ Len(wire) % Parts = sent[w]
  /\ sent[w] > 0 => wire[Len(wire)][1] = job[w]

\* When nobody sends, an answer has just ended, unless the connection broke.
TailInv ==
  peer # "broken" =>
    /\ sendMtx = Nobody => Len(wire) % Parts = 0
    /\ \A w \in Workers : wpc[w] = "send" => SendsNext(w)

WireInv == MutexInv /\ PartsInv /\ TailInv

\* The remainder of the successor.
LEMMA NextRemainder ==
  ASSUME NEW P \in Nat \ {0}, NEW n \in Nat
  PROVE  /\ n % P \in 0 .. P - 1
         /\ (n + 1) % P = IF (n % P) + 1 < P THEN (n % P) + 1 ELSE 0
<1>1. n % P \in 0 .. P - 1 /\ n = P * (n \div P) + (n % P) /\ n \div P \in Nat
  OBVIOUS
<1>2. /\ (n + 1) % P \in 0 .. P - 1
      /\ n + 1 = P * ((n + 1) \div P) + ((n + 1) % P)
      /\ (n + 1) \div P \in Nat
  OBVIOUS
<1> DEFINE d == ((n + 1) \div P) - (n \div P)
<1>3. d \in Int /\ P * d = (n % P) + 1 - ((n + 1) % P) BY <1>1, <1>2
<1> HIDE DEF d
<1>4. d <= 1 /\ d >= 0
  <2>1. d >= 2 => P * d >= 2 * P BY <1>3
  <2>2. d <= -1 => P * d <= -P BY <1>3
  <2> QED BY <1>1, <1>2, <1>3, <2>1, <2>2
<1>5. CASE d = 0 BY <1>1, <1>2, <1>3, <1>5
<1>6. CASE d = 1 BY <1>1, <1>2, <1>3, <1>6
<1> QED BY <1>3, <1>4, <1>5, <1>6


LEMMA OtherWire ==
  ASSUME WireInv, UNCHANGED <<job, sent, sendMtx, wire>>,
         peer' = "broken" <=> peer = "broken",
         \A w \in Workers :
           wpc'[w] = wpc[w] \/ (wpc[w] = "waiting" /\ wpc'[w] = "pop")
  PROVE  WireInv'
<1>1. MutexInv' BY DEF WireInv, MutexInv
<1>2. PartsInv' BY DEF WireInv, PartsInv
<1>3. TailInv' BY DEF WireInv, TailInv, SendsNext
<1> QED BY <1>1, <1>2, <1>3 DEF WireInv

\* What Append does to the wire.
LEMMA SendPartWire ==
  ASSUME ShapeInv, NEW w \in Workers, SendPart(w)
  PROVE  /\ Len(wire) \in Nat /\ Len(wire') = Len(wire) + 1
         /\ \A i \in 1 .. Len(wire) : wire'[i] = wire[i]
         /\ wire'[Len(wire) + 1] = <<job[w], sent[w] + 1>>
<1>1. wire' = Append(wire, <<job[w], sent[w] + 1>>) /\ wpc[w] = "send"
  BY DEF SendPart
<1>2. job[w] \in Jobs /\ sent[w] + 1 \in 1 .. Parts
  BY <1>1, ConstantsAssumption DEF ShapeInv, InHand
<1>3. wire \in Seq(Jobs \X (1 .. Parts)) BY DEF ShapeInv
<1> QED BY <1>1, <1>2, <1>3, AppendProperties, LenProperties

LEMMA WorkerWire ==
  ASSUME ShapeInv, WireInv, NEW w \in Workers, Worker(w)
  PROVE  WireInv'
<1>1. CASE WorkerTop(w)
  <2>1. UNCHANGED <<peer, job, sent, sendMtx, wire>> BY <1>1 DEF WorkerTop
  <2>2. wpc[w] = "top" BY <1>1 DEF WorkerTop
  <2>3. PICK place \in {"done", "pop"} : wpc' = [wpc EXCEPT ![w] = place]
    BY <1>1 DEF WorkerTop
  <2>4. MutexInv' BY <2>1, <2>2, <2>3 DEF WireInv, MutexInv, ShapeInv
  <2>5. PartsInv' BY <2>1 DEF WireInv, PartsInv
  <2>6. TailInv' BY <2>1, <2>2, <2>3 DEF WireInv, TailInv, SendsNext, ShapeInv
  <2> QED BY <2>4, <2>5, <2>6 DEF WireInv
<1>2. CASE Pop(w)
  <2>1. UNCHANGED <<peer, sent, sendMtx, wire>> BY <1>2 DEF Pop
  <2>2. wpc[w] = "pop" BY <1>2 DEF Pop
  <2>3. PICK place \in {"done", "waiting", "lock"} : wpc' = [wpc EXCEPT ![w] = place]
    BY <1>2 DEF Pop
  <2>4. \A v \in Workers : v # w => job'[v] = job[v] BY <1>2 DEF Pop, ShapeInv
  <2>5. MutexInv' BY <2>1, <2>2, <2>3 DEF WireInv, MutexInv, ShapeInv
  <2>6. PartsInv' BY <2>1 DEF WireInv, PartsInv
  <2>7. TailInv'
    BY <2>1, <2>2, <2>3, <2>4 DEF WireInv, TailInv, SendsNext, ShapeInv
  <2> QED BY <2>5, <2>6, <2>7 DEF WireInv
<1>3. CASE Lock(w)
  <2>1. UNCHANGED <<peer, job, wire>> BY <1>3 DEF Lock
  <2>2. /\ wpc[w] = "lock" /\ sendMtx = Nobody /\ sendMtx' = w
        /\ wpc' = [wpc EXCEPT ![w] = "send"] /\ sent' = [sent EXCEPT ![w] = 0]
    BY <1>3 DEF Lock, SendMtxFree
  <2>3. \A v \in Workers : wpc[v] \notin {"send", "close"}
    BY <2>2, ConstantsAssumption DEF WireInv, MutexInv
  <2>4. MutexInv' BY <2>1, <2>2, <2>3 DEF WireInv, MutexInv, ShapeInv
  <2>5. PartsInv' BY <2>1 DEF WireInv, PartsInv
  <2>6. TailInv'
    <3>1. w # Nobody BY ConstantsAssumption
    <3>2. sent'[w] = 0 BY <2>2 DEF ShapeInv
    <3>3. \A v \in Workers : wpc'[v] = "send" => v = w BY <2>2, <2>3 DEF ShapeInv
    <3> QED BY <2>1, <2>2, <3>1, <3>2, <3>3 DEF WireInv, TailInv, SendsNext
  <2> QED BY <2>4, <2>5, <2>6 DEF WireInv
<1>4. CASE SendPart(w)
  <2> DEFINE n == Len(wire)
  <2>1. /\ wpc[w] = "send" /\ peer # "broken" /\ UNCHANGED <<peer, job>>
        /\ sent' = [sent EXCEPT ![w] = sent[w] + 1]
    BY <1>4 DEF SendPart
  <2>2. /\ n \in Nat /\ Len(wire') = n + 1
        /\ \A i \in 1 .. n : wire'[i] = wire[i]
        /\ wire'[n + 1] = <<job[w], sent[w] + 1>>
    BY <1>4, SendPartWire
  <2>3. n % Parts = sent[w] /\ (sent[w] > 0 => wire[n][1] = job[w])
    BY <2>1 DEF WireInv, TailInv, SendsNext
  <2>4. sent[w] \in Nat /\ sent[w] < Parts /\ Parts \in Nat \ {0}
        /\ sent'[w] = sent[w] + 1
    BY <2>1, ConstantsAssumption DEF ShapeInv
  <2>5. \A v \in Workers : wpc[v] \in {"send", "close"} => v = w
    BY <2>1 DEF WireInv, MutexInv
  <2>6. (n + 1) % Parts = IF sent[w] + 1 < Parts THEN sent[w] + 1 ELSE 0
    BY <2>2, <2>3, <2>4, NextRemainder
  <2>7. sent[w] > 0 => n \in 1 .. n
    <3>1. n = 0 => n % Parts = 0 BY <2>4
    <3> QED BY <2>2, <2>3, <3>1
  <2> HIDE DEF n
  <2>8. PartsInv'
    <3> SUFFICES ASSUME NEW i \in 1 .. n + 1
                 PROVE  /\ wire'[i][2] = ((i - 1) % Parts) + 1
                        /\ wire'[i][2] > 1 => /\ i - 1 \in 1 .. n + 1
                                             /\ wire'[i][1] = wire'[i - 1][1]
      BY <2>2 DEF PartsInv
    <3>1. CASE i \in 1 .. n
      <4>1. /\ wire[i][2] = ((i - 1) % Parts) + 1
            /\ wire[i][2] > 1 => i - 1 \in 1 .. n /\ wire[i][1] = wire[i - 1][1]
        BY <3>1 DEF WireInv, PartsInv, n
      <4> QED BY <2>2, <3>1, <4>1
    <3>2. CASE i = n + 1
      <4>1. i - 1 = n /\ wire'[i][1] = job[w] /\ wire'[i][2] = sent[w] + 1
        BY <2>2, <3>2
      <4>2. wire'[i][2] > 1 => wire'[n] = wire[n] /\ n \in 1 .. n + 1
        BY <2>2, <2>4, <2>7, <4>1
      <4> QED BY <2>3, <2>4, <4>1, <4>2
    <3> QED BY <2>2, <3>1, <3>2
  <2>9. \/ MoreToSend(w) /\ UNCHANGED <<wpc, sendMtx>>
        \/ /\ ~MoreToSend(w) /\ sendMtx' = Nobody
           /\ wpc' = [wpc EXCEPT ![w] = "top"]
    BY <1>4 DEF SendPart
  <2>10. sendMtx = w /\ w # Nobody
    BY <2>1, ConstantsAssumption DEF WireInv, MutexInv
  <2>11. CASE MoreToSend(w) /\ UNCHANGED <<wpc, sendMtx>>
    <3>1. MutexInv' BY <2>1, <2>11 DEF WireInv, MutexInv
    <3>2. (n + 1) % Parts = sent'[w] /\ wire'[n + 1][1] = job[w]
      BY <2>2, <2>4, <2>6, <2>11 DEF MoreToSend
    <3>3. TailInv'
      BY <2>1, <2>2, <2>5, <2>10, <2>11, <3>2 DEF TailInv, SendsNext
    <3> QED BY <2>8, <3>1, <3>3 DEF WireInv
  <2>12. CASE /\ ~MoreToSend(w) /\ sendMtx' = Nobody
              /\ wpc' = [wpc EXCEPT ![w] = "top"]
    <3>1. \A v \in Workers : wpc'[v] \notin {"send", "close"}
      BY <2>5, <2>12 DEF ShapeInv
    <3>2. MutexInv' BY <2>12, <3>1, ConstantsAssumption DEF MutexInv
    <3>3. (n + 1) % Parts = 0 BY <2>4, <2>6, <2>12 DEF MoreToSend
    <3>4. TailInv' BY <2>2, <3>1, <3>3 DEF TailInv
    <3> QED BY <2>8, <3>2, <3>4 DEF WireInv
  <2> QED BY <2>9, <2>11, <2>12
<1>5. CASE SendFails(w)
  <2>1. UNCHANGED <<job, sent, sendMtx, wire>> BY <1>5 DEF SendFails
  <2>2. peer' = "broken" /\ wpc[w] = "send" /\ wpc' = [wpc EXCEPT ![w] = "close"]
    BY <1>5 DEF SendFails
  <2>3. MutexInv' BY <2>1, <2>2 DEF WireInv, MutexInv, ShapeInv
  <2>4. PartsInv' BY <2>1 DEF WireInv, PartsInv
  <2>5. TailInv' BY <2>2 DEF TailInv
  <2> QED BY <2>3, <2>4, <2>5 DEF WireInv
<1>6. CASE WorkerCloses(w)
  <2>1. UNCHANGED <<peer, job, sent, wire>> BY <1>6 DEF WorkerCloses
  <2>2. /\ wpc[w] = "close" /\ sendMtx' = Nobody
        /\ wpc' = [NotifiedAll EXCEPT ![w] = "done"]
    BY <1>6 DEF WorkerCloses
  <2>3. \A v \in Workers : wpc[v] \in {"send", "close"} => v = w
    BY <2>2 DEF WireInv, MutexInv
  <2>4. \A v \in Workers : wpc'[v] \notin {"send", "close"}
    BY <2>2, <2>3, NotifiedAllStep DEF ShapeInv
  <2>5. MutexInv' BY <2>2, <2>4, ConstantsAssumption DEF MutexInv
  <2>6. PartsInv' BY <2>1 DEF WireInv, PartsInv
  <2>7. peer' = "broken" BY <2>1, <2>2 DEF WireInv, MutexInv
  <2>8. TailInv' BY <2>7 DEF TailInv
  <2> QED BY <2>5, <2>6, <2>8 DEF WireInv
<1> QED BY <1>1, <1>2, <1>3, <1>4, <1>5, <1>6 DEF Worker

\* What the receiver, the parser, main and the server may do to the workers.
LEMMA OtherStep ==
  ASSUME ShapeInv, IoReceiver \/ Parser \/ ServerLeaves \/ Main \/ UNCHANGED vars
  PROVE  /\ UNCHANGED <<job, sent, sendMtx, wire>>
         /\ peer' = "broken" <=> peer = "broken"
         /\ \A w \in Workers :
              wpc'[w] = wpc[w] \/ (wpc[w] = "waiting" /\ wpc'[w] = "pop")
<1>1. CASE IoReceiver \/ ServerLeaves \/ Main \/ UNCHANGED vars
  BY <1>1 DEF IoReceiver, ServerLeaves, Main, JoinIo, JoinParser, JoinWorkers, vars,
     workVars
<1>2. CASE Parser
  <2>1. UNCHANGED <<peer, job, sent, sendMtx, wire>> BY <1>2 DEF Parser
  <2>2. CASE ParserPush \/ ParserFinish
    <3>1. wpc' = wpc \/ NotifyOne BY <2>2 DEF ParserPush, ParserFinish, Push
    <3> QED BY <2>1, <3>1, NotifyOneStep DEF ShapeInv
  <2>3. CASE ParserCloses
    BY <2>1, <2>3, NotifiedAllStep DEF ParserCloses, ShapeInv
  <2>4. CASE ParserTop \/ ParserTest \/ ParserSleeps \/ ParserRead
    BY <2>1, <2>4 DEF ParserTop, ParserTest, ParserSleeps, ParserRead
  <2> QED BY <1>2, <2>2, <2>3, <2>4 DEF Parser
<1> QED BY <1>1, <1>2

LEMMA Wire == Spec => []WireInv
<1>1. Init => WireInv
  <2> SUFFICES ASSUME Init PROVE WireInv OBVIOUS
  <2>1. MutexInv BY ConstantsAssumption DEF Init, MutexInv
  <2>2. Len(wire) = 0 BY DEF Init
  <2>3. PartsInv BY <2>2 DEF PartsInv
  <2>4. TailInv BY <2>2, ConstantsAssumption DEF Init, TailInv
  <2> QED BY <2>1, <2>3, <2>4 DEF WireInv
<1>2. ASSUME ShapeInv, WireInv, [Next]_vars PROVE WireInv'
  <2>1. CASE IoReceiver \/ Parser \/ ServerLeaves \/ Main \/ UNCHANGED vars
    BY <1>2, <2>1, OtherStep, OtherWire
  <2> QED BY <1>2, <2>1, WorkerWire DEF Next
<1> QED BY <1>1, <1>2, Shape, PTL DEF Spec

\* Types, and whole answers, always.
THEOREM TeamInvariant == Spec => []TeamInv
<1>1. ASSUME ShapeInv, WireInv PROVE WholeAnswers
  <2> SUFFICES ASSUME NEW i \in 1 .. Len(wire)
               PROVE  IF i % Parts = 1 % Parts
                      THEN wire[i][2] = 1
                      ELSE wire[i] = <<wire[i - 1][1], wire[i - 1][2] + 1>>
    BY DEF WholeAnswers
  <2>1. /\ wire \in Seq(Jobs \X (1 .. Parts)) /\ Len(wire) \in Nat
        /\ Parts \in Nat \ {0} /\ i \in Nat /\ i - 1 \in Nat /\ i >= 1
    BY <1>1, LenProperties, ConstantsAssumption DEF ShapeInv
  <2>2. /\ wire[i][2] = ((i - 1) % Parts) + 1
        /\ wire[i][2] > 1 => i - 1 \in 1 .. Len(wire) /\ wire[i][1] = wire[i - 1][1]
    BY <1>1 DEF WireInv, PartsInv
  <2>3. /\ (i - 1) % Parts \in 0 .. Parts - 1
        /\ i % Parts = IF ((i - 1) % Parts) + 1 < Parts
                       THEN ((i - 1) % Parts) + 1 ELSE 0
    <3>1. (i - 1) + 1 = i BY <2>1
    <3> QED BY <2>1, <3>1, NextRemainder
  <2>4. 1 % Parts = IF 1 < Parts THEN 1 ELSE 0
    <3>1. 0 % Parts = 0 /\ 0 + 1 = 1 BY <2>1
    <3>2. (0 + 1) % Parts = IF (0 % Parts) + 1 < Parts THEN (0 % Parts) + 1 ELSE 0
      BY <2>1, NextRemainder
    <3> QED BY <3>1, <3>2
  <2>5. i % Parts = 1 % Parts <=> (i - 1) % Parts = 0
    <3>1. PICK r \in 0 .. Parts - 1 : r = (i - 1) % Parts BY <2>3
    <3>2. i % Parts = IF r + 1 < Parts THEN r + 1 ELSE 0 BY <2>3, <3>1
    <3>3. (IF r + 1 < Parts THEN r + 1 ELSE 0) = (IF 1 < Parts THEN 1 ELSE 0) <=> r = 0
      BY <2>1
    <3> QED BY <2>4, <3>1, <3>2, <3>3
  <2>6. ASSUME (i - 1) % Parts # 0
        PROVE  wire[i] = <<wire[i - 1][1], wire[i - 1][2] + 1>>
    <3>1. i - 1 \in 1 .. Len(wire) /\ wire[i][1] = wire[i - 1][1]
      BY <2>2, <2>3, <2>6
    <3>2. wire[i - 1][2] = (((i - 1) - 1) % Parts) + 1
      BY <1>1, <3>1 DEF WireInv, PartsInv
    <3>3. /\ ((i - 1) - 1) + 1 = i - 1 /\ (i - 1) - 1 \in Nat BY <2>1, <3>1
    <3>4. (i - 1) % Parts = IF (((i - 1) - 1) % Parts) + 1 < Parts
                            THEN (((i - 1) - 1) % Parts) + 1 ELSE 0
      BY <2>1, <3>3, NextRemainder
    <3>5. wire[i][2] = wire[i - 1][2] + 1 BY <2>2, <2>6, <3>2, <3>4
    <3>6. wire[i] \in Jobs \X (1 .. Parts) BY <2>1, ElementOfSeq
    <3> QED BY <3>1, <3>5, <3>6
  <2> QED BY <2>2, <2>3, <2>5, <2>6
<1>2. TypeOK /\ WholeAnswers => TeamInv BY Zenon DEF TeamInv
<1> QED BY <1>1, <1>2, Shape, Wire, TypeCorrect, PTL

-----------------------------------------------------------------------------
(* Where the challenges are.                                               *)

\* The challenges that emit() has been called for.
Pushed == IF ppc = "push" THEN (Consumed \div 2) - 1 ELSE Consumed \div 2

\* The jobs that may have been made: of a challenge that has been pushed whole,
\* or the one of finish().
KnownJobs ==
  {j \in Jobs :
     /\ j.id <= Pushed \/ (ppc \in {"close", "done"} /\ j.id = held)
     /\ j.cut => ppc \in {"close", "done"} /\ j.id = held}

KnownInv ==
  /\ \A i \in 1 .. Len(q) : q[i] \in KnownJobs
  /\ \A w \in Workers : InHand(w) => job[w] \in KnownJobs
  /\ \A k \in 1 .. Len(wire) : wire[k][1] \in KnownJobs

\* The queue is in the order of the challenges, behind all that has left it.
OrderInv ==
  /\ \A i, j \in 1 .. Len(q) : i < j => q[i].id < q[j].id
  /\ \A i \in 1 .. Len(q) :
       /\ \A w \in Workers : InHand(w) => job[w].id < q[i].id
       /\ \A k \in 1 .. Len(wire) : wire[k][1].id < q[i].id

\* A challenge is in one hand, and answered when it is in none.
HandsInv ==
  /\ \A w, v \in Workers : InHand(w) /\ InHand(v) /\ job[v].id = job[w].id => v = w
  /\ \A w \in Workers, k \in Answers : InHand(w) => wire[k][1].id # job[w].id
  /\ AnsweredOnce

QueueInv == KnownInv /\ OrderInv /\ HandsInv

LEMMA PushedType ==
  ASSUME ShapeInv, StreamInv
  PROVE  /\ Pushed \in Int
         /\ ppc = "push" => held = Pushed + 1
         /\ ppc # "push" /\ held # 0 => held = Pushed + 1
<1>1. Consumed \in Nat BY ConsumedType DEF StreamInv, RingInOrder
<1> QED BY <1>1 DEF Pushed, StreamInv, HeldRight, Completes

\* emit() alone makes a new challenge, the next one; the others keep what was
\* known.
LEMMA ParserPushed ==
  ASSUME ShapeInv, StreamInv, Parser
  PROVE  /\ Pushed' = IF ppc = "push" THEN Pushed + 1 ELSE Pushed
         /\ KnownJobs \subseteq KnownJobs'
<1>1. Consumed \in Nat BY ConsumedType DEF StreamInv, RingInOrder
<1>2. Pushed' = IF ppc = "push" THEN Pushed + 1 ELSE Pushed
  <2>1. CASE ParserRead /\ ring # <<>>
    <3>1. ppc = "read" BY <2>1 DEF ParserRead
    <3>2. Consumed' = Consumed + 1 BY <2>1, <3>1, ParserStream
    <3>3. ppc' = IF Completes(Consumed') THEN "push" ELSE "top"
      <4>1. Head(ring) = ring[1] /\ Len(ring) >= 1
        BY <2>1, ConsumedType, HeadTailProperties
      <4>2. Head(ring) = Consumed + 1
        BY <4>1, ConsumedType DEF StreamInv, RingInOrder
      <4> QED BY <2>1, <3>2, <4>2 DEF ParserRead, Completes
    <3>4. PICK c \in Nat : c = Consumed /\ c + 1 = Consumed' BY <1>1, <3>2
    <3>5. CASE (c + 1) % 2 = 0
      <4>1. ppc' = "push" BY <3>3, <3>4, <3>5 DEF Completes
      <4>2. ((c + 1) \div 2) - 1 = c \div 2 BY <3>5
      <4> QED BY <3>1, <3>4, <4>1, <4>2 DEF Pushed
    <3>6. CASE (c + 1) % 2 # 0
      <4>1. ppc' = "top" BY <3>3, <3>4, <3>6 DEF Completes
      <4>2. (c + 1) \div 2 = c \div 2 BY <3>6
      <4> QED BY <3>1, <3>4, <4>1, <4>2 DEF Pushed
    <3> QED BY <3>5, <3>6
  <2>2. CASE ~(ParserRead /\ ring # <<>>)
    <3>1. ~(ppc = "read" /\ ring # <<>>)
      BY <2>2 DEF Parser, ParserTop, ParserTest, ParserSleeps, ParserRead,
         ParserPush, ParserFinish, ParserCloses
    <3>2. Consumed' = Consumed BY <3>1, ParserStream
    <3>3. ppc' # "push"
      BY <2>2 DEF Parser, ParserTop, ParserTest, ParserSleeps, ParserRead,
         ParserPush, ParserFinish, ParserCloses
    <3> QED BY <1>1, <3>2, <3>3 DEF Pushed
  <2> QED BY <2>1, <2>2
<1>3. ppc \in {"close", "done"} => ppc' \in {"close", "done"} /\ held' = held
  BY DEF Parser, ParserTop, ParserTest, ParserSleeps, ParserRead, ParserPush,
     ParserFinish, ParserCloses
<1>4. ASSUME NEW j \in KnownJobs PROVE j \in KnownJobs'
  <2>1. Pushed \in Int /\ j.id \in Int BY PushedType DEF KnownJobs, Jobs
  <2>2. j.id <= Pushed => j.id <= Pushed' BY <1>2, <2>1
  <2> QED BY <1>3, <2>2 DEF KnownJobs
<1> QED BY <1>2, <1>4

\* The other threads make nothing known.
LEMMA OtherPushed ==
  ASSUME Consumed' = Consumed, held' = held,
         ppc' = ppc \/ (ppc = "asleep" /\ ppc' = "test")
  PROVE  Pushed' = Pushed /\ KnownJobs' = KnownJobs
<1>1. Pushed' = Pushed BY DEF Pushed
<1>2. ppc' \in {"close", "done"} <=> ppc \in {"close", "done"} OBVIOUS
<1> QED BY <1>1, <1>2 DEF KnownJobs

\* A step that leaves the queue and the wire and takes nothing in hand.
LEMMA OtherQueue ==
  ASSUME QueueInv, UNCHANGED <<q, wire>>, KnownJobs \subseteq KnownJobs',
         \A w \in Workers : InHand(w)' => InHand(w) /\ job'[w] = job[w]
  PROVE  QueueInv'
<1>1. KnownInv' BY DEF QueueInv, KnownInv
<1>2. OrderInv' BY DEF QueueInv, OrderInv
<1>3. HandsInv' BY DEF QueueInv, HandsInv, Answers, AnsweredOnce
<1> QED BY <1>1, <1>2, <1>3 DEF QueueInv

\* A step that adds a job of the next challenge to the queue.
LEMMA PushQueue ==
  ASSUME ShapeInv, QueueInv, UNCHANGED wire,
         \A w \in Workers : InHand(w)' => InHand(w) /\ job'[w] = job[w],
         NEW j \in Jobs, q' = Append(q, j), j \in KnownJobs',
         KnownJobs \subseteq KnownJobs', \A k \in KnownJobs : k.id < j.id
  PROVE  QueueInv'
<1>1. q \in Seq(Jobs) /\ Len(q) \in Nat BY LenProperties DEF ShapeInv
<1>2. /\ Len(q') = Len(q) + 1
      /\ \A i \in 1 .. Len(q) : q'[i] = q[i]
      /\ q'[Len(q) + 1] = j
  BY <1>1, AppendProperties
<1>3. \A i \in 1 .. Len(q') : i \in 1 .. Len(q) \/ i = Len(q) + 1 BY <1>1, <1>2
<1>4. KnownInv' BY <1>2, <1>3 DEF QueueInv, KnownInv
<1>5. OrderInv'
  <2>1. ASSUME NEW i \in 1 .. Len(q'), NEW k \in 1 .. Len(q'), i < k
        PROVE  q'[i].id < q'[k].id
    <3>1. i \in 1 .. Len(q) BY <1>1, <1>2, <2>1
    <3>2. CASE k \in 1 .. Len(q)
      BY <1>2, <2>1, <3>1, <3>2 DEF QueueInv, OrderInv
    <3>3. CASE k = Len(q) + 1
      BY <1>2, <3>1, <3>3 DEF QueueInv, KnownInv
    <3> QED BY <1>3, <3>2, <3>3
  <2>2. ASSUME NEW i \in 1 .. Len(q')
        PROVE  /\ \A w \in Workers : InHand(w)' => job'[w].id < q'[i].id
               /\ \A k \in 1 .. Len(wire) : wire[k][1].id < q'[i].id
    <3>1. CASE i \in 1 .. Len(q) BY <1>2, <3>1 DEF QueueInv, OrderInv
    <3>2. CASE i = Len(q) + 1 BY <1>2, <3>2 DEF QueueInv, KnownInv
    <3> QED BY <1>3, <3>1, <3>2
  <2> QED BY <2>1, <2>2 DEF OrderInv
<1>6. HandsInv' BY DEF QueueInv, HandsInv, Answers, AnsweredOnce
<1> QED BY <1>4, <1>5, <1>6 DEF QueueInv

\* The parser pushes the next challenge, or the one that finish() completes.
LEMMA ParserQueue ==
  ASSUME ShapeInv, StreamInv, QueueInv, Parser
  PROVE  QueueInv'
<1>1. KnownJobs \subseteq KnownJobs' BY ParserPushed
<1>2. \A w \in Workers : InHand(w)' => InHand(w) /\ job'[w] = job[w]
  BY OtherStep DEF InHand
<1>3. wire' = wire BY DEF Parser
<1>4. ASSUME NEW j \in Jobs, Push(j), j \in KnownJobs',
             ppc \notin {"close", "done"}, j.id = Pushed + 1
      PROVE  QueueInv'
  <2>1. \A k \in KnownJobs : k.id < j.id
    <3>1. \A k \in KnownJobs : k.id <= Pushed /\ k.id \in Int
      BY <1>4 DEF KnownJobs, Jobs
    <3> QED BY <1>4, <3>1, PushedType
  <2>2. q' = Append(q, j) \/ q' = q BY <1>4, PushStep
  <2> QED BY <1>1, <1>2, <1>3, <1>4, <2>1, <2>2, PushQueue, OtherQueue
<1>5. CASE ParserPush
  <2>1. /\ ppc = "push" /\ Push(Emitted) BY <1>5 DEF ParserPush
  <2>2. held = Pushed + 1 /\ Pushed' = held /\ Pushed \in Int
    BY <2>1, PushedType, ParserPushed
  <2>3. held \in 1 .. Challenges BY <2>1 DEF ShapeInv
  <2>4. Emitted \in Jobs /\ Emitted.id = held /\ Emitted.cut = FALSE
    BY <2>3 DEF Emitted, Jobs
  <2>5. Emitted \in KnownJobs'
    <3>1. held <= Pushed' BY <2>2, <2>3
    <3> QED BY <2>4, <3>1 DEF KnownJobs
  <2> QED BY <1>4, <2>1, <2>2, <2>4, <2>5
<1>6. CASE ParserFinish /\ held # 0 /\ Push([id |-> held, cut |-> TRUE])
  <2> DEFINE j == [id |-> held, cut |-> TRUE]
  <2>1. /\ ppc = "finish" /\ ppc' = "close" /\ held' = held BY <1>6 DEF ParserFinish
  <2>2. held = Pushed + 1 BY <1>6, <2>1, PushedType
  <2>3. held \in 1 .. Challenges BY <1>6 DEF ShapeInv
  <2>4. j \in Jobs /\ j.id = held BY <2>3 DEF Jobs
  <2>5. j \in KnownJobs' BY <2>1, <2>4 DEF KnownJobs
  <2> HIDE DEF j
  <2>6. Push(j) BY <1>6 DEF j
  <2> QED BY <1>4, <2>1, <2>2, <2>4, <2>5, <2>6
<1>7. CASE q' = q BY <1>1, <1>2, <1>3, <1>7, OtherQueue
<1> QED BY <1>5, <1>6, <1>7 DEF Parser, ParserTop, ParserTest, ParserSleeps,
       ParserRead, ParserFinish, ParserCloses, queueVars

\* A step of a worker that pops nothing and sends nothing leaves all in place.
LEMMA WorkerHands ==
  ASSUME ShapeInv, NEW w \in Workers, Worker(w), ~SendPart(w),
         ~(Pop(w) /\ q # <<>>)
  PROVE  /\ UNCHANGED <<q, wire, job>>
         /\ \A v \in Workers : InHand(v)' => InHand(v)
         /\ \A v \in Workers : InHand(v) => InHand(v)' \/ peer' = "broken"
<1>1. CASE WorkerTop(w)
  <2>1. UNCHANGED <<q, wire, job>> BY <1>1 DEF WorkerTop, queueVars
  <2>2. wpc[w] = "top" BY <1>1 DEF WorkerTop
  <2>3. PICK place \in {"done", "pop"} : wpc' = [wpc EXCEPT ![w] = place]
    BY <1>1 DEF WorkerTop
  <2> QED BY <2>1, <2>2, <2>3 DEF ShapeInv, InHand
<1>2. CASE Pop(w)
  <2>1. UNCHANGED <<q, wire, job>> /\ wpc[w] = "pop" BY <1>2 DEF Pop
  <2>2. PICK place \in {"done", "waiting"} : wpc' = [wpc EXCEPT ![w] = place]
    BY <1>2 DEF Pop
  <2> QED BY <2>1, <2>2 DEF ShapeInv, InHand
<1>3. CASE Lock(w) BY <1>3 DEF Lock, ShapeInv, InHand, queueVars
<1>4. CASE SendFails(w) BY <1>4 DEF SendFails, ShapeInv, InHand, queueVars
<1>5. CASE WorkerCloses(w)
  <2>1. UNCHANGED <<q, wire, job>> /\ wpc[w] = "close" BY <1>5 DEF WorkerCloses
  <2>2. wpc' = [NotifiedAll EXCEPT ![w] = "done"] BY <1>5 DEF WorkerCloses
  <2> QED BY <2>1, <2>2, NotifiedAllStep DEF ShapeInv, InHand
<1> QED BY <1>1, <1>2, <1>3, <1>4, <1>5 DEF Worker

\* pop() of a job, which is the oldest.
LEMMA PopStep ==
  ASSUME ShapeInv, NEW w \in Workers, Pop(w), q # <<>>
  PROVE  /\ q \in Seq(Jobs) /\ Len(q) \in Nat /\ Len(q) >= 1
         /\ Len(q') = Len(q) - 1
         /\ \A i \in 1 .. Len(q') : q'[i] = q[i + 1]
         /\ job'[w] = q[1] /\ \A v \in Workers : v # w => job'[v] = job[v]
         /\ wpc[w] = "pop" /\ wpc' = [wpc EXCEPT ![w] = "lock"]
         /\ wire' = wire
<1>1. q \in Seq(Jobs) /\ Len(q) \in Nat /\ Len(q) >= 1
  BY EmptySeq, LenProperties DEF ShapeInv
<1>2. /\ Len(Tail(q)) = Len(q) - 1
      /\ \A i \in 1 .. Len(Tail(q)) : Tail(q)[i] = q[i + 1]
  BY <1>1, HeadTailProperties
<1>3. /\ wpc[w] = "pop" /\ wire' = wire
      /\ job' = [job EXCEPT ![w] = Head(q)] /\ q' = Tail(q)
      /\ wpc' = [wpc EXCEPT ![w] = "lock"]
  BY DEF Pop, WithoutHead
<1>4. Head(q) = q[1] OBVIOUS
<1>5. job'[w] = Head(q) /\ \A v \in Workers : v # w => job'[v] = job[v]
  BY <1>3 DEF ShapeInv
<1> QED BY <1>1, <1>2, <1>3, <1>4, <1>5

LEMMA WorkerQueue ==
  ASSUME ShapeInv, QueueInv, NEW w \in Workers, Worker(w), KnownJobs' = KnownJobs
  PROVE  QueueInv'
<1>1. CASE Pop(w) /\ q # <<>>
  <2>1. /\ Len(q) \in Nat /\ Len(q) >= 1 /\ Len(q') = Len(q) - 1
        /\ \A i \in 1 .. Len(q') : q'[i] = q[i + 1]
        /\ job'[w] = q[1] /\ \A v \in Workers : v # w => job'[v] = job[v]
        /\ wpc[w] = "pop" /\ wpc' = [wpc EXCEPT ![w] = "lock"]
        /\ wire' = wire
    BY <1>1, PopStep
  <2>2. \A v \in Workers : v # w => (InHand(v)' <=> InHand(v))
    BY <2>1 DEF ShapeInv, InHand
  <2>3. \A i \in 1 .. Len(q') : i + 1 \in 1 .. Len(q) /\ 1 < i + 1 BY <2>1
  <2>4. 1 \in 1 .. Len(q) BY <2>1
  <2>5. KnownInv'
    <3>1. \A i \in 1 .. Len(q') : q'[i] \in KnownJobs
      BY <2>1, <2>3 DEF QueueInv, KnownInv
    <3>2. \A v \in Workers : InHand(v)' => job'[v] \in KnownJobs
      BY <2>1, <2>2, <2>4 DEF QueueInv, KnownInv
    <3> QED BY <2>1, <3>1, <3>2 DEF QueueInv, KnownInv
  <2>6. OrderInv'
    <3>1. ASSUME NEW i \in 1 .. Len(q'), NEW k \in 1 .. Len(q'), i < k
          PROVE  q'[i].id < q'[k].id
      <4>1. i + 1 < k + 1 BY <2>1, <3>1
      <4> QED BY <2>1, <2>3, <4>1 DEF QueueInv, OrderInv
    <3>2. ASSUME NEW i \in 1 .. Len(q'), NEW v \in Workers, InHand(v)'
          PROVE  job'[v].id < q'[i].id
      BY <2>1, <2>2, <2>3, <2>4, <3>2 DEF QueueInv, OrderInv
    <3>3. ASSUME NEW i \in 1 .. Len(q'), NEW k \in 1 .. Len(wire)
          PROVE  wire[k][1].id < q'[i].id
      BY <2>1, <2>3 DEF QueueInv, OrderInv
    <3> QED BY <2>1, <3>1, <3>2, <3>3 DEF OrderInv
  <2>7. HandsInv'
    <3>1. ASSUME NEW v \in Workers, v # w, InHand(v)
          PROVE  job[v].id # job'[w].id
      <4>1. job[v].id < q[1].id BY <2>4, <3>1 DEF QueueInv, OrderInv
      <4>2. job[v].id \in Int /\ q[1].id \in Int
        BY <2>4, <3>1 DEF QueueInv, KnownInv, KnownJobs, Jobs
      <4> QED BY <2>1, <4>1, <4>2
    <3>2. ASSUME NEW k \in 1 .. Len(wire) PROVE wire[k][1].id # job'[w].id
      <4>1. wire[k][1].id < q[1].id BY <2>4 DEF QueueInv, OrderInv
      <4>2. wire[k][1].id \in Int /\ q[1].id \in Int
        BY <2>4 DEF QueueInv, KnownInv, KnownJobs, Jobs
      <4> QED BY <2>1, <4>1, <4>2
    <3>3. Answers' = Answers /\ Answers \subseteq 1 .. Len(wire)
      BY <2>1 DEF Answers
    <3>4. AnsweredOnce' BY <2>1, <3>3 DEF QueueInv, HandsInv, AnsweredOnce
    <3>5. ASSUME NEW u \in Workers, NEW v \in Workers, InHand(u)', InHand(v)',
                 job'[v].id = job'[u].id
          PROVE  v = u
      BY <2>1, <2>2, <3>1, <3>5 DEF QueueInv, HandsInv
    <3>6. ASSUME NEW v \in Workers, NEW k \in Answers, InHand(v)'
          PROVE  wire[k][1].id # job'[v].id
      BY <2>1, <2>2, <3>2, <3>3, <3>6 DEF QueueInv, HandsInv
    <3> QED BY <2>1, <3>3, <3>4, <3>5, <3>6 DEF HandsInv
  <2> QED BY <2>5, <2>6, <2>7 DEF QueueInv
<1>2. CASE SendPart(w)
  <2> DEFINE n == Len(wire)
  <2>1. /\ wpc[w] = "send" /\ UNCHANGED <<q, job>> /\ sent[w] \in Nat
    BY <1>2, ConstantsAssumption DEF SendPart, queueVars, ShapeInv
  <2>2. /\ n \in Nat /\ Len(wire') = n + 1
        /\ \A i \in 1 .. n : wire'[i] = wire[i]
        /\ wire'[n + 1] = <<job[w], sent[w] + 1>>
    BY <1>2, SendPartWire
  <2>3. \/ MoreToSend(w) /\ wpc' = wpc
        \/ ~MoreToSend(w) /\ wpc' = [wpc EXCEPT ![w] = "top"]
    BY <1>2 DEF SendPart
  <2>4. InHand(w) BY <2>1 DEF InHand
  <2>5. \A v \in Workers : InHand(v)' => InHand(v) BY <2>3 DEF ShapeInv, InHand
  <2> HIDE DEF n
  <2>6. \A k \in 1 .. n + 1 : k \in 1 .. n \/ k = n + 1 BY <2>2
  <2>7. KnownInv'
    <3>1. \A k \in 1 .. n + 1 : wire'[k][1] \in KnownJobs
      BY <2>2, <2>4, <2>6 DEF QueueInv, KnownInv, n
    <3> QED BY <2>1, <2>2, <2>5, <3>1 DEF QueueInv, KnownInv
  <2>8. OrderInv'
    <3>1. \A i \in 1 .. Len(q), k \in 1 .. n + 1 : wire'[k][1].id < q[i].id
      BY <2>2, <2>4, <2>6 DEF QueueInv, OrderInv, n
    <3> QED BY <2>1, <2>2, <2>5, <3>1 DEF QueueInv, OrderInv
  <2>9. HandsInv'
    <3>1. Answers \subseteq 1 .. n BY DEF Answers, n
    <3>2. CASE MoreToSend(w)
      <4>1. sent[w] + 1 # Parts BY <2>1, <3>2, ConstantsAssumption DEF MoreToSend
      <4>2. Answers' = Answers BY <2>2, <2>6, <4>1 DEF Answers, n
      <4>3. \A k \in Answers : wire'[k] = wire[k] BY <2>2, <3>1
      <4> QED BY <2>1, <2>5, <4>2, <4>3 DEF QueueInv, HandsInv, AnsweredOnce
    <3>3. CASE ~MoreToSend(w)
      <4>1. wpc' = [wpc EXCEPT ![w] = "top"] BY <2>3, <3>3
      <4>2. \A v \in Workers : InHand(v)' => InHand(v) /\ v # w
        BY <2>5, <4>1 DEF ShapeInv, InHand
      <4>3. Answers' \subseteq Answers \cup {n + 1}
        BY <2>2, <2>6 DEF Answers, n
      <4>4. \A k \in Answers : wire'[k] = wire[k] BY <2>2, <3>1
      <4>5. wire'[n + 1][1] = job[w] BY <2>2
      <4>6. \A u, v \in Workers :
              InHand(u)' /\ InHand(v)' /\ job'[v].id = job'[u].id => v = u
        BY <2>1, <4>2 DEF QueueInv, HandsInv
      <4>7. ASSUME NEW v \in Workers, NEW k \in Answers', InHand(v)'
            PROVE  wire'[k][1].id # job[v].id
        BY <2>4, <4>2, <4>3, <4>4, <4>5, <4>7 DEF QueueInv, HandsInv
      <4>8. ASSUME NEW i \in Answers', NEW k \in Answers',
                   wire'[i][1].id = wire'[k][1].id
            PROVE  i = k
        BY <2>4, <4>3, <4>4, <4>5, <4>8 DEF QueueInv, HandsInv, AnsweredOnce
      <4> QED BY <2>1, <4>6, <4>7, <4>8 DEF HandsInv, AnsweredOnce
    <3> QED BY <3>2, <3>3
  <2> QED BY <2>7, <2>8, <2>9 DEF QueueInv
<1>3. CASE ~SendPart(w) /\ ~(Pop(w) /\ q # <<>>)
  <2>1. UNCHANGED <<q, wire, job>> /\ \A v \in Workers : InHand(v)' => InHand(v)
    BY <1>3, WorkerHands
  <2> QED BY <2>1, OtherQueue
<1> QED BY <1>1, <1>2, <1>3

LEMMA Queue == Spec => []QueueInv
<1>1. Init => QueueInv
  <2> SUFFICES ASSUME Init PROVE QueueInv OBVIOUS
  <2>1. Len(q) = 0 /\ Len(wire) = 0 /\ \A w \in Workers : ~InHand(w)
    BY DEF Init, InHand
  <2>2. Answers = {} BY <2>1 DEF Answers
  <2> QED BY <2>1, <2>2 DEF QueueInv, KnownInv, OrderInv, HandsInv, AnsweredOnce
<1>2. ASSUME ShapeInv, StreamInv, QueueInv, [Next]_vars PROVE QueueInv'
  <2>1. CASE IoReceiver
    <3>1. Consumed' = Consumed /\ held' = held
          /\ (ppc' = ppc \/ (ppc = "asleep" /\ ppc' = "test"))
      BY <1>2, <2>1, IoStream DEF IoReceiver, IoTop, IoRecv, IoEnds, IoWrite,
         IoNotify, IoStops, IoCloses, IoNotifiesClose, WakeParser
    <3>2. UNCHANGED <<q, wire, wpc, job>>
      BY <2>1 DEF IoReceiver, queueVars, workVars
    <3> QED BY <1>2, <3>1, <3>2, OtherPushed, OtherQueue DEF InHand
  <2>2. CASE ServerLeaves \/ Main \/ UNCHANGED vars
    <3>1. UNCHANGED <<received, ipc, ring, ppc, held, q, wire, wpc, job>>
      BY <2>2 DEF ServerLeaves, Main, JoinIo, JoinParser, JoinWorkers, vars, ioVars,
         ringVars, queueVars, workVars
    <3>2. Consumed' = Consumed BY <3>1 DEF Consumed, Written
    <3> QED BY <1>2, <3>1, <3>2, OtherPushed, OtherQueue DEF InHand
  <2>3. CASE Parser BY <1>2, <2>3, ParserQueue
  <2>4. ASSUME NEW w \in Workers, Worker(w) PROVE QueueInv'
    <3>1. UNCHANGED <<received, ipc, ring, ppc, held>>
      BY <2>4 DEF Worker, workerRest, ioVars, ringVars
    <3>2. Consumed' = Consumed BY <3>1 DEF Consumed, Written
    <3> QED BY <1>2, <2>4, <3>1, <3>2, OtherPushed, WorkerQueue
  <2> QED BY <1>2, <2>1, <2>2, <2>3, <2>4 DEF Next
<1> QED BY <1>1, <1>2, Shape, Stream, PTL DEF Spec

\* Each challenge is answered once, always.
THEOREM AnswersOnce == Spec => []AnsweredOnce
<1>1. QueueInv => AnsweredOnce BY DEF QueueInv, HandsInv
<1> QED BY <1>1, Queue, PTL

\* A cut job is answered only when the client stops, and its challenge is the
\* last of those that are, always.
THEOREM CutAtTheEnd == Spec => []CutOnlyAtTheEnd
<1>1. ASSUME ShapeInv, StreamInv, QueueInv PROVE CutOnlyAtTheEnd
  <2> SUFFICES ASSUME NEW i \in 1 .. Len(wire), wire[i][1].cut
               PROVE  stop /\ \A j \in 1 .. Len(wire) :
                                wire[j][1].id <= wire[i][1].id
    BY DEF CutOnlyAtTheEnd
  <2>1. \A j \in 1 .. Len(wire) : wire[j][1] \in KnownJobs
    BY <1>1 DEF QueueInv, KnownInv
  <2>2. ppc \in {"close", "done"} /\ wire[i][1].id = held BY <2>1 DEF KnownJobs
  <2>3. stop BY <1>1, <2>2 DEF StreamInv, StopFirst
  <2>4. held # 0 BY <2>1, <2>2 DEF KnownJobs, Jobs
  <2>5. held = Pushed + 1 /\ Pushed \in Int BY <1>1, <2>2, <2>4, PushedType
  <2>6. ASSUME NEW j \in 1 .. Len(wire) PROVE wire[j][1].id <= held
    <3>1. wire[j][1].id \in Int /\ (wire[j][1].id <= Pushed \/ wire[j][1].id = held)
      BY <2>1 DEF KnownJobs, Jobs
    <3> QED BY <2>5, <3>1
  <2> QED BY <2>2, <2>3, <2>6
<1> QED BY <1>1, Shape, Stream, Queue, PTL

-----------------------------------------------------------------------------
(* None is lost.                                                           *)

\* Where a challenge may be once it has been pushed.
Queued(n) == \E i \in 1 .. Len(q) : q[i].id = n
Held(n) == \E w \in Workers : InHand(w) /\ job[w].id = n
Answered(n) == \E k \in Answers : wire[k][1].id = n

Located(n) == Queued(n) \/ Held(n) \/ Answered(n)

\* Until the connection breaks, no challenge that has been pushed is lost.
ServedInv == peer # "broken" => \A n \in 1 .. Pushed : Located(n)

\* The queue is closed by the parser at its end, or when the connection breaks.
LEMMA Closed == Spec => [](qClosed => ppc = "done" \/ peer = "broken")
<1> DEFINE ClosedInv == qClosed => ppc = "done" \/ peer = "broken"
<1>1. Init => ClosedInv BY DEF Init
<1>2. ASSUME WireInv, ClosedInv, [Next]_vars PROVE ClosedInv'
  <2>1. CASE IoReceiver
    BY <1>2, <2>1, Zenon DEF IoReceiver, IoTop, IoRecv, IoEnds, IoWrite, IoNotify, IoStops,
       IoCloses, IoNotifiesClose, WakeParser, queueVars
  <2>2. CASE Parser
    BY <1>2, <2>2 DEF Parser, ParserTop, ParserTest, ParserSleeps, ParserRead,
       ParserPush, ParserFinish, ParserCloses, queueVars
  <2>3. ASSUME NEW w \in Workers, Worker(w) PROVE ClosedInv'
    <3>1. ppc' = ppc BY <2>3 DEF Worker, workerRest
    <3>2. peer = "broken" => peer' = "broken"
      BY <2>3 DEF Worker, WorkerTop, Pop, Lock, SendPart, SendFails, WorkerCloses
    <3>3. wpc[w] = "close" => peer = "broken" BY <1>2 DEF WireInv, MutexInv
    <3>4. qClosed' = qClosed \/ wpc[w] = "close"
      BY <2>3, Zenon DEF Worker, WorkerTop, Pop, Lock, SendPart, SendFails,
         WorkerCloses, queueVars
    <3> QED BY <1>2, <3>1, <3>2, <3>3, <3>4, Zenon
  <2>4. CASE ServerLeaves \/ Main \/ UNCHANGED vars
    BY <1>2, <2>4 DEF ServerLeaves, Main, JoinIo, JoinParser, JoinWorkers, vars,
       queueVars
  <2> QED BY <1>2, <2>1, <2>2, <2>3, <2>4 DEF Next
<1> QED BY <1>1, <1>2, Wire, PTL DEF Spec


\* A step that leaves the queue and the wire, and what is in hand.
LEMMA OtherServed ==
  ASSUME ServedInv, UNCHANGED <<q, wire, job>>, Pushed' = Pushed,
         peer = "broken" => peer' = "broken",
         \A w \in Workers : InHand(w) => InHand(w)' \/ peer' = "broken"
  PROVE  ServedInv'
<1> SUFFICES ASSUME peer' # "broken", NEW n \in 1 .. Pushed PROVE Located(n)'
  BY DEF ServedInv
<1>1. Located(n) BY DEF ServedInv
<1>2. Queued(n) => Queued(n)' BY DEF Queued
<1>3. Held(n) => Held(n)' BY DEF Held
<1>4. Answered(n) => Answered(n)' BY DEF Answered, Answers
<1> QED BY <1>1, <1>2, <1>3, <1>4 DEF Located

LEMMA ParserServed ==
  ASSUME ShapeInv, StreamInv, ServedInv, Parser,
         qClosed => ppc = "done" \/ peer = "broken"
  PROVE  ServedInv'
<1>1. /\ UNCHANGED <<peer, job, wire>>
      /\ \A w \in Workers : InHand(w) => InHand(w)'
  BY OtherStep DEF Parser, InHand
<1>2. Pushed' = IF ppc = "push" THEN Pushed + 1 ELSE Pushed BY ParserPushed
<1>3. ASSUME NEW j \in Jobs, Push(j), ppc # "done", peer # "broken"
      PROVE  \A n : n = j.id \/ Queued(n) => Queued(n)'
  <2>1. q' = Append(q, j) BY <1>3, PushStep
  <2>2. q \in Seq(Jobs) /\ Len(q) \in Nat BY LenProperties DEF ShapeInv
  <2>3. /\ Len(q') = Len(q) + 1
        /\ \A i \in 1 .. Len(q) : q'[i] = q[i]
        /\ q'[Len(q) + 1] = j
    BY <2>1, <2>2, AppendProperties
  <2>4. Len(q) + 1 \in 1 .. Len(q') BY <2>2, <2>3
  <2>5. ASSUME NEW n, n = j.id PROVE Queued(n)' BY <2>3, <2>4, <2>5 DEF Queued
  <2>6. ASSUME NEW n, Queued(n) PROVE Queued(n)'
    <3>1. PICK i \in 1 .. Len(q) : q[i].id = n BY <2>6 DEF Queued
    <3>2. i \in 1 .. Len(q') BY <2>2, <2>3
    <3> QED BY <2>3, <3>1, <3>2 DEF Queued
  <2> QED BY <2>5, <2>6
<1> SUFFICES ASSUME peer' # "broken", NEW n \in 1 .. Pushed' PROVE Located(n)'
  BY DEF ServedInv
<1>4. peer # "broken" BY <1>1
<1>5. ASSUME n \in 1 .. Pushed, Queued(n) => Queued(n)' PROVE Located(n)'
  <2>1. Located(n) BY <1>4, <1>5 DEF ServedInv
  <2>2. Held(n) => Held(n)' BY <1>1 DEF Held
  <2>3. Answered(n) => Answered(n)' BY <1>1 DEF Answered, Answers
  <2> QED BY <1>5, <2>1, <2>2, <2>3 DEF Located
<1>6. CASE ParserPush
  <2>1. ppc = "push" /\ Push(Emitted) BY <1>6 DEF ParserPush
  <2>2. held \in 1 .. Challenges BY <2>1 DEF ShapeInv
  <2>3. Emitted \in Jobs /\ Emitted.id = held BY <2>2 DEF Emitted, Jobs
  <2>4. held = Pushed + 1 /\ Pushed \in Int /\ Pushed' = Pushed + 1
    BY <1>2, <2>1, PushedType
  <2>5. n \in 1 .. Pushed \/ n = held BY <2>4
  <2>6. n = held \/ Queued(n) => Queued(n)' BY <1>3, <1>4, <2>1, <2>3
  <2> QED BY <1>5, <2>5, <2>6 DEF Located
<1>7. CASE ~ParserPush
  <2>1. ppc # "push"
    BY <1>7 DEF Parser, ParserTop, ParserTest, ParserSleeps, ParserRead,
       ParserFinish, ParserCloses
  <2>2. n \in 1 .. Pushed BY <1>2, <2>1
  <2>3. CASE ParserFinish /\ held # 0 /\ Push([id |-> held, cut |-> TRUE])
    <3>1. held \in 1 .. Challenges BY <2>3 DEF ShapeInv
    <3>2. [id |-> held, cut |-> TRUE] \in Jobs BY <3>1 DEF Jobs
    <3>3. ppc # "done" BY <2>3 DEF ParserFinish
    <3> QED BY <1>3, <1>4, <1>5, <2>2, <2>3, <3>2, <3>3
  <2>4. CASE q' = q BY <1>5, <2>2, <2>4 DEF Queued
  <2> QED BY <1>7, <2>3, <2>4 DEF Parser, ParserTop, ParserTest, ParserSleeps,
         ParserRead, ParserFinish, ParserCloses, queueVars
<1> QED BY <1>6, <1>7

LEMMA WorkerServed ==
  ASSUME ShapeInv, ServedInv, NEW w \in Workers, Worker(w), Pushed' = Pushed
  PROVE  ServedInv'
<1>1. peer = "broken" => peer' = "broken"
  BY DEF Worker, WorkerTop, Pop, Lock, SendPart, SendFails, WorkerCloses
<1>2. CASE ~SendPart(w) /\ ~(Pop(w) /\ q # <<>>)
  <2>1. /\ UNCHANGED <<q, wire, job>>
        /\ \A v \in Workers : InHand(v) => InHand(v)' \/ peer' = "broken"
    BY <1>2, WorkerHands
  <2> QED BY <1>1, <2>1, OtherServed
<1> SUFFICES ASSUME peer' # "broken", NEW n \in 1 .. Pushed,
                    SendPart(w) \/ (Pop(w) /\ q # <<>>)
             PROVE  Located(n)'
  BY <1>2 DEF ServedInv
<1>3. Located(n) BY <1>1 DEF ServedInv
<1>4. CASE Pop(w) /\ q # <<>>
  <2>1. /\ Len(q) \in Nat /\ Len(q) >= 1 /\ Len(q') = Len(q) - 1
        /\ \A i \in 1 .. Len(q') : q'[i] = q[i + 1]
        /\ job'[w] = q[1] /\ \A v \in Workers : v # w => job'[v] = job[v]
        /\ wpc[w] = "pop" /\ wpc' = [wpc EXCEPT ![w] = "lock"]
        /\ wire' = wire
    BY <1>4, PopStep
  <2>2. ASSUME Queued(n) PROVE Located(n)'
    <3>1. PICK i \in 1 .. Len(q) : q[i].id = n BY <2>2 DEF Queued
    <3>2. CASE i = 1
      <4>1. InHand(w)' BY <2>1 DEF ShapeInv, InHand
      <4> QED BY <2>1, <3>1, <3>2, <4>1 DEF Located, Held
    <3>3. CASE i # 1
      <4>1. i - 1 \in 1 .. Len(q') /\ (i - 1) + 1 = i BY <2>1, <3>3
      <4>2. q'[i - 1] = q[i] BY <2>1, <4>1
      <4> QED BY <3>1, <4>1, <4>2 DEF Located, Queued
    <3> QED BY <3>2, <3>3
  <2>3. ASSUME Held(n) PROVE Held(n)'
    <3>1. PICK v \in Workers : InHand(v) /\ job[v].id = n BY <2>3 DEF Held
    <3>2. v # w /\ InHand(v)' BY <2>1, <3>1 DEF ShapeInv, InHand
    <3> QED BY <2>1, <3>1, <3>2 DEF Held
  <2>4. Answered(n) => Answered(n)' BY <2>1 DEF Answered, Answers
  <2> QED BY <1>3, <2>2, <2>3, <2>4 DEF Located
<1>5. CASE SendPart(w)
  <2>1. /\ wpc[w] = "send" /\ UNCHANGED <<q, job>>
        /\ sent[w] \in Nat /\ sent[w] < Parts /\ Parts \in Nat
    BY <1>5, ConstantsAssumption DEF SendPart, queueVars, ShapeInv
  <2>2. /\ Len(wire) \in Nat /\ Len(wire') = Len(wire) + 1
        /\ \A i \in 1 .. Len(wire) : wire'[i] = wire[i]
        /\ wire'[Len(wire) + 1] = <<job[w], sent[w] + 1>>
    BY <1>5, SendPartWire
  <2>3. \/ MoreToSend(w) /\ wpc' = wpc
        \/ ~MoreToSend(w) /\ wpc' = [wpc EXCEPT ![w] = "top"]
    BY <1>5 DEF SendPart
  <2>4. Queued(n) => Queued(n)' BY <2>1 DEF Queued
  <2>5. ASSUME Held(n) PROVE Located(n)'
    <3>1. PICK v \in Workers : InHand(v) /\ job[v].id = n BY <2>5 DEF Held
    <3>2. CASE v # w \/ MoreToSend(w)
      <4>1. InHand(v)' BY <2>3, <3>1, <3>2 DEF ShapeInv, InHand
      <4> QED BY <2>1, <3>1, <4>1 DEF Located, Held
    <3>3. CASE v = w /\ ~MoreToSend(w)
      <4>1. sent[w] + 1 = Parts BY <2>1, <3>3 DEF MoreToSend
      <4>2. Len(wire) + 1 \in Answers' BY <2>2, <4>1 DEF Answers
      <4>3. wire'[Len(wire) + 1][1] = job[w] BY <2>2
      <4> QED BY <3>1, <3>3, <4>2, <4>3 DEF Located, Answered
    <3> QED BY <3>2, <3>3
  <2>6. ASSUME Answered(n) PROVE Answered(n)'
    <3>1. PICK k \in Answers : wire[k][1].id = n BY <2>6 DEF Answered
    <3>2. wire'[k] = wire[k] /\ k \in Answers' BY <2>2, <3>1 DEF Answers
    <3> QED BY <3>1, <3>2 DEF Answered
  <2> QED BY <1>3, <2>4, <2>5, <2>6 DEF Located
<1> QED BY <1>4, <1>5

LEMMA Served == Spec => []ServedInv
<1>1. Init => ServedInv
  BY DEF Init, ServedInv, Pushed, Consumed, Written
<1>2. ASSUME ShapeInv, StreamInv, ServedInv, [Next]_vars,
             qClosed => ppc = "done" \/ peer = "broken"
      PROVE  ServedInv'
  <2>1. CASE IoReceiver
    <3>1. Consumed' = Consumed /\ held' = held
          /\ (ppc' = ppc \/ (ppc = "asleep" /\ ppc' = "test"))
      BY <1>2, <2>1, IoStream DEF IoReceiver, IoTop, IoRecv, IoEnds, IoWrite,
         IoNotify, IoStops, IoCloses, IoNotifiesClose, WakeParser
    <3>2. UNCHANGED <<peer, q, wire, wpc, job>>
      BY <2>1 DEF IoReceiver, queueVars, workVars
    <3> QED BY <1>2, <3>1, <3>2, OtherPushed, OtherServed DEF InHand
  <2>2. CASE ServerLeaves \/ Main \/ UNCHANGED vars
    <3>1. UNCHANGED <<received, ipc, ring, ppc, held, q, wire, wpc, job>>
      BY <2>2 DEF ServerLeaves, Main, JoinIo, JoinParser, JoinWorkers, vars, ioVars,
         ringVars, queueVars, workVars
    <3>2. Consumed' = Consumed BY <3>1 DEF Consumed, Written
    <3>3. peer = "broken" => peer' = "broken" BY <1>2, <2>2, OtherStep
    <3> QED BY <1>2, <3>1, <3>2, <3>3, OtherPushed, OtherServed DEF InHand
  <2>3. CASE Parser BY <1>2, <2>3, ParserServed
  <2>4. ASSUME NEW w \in Workers, Worker(w) PROVE ServedInv'
    <3>1. UNCHANGED <<received, ipc, ring, ppc, held>>
      BY <2>4 DEF Worker, workerRest, ioVars, ringVars
    <3>2. Consumed' = Consumed BY <3>1 DEF Consumed, Written
    <3> QED BY <1>2, <2>4, <3>1, <3>2, OtherPushed, WorkerServed
  <2> QED BY <1>2, <2>1, <2>2, <2>3, <2>4 DEF Next
<1> QED BY <1>1, <1>2, Shape, Stream, Closed, PTL DEF Spec

-----------------------------------------------------------------------------
(* How far answers overtake.                                               *)

\* Of the challenges before the one whose answer w ends, those that are not
\* answered yet are in the hands of the other workers.
LEMMA FewPending ==
  ASSUME ShapeInv, StreamInv, QueueInv, ServedInv, NEW w \in Workers, SendPart(w)
  PROVE  Cardinality({n \in 1 .. job[w].id - 1 : ~Answered(n)})
           < Cardinality(Workers)
<1> DEFINE m == job[w].id
           S == {n \in 1 .. m - 1 : ~Answered(n)}
           f == [n \in S |-> CHOOSE v \in Workers : InHand(v) /\ job[v].id = n]
<1>1. InHand(w) /\ peer # "broken" BY DEF SendPart, InHand
<1>2. job[w] \in KnownJobs BY <1>1 DEF QueueInv, KnownInv
<1>3. m \in 1 .. Challenges BY <1>2 DEF KnownJobs, Jobs
<1>4. Pushed \in Int /\ m <= Pushed + 1
  <2>1. Pushed \in Int BY PushedType
  <2>2. m <= Pushed \/ (ppc \in {"close", "done"} /\ m = held)
    BY <1>2 DEF KnownJobs
  <2>3. ppc \in {"close", "done"} /\ m = held => held = Pushed + 1
    BY <1>3, PushedType
  <2> QED BY <1>3, <2>1, <2>2, <2>3
<1>5. ASSUME NEW n \in S
      PROVE  \E v \in Workers \ {w} : InHand(v) /\ job[v].id = n
  <2>1. n \in 1 .. Pushed /\ n < m /\ n \in Int BY <1>3, <1>4
  <2>2. Located(n) BY <1>1, <2>1 DEF ServedInv
  <2>3. ~Queued(n)
    <3>1. ASSUME NEW i \in 1 .. Len(q), q[i].id = n PROVE FALSE
      BY <1>1, <1>3, <2>1, <3>1 DEF QueueInv, OrderInv
    <3> QED BY <3>1 DEF Queued
  <2>4. Held(n) BY <2>2, <2>3 DEF Located
  <2> QED BY <1>3, <2>1, <2>4 DEF Held
<1>6. ASSUME NEW n \in S
      PROVE  f[n] \in Workers \ {w} /\ InHand(f[n]) /\ job[f[n]].id = n
  <2>1. n < m /\ n \in Int BY <1>3
  <2>2. f[n] \in Workers /\ InHand(f[n]) /\ job[f[n]].id = n BY <1>5
  <2> QED BY <1>3, <2>1, <2>2
<1>7. f \in Injection(S, Workers \ {w})
  <2>1. f \in [S -> Workers \ {w}] BY <1>6
  <2>2. \A a, b \in S : f[a] = f[b] => a = b BY <1>6
  <2> HIDE DEF f, S
  <2> QED BY <2>1, <2>2 DEF Injection, IsInjective
<1>8. /\ IsFiniteSet(Workers \ {w})
      /\ Cardinality(Workers \ {w}) = Cardinality(Workers) - 1
      /\ Cardinality(Workers) \in Nat
  BY ConstantsAssumption, FS_RemoveElement, FS_CardinalityType
<1> HIDE DEF S, f
<1>9. IsFiniteSet(S) /\ Cardinality(S) <= Cardinality(Workers \ {w})
  BY <1>7, <1>8, FS_Injection
<1>10. Cardinality(S) \in Nat BY <1>9, FS_CardinalityType
<1>11. Cardinality(S) < Cardinality(Workers) BY <1>8, <1>9, <1>10
<1> QED BY <1>11 DEF S, m

\* The challenges before that of answer i that no earlier answer is for.
Pending(i) ==
  {n \in 1 .. wire[i][1].id - 1 : \A j \in Answers : j < i => wire[j][1].id # n}

LEMMA OvertakingStep ==
  ASSUME ShapeInv, StreamInv, QueueInv, ServedInv, Overtaking, [Next]_vars
  PROVE  Overtaking'
<1>1. CASE wire' = wire BY <1>1 DEF Overtaking, Answers
<1>2. ASSUME NEW w \in Workers, SendPart(w) PROVE Overtaking'
  <2> DEFINE n == Len(wire)
  <2>1. /\ n \in Nat /\ Len(wire') = n + 1
        /\ \A i \in 1 .. n : wire'[i] = wire[i]
        /\ wire'[n + 1] = <<job[w], sent[w] + 1>>
    BY <1>2, SendPartWire
  <2>2. Answers \subseteq 1 .. n /\ Answers' \subseteq 1 .. n + 1
    BY <2>1 DEF Answers
  <2>3. \A i \in 1 .. n : i \in Answers' <=> i \in Answers BY <2>1 DEF Answers
  <2> HIDE DEF n
  <2>4. \A i, j : i \in 1 .. n + 1 /\ j \in Answers' /\ j < i => j \in 1 .. n
    BY <2>1, <2>2
  <2>5. ASSUME NEW i \in Answers', i \in 1 .. n PROVE Pending(i)' = Pending(i)
    <3>1. \A j : (j \in Answers' /\ j < i) <=> (j \in Answers /\ j < i)
      BY <2>1, <2>2, <2>3, <2>4, <2>5
    <3>2. \A j \in Answers : wire'[j] = wire[j] BY <2>1, <2>2
    <3> QED BY <2>1, <2>5, <3>1, <3>2 DEF Pending
  <2>6. ASSUME NEW i \in Answers', i = n + 1
        PROVE  Pending(i)' = {k \in 1 .. job[w].id - 1 : ~Answered(k)}
    <3>1. \A j : (j \in Answers' /\ j < i) <=> j \in Answers
      <4>1. \A j \in 1 .. n : j < i BY <2>1, <2>6
      <4> QED BY <2>2, <2>3, <2>4, <2>6, <4>1
    <3>2. \A j \in Answers : wire'[j] = wire[j] BY <2>1, <2>2
    <3>3. wire'[i][1] = job[w] BY <2>1, <2>6
    <3> QED BY <3>1, <3>2, <3>3 DEF Pending, Answered
  <2>7. ASSUME NEW i \in Answers'
        PROVE  Cardinality(Pending(i)') < Cardinality(Workers)
    <3>1. CASE i \in 1 .. n
      <4>1. Cardinality(Pending(i)) < Cardinality(Workers)
        BY <2>3, <3>1 DEF Overtaking, Pending
      <4> QED BY <2>5, <3>1, <4>1
    <3>2. CASE i = n + 1 BY <1>2, <2>6, <3>2, FewPending
    <3> QED BY <2>1, <2>2, <3>1, <3>2
  <2> QED BY <2>7 DEF Overtaking, Pending
<1>3. wire' = wire \/ \E w \in Workers : SendPart(w)
  <2>1. CASE IoReceiver \/ Parser \/ ServerLeaves \/ Main \/ UNCHANGED vars
    BY <2>1, OtherStep
  <2>2. ASSUME NEW w \in Workers, Worker(w) PROVE wire' = wire \/ SendPart(w)
    BY <2>2, WorkerHands, PopStep
  <2> QED BY <2>1, <2>2 DEF Next
<1> QED BY <1>1, <1>2, <1>3

\* When an answer is sent fewer than Workers earlier challenges are still to be
\* answered, always.
THEOREM OvertakingBounded == Spec => []Overtaking
<1>1. Init => Overtaking BY DEF Init, Overtaking, Answers
<1>2. ShapeInv /\ StreamInv /\ QueueInv /\ ServedInv /\ Overtaking /\ [Next]_vars
        => Overtaking'
  BY OvertakingStep
<1> QED BY <1>1, <1>2, Shape, Stream, Queue, Served, PTL DEF Spec

=============================================================================
