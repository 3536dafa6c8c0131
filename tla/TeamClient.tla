----------------------------- MODULE TeamClient -----------------------------
(***************************************************************************)
(* The team client (hftclient2026/main_team.cpp) as a whole: receiver,     *)
(* parser, the job queue, the workers that compute and answer side by      *)
(* side, and main, which joins them.                                       *)
(*                                                                         *)
(* The ring is a bounded sequence of pieces here, with the parser's sleep  *)
(* and the notifications as in BlockingRing.  A challenge arrives in two   *)
(* pieces, cut anywhere: piece 2i - 1 begins challenge i, piece 2i         *)
(* completes it.  When the parser ends between them, finish() completes a  *)
(* number that was being read; if it is the last of B, a job is emitted    *)
(* whose last cell is cut.  An answer takes Parts calls of send().         *)
(***************************************************************************)
EXTENDS Integers, Sequences, FiniteSets

CONSTANTS
  Workers,
  RingPieces,   \* what the ring holds
  Challenges,   \* how many challenges the server sends
  Parts         \* how many send()s an answer takes

Nobody == "nobody"

ASSUME ConstantsAssumption ==
  /\ IsFiniteSet(Workers) /\ Workers # {} /\ Nobody \notin Workers
  /\ RingPieces \in Nat \ {0}
  /\ Challenges \in Nat
  /\ Parts \in Nat \ {0}

VARIABLES
  peer,                     \* the server: open, gone, or broken (a send has failed)
  received,                 \* pieces recv() has returned
  ring, ringClosed,
  stop,
  ipc,                      \* ioReceiverThread
  ppc, held,                \* parserThread; the challenge half parsed
  q, qClosed,               \* JobQueue
  wpc, job, sent,           \* the workers, the job of each, parts of its answer sent
  sendMtx,                  \* who holds it
  wire,                     \* what has been sent, part by part
  mpc                       \* main

ringVars == <<ring, ringClosed>>
ioVars == <<received, ipc>>
queueVars == <<q, qClosed>>
workVars == <<wpc, job, sent, sendMtx, wire>>
vars == <<peer, ioVars, ringVars, stop, ppc, held, queueVars, workVars, mpc>>

Pieces == 1 .. 2 * Challenges
ChallengeOf(p) == (p + 1) \div 2
Completes(p) == p % 2 = 0
Jobs == [id : 1 .. Challenges, cut : BOOLEAN]
Nothing == [id |-> 0, cut |-> FALSE]

Init ==
  /\ peer = "open"
  /\ received = 0
  /\ ring = <<>>
  /\ ringClosed = FALSE
  /\ stop = FALSE
  /\ ipc = "top"
  /\ ppc = "top"
  /\ held = 0
  /\ q = <<>>
  /\ qClosed = FALSE
  /\ wpc = [w \in Workers |-> "top"]
  /\ job = [w \in Workers |-> Nothing]
  /\ sent = [w \in Workers |-> 0]
  /\ sendMtx = Nobody
  /\ wire = <<>>
  /\ mpc = "join_io"

-----------------------------------------------------------------------------
(* The server.                                                             *)

ServerLeaves ==
  /\ peer = "open"
  /\ peer' = "gone"
  /\ UNCHANGED <<ioVars, ringVars, stop, ppc, held, queueVars, workVars, mpc>>

-----------------------------------------------------------------------------
(* ioReceiverThread.                                                       *)

WakeParser == ppc' = IF ppc = "asleep" THEN "test" ELSE ppc

IoTop ==
  /\ ipc = "top"
  /\ ipc' = IF stop THEN "stop" ELSE "recv"
  /\ UNCHANGED <<received, ringVars, stop, ppc>>

IoRecv ==
  /\ ipc = "recv"
  /\ received < 2 * Challenges
  /\ peer # "broken"
  /\ received' = received + 1
  /\ ipc' = "write"
  /\ UNCHANGED <<ringVars, stop, ppc>>

\* recv() returns 0 or an error; until the server has gone it may block.
IoEnds ==
  /\ ipc = "recv"
  /\ peer # "open"
  /\ ipc' = "stop"
  /\ UNCHANGED <<received, ringVars, stop, ppc>>

\* ring.write(): it yields, whatever happens, while the ring is full.
IoWrite ==
  /\ ipc = "write"
  /\ Len(ring) < RingPieces
  /\ ring' = Append(ring, received)
  /\ ipc' = "notify"
  /\ UNCHANGED <<received, ringClosed, stop, ppc>>

IoNotify ==
  /\ ipc = "notify"
  /\ WakeParser
  /\ ipc' = "top"
  /\ UNCHANGED <<received, ringVars, stop>>

IoStops ==
  /\ ipc = "stop"
  /\ stop' = TRUE
  /\ ipc' = "close"
  /\ UNCHANGED <<received, ringVars, ppc>>

IoCloses ==
  /\ ipc = "close"
  /\ ringClosed' = TRUE
  /\ ipc' = "notify_close"
  /\ UNCHANGED <<received, ring, stop, ppc>>

IoNotifiesClose ==
  /\ ipc = "notify_close"
  /\ WakeParser
  /\ ipc' = "done"
  /\ UNCHANGED <<received, ringVars, stop>>

IoReceiver ==
  /\ \/ IoTop
     \/ IoRecv
     \/ IoEnds
     \/ IoWrite
     \/ IoNotify
     \/ IoStops
     \/ IoCloses
     \/ IoNotifiesClose
  /\ UNCHANGED <<peer, held, queueVars, workVars, mpc>>

-----------------------------------------------------------------------------
(* JobQueue: each call holds its mutex throughout, except while it waits.  *)

Waiting == {w \in Workers : wpc[w] = "waiting"}

\* Mutant: the newest job is taken first.
WithFront(j) == <<j>> \o q

With(j) == Append(q, j)

\* Mutant: nobody is notified when other jobs are queued already.
NotifyFirst == IF Waiting = {} \/ q # <<>>
               THEN UNCHANGED wpc
               ELSE \E w \in Waiting : wpc' = [wpc EXCEPT ![w] = "pop"]

NotifyOne == IF Waiting = {}
             THEN UNCHANGED wpc
             ELSE \E w \in Waiting : wpc' = [wpc EXCEPT ![w] = "pop"]

Push(j) == IF qClosed
           THEN UNCHANGED <<q, wpc>>
           ELSE q' = With(j) /\ NotifyOne

\* Mutant: one of the workers that wait for the queue is notified.
NotifiedOne == IF Waiting = {}
               THEN wpc
               ELSE [wpc EXCEPT ![CHOOSE w \in Waiting : TRUE] = "pop"]

\* close(): all of them are.
NotifiedAll == [w \in Workers |-> IF wpc[w] = "waiting" THEN "pop" ELSE wpc[w]]

\* Mutant: the job stays in the queue.
Kept == q

WithoutHead == Tail(q)

\* pop(), and the checksum, which touches nothing shared.
Pop(w) ==
  /\ wpc[w] = "pop"
  /\ IF q # <<>>
     THEN /\ job' = [job EXCEPT ![w] = Head(q)]
          /\ q' = WithoutHead
          /\ wpc' = [wpc EXCEPT ![w] = "lock"]
     ELSE /\ wpc' = [wpc EXCEPT ![w] = IF qClosed THEN "done" ELSE "waiting"]
          /\ UNCHANGED <<q, job>>
  /\ UNCHANGED <<peer, stop, qClosed, sent, sendMtx, wire>>

-----------------------------------------------------------------------------
(* parserThread.                                                           *)

ParserTop ==
  /\ ppc = "top"
  /\ ppc' = IF stop THEN "finish" ELSE "test"
  /\ UNCHANGED <<ring, held, queueVars, wpc>>

\* ring.read(): the predicate of wait().
ParserTest ==
  /\ ppc = "test"
  /\ ppc' = IF ring # <<>> \/ ringClosed THEN "read" ELSE "sleep"
  /\ UNCHANGED <<ring, held, queueVars, wpc>>

ParserSleeps ==
  /\ ppc = "sleep"
  /\ ppc' = "asleep"
  /\ UNCHANGED <<ring, held, queueVars, wpc>>

\* The rest of read(): nothing, which ends the loop, or a piece.
ParserRead ==
  /\ ppc = "read"
  /\ IF ring = <<>>
     THEN ppc' = "finish" /\ UNCHANGED <<ring, held>>
     ELSE /\ ring' = Tail(ring)
          /\ held' = ChallengeOf(Head(ring))
          /\ ppc' = IF Completes(Head(ring)) THEN "push" ELSE "top"
  /\ UNCHANGED <<queueVars, wpc>>

\* Mutant: emit() before the last number of B is complete.
EmittedEarly == [id |-> held, cut |-> TRUE]

Emitted == [id |-> held, cut |-> FALSE]

\* emit(), and the parser's reset().
ParserPush ==
  /\ ppc = "push"
  /\ Push(Emitted)
  /\ held' = 0
  /\ ppc' = "top"
  /\ UNCHANGED <<ring, qClosed>>

\* finish() may complete a challenge that has been received in part.
ParserFinish ==
  /\ ppc = "finish"
  /\ \/ held # 0 /\ Push([id |-> held, cut |-> TRUE])
     \/ UNCHANGED <<q, wpc>>
  /\ ppc' = "close"
  /\ UNCHANGED <<ring, held, qClosed>>

ParserCloses ==
  /\ ppc = "close"
  /\ qClosed' = TRUE
  /\ wpc' = NotifiedAll
  /\ ppc' = "done"
  /\ UNCHANGED <<ring, held, q>>

Parser ==
  /\ \/ ParserTop
     \/ ParserTest
     \/ ParserSleeps
     \/ ParserRead
     \/ ParserPush
     \/ ParserFinish
     \/ ParserCloses
  /\ UNCHANGED <<peer, ioVars, ringClosed, stop, job, sent, sendMtx, wire, mpc>>

-----------------------------------------------------------------------------
(* computeWorkerThread.                                                    *)

WorkerTop(w) ==
  /\ wpc[w] = "top"
  /\ wpc' = [wpc EXCEPT ![w] = IF stop THEN "done" ELSE "pop"]
  /\ UNCHANGED <<peer, stop, queueVars, job, sent, sendMtx, wire>>

\* Mutant: send_mtx is not waited for.
SendMtxIgnored == TRUE

SendMtxFree == sendMtx = Nobody

Lock(w) ==
  /\ wpc[w] = "lock"
  /\ SendMtxFree
  /\ sendMtx' = w
  /\ wpc' = [wpc EXCEPT ![w] = "send"]
  /\ sent' = [sent EXCEPT ![w] = 0]
  /\ UNCHANGED <<peer, stop, queueVars, job, wire>>

MoreToSend(w) == sent[w] + 1 < Parts

\* One send(); after the last of the answer send_mtx is released.
SendPart(w) ==
  /\ wpc[w] = "send"
  /\ peer # "broken"
  /\ wire' = Append(wire, <<job[w], sent[w] + 1>>)
  /\ sent' = [sent EXCEPT ![w] = @ + 1]
  /\ IF MoreToSend(w)
     THEN UNCHANGED <<wpc, sendMtx>>
     ELSE wpc' = [wpc EXCEPT ![w] = "top"] /\ sendMtx' = Nobody
  /\ UNCHANGED <<peer, stop, queueVars, job>>

\* send() fails, and so do all that follow.
SendFails(w) ==
  /\ wpc[w] = "send"
  /\ peer # "open"
  /\ peer' = "broken"
  /\ stop' = TRUE
  /\ wpc' = [wpc EXCEPT ![w] = "close"]
  /\ UNCHANGED <<queueVars, job, sent, sendMtx, wire>>

\* jobs.close(), then send_mtx is released.
WorkerCloses(w) ==
  /\ wpc[w] = "close"
  /\ qClosed' = TRUE
  /\ wpc' = [NotifiedAll EXCEPT ![w] = "done"]
  /\ sendMtx' = Nobody
  /\ UNCHANGED <<peer, stop, q, job, sent, wire>>

workerRest == <<ioVars, ringVars, ppc, held, mpc>>

Worker(w) ==
  /\ \/ WorkerTop(w)
     \/ Pop(w)
     \/ Lock(w)
     \/ SendPart(w)
     \/ SendFails(w)
     \/ WorkerCloses(w)
  /\ UNCHANGED workerRest

-----------------------------------------------------------------------------
(* main.                                                                   *)

JoinIo ==
  /\ mpc = "join_io"
  /\ ipc = "done"
  /\ mpc' = "join_parser"
  /\ UNCHANGED <<peer, ioVars, ringVars, stop, ppc, held, queueVars, workVars>>

JoinParser ==
  /\ mpc = "join_parser"
  /\ ppc = "done"
  /\ mpc' = "join_workers"
  /\ UNCHANGED <<peer, ioVars, ringVars, stop, ppc, held, queueVars, workVars>>

\* The last joins, close(sock), and the end or another connection.
JoinWorkers ==
  /\ mpc = "join_workers"
  /\ \A w \in Workers : wpc[w] = "done"
  /\ mpc' = IF stop THEN "exit" ELSE "reconnect"
  /\ UNCHANGED <<peer, ioVars, ringVars, stop, ppc, held, queueVars, workVars>>

Main == JoinIo \/ JoinParser \/ JoinWorkers

Next == ServerLeaves \/ IoReceiver \/ Parser \/ (\E w \in Workers : Worker(w)) \/ Main

Spec == Init /\ [][Next]_vars

\* Every thread runs on; recv() and send() need not return while the server is
\* there and does nothing; once it has gone they return, at last with the end or
\* an error.
FairSpec ==
  /\ Spec
  /\ WF_vars(ipc # "recv" /\ IoReceiver)
  /\ WF_vars(peer # "open" /\ IoReceiver)
  /\ WF_vars(Parser)
  /\ WF_vars(Main)
  /\ \A w \in Workers :
       /\ WF_vars(wpc[w] \notin {"lock", "send"} /\ Worker(w))
       /\ WF_vars(peer # "open" /\ wpc[w] = "send" /\ Worker(w))
       /\ SF_vars(wpc[w] = "lock" /\ Worker(w))

-----------------------------------------------------------------------------
(* Properties.                                                             *)

\* Every variable has its type.
TypeOK ==
  /\ peer \in {"open", "gone", "broken"}
  /\ received \in 0 .. 2 * Challenges
  /\ ring \in Seq(Pieces) /\ Len(ring) <= RingPieces
  /\ ringClosed \in BOOLEAN
  /\ stop \in BOOLEAN
  /\ ipc \in {"top", "recv", "write", "notify", "stop", "close", "notify_close",
              "done"}
  /\ ppc \in {"top", "test", "sleep", "asleep", "read", "push", "finish", "close",
              "done"}
  /\ held \in 0 .. Challenges
  /\ q \in Seq(Jobs)
  /\ qClosed \in BOOLEAN
  /\ wpc \in [Workers -> {"top", "pop", "waiting", "lock", "send", "close", "done"}]
  /\ job \in [Workers -> Jobs \cup {Nothing}]
  /\ sent \in [Workers -> 0 .. Parts]
  /\ sendMtx \in Workers \cup {Nobody}
  /\ wire \in Seq(Jobs \X (1 .. Parts))
  /\ mpc \in {"join_io", "join_parser", "join_workers", "exit", "reconnect"}

\* The answers on the wire are whole and one after the other, though several
\* workers send and an answer may take several send()s; only the last may be
\* cut short, by a connection that broke.
WholeAnswers ==
  \A i \in 1 .. Len(wire) :
    IF i % Parts = 1 % Parts
    THEN wire[i][2] = 1
    ELSE wire[i] = <<wire[i - 1][1], wire[i - 1][2] + 1>>

\* Types, and whole answers: under send_mtx no worker's send() comes between two
\* of another's.
TeamInv == TypeOK /\ WholeAnswers

\* Each challenge is popped by one worker and answered once.
Answers == {i \in 1 .. Len(wire) : wire[i][2] = Parts}
AnsweredOnce ==
  \A i, j \in Answers : wire[i][1].id = wire[j][1].id => i = j

\* Answers need not come in the order of the challenges, but when one is sent
\* fewer than Workers earlier ones are still to be sent.
Overtaking ==
  \A i \in Answers :
    Cardinality({n \in 1 .. wire[i][1].id - 1 :
                   \A j \in Answers : j < i => wire[j][1].id # n})
      < Cardinality(Workers)

\* A job that is not all of its challenge is emitted by finish() only, when
\* the client is stopping, and nothing follows it into the queue.
CutOnlyAtTheEnd ==
  \A i \in 1 .. Len(wire) : wire[i][1].cut =>
    /\ stop
    /\ \A j \in 1 .. Len(wire) : wire[j][1].id <= wire[i][1].id

\* A job in the queue is taken by a worker, however the notifications fall,
\* unless the client stops or no worker is left to: all of them send.
QueueServed ==
  (q # <<>> /\ Waiting # {}) ~> (q = <<>> \/ Waiting = {} \/ stop)

\* Once the queue is closed every worker ends: notify_all() reaches those that
\* wait, and the others find it closed when they have sent what is left.
WorkersEnd == qClosed ~> \A w \in Workers : wpc[w] = "done"

\* "Clean reconnect on server disconnect": a client whose server has gone is
\* connected again, unless a send() has failed meanwhile.
Reconnects == peer = "gone" ~> (mpc = "reconnect" \/ peer = "broken")

=============================================================================
