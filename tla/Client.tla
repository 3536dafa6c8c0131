------------------------------- MODULE Client -------------------------------
(***************************************************************************)
(* The current client as a whole (hftclient2026/main.cpp): main, which     *)
(* connects, starts the threads, joins them and releases the workers; the  *)
(* receiver thread; the ring, and the parser thread with its rounds and    *)
(* workers, which are those of ComputeRound.                               *)
(*                                                                         *)
(* The stream is cut into pieces, two for each challenge: piece 2c - 1     *)
(* begins challenge c, piece 2c holds the rest of it.  The ring is the     *)
(* number of pieces in it (SpscRing shows that it is a byte stream), and   *)
(* what the parser makes of them is whether a challenge is complete        *)
(* (ChallengeParser).  A span may hold a whole challenge.  The server is   *)
(* part of the environment: it may be gone at any moment, with pieces it   *)
(* sent still to be received.                                              *)
(***************************************************************************)
EXTENDS ComputeRound

CONSTANT RingPieces  \* how many pieces the ring holds

ASSUME RingAssumption == RingPieces \in Nat \ {0}

VARIABLES
  peer,        \* the server's end of the connection: "open" or "gone"
  received,    \* how many pieces were put into the ring,
  taken,       \* and taken out of it
  closed,      \* the ring is closed
  seen_empty,  \* the parser has found the ring empty, and tests closed next
  ipc, mpc     \* where the receiver and main are

shellVars == <<peer, received, taken, closed, seen_empty, ipc, mpc>>
clientVars == <<vars, shellVars>>

Pieces == 2 * Len(TotalTiles)

ClientInit ==
  /\ Init
  /\ peer = "open"
  /\ received = 0
  /\ taken = 0
  /\ closed = FALSE
  /\ seen_empty = FALSE
  /\ ipc = "top"
  /\ mpc = "connect"

\* The threads run between their start and the last join.
Running == mpc \in {"join", "stop", "release", "join_workers"} /\ ppc # "killed"

\* The server closes the connection, or is lost.
PeerLeaves ==
  /\ peer = "open"
  /\ peer' = "gone"
  /\ UNCHANGED <<vars, received, taken, closed, seen_empty, ipc, mpc>>

-----------------------------------------------------------------------------
(* main.                                                                   *)

\* connect(); when it fails, main returns.
Connect ==
  /\ mpc = "connect"
  /\ \/ peer = "open" /\ mpc' = "name"
     \/ mpc' = "exit"
  /\ UNCHANGED <<vars, peer, received, taken, closed, seen_empty, ipc>>

\* The team name; when sendAll fails, or kills, there are no threads yet.
SendName ==
  /\ mpc = "name"
  /\ \/ mpc' = "join"
     \/ peer = "gone" /\ mpc' = "exit"
  /\ UNCHANGED <<vars, peer, received, taken, closed, seen_empty, ipc>>

\* io_thread.join(); parse_thread.join();
JoinThreads ==
  /\ Running /\ mpc = "join"
  /\ ipc = "done" /\ ppc = "done"
  /\ mpc' = "stop"
  /\ UNCHANGED <<vars, peer, received, taken, closed, seen_empty, ipc>>

MainStops ==
  /\ Running /\ mpc = "stop"
  /\ RequestStop
  /\ mpc' = "release"
  /\ UNCHANGED <<peer, received, taken, closed, seen_empty, ipc>>

MainReleases ==
  /\ Running /\ mpc = "release"
  /\ ReleaseWorkers
  /\ mpc' = "join_workers"
  /\ UNCHANGED <<peer, received, taken, closed, seen_empty, ipc>>

\* worker.join() for every worker, and close(sock)
JoinWorkers ==
  /\ Running /\ mpc = "join_workers"
  /\ \A w \in Workers : wpc[w] = "done"
  /\ mpc' = "exit"
  /\ UNCHANGED <<vars, peer, received, taken, closed, seen_empty, ipc>>

Main ==
  \/ Connect
  \/ SendName
  \/ JoinThreads
  \/ MainStops
  \/ MainReleases
  \/ JoinWorkers

-----------------------------------------------------------------------------
(* ioReceiverThread.                                                       *)

IoTop ==
  /\ Running /\ ipc = "top"
  /\ ipc' = IF stop_requested THEN "stop" ELSE "reserve"
  /\ UNCHANGED <<vars, peer, received, taken, closed, seen_empty, mpc>>

\* Mutant: recv() is called whether or not there is space.
IoReserveAlways ==
  /\ Running /\ ipc = "reserve"
  /\ ipc' = "recv"
  /\ UNCHANGED <<vars, peer, received, taken, closed, seen_empty, mpc>>

\* A full ring: the loop goes round again (only this thread closes the ring).
IoReserve ==
  /\ Running /\ ipc = "reserve"
  /\ ipc' = IF received - taken = RingPieces THEN "top" ELSE "recv"
  /\ UNCHANGED <<vars, peer, received, taken, closed, seen_empty, mpc>>

\* n > 0, and commitWrite()
RecvPiece ==
  /\ Running /\ ipc = "recv"
  /\ received < Pieces
  /\ received' = received + 1
  /\ ipc' = "top"
  /\ UNCHANGED <<vars, peer, taken, closed, seen_empty, mpc>>

\* EINTR
RecvInterrupted ==
  /\ Running /\ ipc = "recv"
  /\ ipc' = "top"
  /\ UNCHANGED <<vars, peer, received, taken, closed, seen_empty, mpc>>

\* recv() returns 0 or fails.
RecvEnds ==
  /\ Running /\ ipc = "recv"
  /\ peer = "gone"
  /\ ipc' = "stop"
  /\ UNCHANGED <<vars, peer, received, taken, closed, seen_empty, mpc>>

\* Mutant: the flag is left to main.
IoLeavesFlag ==
  /\ Running /\ ipc = "stop"
  /\ ipc' = "close"
  /\ UNCHANGED <<vars, peer, received, taken, closed, seen_empty, mpc>>

IoStops ==
  /\ Running /\ ipc = "stop"
  /\ RequestStop
  /\ ipc' = "close"
  /\ UNCHANGED <<peer, received, taken, closed, seen_empty, mpc>>

\* ring.close()
IoCloses ==
  /\ Running /\ ipc = "close"
  /\ closed' = TRUE
  /\ ipc' = "done"
  /\ UNCHANGED <<vars, peer, received, taken, seen_empty, mpc>>

\* The receiver's own steps; recv() need not return.
Io == IoTop \/ IoReserve \/ IoStops \/ IoCloses
Recv == RecvPiece \/ RecvInterrupted \/ RecvEnds

-----------------------------------------------------------------------------
(* parserThread.                                                           *)

\* peekReadSpan() returns an empty span.
SeeEmpty ==
  /\ Running /\ ppc = "peek"
  /\ ~seen_empty
  /\ received = taken
  /\ seen_empty' = TRUE
  /\ UNCHANGED <<vars, peer, received, taken, closed, ipc, mpc>>

\* if (ring.closed()) break;
EmptyOrClosed ==
  /\ Running /\ ppc = "peek"
  /\ seen_empty
  /\ seen_empty' = FALSE
  /\ ppc' = IF closed THEN "done" ELSE "top"
  /\ UNCHANGED <<flags, inputVars, sumVars, sent, workerVars, jobVars,
                 peer, received, taken, closed, ipc, mpc>>

\* The span is fed and consumed, and no challenge is complete.
FeedPart ==
  /\ Running /\ ~seen_empty
  /\ taken = 2 * loaded /\ taken < received
  /\ ParserFeedPart
  /\ taken' = taken + 1
  /\ UNCHANGED <<peer, received, closed, seen_empty, ipc, mpc>>

\* The span is fed up to the last byte of the challenge.
FeedRest ==
  /\ Running /\ ~seen_empty
  /\ received >= 2 * (loaded + 1)
  /\ ParserComplete
  /\ taken' = 2 * (loaded + 1)
  /\ UNCHANGED <<peer, received, closed, seen_empty, ipc, mpc>>

\* send() reports, or is killed by, a server that has gone.
SendFailsOrKills ==
  /\ Running /\ peer = "gone"
  /\ SendFails \/ SendKills
  /\ UNCHANGED shellVars

\* The rest of the loop is the round.
RoundStep ==
  /\ Running
  /\ \/ ParserTop
     \/ ResetNextTile
     \/ ResetDoneCount
     \/ PublishEpoch
     \/ WaitAllDone
     \/ WaitStop
     \/ Gather
     \/ SendAnswer
  /\ UNCHANGED shellVars

ParserStep ==
  \/ SeeEmpty
  \/ EmptyOrClosed
  \/ FeedPart
  \/ FeedRest
  \/ SendFailsOrKills
  \/ RoundStep

WorkerStep(w) == Running /\ Worker(w) /\ UNCHANGED shellVars

ClientNext ==
  \/ PeerLeaves
  \/ Main
  \/ Io
  \/ Recv
  \/ ParserStep
  \/ \E w \in Workers : WorkerStep(w)

ClientSpec == ClientInit /\ [][ClientNext]_clientVars

\* Every thread runs again and again; a send() returns, as the servers read
\* their clients' answers; recv() on a connection that is gone is interrupted
\* only so often.
ClientFairSpec ==
  /\ ClientSpec
  /\ WF_clientVars(Main)
  /\ WF_clientVars(Io)
  /\ SF_clientVars(RecvEnds)
  /\ WF_clientVars(ParserStep)
  /\ \A w \in Workers : WF_clientVars(WorkerStep(w))

-----------------------------------------------------------------------------
(* Properties.                                                             *)

\* The client's rounds are those of ComputeRound, whatever receiver, ring and
\* main do: in particular the parser ends on a closed ring only when stopping,
\* and main releases the workers when the parser has ended.
IsRound == Spec

\* A challenge received in full is answered, unless the client stops: the
\* receiver, the ring and the round never wait for each other in a circle.
ReceivedIsAnswered ==
  \A c \in Challenges :
    received >= 2 * c ~> (Len(sent) >= c \/ stop_requested \/ ppc = "killed")

\* Once the server has gone, or anything asked the client to stop, main
\* returns: the receiver in recv(), the parser in its wait or on an empty ring
\* and the workers in their polls all see it, and every join returns.
ClientEnds ==
  (peer = "gone" \/ stop_requested) ~> (mpc = "exit" \/ ppc = "killed")

\* Every variable has its type; the ring is a bounded stream of which the
\* parser has taken the challenges loaded and what is dirty in job; the ring
\* is closed, and main moves on, only after the flag is set and the threads
\* have ended.
ClientTypeOK ==
  /\ peer \in {"open", "gone"}
  /\ received \in Nat
  /\ taken \in Nat
  /\ closed \in BOOLEAN
  /\ seen_empty \in BOOLEAN
  /\ ipc \in {"top", "reserve", "recv", "stop", "close", "done"}
  /\ mpc \in {"connect", "name", "join", "stop", "release", "join_workers", "exit"}
RingHolds ==
  /\ taken = 2 * loaded + (IF dirty THEN 1 ELSE 0)
  /\ taken <= received /\ received <= Pieces
  /\ received - taken <= RingPieces
  /\ ipc = "recv" => received - taken < RingPieces
EndsInOrder ==
  /\ ipc \in {"close", "done"} => stop_requested
  /\ closed => ipc = "done"
  /\ seen_empty => ppc = "peek"
  /\ mpc \in {"connect", "name"} => ~stop_requested /\ sent = <<>>
  /\ mpc \in {"stop", "release", "join_workers"} =>
       /\ ipc = "done"
       /\ ppc = "done"
       /\ released <=> mpc = "join_workers"
  /\ released => mpc \in {"join_workers", "exit"}
ClientInv == ClientTypeOK /\ RingHolds /\ EndsInOrder

=============================================================================
