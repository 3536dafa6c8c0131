----------------------------- MODULE BlastServer -----------------------------
(***************************************************************************)
(* The blast server (tools/blast_server.cpp).  Unlike the reference server *)
(* it never sends from the broadcaster: every client has an outbox and a   *)
(* detached sender thread, started once its name has been received, that   *)
(* waits on a condition variable.  Mode 2 throws in bursts of challenges   *)
(* that are sent and logged but never become the current one.              *)
(*                                                                         *)
(* A ClientInfo is named by its connection; it is never removed.  A        *)
(* challenge is its id; an answer accepted by a handler is the challenge   *)
(* it answers, whether it was recorded under an id given with it, and the  *)
(* challenge that was current when its time was taken (the maps latencies  *)
(* and answers are always set together).  What a client sends, and what    *)
(* recv() and sscanf() make of it, is in AnswerText.  The kernel gives a   *)
(* new connection the lowest free descriptor, holds Window unread          *)
(* challenges for a client, and makes send() wait when it has them.  A     *)
(* local of a thread that is not used again is cleared (fewer states).     *)
(***************************************************************************)
EXTENDS AnswerText, FiniteSets

CONSTANTS
  Conns,         \* connections made to the server, each once
  Numbered,      \* those whose client may answer with the id of the challenge,
  Plain,         \* and those whose client may answer without it
  Split,         \* those of which recv() may return part of a message
  Numbers,       \* what a checksum, or part of a number, may amount to
  MaxChallenges, \* the broadcaster goes on for ever: bound for TLC
  Window,        \* unread challenges the kernel holds for a connection
  Mode,          \* 0, 1 (different pauses only) or 2
  BurstEvery,    \* 50 in the code
  BurstLength    \* 20 in the code

Nobody == "nobody"

ASSUME ConstantsAssumption ==
  /\ IsFiniteSet(Conns) /\ Nobody \notin Conns
  /\ Numbers \subseteq Nat
  /\ MaxChallenges \in Nat
  /\ Window \in Nat \ {0}
  /\ Mode \in 0 .. 2
  /\ BurstEvery \in Nat \ {0}
  /\ BurstLength \in Nat

VARIABLES
  killed,                     \* SIGPIPE has ended the process
  peer,                       \* the client at the other end of each connection
  fd, owner,                  \* the socket of each ClientInfo; whose it is now
  delivered, read,            \* <<sender, id>> on the wire; how many were read
  arriving,                   \* sent by c, not yet returned by recv()
  accepted, clients,          \* main: the one being added; the vector clients
  outbox, running,            \* of each ClientInfo
  spc, msg,                   \* the sender threads
  hpc, name, parsed, now,     \* the handler threads
  bpc, todo, cid, counter, burst, snapshot,  \* the broadcaster
  challengeId, current,
  results                     \* the entries logged

netVars == <<peer, delivered, read, arriving>>
fdVars == <<fd, owner>>
mainVars == <<accepted, clients>>
senderVars == <<outbox, spc, msg>>
handlerVars == <<running, hpc, name, parsed, now>>
castVars == <<bpc, todo, cid, counter, burst, snapshot, challengeId>>
vars == <<killed, netVars, fdVars, mainVars, senderVars, handlerVars, castVars,
          current, results>>

Fds == 1 .. Cardinality(Conns)
Ids == 0 .. MaxChallenges
None == [of |-> -1, explicit |-> FALSE, now |-> -1]
Empty == [c \in Conns |-> None]
Nothing == [cid |-> -1, of |-> 0, explicit |-> FALSE]

Init ==
  /\ killed = FALSE
  /\ peer = [c \in Conns |-> "new"]
  /\ fd = [c \in Conns |-> 0]
  /\ owner = [f \in Fds |-> Nobody]
  /\ delivered = [c \in Conns |-> <<>>]
  /\ read = [c \in Conns |-> 0]
  /\ arriving = [c \in Conns |-> <<>>]
  /\ accepted = Nobody
  /\ clients = <<>>
  /\ outbox = [c \in Conns |-> <<>>]
  /\ running = [c \in Conns |-> TRUE]
  /\ spc = [c \in Conns |-> "none"]
  /\ msg = [c \in Conns |-> 0]
  /\ hpc = [c \in Conns |-> "none"]
  /\ name = [c \in Conns |-> <<>>]
  /\ parsed = [c \in Conns |-> Nothing]
  /\ now = [c \in Conns |-> 0]
  /\ bpc = "next"
  /\ todo = <<>>
  /\ cid = 0
  /\ counter = 0
  /\ burst = 0
  /\ snapshot = Empty
  /\ challengeId = 1
  /\ current = [id |-> 0, answers |-> Empty]
  /\ results = <<>>

-----------------------------------------------------------------------------
(* The clients.                                                            *)

serverVars == <<killed, fdVars, mainVars, senderVars, handlerVars, castVars, current,
                results>>

Says(c, text) == arriving' = [arriving EXCEPT ![c] = @ \o text]

\* A client reads a challenge, and answers it or not.
ClientReads(c) ==
  /\ peer[c] = "open"
  /\ read[c] < Len(delivered[c])
  /\ read' = [read EXCEPT ![c] = @ + 1]
  /\ LET id == delivered[c][read[c] + 1][2] IN
       \/ c \in Numbered /\ Says(c, WithId(id))
       \/ c \in Plain /\ Says(c, Alone(id))
       \/ UNCHANGED arriving
  /\ UNCHANGED <<peer, delivered, serverVars>>

ClientLeaves(c) ==
  /\ peer[c] = "open"
  /\ peer' = [peer EXCEPT ![c] = "gone"]
  /\ UNCHANGED <<delivered, read, arriving, serverVars>>

-----------------------------------------------------------------------------
(* startServer: the accept loop.                                           *)

\* A client connects and sends its name; accept() returns.
Accept(c) ==
  /\ accepted = Nobody
  /\ peer[c] = "new"
  /\ \E f \in Fds :
       /\ owner[f] = Nobody
       /\ \A g \in Fds : g < f => owner[g] # Nobody
       /\ fd' = [fd EXCEPT ![c] = f]
       /\ owner' = [owner EXCEPT ![f] = c]
  /\ peer' = [peer EXCEPT ![c] = "open"]
  /\ arriving' = [arriving EXCEPT ![c] = NameText]
  /\ accepted' = c
  /\ UNCHANGED <<killed, delivered, read, clients, senderVars, handlerVars,
                 castVars, current, results>>

\* clients.push_back under clientsMutex, and the handler is started.
PushClient ==
  /\ accepted # Nobody
  /\ bpc # "push"
  /\ clients' = Append(clients, accepted)
  /\ hpc' = [hpc EXCEPT ![accepted] = "name"]
  /\ accepted' = Nobody
  /\ UNCHANGED <<killed, netVars, fdVars, senderVars, running, name, parsed,
                 now, castVars, current, results>>

-----------------------------------------------------------------------------
(* senderThread.  qMutex is held where spc is "sleep", and within a step.  *)

SenderTop(c) ==
  /\ spc[c] = "top"
  /\ spc' = [spc EXCEPT ![c] = IF running[c] THEN "test" ELSE "done"]
  /\ UNCHANGED <<outbox, msg, delivered>>

\* A message is moved out of the outbox, and qMutex released.
SenderTakes(c) ==
  /\ outbox[c] # <<>>
  /\ msg' = [msg EXCEPT ![c] = Head(outbox[c])]
  /\ outbox' = [outbox EXCEPT ![c] = Tail(@)]
  /\ spc' = [spc EXCEPT ![c] = "send"]
  /\ UNCHANGED delivered

\* qMutex is taken and the predicate of wait() tested; a sender that finds
\* the client gone and nothing to send leaves.
SenderTests(c) ==
  /\ spc[c] = "test"
  /\ \/ SenderTakes(c)
     \/ /\ outbox[c] = <<>>
        /\ spc' = [spc EXCEPT ![c] = IF running[c] THEN "sleep" ELSE "top"]
        /\ UNCHANGED <<outbox, msg, delivered>>

SenderSleeps(c) ==
  /\ spc[c] = "sleep"
  /\ spc' = [spc EXCEPT ![c] = "asleep"]
  /\ UNCHANGED <<outbox, msg, delivered>>

\* qMutex again: the next message of the inner loop, or the outer one.
SenderRelocks(c) ==
  /\ spc[c] = "relock"
  /\ \/ SenderTakes(c)
     \/ /\ outbox[c] = <<>>
        /\ spc' = [spc EXCEPT ![c] = "top"]
        /\ UNCHANGED <<outbox, msg, delivered>>

\* Whether what is sent to d can arrive.
Open(d) == d \in Conns /\ peer[d] = "open"

\* send() outside the mutex, to whoever has the descriptor now.
SenderSends(c) ==
  /\ spc[c] = "send"
  /\ LET d == owner[fd[c]] IN
       IF Open(d)
       THEN /\ Len(delivered[d]) - read[d] < Window
            /\ delivered' = [delivered EXCEPT ![d] = Append(@, <<c, msg[c]>>)]
       ELSE UNCHANGED delivered
  /\ spc' = [spc EXCEPT ![c] = "relock"]
  /\ msg' = [msg EXCEPT ![c] = 0]
  /\ UNCHANGED outbox

Sender(c) ==
  /\ \/ SenderTop(c)
     \/ SenderTests(c)
     \/ SenderSleeps(c)
     \/ SenderRelocks(c)
     \/ SenderSends(c)
  /\ UNCHANGED <<killed, peer, read, arriving, fdVars, mainVars, handlerVars,
                 castVars, current, results>>

\* send() to a client that has gone, whose handler has not closed yet.
SendKills(c) ==
  /\ spc[c] = "send"
  /\ \E d \in Conns : owner[fd[c]] = d /\ peer[d] = "gone"
  /\ killed' = TRUE
  /\ UNCHANGED <<netVars, fdVars, mainVars, senderVars, handlerVars, castVars,
                 current, results>>

-----------------------------------------------------------------------------
(* handleClient.                                                           *)

\* notify_one() or notify_all() on the client's cv, whose only waiter is its
\* sender.
Woken(c) == [spc EXCEPT ![c] = IF @ = "asleep" THEN "test" ELSE @]

\* What recv() may return.
Received(c) == {r \in Receipts(arriving[c]) : c \in Split \/ EndsMessage(r.got)}

\* The first recv(): all it returns is the name; the sender is started.
RecvName(c) ==
  /\ hpc[c] = "name"
  /\ \E receipt \in Received(c) :
       /\ name' = [name EXCEPT ![c] = receipt.got]
       /\ arriving' = [arriving EXCEPT ![c] = receipt.rest]
  /\ hpc' = [hpc EXCEPT ![c] = "recv"]
  /\ spc' = [spc EXCEPT ![c] = "top"]
  /\ UNCHANGED <<owner, running, parsed, now, current>>

\* The client has gone before it sent a name: the handler returns, and closes
\* nothing.
NoName(c) ==
  /\ hpc[c] = "name"
  /\ peer[c] = "gone"
  /\ hpc' = [hpc EXCEPT ![c] = "left"]
  /\ UNCHANGED <<arriving, owner, spc, running, name, parsed, now, current>>

\* recv(), and sscanf() on what it returned.  Where that is a number or two,
\* the time is taken, without challengeMutex; else the message is ignored.
RecvAnswer(c) ==
  /\ hpc[c] = "recv"
  /\ \E receipt \in Received(c) :
       /\ arriving' = [arriving EXCEPT ![c] = receipt.rest]
       /\ \/ \E p \in Parsed(receipt.got, Numbers) :
               /\ parsed' = [parsed EXCEPT ![c] = p]
               /\ now' = [now EXCEPT ![c] = current.id]
               /\ hpc' = [hpc EXCEPT ![c] = "record"]
          \/ /\ IsName(receipt.got)
             /\ UNCHANGED <<parsed, now, hpc>>
  /\ UNCHANGED <<owner, spc, running, name, current>>

\* An answer without an id is taken for one to the challenge that is current
\* now, which need not be the one that was when its time was taken.
IsCurrent(c) == parsed[c].cid \in {-1, current.id}

\* Under challengeMutex: an answer to another challenge is ignored.
Record(c) ==
  /\ hpc[c] = "record"
  /\ current' = IF IsCurrent(c)
                THEN [current EXCEPT !.answers[c] =
                        [of |-> parsed[c].of, explicit |-> parsed[c].explicit,
                         now |-> now[c]]]
                ELSE current
  /\ hpc' = [hpc EXCEPT ![c] = "recv"]
  /\ parsed' = [parsed EXCEPT ![c] = Nothing]
  /\ now' = [now EXCEPT ![c] = 0]
  /\ UNCHANGED <<arriving, owner, spc, running, name>>

\* Mutant: the descriptor is closed first.
HandlerEndsClosing(c) ==
  /\ hpc[c] = "recv"
  /\ peer[c] = "gone"
  /\ running' = [running EXCEPT ![c] = FALSE]
  /\ owner' = [owner EXCEPT ![fd[c]] = Nobody]
  /\ hpc' = [hpc EXCEPT ![c] = "notify"]
  /\ UNCHANGED <<arriving, spc, name, parsed, now, current>>

\* recv() returns 0 or an error; running is cleared without qMutex.
HandlerEnds(c) ==
  /\ hpc[c] = "recv"
  /\ peer[c] = "gone"
  /\ running' = [running EXCEPT ![c] = FALSE]
  /\ hpc' = [hpc EXCEPT ![c] = "notify"]
  /\ UNCHANGED <<arriving, owner, spc, name, parsed, now, current>>

HandlerNotifies(c) ==
  /\ hpc[c] = "notify"
  /\ spc' = Woken(c)
  /\ hpc' = [hpc EXCEPT ![c] = "close"]
  /\ UNCHANGED <<arriving, owner, running, name, parsed, now, current>>

HandlerCloses(c) ==
  /\ hpc[c] = "close"
  /\ owner' = [owner EXCEPT ![fd[c]] = Nobody]
  /\ hpc' = [hpc EXCEPT ![c] = "done"]
  /\ UNCHANGED <<arriving, spc, running, name, parsed, now, current>>

Handler(c) ==
  /\ \/ RecvName(c)
     \/ NoName(c)
     \/ RecvAnswer(c)
     \/ Record(c)
     \/ HandlerEnds(c)
     \/ HandlerNotifies(c)
     \/ HandlerCloses(c)
  /\ UNCHANGED <<killed, peer, delivered, read, fd, mainVars, outbox, msg, castVars,
                 results>>

-----------------------------------------------------------------------------
(* broadcastChallengeLoop.                                                 *)

outboxVars == <<outbox, spc>>

\* The next challenge becomes the current one, under challengeMutex.
NewChallenge ==
  /\ bpc = "next"
  /\ challengeId <= MaxChallenges
  /\ cid' = challengeId
  /\ challengeId' = challengeId + 1
  /\ current' = [id |-> challengeId, answers |-> Empty]
  /\ bpc' = "lock"
  /\ UNCHANGED <<outboxVars, todo, counter, burst, snapshot, results>>

\* clientsMutex is taken, for this challenge or one of a burst.
StartPush ==
  /\ bpc = "lock"
  /\ todo' = clients
  /\ bpc' = "push"
  /\ UNCHANGED <<outboxVars, cid, counter, burst, snapshot, challengeId, current,
                 results>>

\* Mutant: qMutex is not taken.
QMutexIgnored(c) == TRUE

QMutexFree(c) == spc[c] # "sleep"

Payload == cid

\* The next outbox, under its qMutex.
PushOutbox ==
  /\ bpc = "push"
  /\ todo # <<>>
  /\ QMutexFree(Head(todo))
  /\ outbox' = [outbox EXCEPT ![Head(todo)] = Append(@, Payload)]
  /\ spc' = Woken(Head(todo))
  /\ todo' = Tail(todo)
  /\ UNCHANGED <<bpc, cid, counter, burst, snapshot, challengeId, current, results>>

\* clientsMutex is released.
EndPush ==
  /\ bpc = "push"
  /\ todo = <<>>
  /\ bpc' = IF burst > 0 THEN "log_burst" ELSE "window"
  /\ UNCHANGED <<outboxVars, todo, cid, counter, burst, snapshot, challengeId,
                 current, results>>

\* After the answer window, under challengeMutex.
Snapshot ==
  /\ bpc = "window"
  /\ snapshot' = current.answers
  /\ bpc' = "log"
  /\ UNCHANGED <<outboxVars, todo, cid, counter, burst, challengeId, current, results>>

\* logChallengeResult, and the choice of what follows.
Log ==
  /\ bpc = "log"
  /\ results' = Append(results, [challenge_id |-> cid, answers |-> snapshot])
  /\ counter' = IF Mode = 2 THEN counter + 1 ELSE counter
  /\ burst' = IF Mode = 2 /\ counter' % BurstEvery = 0 THEN BurstLength ELSE 0
  /\ bpc' = IF burst' > 0 THEN "burst" ELSE "next"
  /\ UNCHANGED <<outboxVars, todo, cid, snapshot, challengeId, current>>

\* A challenge of a burst takes the next id; currentChallenge stays.
BurstChallenge ==
  /\ bpc = "burst"
  /\ challengeId <= MaxChallenges
  /\ cid' = challengeId
  /\ challengeId' = challengeId + 1
  /\ bpc' = "lock"
  /\ UNCHANGED <<outboxVars, todo, counter, burst, snapshot, current, results>>

\* Mutant: the copy of the last window is logged again.
BurstEntryStale == [challenge_id |-> cid, answers |-> snapshot]

BurstEntry == [challenge_id |-> cid, answers |-> Empty]

\* It is logged at once, with no answers.
LogBurst ==
  /\ bpc = "log_burst"
  /\ results' = Append(results, BurstEntry)
  /\ burst' = burst - 1
  /\ bpc' = IF burst' > 0 THEN "burst" ELSE "next"
  /\ UNCHANGED <<outboxVars, todo, cid, counter, snapshot, challengeId, current>>

Broadcaster ==
  /\ \/ NewChallenge
     \/ StartPush
     \/ PushOutbox
     \/ EndPush
     \/ Snapshot
     \/ Log
     \/ BurstChallenge
     \/ LogBurst
  /\ UNCHANGED <<killed, netVars, fdVars, mainVars, msg, handlerVars>>

Client(c) == ClientReads(c) \/ ClientLeaves(c)

\* Nothing happens any more once SIGPIPE has ended the server.
Next ==
  /\ ~killed
  /\ \/ \E c \in Conns : Client(c) \/ Accept(c) \/ Handler(c) \/ Sender(c)
                       \/ SendKills(c)
     \/ PushClient
     \/ Broadcaster

Spec == Init /\ [][Next]_vars

-----------------------------------------------------------------------------
(* Properties.                                                             *)

\* Every variable has its type.
Kinds == {"name", "id", "answer", "part"}
Tokens == [of : Ids, kind : Kinds]
Answers == [Conns -> [of : Ids, explicit : BOOLEAN, now : Ids] \cup {None}]
TypeOK ==
  /\ killed \in BOOLEAN
  /\ peer \in [Conns -> {"new", "open", "gone"}]
  /\ fd \in [Conns -> Fds \cup {0}]
  /\ owner \in [Fds -> Conns \cup {Nobody}]
  /\ delivered \in [Conns -> Seq(Conns \X Ids)]
  /\ read \in [Conns -> Nat]
  /\ arriving \in [Conns -> Seq(Tokens)]
  /\ accepted \in Conns \cup {Nobody}
  /\ clients \in Seq(Conns)
  /\ outbox \in [Conns -> Seq(Ids)]
  /\ running \in [Conns -> BOOLEAN]
  /\ spc \in [Conns -> {"none", "top", "test", "sleep", "asleep", "send", "relock",
                        "done"}]
  /\ msg \in [Conns -> Ids]
  /\ hpc \in [Conns -> {"none", "name", "left", "recv", "record", "notify", "close",
                        "done"}]
  /\ name \in [Conns -> Seq(Tokens)]
  /\ parsed \in [Conns -> [cid : Ids \cup Numbers \cup {-1}, of : Ids,
                        explicit : BOOLEAN]]
  /\ now \in [Conns -> Ids]
  /\ bpc \in {"next", "lock", "push", "window", "log", "burst", "log_burst"}
  /\ todo \in Seq(Conns)
  /\ cid \in Ids
  /\ counter \in Nat
  /\ burst \in 0 .. BurstLength
  /\ snapshot \in Answers
  /\ challengeId \in 1 .. MaxChallenges + 1
  /\ current \in [id : Ids, answers : Answers]
  /\ results \in Seq([challenge_id : Ids, answers : Answers])

\* The log has the challenges 1, 2, ... in order, those of bursts among them.
\* An answer that came with its id is logged with its own challenge only, timed
\* from that one's start.  Any other is logged with a challenge that is not
\* before its own, and not timed from a later one.
LogMatches ==
  \A i \in 1 .. Len(results) :
    /\ results[i].challenge_id = i
    /\ \A c \in Conns :
         LET answer == results[i].answers[c] IN
           /\ answer.of <= i /\ answer.now <= i
           /\ answer.explicit => answer.of = i /\ answer.now = i

\* A client that stays is sent every challenge since it was added to clients,
\* in order and once: what its sender has put on the wire, what the sender
\* holds, and its outbox are one run of ids, up to the last that was pushed.
Added(c) == \E i \in 1 .. Len(clients) : clients[i] = c
Own(c) == {i \in 1 .. Len(delivered[c]) : delivered[c][i][1] = c}
Sending(c) == IF spc[c] = "send" THEN 1 ELSE 0
OneRun(c, first, next) ==
  /\ {delivered[c][i][2] : i \in Own(c)} = first .. next - 1
  /\ spc[c] = "send" => msg[c] = next
  /\ \A k \in 1 .. Len(outbox[c]) : outbox[c][k] = next + Sending(c) + k - 1
  /\ Added(c) /\ bpc = "window" /\ first < next + Sending(c) + Len(outbox[c]) =>
       next + Sending(c) + Len(outbox[c]) = cid + 1
OutboxLossless ==
  \A c \in Conns : peer[c] = "open" =>
    /\ \A i, j \in Own(c) : i < j => delivered[c][i][2] < delivered[c][j][2]
    /\ \E first, next \in 1 .. MaxChallenges + 1 : first <= next /\ OneRun(c, first, next)

\* A sender sleeps only when its outbox is empty: no challenge waits there for
\* the next one to wake it.
AsleepOnlyWhenEmpty == \A c \in Conns : spc[c] = "asleep" => outbox[c] = <<>>

\* Types, outboxes from which nothing is lost, doubled or overtaken, and senders
\* that miss no notification.
BlastInv == TypeOK /\ OutboxLossless /\ AsleepOnlyWhenEmpty

\* A client is sent something by the sender of another only when that other's
\* handler has closed the descriptor, which has been given to the client; and
\* only so can a challenge reach a client whose name has not been received, and
\* its answer become part of the name.
StrangersOnlyAfterClose ==
  \A d \in Conns :
    LET strangers == {delivered[d][i][1] : i \in 1 .. Len(delivered[d])} \ {d} IN
      /\ \A c \in strangers : hpc[c] = "done" /\ fd[c] = fd[d]
      /\ strangers = {} => \A k \in 1 .. Len(name[d]) : name[d][k].of = TheName

=============================================================================
