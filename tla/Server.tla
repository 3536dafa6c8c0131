------------------------------- MODULE Server -------------------------------
(***************************************************************************)
(* The reference server (hftserver2026/main.cpp): the accept loop, one     *)
(* detached handler thread per connection and the detached broadcaster,    *)
(* which share the list of clients (clientsMutex) and currentChallenge     *)
(* (challengeMutex).                                                       *)
(*                                                                         *)
(* Challenges are numbered as in the code.  An answer is represented by    *)
(* the challenge it answers and whether it was recorded under an id that   *)
(* its client gave with it, a latency by the id of the challenge that was  *)
(* current when its end was measured, so that a latency taken across two   *)
(* challenges can be told.  What a client sends, and what recv() and       *)
(* sscanf() make of it, is in AnswerText.  The kernel gives a new          *)
(* connection the lowest free descriptor, holds up to Window unread        *)
(* challenges for a client, and makes send() wait when it holds that many. *)
(* A section under challengeMutex is one step; the one under clientsMutex  *)
(* that sends is not.  A local of a thread that is not used again is       *)
(* cleared (fewer states).                                                 *)
(***************************************************************************)
EXTENDS AnswerText, FiniteSets

CONSTANTS
  Conns,          \* connections made to the server, each once
  NameOf,         \* the name sent on each; a client that reconnects keeps its own
  Numbered,       \* those whose client may answer with the id of the challenge,
  Plain,          \* and those whose client may answer without it
  Split,          \* those of which recv() may return part of a message
  Numbers,        \* what a checksum, or part of a number, may amount to
  MaxChallenges,  \* the broadcaster goes on for ever: bound for TLC
  Window          \* unread challenges the kernel holds for a connection

ASSUME ConstantsAssumption ==
  /\ IsFiniteSet(Conns)
  /\ "nobody" \notin Conns
  /\ DOMAIN NameOf = Conns
  /\ Numbers \subseteq Nat
  /\ MaxChallenges \in Nat
  /\ Window \in Nat \ {0}

VARIABLES
  killed,                   \* SIGPIPE has ended the process
  peer,                     \* the client at the other end of each connection
  fd, owner,                \* fd[c]: its descriptor; owner[f]: whose f now is
  delivered, read,          \* challenges put on the wire to c; how many c has read
  arriving,                 \* what c has sent and recv() has not returned yet
  accepted,                 \* main: the connection being added to clients
  clients,                  \* the descriptors in the vector clients
  hpc, name, parsed, now,   \* each handler thread, and its locals
  bpc, todo, snapshot,      \* the broadcaster
  challengeId, current,     \* the counter, and currentChallenge
  results                   \* the entries logged

netVars == <<peer, delivered, read, arriving>>
fdVars == <<fd, owner>>
mainVars == <<accepted, clients>>
handlerVars == <<hpc, name, parsed, now>>
castVars == <<bpc, todo, snapshot, challengeId>>
vars == <<killed, netVars, fdVars, mainVars, handlerVars, castVars, current,
          results>>

Fds == 1 .. Cardinality(Conns)
Nobody == "nobody"
Ids == 0 .. MaxChallenges

\* What the first recv() on c took for a name: the name, part of it, or more.
Keys == {NameOf[c] : c \in Conns} \X {"exact", "part", "more"}
None == [of |-> -1, explicit |-> FALSE]
Untimed == -1
NoLatencies == [k \in Keys |-> Untimed]
NoAnswers == [k \in Keys |-> None]
Nothing == [cid |-> -1, of |-> 0, explicit |-> FALSE]

Init ==
  /\ killed = FALSE
  /\ peer = [c \in Conns |-> "new"]
  /\ fd = [c \in Conns |-> 0]
  /\ owner = [f \in Fds |-> Nobody]
  /\ delivered = [c \in Conns |-> <<>>]
  /\ read = [c \in Conns |-> 0]
  /\ arriving = [c \in Conns |-> <<>>]
  /\ accepted = Nobody
  /\ clients = <<>>
  /\ hpc = [c \in Conns |-> "none"]
  /\ name = [c \in Conns |-> <<NameOf[c], "exact">>]
  /\ parsed = [c \in Conns |-> Nothing]
  /\ now = [c \in Conns |-> 0]
  /\ bpc = "next"
  /\ todo = <<>>
  /\ snapshot = [latencies |-> NoLatencies, answers |-> NoAnswers]
  /\ challengeId = 1
  /\ current = [id |-> 0, latencies |-> NoLatencies, answers |-> NoAnswers]
  /\ results = <<>>

-----------------------------------------------------------------------------
(* The clients.                                                            *)

Says(c, text) == arriving' = [arriving EXCEPT ![c] = @ \o text]

\* A client reads a challenge and answers it, or does not answer in time.
ClientReads(c) ==
  /\ peer[c] = "open"
  /\ read[c] < Len(delivered[c])
  /\ read' = [read EXCEPT ![c] = @ + 1]
  /\ LET id == delivered[c][read[c] + 1] IN
       \/ c \in Numbered /\ Says(c, WithId(id))
       \/ c \in Plain /\ Says(c, Alone(id))
       \/ UNCHANGED arriving
  /\ UNCHANGED <<killed, peer, delivered, fdVars, mainVars, handlerVars,
                 castVars, current, results>>

ClientLeaves(c) ==
  /\ peer[c] = "open"
  /\ peer' = [peer EXCEPT ![c] = "gone"]
  /\ UNCHANGED <<killed, delivered, read, arriving, fdVars, mainVars,
                 handlerVars, castVars, current, results>>

-----------------------------------------------------------------------------
(* main: the accept loop.                                                  *)

\* A client connects and sends its name; accept() returns.
Accept(c) ==
  /\ ~killed
  /\ accepted = Nobody
  /\ peer[c] = "new"
  /\ \E f \in Fds :
       /\ owner[f] = Nobody
       /\ \A g \in Fds : g < f => owner[g] # Nobody
       /\ fd' = [fd EXCEPT ![c] = f]
       /\ owner' = [owner EXCEPT ![f] = c]
  /\ peer' = [peer EXCEPT ![c] = "open"]
  /\ arriving' = [arriving EXCEPT ![c] = NameText]
  /\ accepted' = c
  /\ UNCHANGED <<killed, delivered, read, clients, handlerVars, castVars,
                 current, results>>

\* clients.push_back under clientsMutex, then the thread is started.
PushClient ==
  /\ ~killed
  /\ accepted # Nobody
  /\ bpc # "send"
  /\ clients' = Append(clients, fd[accepted])
  /\ hpc' = [hpc EXCEPT ![accepted] = "name"]
  /\ accepted' = Nobody
  /\ UNCHANGED <<killed, netVars, fdVars, name, parsed, now, castVars, current,
                 results>>

-----------------------------------------------------------------------------
(* handleClient.                                                           *)

\* What recv() may return.
Received(c) == {r \in Receipts(arriving[c]) : c \in Split \/ EndsMessage(r.got)}

Extent(got) ==
  IF Len(got) > 1 THEN "more" ELSE IF got = NameText THEN "exact" ELSE "part"

\* The first recv(): all it returns is taken for the name.
RecvName(c) ==
  /\ ~killed
  /\ hpc[c] = "name"
  /\ \E receipt \in Received(c) :
       /\ name' = [name EXCEPT ![c] = <<NameOf[c], Extent(receipt.got)>>]
       /\ arriving' = [arriving EXCEPT ![c] = receipt.rest]
  /\ hpc' = [hpc EXCEPT ![c] = "recv"]
  /\ UNCHANGED <<killed, peer, delivered, read, fdVars, mainVars, parsed,
                 now, castVars, current, results>>

\* recv(), and sscanf() on what it returned.  Where that is a number or two,
\* the time is taken, without challengeMutex; else the message is invalid.
RecvAnswer(c) ==
  /\ ~killed
  /\ hpc[c] = "recv"
  /\ \E receipt \in Received(c) :
       /\ arriving' = [arriving EXCEPT ![c] = receipt.rest]
       /\ \/ \E p \in Parsed(receipt.got, Numbers) :
               /\ parsed' = [parsed EXCEPT ![c] = p]
               /\ now' = [now EXCEPT ![c] = current.id]
               /\ hpc' = [hpc EXCEPT ![c] = "record"]
          \/ /\ IsName(receipt.got)
             /\ UNCHANGED <<parsed, now, hpc>>
  /\ UNCHANGED <<killed, peer, delivered, read, fdVars, mainVars, name,
                 castVars, current, results>>

\* Mutant: an answer to any challenge is taken for the current one.
IsCurrentAny(c) == TRUE

\* An answer without an id is taken for one to the challenge that is current
\* now, which need not be the one that was when its time was taken.
IsCurrent(c) == parsed[c].cid \in {-1, current.id}

\* Under challengeMutex: an answer to another challenge is ignored.
Record(c) ==
  /\ ~killed
  /\ hpc[c] = "record"
  /\ current' = IF IsCurrent(c)
                THEN [current EXCEPT
                        !.latencies[name[c]] = now[c],
                        !.answers[name[c]] = [of |-> parsed[c].of,
                                              explicit |-> parsed[c].explicit]]
                ELSE current
  /\ hpc' = [hpc EXCEPT ![c] = "recv"]
  /\ parsed' = [parsed EXCEPT ![c] = Nothing]
  /\ now' = [now EXCEPT ![c] = 0]
  /\ UNCHANGED <<killed, netVars, fdVars, mainVars, name, castVars, results>>

\* Mutant: no return after the recv() of the name has failed.
EndedTwice(c) == IF hpc[c] = "name" THEN "recv" ELSE "done"

Ended(c) == "done"

\* recv() returns 0 or an error: the descriptor is closed, but the entry of
\* clients that holds it stays.
HandlerEnds(c) ==
  /\ ~killed
  /\ hpc[c] \in {"name", "recv"}
  /\ peer[c] = "gone"
  /\ owner' = [owner EXCEPT ![fd[c]] = Nobody]
  /\ hpc' = [hpc EXCEPT ![c] = Ended(c)]
  /\ UNCHANGED <<killed, netVars, fd, mainVars, name, parsed, now, castVars,
                 current, results>>

Handler(c) ==
  \/ RecvName(c)
  \/ RecvAnswer(c)
  \/ Record(c)
  \/ HandlerEnds(c)

-----------------------------------------------------------------------------
(* broadcastChallengeLoop.                                                 *)

\* The next challenge becomes the current one, under challengeMutex.
NewChallenge ==
  /\ ~killed
  /\ bpc = "next"
  /\ challengeId <= MaxChallenges
  /\ current' = [id |-> challengeId, latencies |-> NoLatencies, answers |-> NoAnswers]
  /\ challengeId' = challengeId + 1
  /\ bpc' = "lock"
  /\ UNCHANGED <<killed, netVars, fdVars, mainVars, handlerVars, todo,
                 snapshot, results>>

\* clientsMutex is taken, and held until every send() has returned.
StartBroadcast ==
  /\ ~killed
  /\ bpc = "lock"
  /\ todo' = clients
  /\ bpc' = "send"
  /\ UNCHANGED <<killed, netVars, fdVars, mainVars, handlerVars, snapshot,
                 challengeId, current, results>>

\* Whether what is sent to c can arrive.
Open(c) == c \in Conns /\ peer[c] = "open"

\* Mutants: the result of send() is tested, one way or the other, to try again.
RestIfFailed(c) == IF Open(c) THEN todo ELSE Tail(todo)
RestIfSent(c) == IF Open(c) THEN Tail(todo) ELSE todo

\* What is left of todo after a send() to c.
Rest(c) == Tail(todo)

\* send() to the next entry of clients: it is queued for the connection that
\* has the descriptor now, or fails because no open connection has it.
Send ==
  /\ ~killed
  /\ bpc = "send"
  /\ todo # <<>>
  /\ LET c == owner[Head(todo)] IN
       /\ IF Open(c)
          THEN /\ Len(delivered[c]) - read[c] < Window
               /\ delivered' = [delivered EXCEPT ![c] = Append(@, current.id)]
          ELSE UNCHANGED delivered
       /\ todo' = Rest(c)
  /\ UNCHANGED <<killed, peer, read, arriving, fdVars, mainVars, handlerVars,
                 bpc, snapshot, challengeId, current, results>>

\* send() to a client that has gone, whose handler has not yet seen it go.
SendKills ==
  /\ ~killed
  /\ bpc = "send"
  /\ todo # <<>>
  /\ \E c \in Conns : owner[Head(todo)] = c /\ peer[c] = "gone"
  /\ killed' = TRUE
  /\ UNCHANGED <<netVars, fdVars, mainVars, handlerVars, castVars, current,
                 results>>

EndBroadcast ==
  /\ ~killed
  /\ bpc = "send"
  /\ todo = <<>>
  /\ bpc' = "sleep"
  /\ UNCHANGED <<killed, netVars, fdVars, mainVars, handlerVars, todo,
                 snapshot, challengeId, current, results>>

\* After ten seconds, under challengeMutex.
Snapshot ==
  /\ ~killed
  /\ bpc = "sleep"
  /\ snapshot' = [latencies |-> current.latencies, answers |-> current.answers]
  /\ bpc' = "log"
  /\ UNCHANGED <<killed, netVars, fdVars, mainVars, handlerVars, todo,
                 challengeId, current, results>>

\* logChallengeResult: cid is the value the counter had when it was taken.
Log ==
  /\ ~killed
  /\ bpc = "log"
  /\ results' = Append(results, [challenge_id |-> challengeId - 1,
                                 latencies |-> snapshot.latencies,
                                 answers |-> snapshot.answers])
  /\ bpc' = "next"
  /\ UNCHANGED <<killed, netVars, fdVars, mainVars, handlerVars, todo,
                 snapshot, challengeId, current>>

Broadcaster ==
  \/ NewChallenge
  \/ StartBroadcast
  \/ Send
  \/ SendKills
  \/ EndBroadcast
  \/ Snapshot
  \/ Log

Client(c) == ClientReads(c) \/ ClientLeaves(c)

Next ==
  \/ \E c \in Conns : Client(c) \/ Accept(c) \/ Handler(c)
  \/ PushClient
  \/ Broadcaster

Spec == Init /\ [][Next]_vars

\* The broadcaster runs on; so does main, which gets clientsMutex because the
\* broadcaster leaves it alone for ten seconds at a time; clients that stay
\* go on reading.
Fairness ==
  /\ WF_vars(Broadcaster)
  /\ SF_vars(PushClient)
  /\ \A c \in Conns : WF_vars(ClientReads(c))

FairSpec == Spec /\ Fairness

-----------------------------------------------------------------------------
(* Properties.                                                             *)

\* Every variable has its type.
Kinds == {"name", "id", "answer", "part"}
Tokens == [of : Ids, kind : Kinds]
Latencies == [Keys -> Ids \cup {Untimed}]
Answers == [Keys -> [of : Ids, explicit : BOOLEAN] \cup {None}]
TypeOK ==
  /\ killed \in BOOLEAN
  /\ peer \in [Conns -> {"new", "open", "gone"}]
  /\ fd \in [Conns -> Fds \cup {0}]
  /\ owner \in [Fds -> Conns \cup {Nobody}]
  /\ delivered \in [Conns -> Seq(Ids)]
  /\ read \in [Conns -> Nat]
  /\ arriving \in [Conns -> Seq(Tokens)]
  /\ accepted \in Conns \cup {Nobody}
  /\ clients \in Seq(Fds)
  /\ hpc \in [Conns -> {"none", "name", "recv", "record", "done"}]
  /\ name \in [Conns -> Keys]
  /\ parsed \in [Conns -> [cid : Ids \cup Numbers \cup {-1}, of : Ids, explicit : BOOLEAN]]
  /\ now \in [Conns -> Ids]
  /\ bpc \in {"next", "lock", "send", "sleep", "log"}
  /\ todo \in Seq(Fds)
  /\ snapshot \in [latencies : Latencies, answers : Answers]
  /\ challengeId \in Nat
  /\ current \in [id : Ids, latencies : Latencies, answers : Answers]
  /\ results \in Seq([challenge_id : Ids, latencies : Latencies, answers : Answers])

\* The entries of the log are those of the challenges 1, 2, ... in order.  An
\* answer that came with its id is logged with its own challenge only, with a
\* latency measured from that one's start: although handlers take the time
\* before they have challengeMutex, and the broadcaster logs after it has let
\* go of it.  Any other is logged with a challenge that is not before its own,
\* and its time was taken between the two.
Fits(answer, latency, id) ==
  /\ answer.of <= latency /\ latency <= id
  /\ answer.explicit => answer.of = id
LogMatches ==
  \A i \in 1 .. Len(results) :
    /\ results[i].challenge_id = i
    /\ \A k \in Keys : Fits(results[i].answers[k], results[i].latencies[k], i)

\* "Only accept answers for the active challenge id": every answer that is
\* logged with a challenge is an answer to it (or what was left of a name).
OnlyActive ==
  \A i \in 1 .. Len(results), k \in Keys :
    results[i].answers[k].of \in {None.of, TheName, i}

\* Every handler that runs reads a descriptor that is its own: no other
\* thread has closed it and no new connection has been given it.
HandlersOwnTheirFd ==
  \A c \in Conns : hpc[c] \in {"name", "recv", "record"} => owner[fd[c]] = c

\* Types, and no handler reads from, or closes, a descriptor that is another
\* client's: only its own end closes it.
ServerInv == TypeOK /\ HandlersOwnTheirFd

\* A client is sent the challenges in order, and each of them at most once for
\* every entry of clients that holds its descriptor: twice only if it was
\* given the descriptor of a client that has gone, whose entry stays.
Entries(c) == {i \in 1 .. Len(clients) : clients[i] = fd[c]}
SentAsListed ==
  \A c \in Conns :
    /\ \A i, j \in 1 .. Len(delivered[c]) :
         i < j => delivered[c][i] <= delivered[c][j]
    /\ \A id \in Ids :
         Cardinality({i \in 1 .. Len(delivered[c]) : delivered[c][i] = id})
           <= Cardinality(Entries(c))

\* Every challenge that becomes current is logged in the end, though clients
\* come and go while it is sent; unless a send() kills the server.
ChallengesLogged ==
  \A i \in 1 .. MaxChallenges :
    current.id = i ~> (Len(results) >= i \/ killed)

\* A connection that was accepted gets its handler: main is not held up for
\* ever by a broadcast, whose send() waits for slow clients under the mutex.
AcceptedIsServed == \A c \in Conns : accepted = c ~> (accepted # c \/ killed)

=============================================================================
