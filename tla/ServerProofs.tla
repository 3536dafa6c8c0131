---------------------------- MODULE ServerProofs ----------------------------
(***************************************************************************)
(* Proofs about Server for any connections, names and number of            *)
(* challenges: ServerInv, LogMatches and SentAsListed. No message names a  *)
(* challenge that has not begun, however recv() cuts it (ReceiptsHeard,    *)
(* Sent), so that an answer with the id of the current one was timed       *)
(* within it; what is current is only of its own challenge, answers that   *)
(* came without their id apart (Owned); the log is one entry behind the    *)
(* counter until Log (Counted); and a broadcast has sent to a client no    *)
(* more often than it has passed an entry with its descriptor              *)
(* (Broadcasts).                                                           *)
(*                                                                         *)
(* And about the checksum of a challenge (Checksum), that the server and   *)
(* the six clients compute, for any matrices, modulus, tile and number of  *)
(* workers: a sum over a finite set does not depend on the order of its    *)
(* terms (SumRemove), may be taken apart (SumOfSums) and reduced anywhere  *)
(* (SumOfRemainders); and each program adds up every product once, whether *)
(* by cell, by rows (RowsApart, RowsCover), block by block (TurnsOfRows)   *)
(* or by tiles (TermsOfTile).                                              *)
(***************************************************************************)
EXTENDS Server, Checksum, SequenceTheorems, FiniteSetTheorems, WellFoundedInduction, TLAPS

-----------------------------------------------------------------------------
(* What recv() and sscanf() make of a message.                             *)

\* What is sent once challenge n has begun, and what may be made of it.
Heard(n) == [of : 0 .. n, kind : Kinds]
Understood(n) == [cid : (0 .. n) \cup Numbers \cup {-1}, of : 0 .. n, explicit : BOOLEAN]

LEMMA CutHeard ==
  ASSUME NEW n \in Nat, NEW t \in Heard(n)
  PROVE  Cut(t) \in Heard(n)
BY DEF Cut, Heard, Kinds

\* A part of a text is a text.
LEMMA PartHeard ==
  ASSUME NEW S, NEW s \in Seq(S), NEW k \in 1 .. Len(s) + 1, NEW j \in 0 .. Len(s)
  PROVE  /\ SubSeq(s, k, j) \in Seq(S)
         /\ Len(SubSeq(s, k, j)) = IF k <= j THEN j - k + 1 ELSE 0
<1>1. Len(s) \in Nat BY LenProperties
<1>2. \A i \in k .. j : s[i] \in S BY <1>1, ElementOfSeq
<1> QED BY <1>1, <1>2, SubSeqProperties

\* recv() returns something, and neither that nor what it leaves names a
\* challenge that the text did not.
LEMMA ReceiptsHeard ==
  ASSUME NEW n \in Nat, NEW text \in Seq(Heard(n)), NEW r \in Receipts(text)
  PROVE  /\ r.got \in Seq(Heard(n)) /\ Len(r.got) \in Nat \ {0}
         /\ r.rest \in Seq(Heard(n))
<1>1. Len(text) \in Nat BY LenProperties
<1>2. PICK k \in 1 .. Len(text) : r = Between(text, k) \/ r = Within(text, k)
  BY DEF Receipts
<1> DEFINE s == SubSeq(text, 1, k)
           u == SubSeq(text, k, Len(text))
<1>3. /\ s \in Seq(Heard(n)) /\ Len(s) = k
      /\ u \in Seq(Heard(n)) /\ Len(u) = Len(text) - k + 1
      /\ SubSeq(text, k + 1, Len(text)) \in Seq(Heard(n))
  BY <1>1, PartHeard
<1>4. CASE r = Between(text, k) BY <1>1, <1>3, <1>4 DEF Between
<1>5. CASE r = Within(text, k)
  <2>1. k \in 1 .. Len(s) /\ 1 \in 1 .. Len(u) BY <1>1, <1>3
  <2> HIDE DEF s, u
  <2>2. Cut(s[k]) \in Heard(n) /\ Cut(u[1]) \in Heard(n)
    BY <1>3, <2>1, ElementOfSeq, CutHeard
  <2>3. /\ [s EXCEPT ![k] = Cut(s[k])] \in Seq(Heard(n))
        /\ Len([s EXCEPT ![k] = Cut(s[k])]) = Len(s)
    BY <1>3, <2>1, <2>2, ExceptSeq
  <2>4. [u EXCEPT ![1] = Cut(u[1])] \in Seq(Heard(n))
    BY <1>3, <2>1, <2>2, ExceptSeq
  <2>5. r = [got |-> [s EXCEPT ![k] = Cut(s[k])], rest |-> [u EXCEPT ![1] = Cut(u[1])]]
    BY <1>5 DEF Within, s, u
  <2> QED BY <1>1, <1>3, <2>3, <2>4, <2>5
<1> QED BY <1>2, <1>4, <1>5

\* What sscanf() makes of it names none either; and an answer that came with an
\* id is to that challenge.
LEMMA ParsedUnderstood ==
  ASSUME NEW n \in Nat, NEW got \in Seq(Heard(n)), Len(got) \in Nat \ {0},
         NEW p \in Parsed(got, Numbers)
  PROVE  p \in Understood(n) /\ (p.explicit => p.cid = p.of)
<1>1. got[1] \in Heard(n) BY ElementOfSeq
<1>2. CASE p \in OneNumber(got)
  <2>1. p = [cid |-> -1, of |-> got[1].of, explicit |-> FALSE]
    BY <1>2 DEF OneNumber
  <2> QED BY <1>1, <2>1 DEF Heard, Understood
<1>3. CASE Len(got) > 1 /\ p \in TwoNumbers(got, Numbers)
  <2>1. got[2] \in Heard(n) BY <1>3, ElementOfSeq
  <2>2. PICK v \in Values(got[1], Numbers) :
          p = [cid |-> v, of |-> got[2].of,
               explicit |-> got[1] = Token(got[2].of, "id") /\ got[2].kind = "answer"]
    BY <1>3 DEF TwoNumbers
  <2>3. v \in (0 .. n) \cup Numbers BY <1>1 DEF Values, Heard
  <2>4. got[1] = Token(got[2].of, "id") => v = got[2].of BY DEF Values, Token
  <2>5. p.explicit \in BOOLEAN /\ (p.explicit => got[1] = Token(got[2].of, "id"))
    BY <2>2
  <2>6. p \in Understood(n)
    <3>1. got[2].of \in 0 .. n BY <2>1 DEF Heard
    <3> QED BY <2>2, <2>3, <3>1 DEF Understood
  <2>7. p.cid = v /\ p.of = got[2].of BY <2>2
  <2> QED BY <2>4, <2>5, <2>6, <2>7
<1> QED BY <1>2, <1>3 DEF Parsed

-----------------------------------------------------------------------------
(* The descriptors.                                                        *)

\* A descriptor is a handler's, or on its way to one, until that handler ends.
DescriptorsInv ==
  /\ peer \in [Conns -> {"new", "open", "gone"}]
  /\ fd \in [Conns -> Fds \cup {0}]
  /\ owner \in [Fds -> Conns \cup {Nobody}]
  /\ hpc \in [Conns -> {"none", "name", "recv", "record", "done"}]
  /\ accepted \in Conns \cup {Nobody}
  /\ HandlersOwnTheirFd
  /\ \A c \in Conns : hpc[c] \in {"name", "recv", "record"} => fd[c] \in Fds
  /\ \A c \in Conns : peer[c] = "new" => hpc[c] = "none"
  /\ accepted # Nobody =>
       /\ peer[accepted] # "new"
       /\ hpc[accepted] = "none"
       /\ fd[accepted] \in Fds
       /\ owner[fd[accepted]] = accepted

\* A new connection is given a descriptor that nobody has, and a handler that
\* ends closes its own.
LEMMA Descriptors == Spec => []DescriptorsInv
<1>1. Init => DescriptorsInv
  BY DEF Init, DescriptorsInv, HandlersOwnTheirFd
<1>2. ASSUME DescriptorsInv, [Next]_vars PROVE DescriptorsInv'
  <2> USE <1>2, ConstantsAssumption
      DEF DescriptorsInv, HandlersOwnTheirFd, netVars, fdVars, mainVars,
          handlerVars, castVars
  <2>1. ASSUME NEW c \in Conns, Accept(c) PROVE DescriptorsInv'
    <3>1. PICK f \in Fds :
            /\ owner[f] = Nobody
            /\ fd' = [fd EXCEPT ![c] = f]
            /\ owner' = [owner EXCEPT ![f] = c]
      BY <2>1 DEF Accept
    <3>2. /\ accepted' = c /\ hpc' = hpc /\ hpc[c] = "none"
          /\ peer' = [peer EXCEPT ![c] = "open"]
      BY <2>1 DEF Accept
    <3>3. /\ peer' \in [Conns -> {"new", "open", "gone"}]
          /\ fd' \in [Conns -> Fds \cup {0}]
          /\ owner' \in [Fds -> Conns \cup {Nobody}]
          /\ hpc' \in [Conns -> {"none", "name", "recv", "record", "done"}]
      BY <3>1, <3>2
    <3>4. ASSUME NEW d \in Conns, hpc'[d] \in {"name", "recv", "record"}
          PROVE  fd'[d] \in Fds /\ owner'[fd'[d]] = d
      <4>1. d # c /\ fd'[d] = fd[d] /\ owner[fd[d]] = d /\ fd[d] \in Fds
        BY <3>1, <3>2, <3>4
      <4>2. fd[d] # f BY <3>1, <4>1 DEF Nobody
      <4> QED BY <3>1, <4>1, <4>2
    <3>5. \A d \in Conns : peer'[d] = "new" => hpc'[d] = "none" BY <3>2
    <3>6. /\ peer'[c] # "new" /\ hpc'[c] = "none"
          /\ fd'[c] \in Fds /\ owner'[fd'[c]] = c
      BY <3>1, <3>2
    <3> QED BY <3>2, <3>3, <3>4, <3>5, <3>6
  <2>2. CASE PushClient BY <2>2 DEF PushClient
  <2>3. ASSUME NEW c \in Conns, RecvName(c) \/ RecvAnswer(c) \/ Record(c)
        PROVE  DescriptorsInv'
    <3>1. PICK place \in {"recv", "record"} : hpc' = [hpc EXCEPT ![c] = place]
      BY <2>3 DEF RecvName, RecvAnswer, Record
    <3>2. /\ hpc[c] \in {"name", "recv", "record"}
          /\ UNCHANGED <<peer, fd, owner, accepted>>
      BY <2>3 DEF RecvName, RecvAnswer, Record
    <3> QED BY <3>1, <3>2
  <2>4. ASSUME NEW c \in Conns, HandlerEnds(c) PROVE DescriptorsInv'
    <3>1. /\ hpc[c] \in {"name", "recv", "record"}
          /\ owner' = [owner EXCEPT ![fd[c]] = Nobody]
          /\ hpc' = [hpc EXCEPT ![c] = "done"]
          /\ UNCHANGED <<peer, fd, accepted>>
      BY <2>4 DEF HandlerEnds, Ended
    <3>2. owner[fd[c]] = c /\ fd[c] \in Fds BY <3>1
    <3>3. \A d \in Conns : d # c /\ fd[d] \in Fds /\ owner[fd[d]] = d
                             => owner'[fd[d]] = d
      BY <3>1, <3>2
    <3>4. /\ owner' \in [Fds -> Conns \cup {Nobody}]
          /\ hpc' \in [Conns -> {"none", "name", "recv", "record", "done"}]
      BY <3>1
    <3>5. accepted # Nobody => accepted # c BY <3>1
    <3> QED BY <3>1, <3>3, <3>4, <3>5
  <2>5. ASSUME NEW c \in Conns, Client(c) PROVE DescriptorsInv'
    BY <2>5 DEF Client, ClientReads, ClientLeaves
  <2>6. CASE Broadcaster \/ UNCHANGED vars
    BY <2>6 DEF Broadcaster, NewChallenge, StartBroadcast, Send, SendKills,
       EndBroadcast, Snapshot, Log, vars
  <2> QED BY <2>1, <2>2, <2>3, <2>4, <2>5, <2>6 DEF Next, Handler
<1> QED BY <1>1, <1>2, PTL DEF Spec

-----------------------------------------------------------------------------
(* What is current, and the messages.                                      *)

\* No message names a challenge that has not begun, nor one that began after
\* the time its answer was given.
SentInv ==
  /\ name \in [Conns -> Keys]
  /\ current \in [id : Ids, latencies : Latencies, answers : Answers]
  /\ challengeId = current.id + 1
  /\ read \in [Conns -> Nat]
  /\ delivered \in [Conns -> Seq(0 .. current.id)]
  /\ arriving \in [Conns -> Seq(Heard(current.id))]
  /\ parsed \in [Conns -> Understood(current.id)]
  /\ now \in [Conns -> 0 .. current.id]
  /\ \A c \in Conns : hpc[c] = "record" =>
       /\ parsed[c].of <= now[c]
       /\ parsed[c].explicit => parsed[c].cid = parsed[c].of

\* The numbers a message may hold grow with the counter.
LEMMA More ==
  ASSUME NEW S, NEW T, S \subseteq T, NEW f \in [Conns -> Seq(S)]
  PROVE  f \in [Conns -> Seq(T)]
<1>1. ASSUME NEW c \in Conns PROVE f[c] \in Seq(T)
  <2>1. f[c] \in Seq(S) OBVIOUS
  <2> QED BY <2>1, SeqMonotonic
<1> QED BY <1>1

LEMMA MoreHeard ==
  ASSUME NEW n \in Nat
  PROVE  /\ 0 .. n \subseteq 0 .. n + 1
         /\ Heard(n) \subseteq Heard(n + 1)
         /\ Understood(n) \subseteq Understood(n + 1)
<1>1. 0 .. n \subseteq 0 .. n + 1 OBVIOUS
<1>2. Heard(n) \subseteq Heard(n + 1) BY <1>1 DEF Heard
<1>3. Understood(n) \subseteq Understood(n + 1) BY <1>1 DEF Understood
<1> QED BY <1>1, <1>2, <1>3

\* What recv() takes for a name is one of Keys.
LEMMA NameIsKey ==
  ASSUME NEW c \in Conns, NEW e \in {"exact", "part", "more"}
  PROVE  <<NameOf[c], e>> \in Keys
<1>1. NameOf[c] \in {NameOf[d] : d \in Conns} OBVIOUS
<1> QED BY <1>1 DEF Keys

LEMMA EmptyType == NoLatencies \in Latencies /\ NoAnswers \in Answers
BY DEF NoLatencies, NoAnswers, Latencies, Answers

\* An answer recorded for the current challenge is to no later one, was timed
\* between the two, and is to this one if it came with an id.
LEMMA RecordStep ==
  ASSUME SentInv, DescriptorsInv, NEW c \in Conns, Record(c)
  PROVE  /\ current'.id = current.id
         /\ current' \in [id : Ids, latencies : Latencies, answers : Answers]
         /\ \A k \in Keys :
              \/ /\ current'.answers[k] = current.answers[k]
                 /\ current'.latencies[k] = current.latencies[k]
              \/ Fits(current'.answers[k], current'.latencies[k], current.id)
<1>1. CASE ~IsCurrent(c) BY <1>1 DEF Record, SentInv
<1>2. CASE IsCurrent(c)
  <2> DEFINE answer == [of |-> parsed[c].of, explicit |-> parsed[c].explicit]
             latency == now[c]
             key == name[c]
  <2>1. /\ current' = [current EXCEPT !.latencies[key] = latency,
                                      !.answers[key] = answer]
        /\ hpc[c] = "record"
    BY <1>2 DEF Record
  <2>2. /\ current.id \in Ids /\ current.id \in Nat
        /\ current.latencies \in Latencies /\ current.answers \in Answers
        /\ key \in Keys
    BY ConstantsAssumption DEF SentInv, Ids
  <2>3. /\ parsed[c] \in Understood(current.id) /\ latency \in 0 .. current.id
        /\ parsed[c].of <= latency
        /\ parsed[c].explicit => parsed[c].cid = parsed[c].of
        /\ parsed[c].cid \in {-1, current.id}
    BY <1>2, <2>1 DEF SentInv, IsCurrent
  <2>4. /\ parsed[c].of \in 0 .. current.id /\ parsed[c].explicit \in BOOLEAN
    BY <2>3 DEF Understood
  <2>5. /\ answer \in [of : Ids, explicit : BOOLEAN] /\ latency \in Ids
        /\ answer.of = parsed[c].of /\ answer.explicit = parsed[c].explicit
    BY <2>2, <2>3, <2>4, ConstantsAssumption DEF Ids
  <2>6. parsed[c].explicit => parsed[c].of = current.id BY <2>3, <2>4, <2>2
  <2>7. Fits(answer, latency, current.id) BY <2>2, <2>3, <2>5, <2>6 DEF Fits
  <2> HIDE DEF answer, latency, key
  <2>8. /\ current'.id = current.id
        /\ current'.latencies = [current.latencies EXCEPT ![key] = latency]
        /\ current'.answers = [current.answers EXCEPT ![key] = answer]
    BY <2>1 DEF SentInv
  <2>9. current'.latencies \in Latencies /\ current'.answers \in Answers
    BY <2>2, <2>5, <2>8 DEF Latencies, Answers
  <2>10. current' = [id |-> current'.id, latencies |-> current'.latencies,
                     answers |-> current'.answers]
    BY <2>1 DEF SentInv
  <2>11. current' \in [id : Ids, latencies : Latencies, answers : Answers]
    BY <2>2, <2>8, <2>9, <2>10
  <2>12. ASSUME NEW k \in Keys
         PROVE  \/ /\ current'.answers[k] = current.answers[k]
                   /\ current'.latencies[k] = current.latencies[k]
                \/ Fits(current'.answers[k], current'.latencies[k], current.id)
    <3>1. CASE k = key
      <4>1. current'.answers[k] = answer /\ current'.latencies[k] = latency
        BY <2>2, <2>8, <3>1 DEF Latencies, Answers
      <4> QED BY <2>7, <4>1
    <3>2. CASE k # key BY <2>2, <2>8, <3>2 DEF Latencies, Answers
    <3> QED BY <3>1, <3>2
  <2> QED BY <2>8, <2>11, <2>12
<1> QED BY <1>1, <1>2

LEMMA Sent == Spec => []SentInv
<1>1. Init => SentInv
  <2> SUFFICES ASSUME Init PROVE SentInv OBVIOUS
  <2> USE ConstantsAssumption DEF Init
  <2>1. current \in [id : Ids, latencies : Latencies, answers : Answers]
    BY EmptyType DEF Ids
  <2>2. current.id = 0 /\ challengeId = 1 OBVIOUS
  <2>3. name \in [Conns -> Keys] BY NameIsKey
  <2>4. /\ delivered \in [Conns -> Seq(0 .. current.id)]
        /\ arriving \in [Conns -> Seq(Heard(current.id))]
    BY EmptySeq
  <2>5. /\ read \in [Conns -> Nat]
        /\ parsed \in [Conns -> Understood(current.id)]
        /\ now \in [Conns -> 0 .. current.id]
        /\ \A c \in Conns : hpc[c] = "record" =>
             /\ parsed[c].of <= now[c]
             /\ parsed[c].explicit => parsed[c].cid = parsed[c].of
    <3>1. Nothing \in Understood(current.id) BY <2>2 DEF Nothing, Understood
    <3> QED BY <2>2, <3>1
  <2>6. challengeId = current.id + 1 BY <2>2
  <2> QED BY <2>1, <2>3, <2>4, <2>5, <2>6, Zenon DEF SentInv
<1>2. ASSUME SentInv, DescriptorsInv, DescriptorsInv', [Next]_vars PROVE SentInv'
  <2>0. current.id \in Nat BY <1>2, ConstantsAssumption DEF SentInv, Ids
  <2> USE <1>2, <2>0, ConstantsAssumption
      DEF SentInv, netVars, fdVars, mainVars, handlerVars, castVars
  <2>1. ASSUME NEW c \in Conns, ClientReads(c) PROVE SentInv'
    <3> DEFINE id == delivered[c][read[c] + 1]
    <3>1. /\ arriving[c] \in Seq(Heard(current.id))
          /\ delivered[c] \in Seq(0 .. current.id) /\ read[c] \in Nat
      OBVIOUS
    <3>2. Len(delivered[c]) \in Nat BY <3>1, LenProperties
    <3>3. read[c] + 1 \in 1 .. Len(delivered[c])
      BY <2>1, <3>1, <3>2 DEF ClientReads
    <3>4. id \in 0 .. current.id BY <3>1, <3>3, ElementOfSeq
    <3> HIDE DEF id
    <3>5. /\ Token(id, "id") \in Heard(current.id)
          /\ Token(id, "answer") \in Heard(current.id)
      BY <3>4 DEF Token, Heard, Kinds
    <3>6. /\ WithId(id) \in Seq(Heard(current.id))
          /\ Alone(id) \in Seq(Heard(current.id))
      BY <3>5 DEF WithId, Alone
    <3>7. /\ arriving[c] \o WithId(id) \in Seq(Heard(current.id))
          /\ arriving[c] \o Alone(id) \in Seq(Heard(current.id))
      BY <3>1, <3>6, ConcatProperties
    <3>8. \/ arriving' = [arriving EXCEPT ![c] = arriving[c] \o WithId(id)]
          \/ arriving' = [arriving EXCEPT ![c] = arriving[c] \o Alone(id)]
          \/ arriving' = arriving
      BY <2>1 DEF ClientReads, Says, id
    <3>9. arriving' \in [Conns -> Seq(Heard(current.id))] BY <3>7, <3>8
    <3>10. /\ read' = [read EXCEPT ![c] = @ + 1]
           /\ UNCHANGED <<name, current, challengeId, delivered, parsed, now, hpc>>
      BY <2>1 DEF ClientReads
    <3>11. read' \in [Conns -> Nat] BY <3>10
    <3> QED BY <3>9, <3>10, <3>11
  <2>2. ASSUME NEW c \in Conns, ClientLeaves(c) PROVE SentInv'
    BY <2>2 DEF ClientLeaves
  <2>3. ASSUME NEW c \in Conns, Accept(c) PROVE SentInv'
    <3>1. NameText \in Seq(Heard(current.id))
      <4>1. Token(TheName, "name") \in Heard(current.id)
        BY DEF Token, TheName, Heard, Kinds
      <4> QED BY <4>1 DEF NameText
    <3>2. arriving' \in [Conns -> Seq(Heard(current.id))]
      BY <2>3, <3>1 DEF Accept
    <3> QED BY <2>3, <3>2 DEF Accept
  <2>4. ASSUME NEW c \in Conns, RecvName(c) PROVE SentInv'
    <3>1. PICK receipt \in Received(c) :
            /\ name' = [name EXCEPT ![c] = <<NameOf[c], Extent(receipt.got)>>]
            /\ arriving' = [arriving EXCEPT ![c] = receipt.rest]
      BY <2>4 DEF RecvName
    <3>2. arriving' \in [Conns -> Seq(Heard(current.id))]
      <4>1. receipt.rest \in Seq(Heard(current.id))
        <5>1. arriving[c] \in Seq(Heard(current.id)) OBVIOUS
        <5> HIDE DEF SentInv
        <5> QED BY <5>1, ReceiptsHeard DEF Received
      <4> QED BY <3>1, <4>1
    <3>3. name' \in [Conns -> Keys]
      <4>1. Extent(receipt.got) \in {"exact", "part", "more"} BY DEF Extent
      <4>2. <<NameOf[c], Extent(receipt.got)>> \in Keys BY <4>1, NameIsKey
      <4> QED BY <3>1, <4>2
    <3>4. hpc' = [hpc EXCEPT ![c] = "recv"] BY <2>4 DEF RecvName
    <3> QED BY <2>4, <3>2, <3>3, <3>4 DEF RecvName, DescriptorsInv
  <2>5. ASSUME NEW c \in Conns, RecvAnswer(c) PROVE SentInv'
    <3>1. PICK receipt \in Received(c) :
            /\ arriving' = [arriving EXCEPT ![c] = receipt.rest]
            /\ \/ \E p \in Parsed(receipt.got, Numbers) :
                    /\ parsed' = [parsed EXCEPT ![c] = p]
                    /\ now' = [now EXCEPT ![c] = current.id]
                    /\ hpc' = [hpc EXCEPT ![c] = "record"]
               \/ UNCHANGED <<parsed, now, hpc>>
      BY <2>5 DEF RecvAnswer
    <3>2. /\ receipt.rest \in Seq(Heard(current.id))
          /\ receipt.got \in Seq(Heard(current.id)) /\ Len(receipt.got) \in Nat \ {0}
      <4>1. arriving[c] \in Seq(Heard(current.id)) OBVIOUS
      <4> HIDE DEF SentInv
      <4> QED BY <4>1, ReceiptsHeard DEF Received
    <3>3. arriving' \in [Conns -> Seq(Heard(current.id))] BY <3>1, <3>2
    <3>4. UNCHANGED <<name, current, challengeId, read, delivered>>
      BY <2>5 DEF RecvAnswer
    <3>5. CASE UNCHANGED <<parsed, now, hpc>> BY <3>3, <3>4, <3>5
    <3>6. ASSUME NEW p \in Parsed(receipt.got, Numbers),
                 /\ parsed' = [parsed EXCEPT ![c] = p]
                 /\ now' = [now EXCEPT ![c] = current.id]
                 /\ hpc' = [hpc EXCEPT ![c] = "record"]
          PROVE  SentInv'
      <4>1. p \in Understood(current.id) /\ (p.explicit => p.cid = p.of)
        <5> HIDE DEF SentInv
        <5> QED BY <3>2, ParsedUnderstood
      <4>2. p.of \in 0 .. current.id BY <4>1 DEF Understood
      <4>3. /\ parsed' \in [Conns -> Understood(current.id)]
            /\ now' \in [Conns -> 0 .. current.id]
        BY <3>6, <4>1
      <4>4. ASSUME NEW d \in Conns, hpc'[d] = "record"
            PROVE  /\ parsed'[d].of <= now'[d]
                   /\ parsed'[d].explicit => parsed'[d].cid = parsed'[d].of
        <5>1. CASE d = c
          <6>1. parsed'[d] = p /\ now'[d] = current.id BY <3>6, <5>1
          <6> QED BY <4>1, <4>2, <6>1
        <5>2. CASE d # c
          <6>1. parsed'[d] = parsed[d] /\ now'[d] = now[d] /\ hpc[d] = "record"
            BY <3>6, <4>4, <5>2 DEF DescriptorsInv
          <6> QED BY <6>1
        <5> QED BY <5>1, <5>2
      <4> QED BY <3>3, <3>4, <4>3, <4>4
    <3> QED BY <3>1, <3>5, <3>6
  <2>6. ASSUME NEW c \in Conns, Record(c) PROVE SentInv'
    <3>1. /\ current'.id = current.id
          /\ current' \in [id : Ids, latencies : Latencies, answers : Answers]
      <4> HIDE DEF SentInv
      <4> QED BY <2>6, RecordStep
    <3>2. /\ hpc' = [hpc EXCEPT ![c] = "recv"]
          /\ parsed' = [parsed EXCEPT ![c] = Nothing]
          /\ now' = [now EXCEPT ![c] = 0]
          /\ UNCHANGED <<name, challengeId, read, delivered, arriving>>
      BY <2>6 DEF Record
    <3>3. /\ parsed' \in [Conns -> Understood(current.id)]
          /\ now' \in [Conns -> 0 .. current.id]
      <4>1. Nothing \in Understood(current.id) BY DEF Nothing, Understood
      <4> QED BY <3>2, <4>1
    <3>4. ASSUME NEW d \in Conns, hpc'[d] = "record"
          PROVE  /\ parsed'[d].of <= now'[d]
                 /\ parsed'[d].explicit => parsed'[d].cid = parsed'[d].of
      <4>1. d # c /\ parsed'[d] = parsed[d] /\ now'[d] = now[d] /\ hpc[d] = "record"
        BY <3>2, <3>4 DEF DescriptorsInv
      <4> QED BY <4>1
    <3> QED BY <3>1, <3>2, <3>3, <3>4
  <2>7. ASSUME NEW c \in Conns, HandlerEnds(c) PROVE SentInv'
    BY <2>7 DEF HandlerEnds, Ended, DescriptorsInv
  <2>8. CASE PushClient BY <2>8 DEF PushClient, DescriptorsInv
  <2>9. CASE NewChallenge
    <3>1. /\ current' = [id |-> challengeId, latencies |-> NoLatencies, answers |-> NoAnswers]
          /\ challengeId' = challengeId + 1 /\ challengeId <= MaxChallenges
          /\ UNCHANGED <<name, read, delivered, arriving, parsed, now, hpc>>
      BY <2>9 DEF NewChallenge
    <3>2. /\ current'.id = current.id + 1 /\ challengeId' = current'.id + 1
          /\ current' \in [id : Ids, latencies : Latencies, answers : Answers]
      BY <3>1, EmptyType DEF Ids
    <3>3. /\ delivered' \in [Conns -> Seq(0 .. current'.id)]
          /\ arriving' \in [Conns -> Seq(Heard(current'.id))]
      BY <3>1, <3>2, More, MoreHeard
    <3>4. /\ parsed' \in [Conns -> Understood(current'.id)]
          /\ now' \in [Conns -> 0 .. current'.id]
      BY <3>1, <3>2, MoreHeard
    <3> QED BY <3>1, <3>2, <3>3, <3>4
  <2>10. CASE Send
    <3>1. PICK c \in {owner[Head(todo)]} :
            delivered' = IF Open(c)
                         THEN [delivered EXCEPT ![c] = Append(@, current.id)]
                         ELSE delivered
      BY <2>10 DEF Send
    <3>2. delivered' \in [Conns -> Seq(0 .. current.id)]
      <4>1. CASE Open(c)
        <5>1. delivered[c] \in Seq(0 .. current.id) /\ current.id \in 0 .. current.id
          BY <4>1 DEF Open
        <5>2. Append(delivered[c], current.id) \in Seq(0 .. current.id)
          BY <5>1, AppendProperties
        <5> QED BY <3>1, <4>1, <5>2 DEF Open
      <4> QED BY <3>1, <4>1
    <3> QED BY <2>10, <3>2 DEF Send
  <2>11. CASE \/ StartBroadcast \/ SendKills \/ EndBroadcast \/ Snapshot \/ Log
              \/ UNCHANGED vars
    BY <2>11 DEF StartBroadcast, SendKills, EndBroadcast, Snapshot, Log, vars
  <2> QED BY <2>1, <2>2, <2>3, <2>4, <2>5, <2>6, <2>7, <2>8, <2>9, <2>10, <2>11
          DEF Next, Client, Handler, Broadcaster
<1> QED BY <1>1, <1>2, Descriptors, PTL DEF Spec

-----------------------------------------------------------------------------
(* The log.                                                                *)

\* Answers that challenge id may have.
OwnedBy(e, id) == \A k \in Keys : Fits(e.answers[k], e.latencies[k], id)

\* What is current is of the current challenge; so is what is about to be logged.
OwnedInv ==
  /\ OwnedBy(current, current.id)
  /\ bpc = "log" => OwnedBy(snapshot, current.id)

\* One entry for each challenge, but for the current one until it is logged.
CountedInv ==
  /\ clients \in Seq(Fds)
  /\ todo \in Seq(Fds)
  /\ bpc \in {"next", "lock", "send", "sleep", "log"}
  /\ snapshot \in [latencies : Latencies, answers : Answers]
  /\ results \in Seq([challenge_id : Ids, latencies : Latencies, answers : Answers])
  /\ Len(results) = IF bpc = "next" THEN current.id ELSE current.id - 1
  /\ LogMatches

LEMMA EmptyOwned ==
  ASSUME NEW id \in Nat, NEW e, e.latencies = NoLatencies, e.answers = NoAnswers
  PROVE  OwnedBy(e, id)
BY DEF OwnedBy, Fits, NoLatencies, NoAnswers, None, Untimed

LEMMA Owned == Spec => []OwnedInv
<1>1. Init => OwnedInv
  <2> SUFFICES ASSUME Init PROVE OwnedInv OBVIOUS
  <2>1. /\ current.latencies = NoLatencies /\ current.answers = NoAnswers
        /\ current.id \in Nat
    BY DEF Init
  <2> QED BY <2>1, EmptyOwned DEF Init, OwnedInv
<1>2. ASSUME SentInv, DescriptorsInv, OwnedInv, [Next]_vars PROVE OwnedInv'
  <2> USE <1>2 DEF netVars, fdVars, mainVars, handlerVars, castVars
  <2>1. CASE NewChallenge
    <3>1. /\ current'.latencies = NoLatencies /\ current'.answers = NoAnswers
          /\ bpc' = "lock" /\ current'.id \in Nat
      BY <2>1, ConstantsAssumption DEF NewChallenge, SentInv, Ids
    <3>2. OwnedBy(current', current'.id) BY <3>1, EmptyOwned
    <3> QED BY <3>1, <3>2 DEF OwnedInv
  <2>2. ASSUME NEW c \in Conns, Record(c) PROVE OwnedInv'
    <3>1. UNCHANGED <<bpc, snapshot>> BY <2>2 DEF Record
    <3>2. /\ current'.id = current.id
          /\ \A k \in Keys :
               \/ /\ current'.answers[k] = current.answers[k]
                  /\ current'.latencies[k] = current.latencies[k]
               \/ Fits(current'.answers[k], current'.latencies[k], current.id)
      BY <2>2, RecordStep
    <3>3. OwnedBy(current', current'.id) BY <3>2 DEF OwnedInv, OwnedBy
    <3> QED BY <3>1, <3>2, <3>3 DEF OwnedInv, OwnedBy
  <2>3. CASE Snapshot
    <3>1. /\ snapshot'.latencies = current.latencies
          /\ snapshot'.answers = current.answers
          /\ UNCHANGED current
      BY <2>3 DEF Snapshot
    <3> QED BY <3>1 DEF OwnedInv, OwnedBy
  <2>4. CASE Log BY <2>4 DEF Log, OwnedInv
  <2>5. CASE StartBroadcast \/ Send \/ SendKills \/ EndBroadcast
    BY <2>5 DEF StartBroadcast, Send, SendKills, EndBroadcast, OwnedInv, OwnedBy
  <2>6. ASSUME NEW c \in Conns,
               \/ Client(c) \/ Accept(c)
               \/ RecvName(c) \/ RecvAnswer(c) \/ HandlerEnds(c)
        PROVE  OwnedInv'
    <3>1. UNCHANGED <<current, bpc, snapshot>>
      BY <2>6 DEF Client, ClientReads, ClientLeaves, Accept, RecvName, RecvAnswer,
         HandlerEnds
    <3> QED BY <3>1 DEF OwnedInv, OwnedBy
  <2>7. CASE PushClient \/ UNCHANGED vars
    BY <2>7 DEF PushClient, vars, OwnedInv, OwnedBy
  <2> QED BY <2>1, <2>2, <2>3, <2>4, <2>5, <2>6, <2>7
          DEF Next, Handler, Broadcaster
<1> QED BY <1>1, <1>2, Sent, Descriptors, PTL DEF Spec

LEMMA Counted == Spec => []CountedInv
<1> DEFINE Entry == [challenge_id : Ids, latencies : Latencies, answers : Answers]
<1>1. Init => CountedInv
  <2> SUFFICES ASSUME Init PROVE CountedInv OBVIOUS
  <2>1. snapshot \in [latencies : Latencies, answers : Answers]
    BY EmptyType DEF Init
  <2>2. /\ clients = <<>> /\ todo = <<>> /\ results = <<>> /\ bpc = "next"
        /\ current.id = 0
    BY DEF Init
  <2>3. Len(results) = 0 /\ LogMatches BY <2>2 DEF LogMatches
  <2> QED BY <2>1, <2>2, <2>3 DEF CountedInv
<1>2. ASSUME SentInv, SentInv', DescriptorsInv, OwnedInv, CountedInv, [Next]_vars
      PROVE  CountedInv'
  <2>0. current.id \in Nat BY <1>2, ConstantsAssumption DEF SentInv, Ids
  <2> USE <1>2, <2>0, ConstantsAssumption
      DEF CountedInv, netVars, fdVars, mainVars, handlerVars, castVars
  <2>1. CASE Log
    <3> DEFINE entry == [challenge_id |-> challengeId - 1,
                         latencies |-> snapshot.latencies,
                         answers |-> snapshot.answers]
    <3>1. /\ bpc = "log" /\ bpc' = "next" /\ results' = Append(results, entry)
          /\ UNCHANGED <<clients, todo, snapshot, current>>
      BY <2>1 DEF Log
    <3>2. Len(results) = current.id - 1 BY <3>1
    <3>3. entry \in Entry /\ entry.challenge_id = current.id
      BY DEF SentInv
    <3>4. /\ results' \in Seq(Entry) /\ Len(results') = Len(results) + 1
          /\ \A i \in 1 .. Len(results) : results'[i] = results[i]
          /\ results'[Len(results) + 1] = entry
      BY <3>1, <3>3, AppendProperties
    <3>5. OwnedBy(entry, current.id) BY <3>1 DEF OwnedInv, OwnedBy
    <3>6. LogMatches'
      <4> SUFFICES ASSUME NEW i \in 1 .. Len(results')
                   PROVE  results'[i].challenge_id = i /\ OwnedBy(results'[i], i)
        BY DEF LogMatches, OwnedBy
      <4>1. CASE i = current.id BY <3>2, <3>3, <3>4, <3>5, <4>1
      <4>2. CASE i # current.id
        <5>1. i \in 1 .. Len(results) BY <3>2, <3>4, <4>2
        <5>2. results'[i] = results[i] BY <3>4, <5>1
        <5>3. results[i].challenge_id = i /\ OwnedBy(results[i], i)
          BY <1>2, <5>1 DEF LogMatches, OwnedBy
        <5> QED BY <5>2, <5>3
      <4> QED BY <4>1, <4>2
    <3> QED BY <3>1, <3>2, <3>4, <3>6
  <2>2. CASE NewChallenge
    <3>1. /\ bpc = "next" /\ bpc' = "lock" /\ current'.id = current.id + 1
          /\ UNCHANGED <<clients, todo, snapshot, results>>
      BY <2>2 DEF NewChallenge, SentInv
    <3>2. LogMatches' BY <3>1 DEF LogMatches
    <3> QED BY <3>1, <3>2
  <2>3. CASE Snapshot
    <3>1. /\ bpc = "sleep" /\ bpc' = "log"
          /\ snapshot' = [latencies |-> current.latencies,
                          answers |-> current.answers]
          /\ UNCHANGED <<clients, todo, current, results>>
      BY <2>3 DEF Snapshot
    <3>2. snapshot' \in [latencies : Latencies, answers : Answers] BY <3>1 DEF SentInv
    <3>3. LogMatches' BY <3>1 DEF LogMatches
    <3> QED BY <3>1, <3>2, <3>3
  <2>4. CASE StartBroadcast \/ EndBroadcast
    <3>1. /\ bpc # "next" /\ bpc' \in {"send", "sleep"} /\ todo' \in {clients, todo}
          /\ UNCHANGED <<clients, snapshot, current, results>>
      BY <2>4 DEF StartBroadcast, EndBroadcast
    <3>2. LogMatches' BY <3>1 DEF LogMatches
    <3> QED BY <3>1, <3>2
  <2>5. CASE Send
    <3>1. /\ todo # <<>> /\ todo' = Tail(todo)
          /\ UNCHANGED <<clients, bpc, snapshot, current, results>>
      BY <2>5 DEF Send, Rest
    <3>2. todo' \in Seq(Fds) BY <3>1, HeadTailProperties
    <3>3. LogMatches' BY <3>1 DEF LogMatches
    <3> QED BY <3>1, <3>2, <3>3
  <2>6. CASE PushClient
    <3>1. /\ clients' = Append(clients, fd[accepted]) /\ fd[accepted] \in Fds
          /\ UNCHANGED <<todo, bpc, snapshot, current, results>>
      BY <2>6 DEF PushClient, DescriptorsInv
    <3>2. clients' \in Seq(Fds) BY <3>1, AppendProperties
    <3>3. LogMatches' BY <3>1 DEF LogMatches
    <3> QED BY <3>1, <3>2, <3>3
  <2>7. ASSUME NEW c \in Conns, Record(c) PROVE CountedInv'
    <3>1. UNCHANGED <<clients, todo, bpc, snapshot, results>>
      BY <2>7 DEF Record
    <3>2. current'.id = current.id BY <2>7, RecordStep
    <3>3. LogMatches' BY <3>1 DEF LogMatches
    <3> QED BY <3>1, <3>2, <3>3
  <2>8. ASSUME NEW c \in Conns,
               \/ Client(c) \/ Accept(c)
               \/ RecvName(c) \/ RecvAnswer(c) \/ HandlerEnds(c)
        PROVE  CountedInv'
    <3>1. UNCHANGED <<clients, todo, bpc, snapshot, current, results>>
      BY <2>8 DEF Client, ClientReads, ClientLeaves, Accept, RecvName, RecvAnswer,
         HandlerEnds
    <3> QED BY <3>1 DEF LogMatches
  <2>9. CASE SendKills \/ UNCHANGED vars
    <3>1. UNCHANGED <<clients, todo, bpc, snapshot, current, results>>
      BY <2>9 DEF SendKills, vars
    <3> QED BY <3>1 DEF LogMatches
  <2> QED BY <2>1, <2>2, <2>3, <2>4, <2>5, <2>6, <2>7, <2>8, <2>9
          DEF Next, Handler, Broadcaster
<1> QED BY <1>1, <1>2, Sent, Descriptors, Owned, PTL DEF Spec

-----------------------------------------------------------------------------
(* What is sent.                                                           *)

\* A descriptor's owner was given it and has not left it to another; and nothing
\* has been sent to who has not connected.
OwnersInv ==
  /\ \A c \in Conns, f \in Fds : owner[f] = c => fd[c] = f /\ peer[c] # "new"
  /\ \A c \in Conns : peer[c] = "new" => delivered[c] = <<>>

LEMMA Owners == Spec => []OwnersInv
<1>1. Init => OwnersInv BY ConstantsAssumption DEF Init, OwnersInv, Nobody
<1>2. ASSUME DescriptorsInv, SentInv, OwnersInv, [Next]_vars PROVE OwnersInv'
  <2>0. /\ peer \in [Conns -> {"new", "open", "gone"}]
        /\ fd \in [Conns -> Fds \cup {0}]
        /\ owner \in [Fds -> Conns \cup {Nobody}]
        /\ delivered \in [Conns -> Seq(0 .. current.id)]
    BY <1>2 DEF DescriptorsInv, SentInv
  <2>1. ASSUME NEW c \in Conns, Accept(c) PROVE OwnersInv'
    <3>1. PICK f \in Fds :
            /\ owner[f] = Nobody
            /\ fd' = [fd EXCEPT ![c] = f]
            /\ owner' = [owner EXCEPT ![f] = c]
      BY <2>1 DEF Accept
    <3>2. peer[c] = "new" /\ peer' = [peer EXCEPT ![c] = "open"] /\ delivered' = delivered
      BY <2>1 DEF Accept
    <3> QED BY <1>2, <2>0, <3>1, <3>2 DEF OwnersInv
  <2>2. ASSUME NEW c \in Conns, HandlerEnds(c) PROVE OwnersInv'
    <3>1. /\ owner' = [owner EXCEPT ![fd[c]] = Nobody]
          /\ UNCHANGED <<fd, peer, delivered>>
      BY <2>2 DEF HandlerEnds, netVars
    <3>2. \A d \in Conns, f \in Fds : owner'[f] = d => owner[f] = d
      BY <2>0, <3>1, ConstantsAssumption DEF Nobody
    <3> QED BY <1>2, <3>1, <3>2 DEF OwnersInv
  <2>3. CASE Send
    <3>1. PICK c \in {owner[Head(todo)]} :
            delivered' = IF Open(c)
                         THEN [delivered EXCEPT ![c] = Append(@, current.id)]
                         ELSE delivered
      BY <2>3 DEF Send
    <3>2. UNCHANGED <<owner, fd, peer>> BY <2>3 DEF Send, fdVars
    <3>3. \A d \in Conns : peer[d] = "new" => delivered'[d] = delivered[d]
      BY <2>0, <3>1 DEF Open
    <3> QED BY <1>2, <3>2, <3>3 DEF OwnersInv
  <2>4. ASSUME NEW c \in Conns, ClientLeaves(c) PROVE OwnersInv'
    BY <1>2, <2>0, <2>4 DEF ClientLeaves, fdVars, OwnersInv
  <2>5. ASSUME \/ \E c \in Conns : ClientReads(c) \/ RecvName(c) \/ RecvAnswer(c)
               \/ PushClient \/ NewChallenge \/ StartBroadcast \/ SendKills
               \/ EndBroadcast \/ Snapshot \/ Log \/ UNCHANGED vars
        PROVE  UNCHANGED <<owner, fd, peer, delivered>>
    BY <2>5 DEF ClientReads, RecvName, RecvAnswer, PushClient, NewChallenge, StartBroadcast,
       SendKills, EndBroadcast, Snapshot, Log, vars, netVars, fdVars
  <2>6. ASSUME NEW c \in Conns, Record(c)
        PROVE  UNCHANGED <<owner, fd, peer, delivered>>
    BY <2>6, Zenon DEF Record, netVars, fdVars
  <2>7. UNCHANGED <<owner, fd, peer, delivered>> => OwnersInv'
    BY <1>2, Zenon DEF OwnersInv
  <2> QED BY <1>2, <2>1, <2>2, <2>3, <2>4, <2>5, <2>6, <2>7
          DEF Next, Client, Handler, Broadcaster
<1> QED BY <1>1, <1>2, Descriptors, Sent, PTL DEF Spec

\* The positions of id in what was sent to c; the entries of clients with its
\* descriptor that the broadcast has passed.
Sends(c, id) == {i \in 1 .. Len(delivered[c]) : delivered[c][i] = id}
Past(c) == {i \in Entries(c) : i <= Len(clients) - Len(todo)}

\* While a challenge is sent, it has been sent to c no more often than there are
\* such entries; before, it has not been sent to anyone.
SendsInv ==
  \A c \in Conns :
    /\ \A i, j \in 1 .. Len(delivered[c]) :
         i < j => delivered[c][i] <= delivered[c][j]
    /\ \A id \in Nat : Cardinality(Sends(c, id)) <= Cardinality(Entries(c))
    /\ bpc = "lock" => \A i \in 1 .. Len(delivered[c]) : delivered[c][i] < current.id
    /\ bpc = "send" => Cardinality(Sends(c, current.id)) <= Cardinality(Past(c))

\* What is still to be sent to is the end of clients.
TodoInv ==
  bpc = "send" =>
    /\ Len(todo) <= Len(clients)
    /\ \A k \in 1 .. Len(todo) : todo[k] = clients[Len(clients) - Len(todo) + k]

LEMMA Positions ==
  ASSUME NEW n \in Nat, NEW T \in SUBSET (1 .. n)
  PROVE  IsFiniteSet(T) /\ Cardinality(T) \in Nat
<1>1. IsFiniteSet(1 .. n) BY FS_Interval
<1> QED BY <1>1, FS_Subset, FS_CardinalityType

\* One more of them.
LEMMA OneMore ==
  ASSUME NEW n \in Nat, NEW T \in SUBSET (1 .. n)
  PROVE  Cardinality(T \cup {n + 1}) = Cardinality(T) + 1
<1>1. IsFiniteSet(T) BY Positions
<1>2. n + 1 \notin T BY SMT
<1> QED BY <1>1, <1>2, FS_AddElement

\* The positions of an element in a sequence with one more at its end.
LEMMA PositionsAppended ==
  ASSUME NEW S, NEW s \in Seq(S), NEW x \in S, NEW y
  PROVE  LET at(t) == {i \in 1 .. Len(t) : t[i] = y} IN
         at(Append(s, x)) = IF x = y THEN at(s) \cup {Len(s) + 1} ELSE at(s)
<1>1. PICK n \in Nat : n = Len(s) BY LenProperties
<1>2. PICK t : t = Append(s, x) OBVIOUS
<1>3. /\ Len(t) = n + 1 /\ t[n + 1] = x
      /\ \A i \in 1 .. n : t[i] = s[i]
  BY <1>1, <1>2, AppendProperties
<1>4. {i \in 1 .. Len(t) : t[i] = y}
        = IF x = y THEN {i \in 1 .. n : s[i] = y} \cup {n + 1}
          ELSE {i \in 1 .. n : s[i] = y}
  BY <1>3
<1> QED BY <1>1, <1>2, <1>4

\* What is known of the numbers and the sequences.
LEMMA SendsType ==
  ASSUME DescriptorsInv, SentInv, CountedInv, NEW c \in Conns
  PROVE  /\ clients \in Seq(Fds) /\ Len(clients) \in Nat
         /\ todo \in Seq(Fds) /\ Len(todo) \in Nat
         /\ delivered[c] \in Seq(0 .. current.id) /\ Len(delivered[c]) \in Nat
         /\ current.id \in Nat
         /\ IsFiniteSet(Entries(c)) /\ Cardinality(Entries(c)) \in Nat
         /\ IsFiniteSet(Past(c)) /\ Cardinality(Past(c)) \in Nat
         /\ Cardinality(Past(c)) <= Cardinality(Entries(c))
         /\ \A id : Cardinality(Sends(c, id)) \in Nat
         /\ \A i \in 1 .. Len(delivered[c]) : delivered[c][i] \in 0 .. current.id
<1>1. clients \in Seq(Fds) /\ Len(clients) \in Nat BY LenProperties DEF CountedInv
<1>2. todo \in Seq(Fds) /\ Len(todo) \in Nat BY LenProperties DEF CountedInv
<1>3. delivered[c] \in Seq(0 .. current.id) /\ Len(delivered[c]) \in Nat
  BY LenProperties DEF SentInv
<1>4. current.id \in Nat BY ConstantsAssumption DEF SentInv, Ids
<1>5. IsFiniteSet(Entries(c)) /\ Cardinality(Entries(c)) \in Nat
  BY <1>1, Positions DEF Entries
<1>6. Past(c) \in SUBSET Entries(c) BY DEF Past
<1>7. IsFiniteSet(Past(c)) /\ Cardinality(Past(c)) <= Cardinality(Entries(c))
  BY <1>5, <1>6, FS_Subset
<1>8. Cardinality(Past(c)) \in Nat BY <1>7, FS_CardinalityType
<1>9. \A id : Cardinality(Sends(c, id)) \in Nat BY <1>3, Positions DEF Sends
<1>10. \A i \in 1 .. Len(delivered[c]) : delivered[c][i] \in 0 .. current.id
  BY <1>3, ElementOfSeq
<1> QED BY <1>1, <1>2, <1>3, <1>4, <1>5, <1>7, <1>8, <1>9, <1>10

\* What sends nothing and changes no list; a broadcast neither begins nor goes on
\* with another challenge.
LEMMA SendsKept ==
  ASSUME SendsInv, UNCHANGED <<delivered, clients, todo>>,
         \A c \in Conns : fd'[c] = fd[c] \/ delivered[c] = <<>>,
         \/ bpc' \notin {"lock", "send"}
         \/ bpc' = bpc /\ current'.id = current.id,
         DescriptorsInv, SentInv, CountedInv, DescriptorsInv', SentInv', CountedInv'
  PROVE  SendsInv'
<1> SUFFICES ASSUME NEW c \in Conns
             PROVE  /\ \A i, j \in 1 .. Len(delivered'[c]) :
                         i < j => delivered'[c][i] <= delivered'[c][j]
                    /\ \A id \in Nat : Cardinality(Sends(c, id)') <= Cardinality(Entries(c)')
                    /\ bpc' = "lock" => \A i \in 1 .. Len(delivered'[c]) :
                                          delivered'[c][i] < current'.id
                    /\ bpc' = "send" =>
                         Cardinality(Sends(c, current.id)') <= Cardinality(Past(c)')
  BY DEF SendsInv
<1>1. \A id : Sends(c, id)' = Sends(c, id) BY DEF Sends
<1>2. CASE fd'[c] = fd[c]
  <2>1. Entries(c)' = Entries(c) /\ Past(c)' = Past(c) BY <1>2 DEF Entries, Past
  <2>2. bpc' = "send" => bpc = "send" /\ Sends(c, current.id)' = Sends(c, current.id)
    BY DEF Sends
  <2> QED BY <1>1, <2>1, <2>2 DEF SendsInv
<1>3. CASE delivered[c] = <<>>
  <2>1. Len(delivered'[c]) = 0 BY <1>3
  <2>2. \A id : Sends(c, id)' = {} BY <2>1 DEF Sends
  <2>3. Sends(c, current.id)' = {} BY <2>1 DEF Sends
  <2>4. Cardinality(Entries(c)') \in Nat
    <3>1. clients' \in Seq(Fds) BY DEF CountedInv
    <3>2. Len(clients') \in Nat BY <3>1, LenProperties
    <3> QED BY <3>2, Positions DEF Entries
  <2>5. Cardinality(Past(c)') \in Nat
    <3>1. clients' \in Seq(Fds) BY DEF CountedInv
    <3>2. Len(clients') \in Nat BY <3>1, LenProperties
    <3>3. Past(c)' \in SUBSET (1 .. Len(clients')) BY DEF Past, Entries
    <3> QED BY <3>2, <3>3, Positions
  <2> QED BY <2>1, <2>2, <2>3, <2>4, <2>5, FS_EmptySet
<1> QED BY <1>2, <1>3

\* PushClient: one more entry.
LEMMA SendsPushed ==
  ASSUME DescriptorsInv, SentInv, CountedInv, SendsInv, PushClient
  PROVE  SendsInv'
<1>1. /\ bpc' = bpc /\ bpc # "send" /\ UNCHANGED <<delivered, fd, current>>
      /\ clients' = Append(clients, fd[accepted]) /\ fd[accepted] \in Fds
  BY DEF PushClient, netVars, fdVars, castVars, DescriptorsInv
<1>2. ASSUME NEW c \in Conns
      PROVE  Cardinality(Entries(c)) <= Cardinality(Entries(c)')
  <2>1. clients \in Seq(Fds) /\ Len(clients) \in Nat BY LenProperties DEF CountedInv
  <2>2. /\ Len(clients') = Len(clients) + 1
        /\ \A i \in 1 .. Len(clients) : clients'[i] = clients[i]
    BY <1>1, <2>1, AppendProperties
  <2>3. Entries(c) \in SUBSET (Entries(c)') BY <1>1, <2>1, <2>2 DEF Entries
  <2>4. PICK n \in Nat : n = Len(clients') BY <2>1, <2>2
  <2>5. IsFiniteSet(Entries(c)')
    <3>1. Entries(c)' \in SUBSET (1 .. n) BY <2>4 DEF Entries
    <3> QED BY <2>4, <3>1, Positions
  <2> QED BY <2>3, <2>5, FS_Subset
<1>3. ASSUME NEW c \in Conns
      PROVE  /\ Cardinality(Entries(c)') \in Nat
             /\ \A id \in Nat : Cardinality(Sends(c, id)') <= Cardinality(Entries(c)')
  <2>1. Len(clients) \in Nat /\ Len(clients') = Len(clients) + 1
    BY <1>1, LenProperties, AppendProperties DEF CountedInv
  <2>2. Cardinality(Entries(c)') \in Nat
    <3>1. PICK n \in Nat : n = Len(clients') BY <2>1
    <3>2. Entries(c)' \in SUBSET (1 .. n) BY <3>1 DEF Entries
    <3> QED BY <3>1, <3>2, Positions
  <2>3. \A id : Sends(c, id)' = Sends(c, id) BY <1>1 DEF Sends
  <2>4. ASSUME NEW id \in Nat
        PROVE  Cardinality(Sends(c, id)') <= Cardinality(Entries(c)')
    <3>1. /\ Cardinality(Sends(c, id)) \in Nat
          /\ Cardinality(Entries(c)) \in Nat
      BY SendsType
    <3>2. Cardinality(Sends(c, id)) <= Cardinality(Entries(c)) BY DEF SendsInv
    <3>3. Cardinality(Entries(c)) <= Cardinality(Entries(c)') BY <1>2
    <3>4. Cardinality(Sends(c, id)') = Cardinality(Sends(c, id)) BY <2>3
    <3> QED BY <2>2, <3>1, <3>2, <3>3, <3>4
  <2> QED BY <2>2, <2>4
<1> QED BY <1>1, <1>3 DEF SendsInv

\* StartBroadcast: nobody has been sent the challenge, and no entry is passed.
LEMMA SendsStarted ==
  ASSUME DescriptorsInv, SentInv, CountedInv, SendsInv, StartBroadcast
  PROVE  SendsInv' /\ TodoInv'
<1>1. /\ bpc = "lock" /\ bpc' = "send" /\ todo' = clients
      /\ UNCHANGED <<delivered, fd, clients, current>>
  BY DEF StartBroadcast, netVars, fdVars, mainVars
<1>2. Len(clients) \in Nat BY LenProperties DEF CountedInv
<1>3. TodoInv' BY <1>1, <1>2 DEF TodoInv
<1>4. ASSUME NEW c \in Conns
      PROVE  Cardinality(Sends(c, current.id)') <= Cardinality(Past(c)')
  <2>1. Sends(c, current.id)' = {}
    <3>1. Sends(c, current.id)' = Sends(c, current.id) BY <1>1 DEF Sends
    <3>2. \A i \in 1 .. Len(delivered[c]) : delivered[c][i] # current.id
      <4>1. \A i \in 1 .. Len(delivered[c]) :
              delivered[c][i] \in Int /\ delivered[c][i] < current.id
        <5>1. \A i \in 1 .. Len(delivered[c]) : delivered[c][i] < current.id
          BY <1>1 DEF SendsInv
        <5>2. \A i \in 1 .. Len(delivered[c]) : delivered[c][i] \in Int BY SendsType
        <5> QED BY <5>1, <5>2
      <4>2. current.id \in Int BY SendsType
      <4> QED BY <4>1, <4>2
    <3> QED BY <3>1, <3>2 DEF Sends
  <2>2. Past(c)' = {} BY <1>1, <1>2 DEF Past, Entries
  <2> QED BY <2>1, <2>2, FS_EmptySet
<1>5. ASSUME NEW c \in Conns
      PROVE  /\ \A id \in Nat : Cardinality(Sends(c, id)') <= Cardinality(Entries(c)')
  <2>1. \A id : Sends(c, id)' = Sends(c, id) BY <1>1 DEF Sends
  <2>2. Entries(c)' = Entries(c) BY <1>1 DEF Entries
  <2> QED BY <2>1, <2>2 DEF SendsInv
<1> QED BY <1>1, <1>3, <1>4, <1>5 DEF SendsInv

\* Send: an entry is passed; if what is sent arrives, it is where that entry leads.
LEMMA SendsSent ==
  ASSUME DescriptorsInv, SentInv, CountedInv, OwnersInv, TodoInv, SendsInv, Send
  PROVE  SendsInv' /\ TodoInv'
<1>1. PICK o \in {owner[Head(todo)]} :
        /\ bpc = "send" /\ bpc' = "send" /\ todo # <<>> /\ todo' = Tail(todo)
        /\ delivered' = IF Open(o)
                        THEN [delivered EXCEPT ![o] = Append(@, current.id)]
                        ELSE delivered
        /\ UNCHANGED <<fd, clients, current>>
  BY DEF Send, Rest, fdVars, mainVars
<1>2. PICK n \in Nat, m \in Nat :
        /\ Len(todo) = m + 1 /\ Len(clients) = n
        /\ Len(todo') = m
        /\ \A k \in 1 .. m : todo'[k] = todo[k + 1]
        /\ Head(todo) = todo[1]
        /\ Head(todo) \in Fds
  <2>1. todo \in Seq(Fds) /\ clients \in Seq(Fds) BY DEF CountedInv
  <2>2. Len(todo) \in Nat /\ Len(clients) \in Nat /\ Len(todo) # 0
    BY <1>1, <2>1, LenProperties, EmptySeq
  <2>3. /\ Head(todo) \in Fds /\ Head(todo) = todo[1]
        /\ Len(todo') = Len(todo) - 1
        /\ \A k \in 1 .. Len(todo') : todo'[k] = todo[k + 1]
    BY <1>1, <2>1, HeadTailProperties
  <2>4. PICK l \in Nat : l = Len(todo) - 1 BY <2>2
  <2>5. Len(todo) = l + 1 /\ Len(todo') = l BY <2>2, <2>3, <2>4
  <2>6. \A k \in 1 .. l : todo'[k] = todo[k + 1] BY <2>3, <2>5
  <2> WITNESS Len(clients) \in Nat, l \in Nat
  <2> QED BY <2>3, <2>5, <2>6, Zenon
<1>3. m + 1 <= n /\ \A k \in 1 .. m + 1 : todo[k] = clients[n - (m + 1) + k]
  BY <1>1, <1>2 DEF TodoInv
<1>4. Head(todo) = clients[n - m]
  BY <1>2, <1>3
<1>5. TodoInv'
  <2>1. \A k \in 1 .. m : todo'[k] = clients[n - m + k]
    <3> SUFFICES ASSUME NEW k \in 1 .. m PROVE todo'[k] = clients[n - m + k] OBVIOUS
    <3>1. k + 1 \in 1 .. m + 1 /\ n - (m + 1) + (k + 1) = n - m + k OBVIOUS
    <3>2. todo'[k] = todo[k + 1] BY <1>2
    <3>3. todo[k + 1] = clients[n - (m + 1) + (k + 1)] BY <1>3, <3>1
    <3> QED BY <3>1, <3>2, <3>3
  <2>2. Len(clients') = n /\ clients' = clients BY <1>1, <1>2
  <2>3. m <= n BY <1>3
  <2> QED BY <1>2, <2>1, <2>2, <2>3 DEF TodoInv
<1>6. ASSUME NEW c \in Conns
      PROVE  /\ \A i, j \in 1 .. Len(delivered'[c]) :
                  i < j => delivered'[c][i] <= delivered'[c][j]
             /\ \A id \in Nat : Cardinality(Sends(c, id)') <= Cardinality(Entries(c)')
             /\ Cardinality(Sends(c, current.id)') <= Cardinality(Past(c)')
  <2>0. Entries(c)' = Entries(c) /\ Entries(c) \in SUBSET (1 .. n)
    BY <1>1, <1>2 DEF Entries
  <2>1. /\ Past(c) = {i \in Entries(c) : i <= n - (m + 1)}
        /\ Past(c)' = {i \in Entries(c) : i <= n - m}
    BY <1>1, <1>2, <2>0 DEF Past
  <2>2. /\ Cardinality(Past(c)') \in Nat
        /\ Cardinality(Past(c)') <= Cardinality(Entries(c))
    <3>1. Past(c)' \in SUBSET Entries(c) BY <2>1
    <3>2. IsFiniteSet(Entries(c)) BY SendsType
    <3> QED BY <3>1, <3>2, FS_Subset, FS_CardinalityType
  <2>3. Cardinality(Past(c)) <= Cardinality(Past(c)')
    <3>1. Past(c) \in SUBSET (Past(c)') BY <1>3, <2>0, <2>1
    <3>2. Past(c)' \in SUBSET (1 .. n) BY <2>0, <2>1
    <3> QED BY <3>1, <3>2, Positions, FS_Subset
  <2>4. /\ Cardinality(Sends(c, current.id)) <= Cardinality(Past(c))
        /\ \A id \in Nat : Cardinality(Sends(c, id)) <= Cardinality(Entries(c))
    BY <1>1 DEF SendsInv
  <2>5. Cardinality(Sends(c, current.id)) \in Nat /\ Cardinality(Past(c)) \in Nat
    BY SendsType
  <2>6. CASE Open(o) /\ c = o
    <3>1. /\ delivered'[c] = Append(delivered[c], current.id)
          /\ delivered[c] \in Seq(0 .. current.id) /\ current.id \in 0 .. current.id
      <4>1. delivered \in [Conns -> Seq(0 .. current.id)] BY DEF SentInv
      <4>2. delivered' = [delivered EXCEPT ![c] = Append(@, current.id)] BY <1>1, <2>6
      <4>3. delivered'[c] = Append(delivered[c], current.id) BY <4>1, <4>2
      <4>4. delivered[c] \in Seq(0 .. current.id) BY <4>1
      <4>5. current.id \in Nat BY SendsType
      <4>6. current.id \in 0 .. current.id BY <4>5
      <4> QED BY <4>3, <4>4, <4>6
    <3>2. fd[c] = Head(todo) BY <1>1, <1>2, <2>6 DEF OwnersInv
    <3>3. Past(c)' = Past(c) \cup {(n - (m + 1)) + 1}
      <4>1. n - m \in Entries(c) BY <1>2, <1>3, <1>4, <3>2 DEF Entries
      <4> QED BY <1>3, <2>0, <2>1, <4>1
    <3>4. Cardinality(Past(c)') = Cardinality(Past(c)) + 1
      <4>1. Past(c) \in SUBSET (1 .. n - (m + 1)) BY <2>0, <2>1
      <4>2. n - (m + 1) \in Nat BY <1>3
      <4> QED BY <3>3, <4>1, <4>2, OneMore
    <3>5. \A id : Sends(c, id)' = IF current.id = id
                                  THEN Sends(c, id) \cup {Len(delivered[c]) + 1}
                                  ELSE Sends(c, id)
      BY <3>1, PositionsAppended DEF Sends
    <3>6. Cardinality(Sends(c, current.id)') = Cardinality(Sends(c, current.id)) + 1
      <4>1. Sends(c, current.id) \in SUBSET (1 .. Len(delivered[c])) BY DEF Sends
      <4>2. Len(delivered[c]) \in Nat BY SendsType
      <4>3. Sends(c, current.id)' = Sends(c, current.id) \cup {Len(delivered[c]) + 1}
        <5>1. Sends(c, current.id)' = {i \in 1 .. Len(delivered'[c]) :
                                         delivered'[c][i] = current.id}
          BY <1>1 DEF Sends
        <5> QED BY <3>1, <5>1, PositionsAppended DEF Sends
      <4> QED BY <4>1, <4>2, <4>3, OneMore
    <3>7. Cardinality(Sends(c, current.id)') <= Cardinality(Past(c)')
      BY <2>4, <2>5, <3>4, <3>6
    <3>8. ASSUME NEW id \in Nat
          PROVE  Cardinality(Sends(c, id)') <= Cardinality(Entries(c)')
      <4>1. CASE id = current.id
        <5>1. Sends(c, id)' = Sends(c, current.id)' BY <1>1, <4>1 DEF Sends
        <5>2. Cardinality(Entries(c)) \in Nat BY SendsType
        <5> QED BY <2>0, <2>2, <2>4, <2>5, <3>4, <3>6, <5>1, <5>2
      <4>2. CASE id # current.id BY <2>0, <2>4, <3>5, <4>2
      <4> QED BY <4>1, <4>2
    <3>9. ASSUME NEW i \in 1 .. Len(delivered'[c]), NEW j \in 1 .. Len(delivered'[c]), i < j
          PROVE  delivered'[c][i] <= delivered'[c][j]
      <4>1. PICK len \in Nat : len = Len(delivered[c]) BY SendsType
      <4>2. /\ Len(delivered'[c]) = len + 1 /\ delivered'[c][len + 1] = current.id
            /\ \A k \in 1 .. len : delivered'[c][k] = delivered[c][k]
        BY <3>1, <4>1, AppendProperties
      <4>3. \A k \in 1 .. len : delivered[c][k] \in 0 .. current.id
        BY <4>1, SendsType
      <4>4. i \in 1 .. len /\ (j \in 1 .. len \/ j = len + 1) BY <3>9, <4>2
      <4>5. CASE j \in 1 .. len BY <3>9, <4>1, <4>2, <4>4, <4>5 DEF SendsInv
      <4>6. CASE j = len + 1 BY <4>2, <4>3, <4>4, <4>6
      <4> QED BY <4>4, <4>5, <4>6
    <3> QED BY <3>7, <3>8, <3>9
  <2>7. CASE ~(Open(o) /\ c = o)
    <3>1. delivered'[c] = delivered[c] BY <1>1, <2>7 DEF SentInv, Open
    <3>2. \A id : Sends(c, id)' = Sends(c, id) BY <3>1 DEF Sends
    <3>3. Sends(c, current.id)' = Sends(c, current.id) BY <1>1, <3>1 DEF Sends
    <3>4. Cardinality(Sends(c, current.id)') <= Cardinality(Past(c)')
      BY <2>2, <2>3, <2>4, <2>5, <3>3
    <3> QED BY <2>0, <2>4, <3>1, <3>2, <3>4 DEF SendsInv
  <2> QED BY <2>6, <2>7
<1>7. SendsInv' BY <1>1, <1>6 DEF SendsInv
<1> QED BY <1>5, <1>7

\* Each challenge is sent to a client at most once for every entry of clients that
\* holds its descriptor, whoever comes and goes.
LEMMA Broadcasts == Spec => [](SendsInv /\ TodoInv)
<1>1. Init => SendsInv /\ TodoInv
  <2> SUFFICES ASSUME Init PROVE SendsInv /\ TodoInv OBVIOUS
  <2>1. bpc = "next" /\ \A c \in Conns : Len(delivered[c]) = 0 BY DEF Init
  <2>2. \A c \in Conns, id \in Nat : Cardinality(Sends(c, id)) = 0
    <3>1. \A c \in Conns, id \in Nat : Sends(c, id) = {} BY <2>1 DEF Sends
    <3> QED BY <3>1, FS_EmptySet
  <2>3. \A c \in Conns : Cardinality(Entries(c)) = 0
    <3>1. Len(clients) = 0 BY DEF Init
    <3> QED BY <3>1, FS_EmptySet DEF Entries
  <2> QED BY <2>1, <2>2, <2>3 DEF SendsInv, TodoInv
<1>2. ASSUME DescriptorsInv, SentInv, CountedInv, OwnersInv, SendsInv, TodoInv, [Next]_vars,
             DescriptorsInv', SentInv', CountedInv'
      PROVE  SendsInv' /\ TodoInv'
  <2>1. ASSUME UNCHANGED <<clients, todo>>, bpc' = bpc \/ bpc' # "send"
        PROVE  TodoInv'
    BY <1>2, <2>1 DEF TodoInv
  <2>2. CASE PushClient
    <3>1. bpc' = bpc /\ bpc # "send" BY <2>2 DEF PushClient, castVars
    <3> QED BY <1>2, <2>2, <3>1, SendsPushed DEF TodoInv
  <2>3. CASE NewChallenge
    <3>1. /\ bpc' = "lock" /\ current'.id = current.id + 1
          /\ UNCHANGED <<delivered, fd, clients, todo>>
      BY <1>2, <2>3 DEF NewChallenge, SentInv, netVars, fdVars, mainVars
    <3>2. ASSUME NEW c \in Conns, NEW i \in 1 .. Len(delivered'[c])
          PROVE  delivered'[c][i] < current'.id
      <4>1. delivered[c][i] \in 0 .. current.id /\ current.id \in Nat
        BY <1>2, <3>1, <3>2, SendsType
      <4> QED BY <3>1, <4>1
    <3>3. ASSUME NEW c \in Conns
          PROVE  /\ Entries(c)' = Entries(c)
                 /\ \A id : Sends(c, id)' = Sends(c, id)
      BY <3>1 DEF Entries, Sends
    <3>4. SendsInv' BY <1>2, <3>1, <3>2, <3>3 DEF SendsInv
    <3> QED BY <2>1, <3>1, <3>4
  <2>4. CASE StartBroadcast BY <1>2, <2>4, SendsStarted
  <2>5. CASE Send BY <1>2, <2>5, SendsSent
  <2>6. ASSUME UNCHANGED <<delivered, clients, todo>>,
               \A c \in Conns : fd'[c] = fd[c] \/ delivered[c] = <<>>,
               \/ bpc' \notin {"lock", "send"}
               \/ bpc' = bpc /\ current'.id = current.id
        PROVE  SendsInv' /\ TodoInv'
    BY <1>2, <2>1, <2>6, SendsKept, Zenon
  <2>7. CASE EndBroadcast \/ Snapshot \/ Log
    <3>1. UNCHANGED <<delivered, clients, todo, fd>> /\ bpc' \notin {"lock", "send"}
      BY <2>7 DEF EndBroadcast, Snapshot, Log, netVars, fdVars, mainVars
    <3> QED BY <2>6, <3>1, Zenon
  <2>8. ASSUME NEW c \in Conns, Accept(c) PROVE SendsInv' /\ TodoInv'
    <3>1. /\ UNCHANGED <<delivered, clients, todo, bpc, current>>
          /\ peer[c] = "new" /\ \E f \in Fds : fd' = [fd EXCEPT ![c] = f]
      BY <2>8 DEF Accept, castVars
    <3>2. delivered[c] = <<>> BY <1>2, <3>1 DEF OwnersInv
    <3>3. \A d \in Conns : fd'[d] = fd[d] \/ delivered[d] = <<>>
      BY <1>2, <3>1, <3>2 DEF DescriptorsInv
    <3> QED BY <2>6, <3>1, <3>3
  <2>9. ASSUME NEW c \in Conns, Record(c) PROVE SendsInv' /\ TodoInv'
    <3>1. UNCHANGED <<delivered, clients, todo, bpc, fd>>
      BY <2>9, Zenon DEF Record, netVars, fdVars, mainVars, castVars
    <3>2. current'.id = current.id BY <1>2, <2>9, RecordStep
    <3> QED BY <2>6, <3>1, <3>2, Zenon
  <2>10. CASE \/ SendKills \/ UNCHANGED vars
              \/ \E c \in Conns : Client(c) \/ RecvName(c) \/ RecvAnswer(c) \/ HandlerEnds(c)
    <3>1. UNCHANGED <<delivered, clients, todo, bpc, fd, current>>
      BY <2>10 DEF Client, ClientReads, ClientLeaves, RecvName, RecvAnswer, HandlerEnds,
         SendKills, vars, netVars, fdVars, mainVars, castVars
    <3> QED BY <2>6, <3>1, Zenon
  <2> QED BY <1>2, <2>2, <2>3, <2>4, <2>5, <2>7, <2>8, <2>9, <2>10, Zenon
          DEF Next, Handler, Broadcaster
<1> QED BY <1>1, <1>2, Descriptors, Sent, Counted, Owners, PTL DEF Spec

\* A client is sent the challenges in order, and each at most once for every entry
\* of clients that holds its descriptor, for any connections: what send() does to a
\* descriptor that is not its first owner's any more included.
THEOREM SentOnce == Spec => []SentAsListed
<1>1. ASSUME SendsInv PROVE SentAsListed
  <2>1. Ids \subseteq Nat BY ConstantsAssumption DEF Ids
  <2> QED BY <1>1, <2>1 DEF SendsInv, SentAsListed, Sends
<1> QED BY <1>1, Broadcasts, PTL

LEMMA KilledType == Spec => [](killed \in BOOLEAN)
<1>1. Init => killed \in BOOLEAN BY DEF Init
<1>2. ASSUME killed \in BOOLEAN, [Next]_vars PROVE (killed \in BOOLEAN)'
  <2>1. UNCHANGED killed \/ killed' = TRUE
    <3>1. ASSUME NEW c \in Conns, Record(c) PROVE UNCHANGED killed
      BY <3>1, Zenon DEF Record
    <3> QED BY <1>2, <3>1
            DEF Next, Client, ClientReads, ClientLeaves, Accept, PushClient,
                Handler, RecvName, RecvAnswer, HandlerEnds, Broadcaster,
                NewChallenge, StartBroadcast, Send, SendKills, EndBroadcast,
                Snapshot, Log, vars
  <2> QED BY <1>2, <2>1, Zenon
<1> QED BY <1>1, <1>2, PTL DEF Spec

\* No handler reads or closes a descriptor that is another client's, and every
\* variable keeps its type, for any connections and any number of challenges.
THEOREM ServerInvariant == Spec => []ServerInv
<1>1. ASSUME DescriptorsInv, SentInv, CountedInv, killed \in BOOLEAN
      PROVE  ServerInv
  <2>1. current.id \in Nat /\ current.id <= MaxChallenges
    BY <1>1, ConstantsAssumption DEF SentInv, Ids
  <2>2. 0 .. current.id \subseteq Ids BY <2>1, ConstantsAssumption DEF Ids
  <2>3. /\ delivered \in [Conns -> Seq(Ids)]
        /\ arriving \in [Conns -> Seq(Tokens)]
    <3>1. Heard(current.id) \subseteq Tokens BY <2>2 DEF Heard, Tokens
    <3> QED BY <1>1, <2>2, <3>1, More DEF SentInv
  <2>4. /\ parsed \in [Conns -> [cid : Ids \cup Numbers \cup {-1}, of : Ids,
                              explicit : BOOLEAN]]
        /\ now \in [Conns -> Ids]
    BY <1>1, <2>2 DEF SentInv, Understood
  <2>5. challengeId \in Nat BY <1>1, <2>1 DEF SentInv
  <2>6. TypeOK
    BY <1>1, <2>3, <2>4, <2>5, Zenon
       DEF TypeOK, DescriptorsInv, SentInv, CountedInv
  <2> QED BY <1>1, <2>6 DEF ServerInv, DescriptorsInv
<1> QED BY <1>1, Descriptors, Sent, Counted, KilledType, PTL

\* Each entry of the log is that of its own challenge, in order, and so are the
\* answers in it that came with their id, though handlers take the time outside
\* challengeMutex and the broadcaster logs outside it; the others are to it or
\* to one before it, and timed between the two.
THEOREM LogIsRight == Spec => []LogMatches
<1>1. CountedInv => LogMatches BY DEF CountedInv
<1> QED BY <1>1, Counted, PTL

-----------------------------------------------------------------------------
(* Remainders.                                                             *)

\* Division with a remainder.
LEMMA DivMod ==
  ASSUME NEW k \in Nat \ {0}, NEW a \in Int
  PROVE  /\ a \div k \in Int
         /\ a % k \in 0 .. k - 1
         /\ a = k * (a \div k) + (a % k)
<1>1. a % k \in 0 .. k - 1 OBVIOUS
<1>2. a = k * (a \div k) + (a % k) OBVIOUS
<1> QED BY <1>1, <1>2

\* A number k * q + r with r below k has remainder r and quotient q.
LEMMA Remainder ==
  ASSUME NEW k \in Nat \ {0}, NEW q \in Int, NEW r \in 0 .. k - 1
  PROVE  (k * q + r) % k = r /\ (k * q + r) \div k = q
<1> DEFINE a == k * q + r
           d == a \div k
           e == a % k
<1>1. d \in Int /\ e \in 0 .. k - 1 /\ k * q + r = k * d + e
  <2>1. a \in Int OBVIOUS
  <2> HIDE DEF a
  <2>2. d \in Int /\ e \in 0 .. k - 1 /\ a = k * d + e BY <2>1, DivMod
  <2> QED BY <2>2 DEF a
<1> SUFFICES r = e /\ q = d OBVIOUS
<1> HIDE DEF d, e
<1>2. k * (q - d) = e - r BY <1>1
<1>3. CASE q - d >= 1
  <2>1. k * (q - d) >= k BY <1>3, <1>1
  <2> QED BY <2>1, <1>2, <1>1
<1>4. CASE q - d <= -1
  <2>1. k * (q - d) <= -k BY <1>4, <1>1
  <2> QED BY <2>1, <1>2, <1>1
<1>5. CASE q = d BY <1>5, <1>1
<1> QED BY <1>3, <1>4, <1>5, <1>1

\* A remainder taken early does not change the remainder of a sum.
LEMMA ModOfSum ==
  ASSUME NEW k \in Nat \ {0}, NEW a \in Int, NEW b \in Int
  PROVE  ((a % k) + b) % k = (a + b) % k
<1> DEFINE q == a \div k
           c == (a % k) + b
           p == c \div k
           s == c % k
<1>1. q \in Int /\ a % k \in 0 .. k - 1 /\ a = k * q + (a % k) BY DivMod
<1>2. c \in Int BY <1>1
<1>3. p \in Int /\ s \in 0 .. k - 1 /\ c = k * p + s
  <2> HIDE DEF c
  <2> QED BY <1>2, DivMod
<1> DEFINE u == q + p
<1> HIDE DEF q, p, s
<1>4. u \in Int /\ k * u + s = a + b BY <1>1, <1>3
<1> HIDE DEF u
<1>5. (k * u + s) % k = s BY <1>3, <1>4, Remainder
<1> QED BY <1>4, <1>5 DEF s

\* What is below k is its own remainder, with k added or not.
LEMMA SmallMod ==
  ASSUME NEW k \in Nat \ {0}, NEW a \in 0 .. k - 1
  PROVE  a % k = a /\ (a + k) % k = a
<1>1. (k * 0 + a) % k = a /\ (k * 1 + a) % k = a BY Remainder
<1>2. k * 0 + a = a /\ k * 1 + a = a + k OBVIOUS
<1> QED BY <1>1, <1>2

\* A remainder is its own remainder.
LEMMA ModOfMod ==
  ASSUME NEW k \in Nat \ {0}, NEW a \in Int
  PROVE  (a % k) % k = a % k
<1>1. a % k \in 0 .. k - 1 BY DivMod
<1> QED BY <1>1, SmallMod

-----------------------------------------------------------------------------
(* Folds.                                                                  *)

\* Induction over the subsets of a finite set.
LEMMA SubsetInduction ==
  ASSUME NEW S, IsFiniteSet(S), NEW Q \in SUBSET (SUBSET S),
         \A T \in SUBSET S : (\A U \in SUBSET T : U # T => U \in Q) => T \in Q
  PROVE  Q = SUBSET S
<1> DEFINE Bad == (SUBSET S) \ Q
<1> SUFFICES ASSUME Bad # {} PROVE FALSE OBVIOUS
<1>1. PICK T \in Bad : \A U \in Bad : ~(<<U, T>> \in StrictSubsetOrdering(S))
  <2>1. IsWellFoundedOn(StrictSubsetOrdering(S), FiniteSubsetsOf(S))
    BY FS_StrictSubsetOrderingWellFounded
  <2>2. Bad \subseteq FiniteSubsetsOf(S) BY FS_Subset DEF FiniteSubsetsOf
  <2> HIDE DEF Bad
  <2> QED BY <2>1, <2>2, WFMin
<1>2. \A U \in SUBSET T : U # T => U \in Q
  BY <1>1 DEF StrictSubsetOrdering
<1> QED BY <1>1, <1>2

Pick(T) == CHOOSE x \in T : TRUE

\* h adds up g over every subset of S: the loop of a fold.
IsFold(h, g, S) ==
  h = [T \in SUBSET S |-> IF T = {} THEN 0 ELSE g[<<Pick(T), h[T \ {Pick(T)}]>>]]

LEMMA PickIn == ASSUME NEW T, T # {} PROVE Pick(T) \in T
BY DEF Pick

\* The loop over no element.
LEMMA FoldEmpty ==
  ASSUME NEW h, NEW g, NEW S, IsFold(h, g, S)
  PROVE  h[{}] = 0
<1> DEFINE r == [T \in SUBSET S |-> IF T = {} THEN 0 ELSE g[<<Pick(T), h[T \ {Pick(T)}]>>]]
<1>1. h = r BY Zenon DEF IsFold
<1>2. r[{}] = 0 OBVIOUS
<1> HIDE DEF r
<1> QED BY <1>1, <1>2

\* One more turn of it.
LEMMA FoldLoop ==
  ASSUME NEW h, NEW g, NEW S, IsFold(h, g, S), NEW T \in SUBSET S, T # {}
  PROVE  h[T] = g[<<Pick(T), h[T \ {Pick(T)}]>>]
<1> DEFINE r == [U \in SUBSET S |-> IF U = {} THEN 0 ELSE g[<<Pick(U), h[U \ {Pick(U)}]>>]]
<1>1. h = r BY Zenon DEF IsFold
<1>2. r[T] = g[<<Pick(T), h[T \ {Pick(T)}]>>] OBVIOUS
<1> HIDE DEF r
<1> QED BY <1>1, <1>2

\* g takes an element and the sum of those before it.
Foldable(D, g, S) == g \in [D \X Int -> Int] /\ S \in SUBSET D /\ IsFiniteSet(S)

LEMMA FoldableParts ==
  ASSUME NEW D, NEW g, NEW S, Foldable(D, g, S), NEW R, R \subseteq S
  PROVE  Foldable(D, g, R)
BY FS_Subset DEF Foldable

\* The loop over a set and over a part of it agree on that part.
LEMMA FoldsAgree ==
  ASSUME NEW D, NEW g, NEW S, Foldable(D, g, S), NEW h, IsFold(h, g, S),
         NEW R, R \subseteq S, NEW i, IsFold(i, g, R), NEW P, P \subseteq R
  PROVE  i[P] = h[P] /\ h[P] \in Int
<1> DEFINE Q == {T \in SUBSET R : i[T] = h[T] /\ h[T] \in Int}
<1>1. IsFiniteSet(R) /\ R \subseteq D BY FS_Subset DEF Foldable
<1>2. ASSUME NEW T \in SUBSET R, \A U \in SUBSET T : U # T => U \in Q PROVE T \in Q
  <2>1. CASE T = {} BY <2>1, FoldEmpty
  <2>2. CASE T # {}
    <3> DEFINE x == Pick(T)
               U == T \ {x}
    <3>1. x \in T /\ x \in D BY <1>1, <2>2, PickIn
    <3>2. U \in SUBSET T /\ U # T BY <3>1
    <3>3. i[U] = h[U] /\ h[U] \in Int BY <1>2, <3>2
    <3>4. i[T] = g[<<x, i[U]>>] /\ h[T] = g[<<x, h[U]>>]
      <4>1. T \in SUBSET S OBVIOUS
      <4> QED BY <2>2, <4>1, FoldLoop
    <3>5. g[<<x, h[U]>>] \in Int BY <3>1, <3>3 DEF Foldable
    <3> QED BY <3>3, <3>4, <3>5
  <2> QED BY <2>1, <2>2
<1> HIDE DEF Q
<1>3. Q = SUBSET R
  <2>1. Q \in SUBSET (SUBSET R) BY DEF Q
  <2> QED BY <1>1, <1>2, <2>1, SubsetInduction
<1> QED BY <1>3 DEF Q

\* There is such a loop: it is that of all but the chosen element, and one turn.
LEMMA FoldExists ==
  ASSUME NEW D, NEW g, NEW S, Foldable(D, g, S)
  PROVE  \E h : IsFold(h, g, S)
<1> DEFINE Q == {T \in SUBSET S : \E h : IsFold(h, g, T)}
<1>1. ASSUME NEW T \in SUBSET S, \A U \in SUBSET T : U # T => U \in Q PROVE T \in Q
  <2> DEFINE of(U) == CHOOSE h : IsFold(h, g, U)
             rest(U) == U \ {Pick(U)}
             h == [U \in SUBSET T |-> IF U = {} THEN 0
                                      ELSE g[<<Pick(U), of(rest(U))[rest(U)]>>]]
  <2>1. ASSUME NEW U \in SUBSET T, U # T PROVE IsFold(of(U), g, U)
    <3>1. \E e : IsFold(e, g, U) BY <1>1, <2>1
    <3> QED BY <3>1
  <2>2. ASSUME NEW U \in SUBSET T, U # T PROVE h[U] = of(U)[U]
    <3>1. CASE U = {}
      <4> HIDE DEF of
      <4> QED BY <2>1, <2>2, <3>1, FoldEmpty DEF h
    <3>2. CASE U # {}
      <4> DEFINE x == Pick(U)
                 V == U \ {x}
      <4>1. x \in U BY <3>2, PickIn
      <4>2. V \in SUBSET T /\ V # T /\ V \subseteq U /\ V \subseteq V BY <4>1
      <4>3. IsFold(of(U), g, U) /\ IsFold(of(V), g, V) BY <2>1, <2>2, <4>2
      <4>4. of(U)[U] = g[<<x, of(U)[V]>>]
        <5> HIDE DEF of
        <5>1. U \in SUBSET U OBVIOUS
        <5> QED BY <3>2, <4>3, <5>1, FoldLoop
      <4>5. of(V)[V] = of(U)[V]
        <5> HIDE DEF of, V
        <5>1. Foldable(D, g, U)
          <6>1. U \subseteq S OBVIOUS
          <6> QED BY <6>1, FoldableParts
        <5> QED BY <4>2, <4>3, <5>1, FoldsAgree
      <4>6. h[U] = g[<<x, of(V)[V]>>] BY <3>2
      <4> QED BY <4>4, <4>5, <4>6
    <3> QED BY <3>1, <3>2
  <2>3. ASSUME NEW U \in SUBSET T
        PROVE  h[U] = IF U = {} THEN 0 ELSE g[<<Pick(U), h[rest(U)]>>]
    <3>1. CASE U = {} BY <3>1
    <3>2. CASE U # {}
      <4>1. rest(U) \in SUBSET T /\ rest(U) # T BY <3>2, PickIn
      <4>2. h[rest(U)] = of(rest(U))[rest(U)]
        <5> HIDE DEF h, of, rest
        <5> QED BY <2>2, <4>1
      <4>3. h[U] = g[<<Pick(U), of(rest(U))[rest(U)]>>] BY <3>2 DEF h
      <4> HIDE DEF h, of, rest
      <4> QED BY <3>2, <4>2, <4>3
    <3> QED BY <3>1, <3>2
  <2>4. h = [U \in SUBSET T |-> h[U]] OBVIOUS
  <2>5. IsFold(h, g, T)
    <3> HIDE DEF h
    <3> QED BY <2>3, <2>4 DEF IsFold
  <2> HIDE DEF h
  <2> QED BY <2>5
<1> HIDE DEF Q
<1>2. Q = SUBSET S
  <2>1. Q \in SUBSET (SUBSET S) /\ IsFiniteSet(S) BY DEF Q, Foldable
  <2> QED BY <1>1, <2>1, SubsetInduction
<1> QED BY <1>2 DEF Q

Folded(g, S) == (CHOOSE h : IsFold(h, g, S))[S]

LEMMA FoldedEmpty ==
  ASSUME NEW D, NEW g, Foldable(D, g, {})
  PROVE  Folded(g, {}) = 0
<1> DEFINE h == CHOOSE h : IsFold(h, g, {})
<1>1. IsFold(h, g, {}) BY FoldExists
<1>2. Folded(g, {}) = h[{}] BY DEF Folded
<1> HIDE DEF h
<1> QED BY <1>1, <1>2, FoldEmpty

LEMMA FoldedStep ==
  ASSUME NEW D, NEW g, NEW S, Foldable(D, g, S), S # {}
  PROVE  /\ Folded(g, S) = g[<<Pick(S), Folded(g, S \ {Pick(S)})>>]
         /\ Folded(g, S \ {Pick(S)}) \in Int
<1> DEFINE h == CHOOSE h : IsFold(h, g, S)
           R == S \ {Pick(S)}
           i == CHOOSE i : IsFold(i, g, R)
<1>1. IsFold(h, g, S) BY FoldExists
<1>2. R \subseteq S /\ R \subseteq R /\ S \in SUBSET S OBVIOUS
<1>3. IsFold(i, g, R)
  <2> HIDE DEF R
  <2>1. Foldable(D, g, R) BY <1>2, FoldableParts
  <2>2. \E e : IsFold(e, g, R) BY <2>1, FoldExists
  <2> QED BY <2>2
<1>4. Folded(g, S) = h[S] /\ Folded(g, R) = i[R] BY DEF Folded
<1> HIDE DEF h, R, i
<1>5. i[R] = h[R] /\ h[R] \in Int BY <1>1, <1>2, <1>3, FoldsAgree
<1>6. h[S] = g[<<Pick(S), h[R]>>] BY <1>1, <1>2, FoldLoop DEF R
<1> QED BY <1>4, <1>5, <1>6 DEF R

-----------------------------------------------------------------------------
(* The three sums.                                                         *)

\* f can be summed over S.
Summable(D, f, S) == f \in [D -> Int] /\ S \in SUBSET D /\ IsFiniteSet(S)

Add(D, f) == [p \in D \X Int |-> f[p[1]] + p[2]]
ModAdd(D, f) == [p \in D \X Int |-> AddMod(f[p[1]], p[2])]
SubAdd(D, f) == [p \in D \X Int |-> AddSub(f[p[1]], p[2])]

LEMMA AddFoldable ==
  ASSUME NEW D, NEW f, NEW S, Summable(D, f, S)
  PROVE  /\ Foldable(D, Add(D, f), S)
         /\ Foldable(D, ModAdd(D, f), S)
         /\ Foldable(D, SubAdd(D, f), S)
<1>1. kModulo \in Nat \ {0} BY ChecksumAssumption
<1>2. \A a \in Int : a % kModulo \in Int BY <1>1
<1> QED BY <1>1, <1>2 DEF Summable, Foldable, Add, ModAdd, SubAdd, AddMod, AddSub

\* A recursive function that adds up g is the loop of g.
IsLoop(h, g, S) ==
  /\ h = [T \in SUBSET S |-> h[T]]
  /\ h[S] = Folded(g, S)
  /\ h[{}] = 0
  /\ \A T \in SUBSET S : T # {} => /\ h[T \ {Pick(T)}] \in Int
                                   /\ h[T] = g[<<Pick(T), h[T \ {Pick(T)}]>>]

LEMMA Loops ==
  ASSUME NEW D, NEW g, NEW S, Foldable(D, g, S)
  PROVE  \E h : IsLoop(h, g, S)
<1> DEFINE h == CHOOSE h : IsFold(h, g, S)
<1>1. IsFold(h, g, S) BY FoldExists
<1>2. h[S] = Folded(g, S) BY DEF Folded
<1> HIDE DEF h
<1>3. ASSUME NEW T \in SUBSET S, T # {}
      PROVE  /\ h[T \ {Pick(T)}] \in Int
             /\ h[T] = g[<<Pick(T), h[T \ {Pick(T)}]>>]
  <2> DEFINE R == T \ {Pick(T)}
  <2>1. R \subseteq S /\ S \subseteq S OBVIOUS
  <2> HIDE DEF R
  <2>2. h[R] \in Int BY <1>1, <2>1, FoldsAgree
  <2>3. h[T] = g[<<Pick(T), h[T \ {Pick(T)}]>>] BY <1>1, <1>3, FoldLoop
  <2> QED BY <2>2, <2>3 DEF R
<1>4. h = [T \in SUBSET S |-> h[T]] BY <1>1, Zenon DEF IsFold
<1>5. h[{}] = 0 BY <1>1, FoldEmpty
<1>6. IsLoop(h, g, S) BY <1>2, <1>3, <1>4, <1>5 DEF IsLoop
<1> QED BY <1>6

\* Whatever takes its turns in that order has the result of the loop.
LEMMA LoopIsFolded ==
  ASSUME NEW D, NEW g, NEW S, Foldable(D, g, S), NEW i, i[{}] = 0,
         \A T \in SUBSET S :
            T # {} /\ i[T \ {Pick(T)}] \in Int => i[T] = g[<<Pick(T), i[T \ {Pick(T)}]>>]
  PROVE  i[S] = Folded(g, S)
<1>1. PICK h : IsLoop(h, g, S)
  BY Loops
<1> DEFINE Q == {T \in SUBSET S : i[T] = h[T]}
<1>2. ASSUME NEW T \in SUBSET S, \A U \in SUBSET T : U # T => U \in Q PROVE T \in Q
  <2>1. CASE T = {} BY <1>1, <2>1 DEF IsLoop
  <2>2. CASE T # {}
    <3> DEFINE R == T \ {Pick(T)}
    <3>1. R \in SUBSET T /\ R # T BY <2>2, PickIn
    <3>2. i[R] = h[R] BY <1>2, <3>1
    <3>3. h[R] \in Int /\ h[T] = g[<<Pick(T), h[R]>>] BY <1>1, <2>2 DEF IsLoop
    <3>4. i[T] = g[<<Pick(T), i[R]>>] BY <2>2, <3>2, <3>3
    <3> QED BY <3>2, <3>3, <3>4
  <2> QED BY <2>1, <2>2
<1> HIDE DEF Q
<1>3. Q = SUBSET S
  <2>1. Q \in SUBSET (SUBSET S) /\ IsFiniteSet(S) BY DEF Q, Foldable
  <2> QED BY <1>2, <2>1, SubsetInduction
<1>4. S \in Q BY <1>3
<1> QED BY <1>1, <1>4 DEF Q, IsLoop

\* The three sums are such loops.
LEMMA SumFolded ==
  ASSUME NEW D, NEW f, NEW S, Summable(D, f, S)
  PROVE  Sum(f, S) = Folded(Add(D, f), S)
<1> DEFINE g == Add(D, f)
           loop(h) == [s \in SUBSET S |-> IF s = {} THEN 0
                                          ELSE f[Pick(s)] + h[s \ {Pick(s)}]]
           it == CHOOSE it : it = loop(it)
<1>1. Sum(f, S) = it[S]
  BY DEF Sum, SumFunctionOnSet, FoldFunctionOnSet, MapThenFoldSet, Pick
<1>2. Foldable(D, g, S) BY AddFoldable
<1>3. \E h : h = loop(h)
  <2>1. PICK h : IsLoop(h, g, S)
    <3> HIDE DEF g
    <3> QED BY <1>2, Loops
  <2>2. ASSUME NEW T \in SUBSET S, T # {}
        PROVE  h[T] = f[Pick(T)] + h[T \ {Pick(T)}]
    <3>1. Pick(T) \in D BY <2>2, PickIn DEF Summable
    <3>2. h[T \ {Pick(T)}] \in Int /\ h[T] = g[<<Pick(T), h[T \ {Pick(T)}]>>]
      <4> HIDE DEF g
      <4> QED BY <2>1, <2>2 DEF IsLoop
    <3> QED BY <3>1, <3>2 DEF Add
  <2> HIDE DEF g
  <2>3. h = loop(h) BY <2>1, <2>2 DEF IsLoop
  <2> QED BY <2>3
<1>4. it = loop(it)
  <2> HIDE DEF loop
  <2> QED BY <1>3
<1> HIDE DEF it
<1>5. /\ it[{}] = 0
      /\ \A s \in SUBSET S : s # {} => it[s] = f[Pick(s)] + it[s \ {Pick(s)}]
  BY <1>4
<1>6. ASSUME NEW T \in SUBSET S, T # {}, it[T \ {Pick(T)}] \in Int
      PROVE  it[T] = g[<<Pick(T), it[T \ {Pick(T)}]>>]
  <2>1. Pick(T) \in D BY <1>6, PickIn DEF Summable
  <2> QED BY <1>5, <1>6, <2>1 DEF Add
<1> HIDE DEF g
<1>7. it[S] = Folded(g, S) BY <1>2, <1>5, <1>6, LoopIsFolded
<1> QED BY <1>1, <1>7 DEF g

LEMMA SumModFolded ==
  ASSUME NEW D, NEW f, NEW S, Summable(D, f, S)
  PROVE  SumMod(f, S) = Folded(ModAdd(D, f), S)
<1> DEFINE g == ModAdd(D, f)
           loop(h) == [s \in SUBSET S |-> IF s = {} THEN 0
                                          ELSE AddMod(f[Pick(s)], h[s \ {Pick(s)}])]
           it == CHOOSE it : it = loop(it)
<1>1. SumMod(f, S) = it[S]
  BY DEF SumMod, FoldFunctionOnSet, MapThenFoldSet, Pick
<1>2. Foldable(D, g, S) BY AddFoldable
<1>3. \E h : h = loop(h)
  <2>1. PICK h : IsLoop(h, g, S)
    <3> HIDE DEF g
    <3> QED BY <1>2, Loops
  <2>2. ASSUME NEW T \in SUBSET S, T # {}
        PROVE  h[T] = AddMod(f[Pick(T)], h[T \ {Pick(T)}])
    <3>1. Pick(T) \in D BY <2>2, PickIn DEF Summable
    <3>2. h[T \ {Pick(T)}] \in Int /\ h[T] = g[<<Pick(T), h[T \ {Pick(T)}]>>]
      <4> HIDE DEF g
      <4> QED BY <2>1, <2>2 DEF IsLoop
    <3> QED BY <3>1, <3>2 DEF ModAdd
  <2> HIDE DEF g
  <2>3. h = loop(h) BY <2>1, <2>2 DEF IsLoop
  <2> QED BY <2>3
<1>4. it = loop(it)
  <2> HIDE DEF loop
  <2> QED BY <1>3
<1> HIDE DEF it
<1>5. /\ it[{}] = 0
      /\ \A s \in SUBSET S : s # {} => it[s] = AddMod(f[Pick(s)], it[s \ {Pick(s)}])
  BY <1>4
<1>6. ASSUME NEW T \in SUBSET S, T # {}, it[T \ {Pick(T)}] \in Int
      PROVE  it[T] = g[<<Pick(T), it[T \ {Pick(T)}]>>]
  <2>1. Pick(T) \in D BY <1>6, PickIn DEF Summable
  <2> QED BY <1>5, <1>6, <2>1 DEF ModAdd
<1> HIDE DEF g
<1>7. it[S] = Folded(g, S) BY <1>2, <1>5, <1>6, LoopIsFolded
<1> QED BY <1>1, <1>7 DEF g

LEMMA SumSubFolded ==
  ASSUME NEW D, NEW f, NEW S, Summable(D, f, S)
  PROVE  SumSub(f, S) = Folded(SubAdd(D, f), S)
<1> DEFINE g == SubAdd(D, f)
           loop(h) == [s \in SUBSET S |-> IF s = {} THEN 0
                                          ELSE AddSub(f[Pick(s)], h[s \ {Pick(s)}])]
           it == CHOOSE it : it = loop(it)
<1>1. SumSub(f, S) = it[S]
  BY DEF SumSub, FoldFunctionOnSet, MapThenFoldSet, Pick
<1>2. Foldable(D, g, S) BY AddFoldable
<1>3. \E h : h = loop(h)
  <2>1. PICK h : IsLoop(h, g, S)
    <3> HIDE DEF g
    <3> QED BY <1>2, Loops
  <2>2. ASSUME NEW T \in SUBSET S, T # {}
        PROVE  h[T] = AddSub(f[Pick(T)], h[T \ {Pick(T)}])
    <3>1. Pick(T) \in D BY <2>2, PickIn DEF Summable
    <3>2. h[T \ {Pick(T)}] \in Int /\ h[T] = g[<<Pick(T), h[T \ {Pick(T)}]>>]
      <4> HIDE DEF g
      <4> QED BY <2>1, <2>2 DEF IsLoop
    <3> QED BY <3>1, <3>2 DEF SubAdd
  <2> HIDE DEF g
  <2>3. h = loop(h) BY <2>1, <2>2 DEF IsLoop
  <2> QED BY <2>3
<1>4. it = loop(it)
  <2> HIDE DEF loop
  <2> QED BY <1>3
<1> HIDE DEF it
<1>5. /\ it[{}] = 0
      /\ \A s \in SUBSET S : s # {} => it[s] = AddSub(f[Pick(s)], it[s \ {Pick(s)}])
  BY <1>4
<1>6. ASSUME NEW T \in SUBSET S, T # {}, it[T \ {Pick(T)}] \in Int
      PROVE  it[T] = g[<<Pick(T), it[T \ {Pick(T)}]>>]
  <2>1. Pick(T) \in D BY <1>6, PickIn DEF Summable
  <2> QED BY <1>5, <1>6, <2>1 DEF SubAdd
<1> HIDE DEF g
<1>7. it[S] = Folded(g, S) BY <1>2, <1>5, <1>6, LoopIsFolded
<1> QED BY <1>1, <1>7 DEF g

LEMMA SumEmpty ==
  ASSUME NEW D, NEW f \in [D -> Int]
  PROVE  Sum(f, {}) = 0 /\ SumMod(f, {}) = 0 /\ SumSub(f, {}) = 0
<1>1. Summable(D, f, {}) BY FS_EmptySet DEF Summable
<1>2. /\ Foldable(D, Add(D, f), {})
      /\ Foldable(D, ModAdd(D, f), {})
      /\ Foldable(D, SubAdd(D, f), {})
  BY <1>1, AddFoldable
<1> QED BY <1>1, <1>2, FoldedEmpty, SumFolded, SumModFolded, SumSubFolded

LEMMA PartSummable ==
  ASSUME NEW D, NEW f, NEW S, Summable(D, f, S), NEW R, R \subseteq S
  PROVE  Summable(D, f, R)
BY FS_Subset DEF Summable

\* The term that a sum takes first.
FirstTerm(D, f, S) ==
  /\ Pick(S) \in S /\ Pick(S) \in D
  /\ Sum(f, S \ {Pick(S)}) \in Int
  /\ Sum(f, S) = f[Pick(S)] + Sum(f, S \ {Pick(S)})

LEMMA SumPick ==
  ASSUME NEW D, NEW f, NEW S, Summable(D, f, S), S # {}
  PROVE  FirstTerm(D, f, S)
<1> DEFINE R == S \ {Pick(S)}
<1>1. Foldable(D, Add(D, f), S) BY AddFoldable
<1>2. /\ Folded(Add(D, f), S) = Add(D, f)[<<Pick(S), Folded(Add(D, f), R)>>]
      /\ Folded(Add(D, f), R) \in Int
  BY <1>1, FoldedStep
<1>3. Pick(S) \in S /\ Pick(S) \in D BY PickIn DEF Summable
<1>4. Sum(f, S) = Folded(Add(D, f), S) BY SumFolded
<1>5. Sum(f, R) = Folded(Add(D, f), R)
  <2>1. Summable(D, f, R) BY PartSummable
  <2> HIDE DEF R
  <2> QED BY <2>1, SumFolded
<1> HIDE DEF R
<1>6. Sum(f, S) = f[Pick(S)] + Sum(f, R) BY <1>2, <1>3, <1>4, <1>5 DEF Add
<1> QED BY <1>2, <1>3, <1>5, <1>6 DEF R, FirstTerm

LEMMA SumInt ==
  ASSUME NEW D, NEW f, NEW S, Summable(D, f, S)
  PROVE  Sum(f, S) \in Int
<1>1. CASE S = {} BY <1>1, SumEmpty DEF Summable
<1>2. CASE S # {}
  <2>1. FirstTerm(D, f, S) BY <1>2, SumPick
  <2>2. f[Pick(S)] \in Int BY <2>1 DEF FirstTerm, Summable
  <2> QED BY <2>1, <2>2 DEF FirstTerm
<1> QED BY <1>1, <1>2

LEMMA SumModPick ==
  ASSUME NEW D, NEW f, NEW S, Summable(D, f, S), S # {}
  PROVE  SumMod(f, S) = AddMod(f[Pick(S)], SumMod(f, S \ {Pick(S)}))
<1> DEFINE R == S \ {Pick(S)}
           g == ModAdd(D, f)
<1>1. Foldable(D, g, S) BY AddFoldable
<1>2. Folded(g, S) = g[<<Pick(S), Folded(g, R)>>] /\ Folded(g, R) \in Int
  <2> HIDE DEF g
  <2> QED BY <1>1, FoldedStep
<1>3. Pick(S) \in D BY PickIn DEF Summable
<1>4. SumMod(f, S) = Folded(g, S) BY SumModFolded
<1>5. SumMod(f, R) = Folded(g, R)
  <2>1. Summable(D, f, R) BY PartSummable
  <2> HIDE DEF R
  <2> QED BY <2>1, SumModFolded
<1> HIDE DEF R
<1> QED BY <1>2, <1>3, <1>4, <1>5 DEF ModAdd, R

LEMMA SumSubPick ==
  ASSUME NEW D, NEW f, NEW S, Summable(D, f, S), S # {}
  PROVE  SumSub(f, S) = AddSub(f[Pick(S)], SumSub(f, S \ {Pick(S)}))
<1> DEFINE R == S \ {Pick(S)}
           g == SubAdd(D, f)
<1>1. Foldable(D, g, S) BY AddFoldable
<1>2. Folded(g, S) = g[<<Pick(S), Folded(g, R)>>] /\ Folded(g, R) \in Int
  <2> HIDE DEF g
  <2> QED BY <1>1, FoldedStep
<1>3. Pick(S) \in D BY PickIn DEF Summable
<1>4. SumSub(f, S) = Folded(g, S) BY SumSubFolded
<1>5. SumSub(f, R) = Folded(g, R)
  <2>1. Summable(D, f, R) BY PartSummable
  <2> HIDE DEF R
  <2> QED BY <2>1, SumSubFolded
<1> HIDE DEF R
<1> QED BY <1>2, <1>3, <1>4, <1>5 DEF SubAdd, R

-----------------------------------------------------------------------------
(* What a sum is.                                                          *)

\* Any term may be taken out first.
LEMMA SumRemove ==
  ASSUME NEW D, NEW f, NEW S, Summable(D, f, S), NEW e \in S
  PROVE  Sum(f, S) = f[e] + Sum(f, S \ {e})
<1> DEFINE Q == {T \in SUBSET S : \A x \in T : Sum(f, T) = f[x] + Sum(f, T \ {x})}
<1>1. ASSUME NEW T \in SUBSET S, \A U \in SUBSET T : U # T => U \in Q PROVE T \in Q
  <2> SUFFICES ASSUME NEW x \in T PROVE Sum(f, T) = f[x] + Sum(f, T \ {x})
    OBVIOUS
  <2> DEFINE p == Pick(T)
  <2>1. Summable(D, f, T)
    <3>1. T \subseteq S OBVIOUS
    <3> QED BY <3>1, PartSummable
  <2>2. /\ p \in T /\ p \in D
        /\ Sum(f, T \ {p}) \in Int
        /\ Sum(f, T) = f[p] + Sum(f, T \ {p})
    <3>1. T # {} OBVIOUS
    <3>2. FirstTerm(D, f, T) BY <2>1, <3>1, SumPick
    <3> QED BY <3>2 DEF FirstTerm
  <2> HIDE DEF p
  <2>3. CASE p = x BY <2>2, <2>3
  <2>4. CASE p # x
    <3>1. T \ {p} \in SUBSET T /\ T \ {p} # T /\ x \in T \ {p} BY <2>2, <2>4
    <3>2. T \ {x} \in SUBSET T /\ T \ {x} # T /\ p \in T \ {x} BY <2>2, <2>4
    <3>3. Sum(f, T \ {p}) = f[x] + Sum(f, (T \ {p}) \ {x}) BY <1>1, <3>1
    <3>4. Sum(f, T \ {x}) = f[p] + Sum(f, (T \ {x}) \ {p}) BY <1>1, <3>2
    <3>5. (T \ {p}) \ {x} = (T \ {x}) \ {p} OBVIOUS
    <3> DEFINE R == (T \ {x}) \ {p}
    <3>6. Sum(f, R) \in Int
      <4>1. Summable(D, f, R)
        <5>1. R \subseteq T OBVIOUS
        <5> HIDE DEF R
        <5> QED BY <2>1, <5>1, PartSummable
      <4> HIDE DEF R
      <4> QED BY <4>1, SumInt
    <3>7. f[p] \in Int /\ f[x] \in Int BY <2>2 DEF Summable
    <3>8. Sum(f, T) = f[p] + (f[x] + Sum(f, R)) BY <2>2, <3>3, <3>5
    <3>9. Sum(f, T \ {x}) = f[p] + Sum(f, R) BY <3>4
    <3> HIDE DEF R
    <3> QED BY <3>6, <3>7, <3>8, <3>9
  <2> QED BY <2>3, <2>4
<1> HIDE DEF Q
<1>2. Q = SUBSET S
  <2>1. Q \in SUBSET (SUBSET S) /\ IsFiniteSet(S) BY DEF Q, Summable
  <2> QED BY <1>1, <2>1, SubsetInduction
<1>3. S \in Q BY <1>2
<1> QED BY <1>3 DEF Q

LEMMA SumSingle ==
  ASSUME NEW D, NEW f \in [D -> Int], NEW x \in D
  PROVE  Sum(f, {x}) = f[x]
<1>1. Summable(D, f, {x}) BY FS_Singleton DEF Summable
<1>2. x \in {x} /\ {x} \ {x} = {} OBVIOUS
<1>3. Sum(f, {x}) = f[x] + Sum(f, {x} \ {x}) BY <1>1, <1>2, SumRemove
<1>4. Sum(f, {}) = 0 BY SumEmpty
<1>5. Sum(f, {x}) = f[x] + 0 BY <1>2, <1>3, <1>4
<1>6. f[x] \in Int OBVIOUS
<1> QED BY <1>5, <1>6

\* Terms that are equal, or leave equal remainders.
LEMMA SumSame ==
  ASSUME NEW D, NEW f, NEW E, NEW g, NEW S, Summable(D, f, S), Summable(E, g, S),
         \A x \in S : f[x] = g[x]
  PROVE  Sum(f, S) = Sum(g, S)
<1> DEFINE Q == {T \in SUBSET S : Sum(f, T) = Sum(g, T)}
<1>1. ASSUME NEW T \in SUBSET S, \A U \in SUBSET T : U # T => U \in Q PROVE T \in Q
  <2>1. CASE T = {} BY <2>1, SumEmpty DEF Summable
  <2>2. CASE T # {}
    <3>1. PICK x \in T : TRUE BY <2>2
    <3>2. T \ {x} \in Q BY <1>1, <3>1
    <3>3. Summable(D, f, T) /\ Summable(E, g, T)
      <4>1. T \subseteq S OBVIOUS
      <4> QED BY <4>1, PartSummable
    <3>4. Sum(f, T) = f[x] + Sum(f, T \ {x}) /\ Sum(g, T) = g[x] + Sum(g, T \ {x})
      BY <3>1, <3>3, SumRemove
    <3>5. Sum(f, T \ {x}) = Sum(g, T \ {x}) BY <3>2
    <3> QED BY <3>1, <3>4, <3>5
  <2> QED BY <2>1, <2>2
<1> HIDE DEF Q
<1>2. Q = SUBSET S
  <2>1. Q \in SUBSET (SUBSET S) /\ IsFiniteSet(S) BY DEF Q, Summable
  <2> QED BY <1>1, <2>1, SubsetInduction
<1>3. S \in Q BY <1>2
<1> QED BY <1>3 DEF Q

LEMMA SumCongruent ==
  ASSUME NEW D, NEW f, NEW E, NEW g, NEW S, Summable(D, f, S), Summable(E, g, S),
         \A x \in S : f[x] % kModulo = g[x] % kModulo
  PROVE  Sum(f, S) % kModulo = Sum(g, S) % kModulo
<1> DEFINE Q == {T \in SUBSET S : Sum(f, T) % kModulo = Sum(g, T) % kModulo}
<1>0. kModulo \in Nat \ {0} BY ChecksumAssumption
<1>1. ASSUME NEW T \in SUBSET S, \A U \in SUBSET T : U # T => U \in Q PROVE T \in Q
  <2>1. CASE T = {}
    <3>1. Sum(f, T) = 0 /\ Sum(g, T) = 0 BY <2>1, SumEmpty DEF Summable
    <3> QED BY <3>1
  <2>2. CASE T # {}
    <3>1. PICK x \in T : TRUE BY <2>2
    <3>2. T \ {x} \in Q BY <1>1, <3>1
    <3>3. /\ Summable(D, f, T) /\ Summable(E, g, T)
          /\ Summable(D, f, T \ {x}) /\ Summable(E, g, T \ {x})
      <4>1. T \subseteq S /\ T \ {x} \subseteq S OBVIOUS
      <4> QED BY <4>1, PartSummable
    <3>4. Sum(f, T) = f[x] + Sum(f, T \ {x}) /\ Sum(g, T) = g[x] + Sum(g, T \ {x})
      BY <3>1, <3>3, SumRemove
    <3>5. Sum(f, T \ {x}) % kModulo = Sum(g, T \ {x}) % kModulo BY <3>2
    <3>6. Sum(f, T \ {x}) \in Int /\ Sum(g, T \ {x}) \in Int BY <3>3, SumInt
    <3>7. f[x] \in Int /\ g[x] \in Int BY <3>1 DEF Summable
    <3>8. f[x] % kModulo = g[x] % kModulo BY <3>1
    <3>9. PICK a \in Int, b \in Int, c \in Int, d \in Int :
            a = f[x] /\ b = Sum(f, T \ {x}) /\ c = g[x] /\ d = Sum(g, T \ {x})
      BY <3>6, <3>7
    <3>10. a % kModulo = c % kModulo /\ b % kModulo = d % kModulo BY <3>5, <3>8, <3>9
    <3>11. (a + b) % kModulo = (c + d) % kModulo
      <4>1. PICK k \in Nat \ {0} : k = kModulo BY <1>0
      <4>2. a % k = c % k /\ b % k = d % k BY <3>10, <4>1
      <4>3. ((a % k) + b) % k = (a + b) % k /\ ((c % k) + b) % k = (c + b) % k
        BY ModOfSum
      <4>4. ((b % k) + c) % k = (b + c) % k /\ ((d % k) + c) % k = (d + c) % k
        BY ModOfSum
      <4>5. b + c = c + b /\ d + c = c + d OBVIOUS
      <4>6. (a + b) % k = (c + d) % k BY <4>2, <4>3, <4>4, <4>5
      <4> QED BY <4>1, <4>6
    <3> QED BY <3>4, <3>9, <3>11
  <2> QED BY <2>1, <2>2
<1> HIDE DEF Q
<1>2. Q = SUBSET S
  <2>1. Q \in SUBSET (SUBSET S) /\ IsFiniteSet(S) BY DEF Q, Summable
  <2> QED BY <1>1, <2>1, SubsetInduction
<1>3. S \in Q BY <1>2
<1> QED BY <1>3 DEF Q

\* A sum reduced at every step is the remainder of the sum.
LEMMA SumModIs ==
  ASSUME NEW D, NEW f, NEW S, Summable(D, f, S)
  PROVE  SumMod(f, S) = Sum(f, S) % kModulo
<1> DEFINE Q == {T \in SUBSET S : SumMod(f, T) = Sum(f, T) % kModulo}
<1>0. kModulo \in Nat \ {0} BY ChecksumAssumption
<1>1. ASSUME NEW T \in SUBSET S, \A U \in SUBSET T : U # T => U \in Q PROVE T \in Q
  <2>1. CASE T = {}
    <3>1. Sum(f, T) = 0 /\ SumMod(f, T) = 0 BY <2>1, SumEmpty DEF Summable
    <3>2. 0 \in 0 .. kModulo - 1 BY <1>0
    <3>3. 0 % kModulo = 0 BY <1>0, <3>2, SmallMod
    <3> QED BY <3>1, <3>3
  <2>2. CASE T # {}
    <3> DEFINE p == Pick(T)
               R == T \ {p}
    <3>1. Summable(D, f, T)
      <4>1. T \subseteq S OBVIOUS
      <4> QED BY <4>1, PartSummable
    <3>2. /\ p \in T /\ p \in D
          /\ Sum(f, R) \in Int
          /\ Sum(f, T) = f[p] + Sum(f, R)
      <4>1. FirstTerm(D, f, T) BY <2>2, <3>1, SumPick
      <4> QED BY <4>1 DEF FirstTerm
    <3>3. SumMod(f, T) = AddMod(f[p], SumMod(f, R)) BY <2>2, <3>1, SumModPick
    <3> HIDE DEF p
    <3>4. SumMod(f, R) = Sum(f, R) % kModulo BY <1>1, <3>2
    <3>5. f[p] \in Int BY <3>2 DEF Summable
    <3> HIDE DEF R
    <3>6. SumMod(f, T) = ((Sum(f, R) % kModulo) + f[p]) % kModulo
      BY <3>3, <3>4 DEF AddMod
    <3>7. SumMod(f, T) = (Sum(f, R) + f[p]) % kModulo
      BY <1>0, <3>2, <3>5, <3>6, ModOfSum
    <3>8. Sum(f, R) + f[p] = f[p] + Sum(f, R) BY <3>2, <3>5
    <3> QED BY <3>2, <3>7, <3>8
  <2> QED BY <2>1, <2>2
<1> HIDE DEF Q
<1>2. Q = SUBSET S
  <2>1. Q \in SUBSET (SUBSET S) /\ IsFiniteSet(S) BY DEF Q, Summable
  <2> QED BY <1>1, <2>1, SubsetInduction
<1>3. S \in Q BY <1>2
<1> QED BY <1>3 DEF Q

\* So is one that takes kModulo off when it reaches it, if the terms are below it.
LEMMA SumSubIs ==
  ASSUME NEW D, NEW f, NEW S, Summable(D, f, S), \A x \in S : f[x] \in 0 .. kModulo - 1
  PROVE  SumSub(f, S) = Sum(f, S) % kModulo
<1> DEFINE Q == {T \in SUBSET S : SumSub(f, T) = Sum(f, T) % kModulo}
<1>0. kModulo \in Nat \ {0} BY ChecksumAssumption
<1>1. ASSUME NEW T \in SUBSET S, \A U \in SUBSET T : U # T => U \in Q PROVE T \in Q
  <2>1. CASE T = {}
    <3>1. Sum(f, T) = 0 /\ SumSub(f, T) = 0 BY <2>1, SumEmpty DEF Summable
    <3>2. 0 \in 0 .. kModulo - 1 BY <1>0
    <3>3. 0 % kModulo = 0 BY <1>0, <3>2, SmallMod
    <3> QED BY <3>1, <3>3
  <2>2. CASE T # {}
    <3> DEFINE p == Pick(T)
               R == T \ {p}
    <3>1. Summable(D, f, T)
      <4>1. T \subseteq S OBVIOUS
      <4> QED BY <4>1, PartSummable
    <3>2. /\ p \in T /\ p \in D
          /\ Sum(f, R) \in Int
          /\ Sum(f, T) = f[p] + Sum(f, R)
      <4>1. FirstTerm(D, f, T) BY <2>2, <3>1, SumPick
      <4> QED BY <4>1 DEF FirstTerm
    <3>3. SumSub(f, T) = AddSub(f[p], SumSub(f, R)) BY <2>2, <3>1, SumSubPick
    <3> HIDE DEF p
    <3>4. SumSub(f, R) = Sum(f, R) % kModulo BY <1>1, <3>2
    <3>5. f[p] \in 0 .. kModulo - 1 BY <3>2
    <3> HIDE DEF R
    <3> DEFINE r == Sum(f, R) % kModulo
               a == r + f[p]
    <3>6. r \in 0 .. kModulo - 1 BY <1>0, <3>2, DivMod
    <3>7. SumSub(f, T) = IF a >= kModulo THEN a - kModulo ELSE a
      <4>1. SumSub(f, R) = r BY <3>4
      <4>2. AddSub(f[p], r) = IF a >= kModulo THEN a - kModulo ELSE a
        <5> HIDE DEF r
        <5> QED BY <1>0, <3>5, <3>6 DEF AddSub
      <4> HIDE DEF r
      <4> QED BY <3>3, <4>1, <4>2
    <3>8. PICK b \in Int, c \in Int : b = Sum(f, R) /\ c = f[p] BY <3>2, <3>5
    <3>9. ((b % kModulo) + c) % kModulo = (b + c) % kModulo BY <1>0, ModOfSum
    <3>11. Sum(f, T) % kModulo = a % kModulo
      <4>1. a = (b % kModulo) + c BY <3>8
      <4>2. Sum(f, T) = b + c BY <3>2, <3>8
      <4> QED BY <3>9, <4>1, <4>2
    <3> HIDE DEF r
    <3>10. a % kModulo = IF a >= kModulo THEN a - kModulo ELSE a
      <4>1. CASE a < kModulo
        <5>1. a \in Nat BY <1>0, <3>5, <3>6
        <5>2. a \in 0 .. kModulo - 1
          <6> HIDE DEF a
          <6> QED BY <1>0, <4>1, <5>1
        <5> HIDE DEF a
        <5> QED BY <1>0, <4>1, <5>1, <5>2, SmallMod
      <4>2. CASE a >= kModulo
        <5> DEFINE d == a - kModulo
        <5>1. d \in 0 .. kModulo - 1 /\ a = d + kModulo BY <1>0, <3>5, <3>6, <4>2
        <5> HIDE DEF a
        <5>2. d = a - kModulo OBVIOUS
        <5> HIDE DEF d
        <5>3. (d + kModulo) % kModulo = d BY <1>0, <5>1, SmallMod
        <5> QED BY <4>2, <5>1, <5>2, <5>3
      <4> QED BY <1>0, <3>5, <3>6, <4>1, <4>2
    <3> HIDE DEF a
    <3> QED BY <3>7, <3>10, <3>11
  <2> QED BY <2>1, <2>2
<1> HIDE DEF Q
<1>2. Q = SUBSET S
  <2>1. Q \in SUBSET (SUBSET S) /\ IsFiniteSet(S) BY DEF Q, Summable
  <2> QED BY <1>1, <2>1, SubsetInduction
<1>3. S \in Q BY <1>2
<1> QED BY <1>3 DEF Q

-----------------------------------------------------------------------------
(* Sums of sums.                                                           *)

LEMMA SumZeros ==
  ASSUME NEW D, NEW f, NEW S, Summable(D, f, S), \A x \in S : f[x] = 0
  PROVE  Sum(f, S) = 0
<1> DEFINE Q == {T \in SUBSET S : Sum(f, T) = 0}
<1>1. ASSUME NEW T \in SUBSET S, \A U \in SUBSET T : U # T => U \in Q PROVE T \in Q
  <2>1. CASE T = {} BY <2>1, SumEmpty DEF Summable
  <2>2. CASE T # {}
    <3>1. PICK x \in T : TRUE BY <2>2
    <3>2. Sum(f, T \ {x}) = 0 BY <1>1, <3>1
    <3>3. Summable(D, f, T)
      <4>1. T \subseteq S OBVIOUS
      <4> QED BY <4>1, PartSummable
    <3>4. Sum(f, T) = f[x] + Sum(f, T \ {x}) BY <3>1, <3>3, SumRemove
    <3>5. f[x] = 0 BY <3>1
    <3> QED BY <3>2, <3>4, <3>5
  <2> QED BY <2>1, <2>2
<1> HIDE DEF Q
<1>2. Q = SUBSET S
  <2>1. Q \in SUBSET (SUBSET S) /\ IsFiniteSet(S) BY DEF Q, Summable
  <2> QED BY <1>1, <2>1, SubsetInduction
<1>3. S \in Q BY <1>2
<1> QED BY <1>3 DEF Q

\* The terms of S that key gives to c.
Share(S, key, c) == {x \in S : key[x] = c}
Sums(f, S, key, C) == [c \in C |-> Sum(f, Share(S, key, c))]

LEMMA SharesSummable ==
  ASSUME NEW D, NEW f, NEW S, Summable(D, f, S),
         NEW C, IsFiniteSet(C), NEW key, NEW T, T \subseteq S
  PROVE  Summable(C, Sums(f, T, key, C), C)
<1>1. ASSUME NEW c \in C PROVE Sum(f, Share(T, key, c)) \in Int
  <2>1. Share(T, key, c) \subseteq S BY DEF Share
  <2>2. Summable(D, f, Share(T, key, c)) BY <2>1, PartSummable
  <2> QED BY <2>2, SumInt
<1>2. C \in SUBSET C OBVIOUS
<1> QED BY <1>1, <1>2 DEF Summable, Sums

\* To add up the sums of the shares is to add up everything.
LEMMA SumOfSums ==
  ASSUME NEW D, NEW f, NEW S, Summable(D, f, S),
         NEW C, IsFiniteSet(C), NEW key, \A x \in S : key[x] \in C
  PROVE  Sum(Sums(f, S, key, C), C) = Sum(f, S)
<1> DEFINE G(T) == Sums(f, T, key, C)
           Q == {T \in SUBSET S : Sum(G(T), C) = Sum(f, T)}
<1>0. ASSUME NEW T, T \subseteq S PROVE Summable(C, G(T), C)
  BY <1>0, SharesSummable
<1>1. ASSUME NEW T \in SUBSET S, \A U \in SUBSET T : U # T => U \in Q PROVE T \in Q
  <2>0. T \subseteq S OBVIOUS
  <2>1. CASE T = {}
    <3>1. Sum(f, {}) = 0 BY SumEmpty DEF Summable
    <3>2. \A c \in C : G(T)[c] = 0
      <4> TAKE c \in C
      <4>1. Share(T, key, c) = {} BY <2>1 DEF Share
      <4> QED BY <3>1, <4>1 DEF Sums
    <3>3. Summable(C, G(T), C) BY <1>0, <2>0
    <3> HIDE DEF G
    <3>4. Sum(G(T), C) = 0 BY <3>2, <3>3, SumZeros
    <3> QED BY <2>1, <3>1, <3>4
  <2>2. CASE T # {}
    <3>1. PICK x \in T : TRUE BY <2>2
    <3> DEFINE U == T \ {x}
               a == key[x]
               C1 == C \ {a}
    <3>2. a \in C /\ U \in SUBSET S BY <3>1
    <3>3. Sum(G(U), C) = Sum(f, U) BY <1>1, <3>1
    <3>4. Summable(C, G(T), C) /\ Summable(C, G(U), C)
      <4>1. U \subseteq S OBVIOUS
      <4> HIDE DEF G, U
      <4> QED BY <1>0, <2>0, <4>1
    <3>5. /\ Sum(G(T), C) = G(T)[a] + Sum(G(T), C1)
          /\ Sum(G(U), C) = G(U)[a] + Sum(G(U), C1)
      <4> HIDE DEF G, U
      <4> QED BY <3>2, <3>4, SumRemove
    <3>6. Sum(G(T), C1) = Sum(G(U), C1)
      <4>1. C1 \subseteq C OBVIOUS
      <4>2. Summable(C, G(T), C1) /\ Summable(C, G(U), C1)
        <5> HIDE DEF G, U, C1
        <5> QED BY <3>4, <4>1, PartSummable
      <4>3. \A c \in C1 : G(T)[c] = G(U)[c]
        <5> TAKE c \in C1
        <5>1. Share(T, key, c) = Share(U, key, c) BY DEF Share
        <5> QED BY <5>1 DEF Sums
      <4> HIDE DEF G, U, C1
      <4> QED BY <4>2, <4>3, SumSame
    <3>7. G(T)[a] = f[x] + G(U)[a] /\ G(U)[a] \in Int
      <4> DEFINE R == Share(T, key, a)
                 V == Share(U, key, a)
      <4>1. x \in R /\ R \ {x} = V /\ R \subseteq S /\ V \subseteq S
        BY <3>1 DEF Share
      <4>2. G(T)[a] = Sum(f, R) /\ G(U)[a] = Sum(f, V) BY <3>2 DEF Sums
      <4> HIDE DEF G, U, R, V
      <4>3. Summable(D, f, R) /\ Summable(D, f, V) BY <4>1, PartSummable
      <4>4. Sum(f, R) = f[x] + Sum(f, R \ {x}) BY <4>1, <4>3, SumRemove
      <4>5. Sum(f, V) \in Int BY <4>3, SumInt
      <4> QED BY <4>1, <4>2, <4>4, <4>5
    <3>8. Sum(f, T) = f[x] + Sum(f, U)
      <4>1. Summable(D, f, T) BY <2>0, PartSummable
      <4> QED BY <3>1, <4>1, SumRemove
    <3>9. f[x] \in Int BY <3>1 DEF Summable
    <3>10. Sum(G(U), C1) \in Int
      <4>1. C1 \subseteq C OBVIOUS
      <4> HIDE DEF G, U, C1
      <4>2. Summable(C, G(U), C1) BY <3>4, <4>1, PartSummable
      <4> QED BY <4>2, SumInt
    <3>11. Sum(G(T), C) = Sum(f, T)
      <4> HIDE DEF G, U, C1, a
      <4>1. PICK p \in Int, q \in Int, r \in Int :
              p = f[x] /\ q = G(U)[a] /\ r = Sum(G(U), C1)
        BY <3>7, <3>9, <3>10
      <4>2. Sum(G(T), C) = (p + q) + r BY <3>5, <3>6, <3>7, <4>1
      <4>3. Sum(f, T) = p + (q + r) BY <3>3, <3>5, <3>8, <4>1
      <4> QED BY <4>2, <4>3
    <3> HIDE DEF G
    <3> QED BY <3>11
  <2> QED BY <2>1, <2>2
<1> HIDE DEF Q
<1>2. Q = SUBSET S
  <2>1. Q \in SUBSET (SUBSET S) /\ IsFiniteSet(S) BY DEF Q, Summable
  <2> QED BY <1>1, <2>1, SubsetInduction
<1>3. S \in Q BY <1>2
<1> QED BY <1>3 DEF Q

\* Modulo kModulo it is enough to have the remainders of the shares.
LEMMA SumOfRemainders ==
  ASSUME NEW D, NEW f, NEW S, Summable(D, f, S),
         NEW E, NEW g, NEW C, Summable(E, g, C),
         NEW key, \A x \in S : key[x] \in C,
         \A c \in C : g[c] % kModulo = Sum(f, Share(S, key, c)) % kModulo
  PROVE  Sum(g, C) % kModulo = Sum(f, S) % kModulo
<1> DEFINE G == Sums(f, S, key, C)
<1>1. IsFiniteSet(C) /\ S \subseteq S BY DEF Summable
<1>2. Summable(C, G, C) BY <1>1, SharesSummable
<1>3. \A c \in C : g[c] % kModulo = G[c] % kModulo BY DEF Sums
<1>4. Sum(G, C) = Sum(f, S) BY <1>1, SumOfSums
<1> HIDE DEF G
<1>5. Sum(g, C) % kModulo = Sum(G, C) % kModulo BY <1>2, <1>3, SumCongruent
<1> QED BY <1>4, <1>5

\* The same terms under other names.
LEMMA SumRenamed ==
  ASSUME NEW D, NEW f, NEW S, Summable(D, f, S),
         NEW E, NEW g, NEW T, Summable(E, g, T),
         NEW to,
         \A x \in S : to[x] \in T /\ f[x] = g[to[x]],
         \A y \in T : \E x \in S : to[x] = y,
         \A x \in S, y \in S : to[x] = to[y] => x = y
  PROVE  Sum(f, S) = Sum(g, T)
<1> DEFINE G == Sums(f, S, to, T)
<1>1. IsFiniteSet(T) /\ S \subseteq S BY DEF Summable
<1>2. Summable(T, G, T) BY <1>1, SharesSummable
<1>3. ASSUME NEW y \in T PROVE G[y] = g[y]
  <2>1. PICK x \in S : to[x] = y OBVIOUS
  <2>2. Share(S, to, y) = {x} BY <2>1 DEF Share
  <2>3. Sum(f, {x}) = f[x]
    <3>1. f \in [D -> Int] /\ x \in D BY DEF Summable
    <3> QED BY <3>1, SumSingle
  <2> QED BY <2>1, <2>2, <2>3 DEF Sums
<1>4. Sum(G, T) = Sum(f, S) BY <1>1, SumOfSums
<1> HIDE DEF G
<1>5. Sum(g, T) = Sum(G, T) BY <1>2, <1>3, SumSame
<1> QED BY <1>4, <1>5

-----------------------------------------------------------------------------
(* The products of a challenge.                                            *)

Challenge ==
  /\ N \in Nat
  /\ A \in [0 .. N * N - 1 -> 0 .. kModulo - 1]
  /\ B \in [0 .. N * N - 1 -> 0 .. kModulo - 1]

\* The index of a cell in a flat matrix.
LEMMA FlatIndex ==
  ASSUME NEW n \in Nat, NEW i \in 0 .. n - 1, NEW j \in 0 .. n - 1
  PROVE  i * n + j \in 0 .. n * n - 1
<1>1. PICK d \in Nat : n = i + 1 + d
  <2>1. n - i - 1 \in Nat /\ n = i + 1 + (n - i - 1) OBVIOUS
  <2> QED BY <2>1
<1>2. n * n = i * n + n + d * n BY <1>1
<1>3. d * n >= 0 /\ i * n >= 0 BY <1>1
<1> QED BY <1>2, <1>3

LEMMA TermsSummable ==
  ASSUME Challenge
  PROVE  /\ IsFiniteSet(Indices) /\ IsFiniteSet(Cells) /\ IsFiniteSet(Products)
         /\ Summable(Products, Term, Products)
<1>1. IsFiniteSet(Indices) BY FS_Interval DEF Challenge, Indices
<1>2. IsFiniteSet(Cells) BY <1>1, FS_Product DEF Cells
<1>3. IsFiniteSet(Products)
  <2>1. IsFiniteSet((Indices \X Indices) \X Indices) BY <1>1, FS_Product
  <2> DEFINE S == (Indices \X Indices) \X Indices
             h == [x \in S |-> <<x[1][1], x[1][2], x[2]>>]
  <2>2. h \in Surjection(S, Products)
    <3>1. \A y \in Products : /\ h[<<<<y[1], y[2]>>, y[3]>>] = y
                              /\ <<<<y[1], y[2]>>, y[3]>> \in S
      BY DEF Products
    <3>2. \A x \in S : h[x] \in Products BY DEF Products
    <3>3. h \in [S -> Products] BY <3>2
    <3> HIDE DEF h, S
    <3> QED BY <3>1, <3>3, Zenon DEF Surjection
  <2> HIDE DEF h
  <2> QED BY <2>1, <2>2, FS_Surjection
<1>4. ASSUME NEW x \in Products
      PROVE  A[x[1] * N + x[2]] * B[x[2] * N + x[3]] \in Int
  <2>1. x[1] \in 0 .. N - 1 /\ x[2] \in 0 .. N - 1 /\ x[3] \in 0 .. N - 1
    BY DEF Products, Indices
  <2>2. x[1] * N + x[2] \in 0 .. N * N - 1 /\ x[2] * N + x[3] \in 0 .. N * N - 1
    BY <2>1, FlatIndex DEF Challenge
  <2>3. A[x[1] * N + x[2]] \in Int /\ B[x[2] * N + x[3]] \in Int
    BY <2>2 DEF Challenge
  <2> QED BY <2>3
<1>5. Products \in SUBSET Products OBVIOUS
<1> QED BY <1>1, <1>2, <1>3, <1>4, <1>5 DEF Summable, Term

\* The cell of C that a product goes to.
cellOf == [x \in Products |-> <<x[1], x[3]>>]

\* What the loop over k adds up for a cell.
row(c) == [k \in Indices |-> Term[<<c[1], k, c[2]>>]]
rowRemainders(c) == [k \in Indices |-> Term[<<c[1], k, c[2]>>] % kModulo]

\* The loop over k leaves the sum of the products of its cell, or its remainder.
LEMMA RowOfCell ==
  ASSUME Challenge, NEW c \in Cells
  PROVE  /\ Summable(Indices, row(c), Indices)
         /\ Summable(Indices, rowRemainders(c), Indices)
         /\ \A k \in Indices : rowRemainders(c)[k] \in 0 .. kModulo - 1
         /\ Sum(row(c), Indices) = Sum(Term, Share(Products, cellOf, c))
         /\ Sum(rowRemainders(c), Indices) % kModulo =
              Sum(Term, Share(Products, cellOf, c)) % kModulo
<1> DEFINE T == Share(Products, cellOf, c)
           at == [k \in Indices |-> <<c[1], k, c[2]>>]
<1>0. kModulo \in Nat \ {0} BY ChecksumAssumption
<1>1. IsFiniteSet(Indices) /\ Summable(Products, Term, Products) BY TermsSummable
<1>2. \A k \in Indices : at[k] \in Products /\ at[k] \in T
  BY DEF Cells, Products, Share, cellOf
<1>3. \A k \in Indices : Term[at[k]] \in Int /\ (Term[at[k]] % kModulo) \in 0 .. kModulo - 1
  <2> TAKE k \in Indices
  <2>1. Term[at[k]] \in Int
    <3> HIDE DEF at
    <3> QED BY <1>1, <1>2 DEF Summable
  <2> HIDE DEF at
  <2> QED BY <1>0, <2>1, DivMod
<1>4. /\ row(c) = [k \in Indices |-> Term[at[k]]]
      /\ rowRemainders(c) = [k \in Indices |-> Term[at[k]] % kModulo]
  BY DEF row, rowRemainders
<1>5. \A y \in T : \E k \in Indices : at[k] = y
  BY DEF Share, cellOf, Products, Cells
<1>6. \A k \in Indices, l \in Indices : at[k] = at[l] => k = l OBVIOUS
<1>7. T \subseteq Products BY DEF Share
<1> HIDE DEF at, T
<1>8. Summable(Products, Term, T) BY <1>1, <1>7, PartSummable
<1>9. Indices \in SUBSET Indices OBVIOUS
<1>10. /\ Summable(Indices, row(c), Indices)
       /\ Summable(Indices, rowRemainders(c), Indices)
       /\ \A k \in Indices : rowRemainders(c)[k] \in 0 .. kModulo - 1
  BY <1>0, <1>1, <1>3, <1>4, <1>9 DEF Summable
<1>11. Sum(row(c), Indices) = Sum(Term, T)
  <2>1. \A k \in Indices : at[k] \in T /\ row(c)[k] = Term[at[k]] BY <1>2, <1>4
  <2> QED BY <1>5, <1>6, <1>8, <1>10, <2>1, SumRenamed
<1>12. Sum(rowRemainders(c), Indices) % kModulo = Sum(row(c), Indices) % kModulo
  <2>1. \A k \in Indices : rowRemainders(c)[k] % kModulo = row(c)[k] % kModulo
    BY <1>0, <1>3, <1>4, ModOfMod
  <2> QED BY <1>10, <2>1, SumCongruent
<1> QED BY <1>10, <1>11, <1>12 DEF T

\* Sums over the cells of C, of values that leave the remainders of the cells.
LEMMA CellsSum ==
  ASSUME Challenge, NEW C \in [Cells -> Int],
         \A c \in Cells : C[c] % kModulo = Sum(Term, Share(Products, cellOf, c)) % kModulo
  PROVE  Summable(Cells, C, Cells) /\ Sum(C, Cells) % kModulo = Definition
<1>1. IsFiniteSet(Cells) /\ Summable(Products, Term, Products) BY TermsSummable
<1>2. Cells \in SUBSET Cells OBVIOUS
<1>3. Summable(Cells, C, Cells) BY <1>1, <1>2 DEF Summable
<1>4. \A x \in Products : cellOf[x] \in Cells BY DEF cellOf, Products, Cells
<1>5. Sum(C, Cells) % kModulo = Sum(Term, Products) % kModulo
  BY <1>1, <1>3, <1>4, SumOfRemainders
<1> QED BY <1>3, <1>5 DEF Definition

\* The servers add up the remainder of every product.
LEMMA ServerExact ==
  ASSUME Challenge
  PROVE  ServerChecksum = Definition
<1> DEFINE cell == [c \in Cells |-> SumMod(rowRemainders(c), Indices)]
<1>0. kModulo \in Nat \ {0} BY ChecksumAssumption
<1>1. ServerChecksum = SumMod(cell, Cells) BY DEF ServerChecksum, rowRemainders
<1>2. ASSUME NEW c \in Cells
      PROVE  /\ cell[c] \in Int
             /\ cell[c] % kModulo = Sum(Term, Share(Products, cellOf, c)) % kModulo
  <2>1. /\ Summable(Indices, rowRemainders(c), Indices)
        /\ Sum(rowRemainders(c), Indices) % kModulo =
             Sum(Term, Share(Products, cellOf, c)) % kModulo
    BY RowOfCell
  <2>2. Sum(rowRemainders(c), Indices) \in Int BY <2>1, SumInt
  <2>3. cell[c] = Sum(rowRemainders(c), Indices) % kModulo BY <2>1, SumModIs
  <2>4. (Sum(rowRemainders(c), Indices) % kModulo) \in Int BY <1>0, <2>2, DivMod
  <2> HIDE DEF cell
  <2> QED BY <1>0, <2>1, <2>2, <2>3, <2>4, ModOfMod
<1>3. cell \in [Cells -> Int] BY <1>2
<1> HIDE DEF cell
<1>4. Summable(Cells, cell, Cells) /\ Sum(cell, Cells) % kModulo = Definition
  BY <1>2, <1>3, CellsSum
<1> QED BY <1>1, <1>4, SumModIs

\* v1 reduces as it adds.
LEMMA V1Exact ==
  ASSUME Challenge
  PROVE  V1Checksum = Definition
<1> DEFINE C == [c \in Cells |-> SumMod(row(c), Indices)]
<1>0. kModulo \in Nat \ {0} BY ChecksumAssumption
<1>1. V1Checksum = SumMod(C, Cells) BY DEF V1Checksum, row
<1>2. ASSUME NEW c \in Cells
      PROVE  /\ C[c] \in Int
             /\ C[c] % kModulo = Sum(Term, Share(Products, cellOf, c)) % kModulo
  <2>1. /\ Summable(Indices, row(c), Indices)
        /\ Sum(row(c), Indices) = Sum(Term, Share(Products, cellOf, c))
    BY RowOfCell
  <2>2. Sum(row(c), Indices) \in Int BY <2>1, SumInt
  <2>3. C[c] = Sum(row(c), Indices) % kModulo BY <2>1, SumModIs
  <2>4. (Sum(row(c), Indices) % kModulo) \in Int BY <1>0, <2>2, DivMod
  <2> HIDE DEF C
  <2> QED BY <1>0, <2>1, <2>2, <2>3, <2>4, ModOfMod
<1>3. C \in [Cells -> Int] BY <1>2
<1> HIDE DEF C
<1>4. Summable(Cells, C, Cells) /\ Sum(C, Cells) % kModulo = Definition
  BY <1>2, <1>3, CellsSum
<1> QED BY <1>1, <1>4, SumModIs

-----------------------------------------------------------------------------
(* Blocks.                                                                 *)

LEMMA InSpan ==
  ASSUME NEW b \in Int, NEW to \in Int, NEW i
  PROVE  i \in Span(b, to) <=> i \in Int /\ b <= i /\ i < b + kComputeTile /\ i < to
<1>1. kComputeTile \in Nat \ {0} BY ChecksumAssumption
<1> DEFINE S == {b + kComputeTile, to}
           m == Min(S)
<1>2. m \in S /\ \A x \in S : m <= x
  <2>1. \E y \in S : \A x \in S : y <= x BY <1>1
  <2> QED BY <2>1 DEF Min
<1>3. Span(b, to) = b .. m - 1 BY DEF Span
<1>4. /\ m = b + kComputeTile \/ m = to
      /\ m <= b + kComputeTile /\ m <= to
  BY <1>2
<1> HIDE DEF m
<1> QED BY <1>1, <1>3, <1>4

\* The block that begins at a multiple of the step.
LEMMA InSteps ==
  ASSUME NEW from \in Int, NEW to \in Int, NEW i \in from .. to - 1
  PROVE  /\ \E b \in Steps(from, to) : i \in Span(b, to)
         /\ \A b \in Steps(from, to), d \in Steps(from, to) :
               i \in Span(b, to) /\ i \in Span(d, to) => b = d
<1>1. PICK K \in Nat \ {0} : K = kComputeTile BY ChecksumAssumption
<1>2. i - from \in Int OBVIOUS
<1>3. PICK q \in Int, r \in 0 .. K - 1 : i - from = K * q + r BY <1>2, DivMod
<1>4. \E b \in Steps(from, to) : i \in Span(b, to)
  <2>1. PICK b \in Int : b = from + K * q BY <1>3
  <2>2. b <= i /\ i < b + K /\ b - from = K * q BY <1>3, <2>1
  <2>3. b >= from
    <3>1. CASE q >= 0
      <4>1. K * q >= 0 BY <1>3, <3>1
      <4> QED BY <1>3, <2>1, <4>1
    <3>2. CASE q <= -1
      <4>1. K * q <= -K BY <1>3, <3>2
      <4> QED BY <1>3, <3>2, <4>1
    <3> QED BY <1>3, <3>1, <3>2
  <2>4. (b - from) % K = 0
    <3>1. 0 \in 0 .. K - 1 BY <1>1
    <3>2. (K * q + 0) % K = 0 BY <3>1, Remainder
    <3> QED BY <1>3, <2>2, <3>2
  <2>5. b \in from .. to - 1 BY <2>2, <2>3
  <2>6. b \in Steps(from, to) BY <1>1, <2>4, <2>5 DEF Steps
  <2>7. i \in Span(b, to) BY <1>1, <2>2, InSpan
  <2> QED BY <2>6, <2>7
<1>5. ASSUME NEW b \in Steps(from, to), NEW d \in Steps(from, to),
             i \in Span(b, to), i \in Span(d, to), b < d
      PROVE  FALSE
  <2>1. b \in Int /\ d \in Int /\ (b - from) % K = 0 /\ (d - from) % K = 0
    BY <1>1 DEF Steps
  <2>2. d <= i /\ i < b + K BY <1>1, <1>5, <2>1, InSpan
  <2>3. PICK e \in 1 .. K - 1 : d = b + e
    <3>1. d - b \in 1 .. K - 1 /\ d = b + (d - b) BY <1>5, <2>1, <2>2
    <3> QED BY <3>1
  <2>4. PICK p \in Int : b - from = K * p
    <3>1. PICK a \in Int : a = b - from BY <2>1
    <3>2. a % K = 0 BY <2>1, <3>1
    <3>3. PICK p \in Int, s \in 0 .. K - 1 : s = a % K /\ a = K * p + s BY DivMod
    <3>4. b - from = K * p BY <3>1, <3>2, <3>3
    <3> QED BY <3>4
  <2>5. (K * p + e) % K = e
    <3>1. e \in 0 .. K - 1 BY <2>3
    <3> QED BY <3>1, Remainder
  <2>6. d - from = K * p + e BY <2>1, <2>3, <2>4
  <2> QED BY <2>1, <2>3, <2>5, <2>6
<1>6. ASSUME NEW b \in Steps(from, to), NEW d \in Steps(from, to),
             i \in Span(b, to), i \in Span(d, to)
      PROVE  b = d
  <2>1. b \in Int /\ d \in Int BY DEF Steps
  <2>2. ~(b < d) /\ ~(d < b) BY <1>5, <1>6
  <2> QED BY <2>1, <2>2
<1> QED BY <1>4, <1>6

\* The products of the rows from .. to - 1.
RowTerms(from, to) == (from .. to - 1) \X Indices \X Indices

\* Every product of the rows has one turn: that of the block it is in.
LEMMA TurnsOfRows ==
  ASSUME Challenge, NEW from \in Nat, NEW to \in Nat, to <= N
  PROVE  /\ \A t \in Turns(from, to) : t[2] \in RowTerms(from, to)
         /\ \A x \in RowTerms(from, to) : \E t \in Turns(from, to) : t[2] = x
         /\ \A t \in Turns(from, to), u \in Turns(from, to) : t[2] = u[2] => t = u
<1> DEFINE Blocks == Steps(from, to) \X Steps(0, N) \X Steps(0, N)
<1>0. N \in Nat BY DEF Challenge
<1>1. ASSUME NEW t \in Turns(from, to)
      PROVE  /\ t[1] \in Blocks /\ t = <<t[1], t[2]>>
             /\ t[2] \in BlockTerms(t[1], to)
             /\ t[2] = <<t[2][1], t[2][2], t[2][3]>>
  BY DEF Turns, BlockTerms
<1>2. ASSUME NEW t \in Turns(from, to)
      PROVE  /\ t[1][1] \in Steps(from, to) /\ t[2][1] \in Span(t[1][1], to)
             /\ t[1][2] \in Steps(0, N) /\ t[2][2] \in Span(t[1][2], N)
             /\ t[1][3] \in Steps(0, N) /\ t[2][3] \in Span(t[1][3], N)
             /\ t[1] = <<t[1][1], t[1][2], t[1][3]>>
  BY <1>1 DEF BlockTerms
<1>3. ASSUME NEW a \in Int, NEW b \in Int, NEW d \in Steps(a, b), NEW i \in Span(d, b)
      PROVE  i \in a .. b - 1
  <2>1. d \in Int /\ a <= d BY <1>3 DEF Steps
  <2>2. i \in Int /\ d <= i /\ i < b BY <1>3, <2>1, InSpan
  <2> QED BY <2>1, <2>2
<1>4. ASSUME NEW t \in Turns(from, to) PROVE t[2] \in RowTerms(from, to)
  <2>1. /\ t[2][1] \in from .. to - 1
        /\ t[2][2] \in 0 .. N - 1
        /\ t[2][3] \in 0 .. N - 1
    BY <1>0, <1>2, <1>3
  <2> QED BY <1>1, <2>1 DEF RowTerms, Indices
<1>5. ASSUME NEW i \in 0 .. N - 1 PROVE \E b \in Steps(0, N) : i \in Span(b, N)
  <2>1. N \in Int /\ 0 \in Int BY <1>0
  <2> QED BY <2>1, InSteps
<1>6. ASSUME NEW x \in RowTerms(from, to) PROVE \E t \in Turns(from, to) : t[2] = x
  <2>1. /\ x[1] \in from .. to - 1 /\ x[2] \in 0 .. N - 1 /\ x[3] \in 0 .. N - 1
        /\ x = <<x[1], x[2], x[3]>>
    BY DEF RowTerms, Indices
  <2>2. PICK b1 \in Steps(from, to) : x[1] \in Span(b1, to) BY <2>1, InSteps
  <2>3. PICK b2 \in Steps(0, N) : x[2] \in Span(b2, N) BY <1>5, <2>1
  <2>4. PICK b3 \in Steps(0, N) : x[3] \in Span(b3, N) BY <1>5, <2>1
  <2> DEFINE b == <<b1, b2, b3>>
             t == <<b, x>>
  <2>5. b \in Blocks /\ x \in BlockTerms(b, to)
    BY <2>1, <2>2, <2>3, <2>4 DEF BlockTerms
  <2>6. t \in Turns(from, to) BY <2>5 DEF Turns
  <2> QED BY <2>6
<1>7. ASSUME NEW t \in Turns(from, to), NEW u \in Turns(from, to), t[2] = u[2]
      PROVE  t = u
  <2>1. t[1][1] = u[1][1]
    <3>1. t[2][1] \in from .. to - 1 BY <1>2, <1>3
    <3>2. u[2][1] \in Span(u[1][1], to) /\ u[2][1] = t[2][1] BY <1>2, <1>7
    <3> QED BY <1>2, <3>1, <3>2, InSteps
  <2>2. t[1][2] = u[1][2]
    <3>1. t[2][2] \in 0 .. N - 1 BY <1>0, <1>2, <1>3
    <3>2. u[2][2] \in Span(u[1][2], N) /\ u[2][2] = t[2][2] BY <1>2, <1>7
    <3> QED BY <1>0, <1>2, <3>1, <3>2, InSteps
  <2>3. t[1][3] = u[1][3]
    <3>1. t[2][3] \in 0 .. N - 1 BY <1>0, <1>2, <1>3
    <3>2. u[2][3] \in Span(u[1][3], N) /\ u[2][3] = t[2][3] BY <1>2, <1>7
    <3> QED BY <1>0, <1>2, <3>1, <3>2, InSteps
  <2> QED BY <1>1, <1>2, <1>7, <2>1, <2>2, <2>3
<1> QED BY <1>4, <1>6, <1>7

-----------------------------------------------------------------------------
(* The partial sums of the workers.                                        *)

\* A quotient is found by the multiples next to it.
LEMMA QuotientBounds ==
  ASSUME NEW a \in Nat, NEW K \in Nat \ {0}, NEW t \in Nat
  PROVE  /\ a \div K \in Nat
         /\ a < K * t + K => a \div K <= t
         /\ K * t <= a => t <= a \div K
<1>1. PICK q \in Nat : q = a \div K /\ K * q <= a /\ a < K * q + K OBVIOUS
<1>2. ASSUME a < K * t + K, q > t PROVE FALSE
  <2>1. PICK d \in Nat : q = t + 1 + d
    <3>1. q - t - 1 \in Nat /\ q = t + 1 + (q - t - 1) BY <1>2
    <3> QED BY <3>1
  <2>2. K * q = K * t + K + K * d BY <2>1
  <2>3. K * d >= 0 OBVIOUS
  <2> QED BY <1>1, <1>2, <2>2, <2>3
<1>3. ASSUME K * t <= a, q < t PROVE FALSE
  <2>1. PICK d \in Nat : t = q + 1 + d
    <3>1. t - q - 1 \in Nat /\ t = q + 1 + (t - q - 1) BY <1>3
    <3> QED BY <3>1
  <2>2. K * t = K * q + K + K * d BY <2>1
  <2>3. K * d >= 0 OBVIOUS
  <2> QED BY <1>1, <1>3, <2>2, <2>3
<1> QED BY <1>1, <1>2, <1>3

\* The rows begin in the order of the workers and end with the matrix.
LEMMA StartRowUp ==
  ASSUME N \in Nat, NEW w \in Nat, NEW v \in Nat, w <= v
  PROVE  /\ StartRow(w) \in Nat /\ StartRow(w) <= StartRow(v)
         /\ v = kComputeWorkers => StartRow(v) = N
<1>1. PICK K \in Nat \ {0} : K = kComputeWorkers BY ChecksumAssumption
<1>2. PICK n \in Nat, d \in Nat : n = N /\ v = w + d
  <2>1. v - w \in Nat /\ v = w + (v - w) OBVIOUS
  <2> QED BY <2>1
<1>3. PICK a \in Nat, b \in Nat : a = w * n /\ b = v * n /\ a <= b
  <2>1. v * n = w * n + d * n /\ d * n >= 0 BY <1>2
  <2> QED BY <2>1
<1>4. StartRow(w) = a \div K /\ StartRow(v) = b \div K BY <1>1, <1>2, <1>3 DEF StartRow
<1>5. PICK q \in Nat : q = a \div K /\ K * q <= a OBVIOUS
<1>6. q <= b \div K
  <2>1. K * q <= b BY <1>3, <1>5
  <2> QED BY <2>1, QuotientBounds
<1>7. v = K => b \div K = n
  <2> SUFFICES ASSUME v = K PROVE b \div K = n OBVIOUS
  <2>1. b = K * n BY <1>3
  <2>2. K * n <= b /\ b < K * n + K BY <2>1
  <2>3. b \div K \in Nat /\ b \div K <= n /\ n <= b \div K BY <2>2, QuotientBounds
  <2> QED BY <2>3
<1> QED BY <1>1, <1>2, <1>4, <1>5, <1>6, <1>7

LEMMA RowsInRange ==
  ASSUME Challenge, NEW w \in Workers
  PROVE  /\ StartRow(w) \in Nat /\ StartRow(w + 1) \in Nat
         /\ StartRow(w + 1) <= N
<1>1. PICK K \in Nat \ {0} : K = kComputeWorkers BY ChecksumAssumption
<1>2. w \in Nat /\ w + 1 \in Nat /\ w + 1 <= K BY <1>1 DEF Workers
<1>3. N \in Nat BY DEF Challenge
<1>4. StartRow(w) \in Nat BY <1>2, <1>3, StartRowUp
<1>5. StartRow(w + 1) \in Nat /\ StartRow(w + 1) <= StartRow(K) /\ StartRow(K) = N
  <2>1. PICK u \in Nat : u = w + 1 BY <1>2
  <2>2. StartRow(u) \in Nat /\ StartRow(u) <= StartRow(K) /\ StartRow(K) = N
    BY <1>1, <1>2, <1>3, <2>1, StartRowUp
  <2> QED BY <2>1, <2>2
<1> QED BY <1>4, <1>5

\* No row is in the shares of two workers.
LEMMA RowsApart ==
  ASSUME Challenge, NEW w \in Workers, NEW v \in Workers, NEW i \in Rows(w), i \in Rows(v)
  PROVE  w = v
<1>1. ASSUME NEW a \in Workers, NEW b \in Workers, a < b, i \in Rows(a), i \in Rows(b)
      PROVE  FALSE
  <2>1. PICK u \in Nat : u = a + 1 /\ u <= b BY <1>1, ChecksumAssumption DEF Workers
  <2>2. b \in Nat /\ N \in Nat BY ChecksumAssumption DEF Workers, Challenge
  <2>3. StartRow(u) \in Nat /\ StartRow(u) <= StartRow(b) BY <2>1, <2>2, StartRowUp
  <2>4. i \in Int /\ i < StartRow(u) /\ StartRow(b) <= i /\ StartRow(b) \in Nat
    BY <1>1, <2>1, RowsInRange DEF Rows
  <2> QED BY <2>3, <2>4
<1>2. ~(w < v) /\ ~(v < w) BY <1>1
<1> QED BY <1>2, ChecksumAssumption DEF Workers

\* Every row is in one, though they may not divide evenly.
LEMMA RowsCover ==
  ASSUME Challenge, NEW i \in Indices
  PROVE  \E w \in Workers : i \in Rows(w)
<1>1. PICK K \in Nat \ {0} : K = kComputeWorkers BY ChecksumAssumption
<1>2. PICK n \in Nat \ {0} : n = N /\ i \in Nat /\ i + 1 <= n BY DEF Challenge, Indices
<1>3. PICK b \in Nat : b = K * i + K - 1
  <2>1. K * i >= 0 /\ K * i \in Nat BY <1>2
  <2> QED BY <2>1
<1>4. PICK w \in Nat : w = b \div n /\ n * w <= b /\ b < n * w + n OBVIOUS
<1>5. w <= K - 1
  <2>1. K - 1 \in Nat OBVIOUS
  <2>2. PICK d \in Nat : n = i + 1 + d
    <3>1. n - i - 1 \in Nat /\ n = i + 1 + (n - i - 1) BY <1>2
    <3> QED BY <3>1
  <2>3. K * n = K * i + K + K * d /\ K * d >= 0 BY <1>2, <2>2
  <2>4. n * (K - 1) + n = K * n OBVIOUS
  <2>5. b < n * (K - 1) + n BY <1>2, <1>3, <2>3, <2>4
  <2> QED BY <1>4, <2>1, <2>5, QuotientBounds
<1>6. w \in Workers BY <1>1, <1>4, <1>5 DEF Workers
<1>7. PICK a \in Nat, c \in Nat : a = w * n /\ c = (w + 1) * n /\ a = n * w /\ c = n * w + n
  BY <1>4
<1>8. StartRow(w) <= i
  <2>1. a < K * i + K BY <1>2, <1>3, <1>4, <1>7
  <2>2. a \div K <= i BY <1>2, <2>1, QuotientBounds
  <2> QED BY <1>1, <1>2, <1>7, <2>2 DEF StartRow
<1>9. i + 1 <= StartRow(w + 1)
  <2>1. PICK j \in Nat : j = i + 1 BY <1>2
  <2>2. K * j = K * i + K BY <1>2, <2>1
  <2>3. K * j <= c BY <1>2, <1>3, <1>4, <1>7, <2>2
  <2>4. j <= c \div K BY <2>1, <2>3, QuotientBounds
  <2> QED BY <1>1, <1>2, <1>7, <2>1, <2>4 DEF StartRow
<1>10. i \in Rows(w)
  <2>1. StartRow(w) \in Nat /\ StartRow(w + 1) \in Nat BY <1>6, RowsInRange
  <2> QED BY <1>2, <1>8, <1>9, <2>1 DEF Rows
<1> QED BY <1>6, <1>10

\* parserThread's sum, when each product is in the partial sum of one worker.
LEMMA GatheredExact ==
  ASSUME Challenge, NEW key, \A x \in Products : key[x] \in Workers,
         \A w \in Workers : Partial(w) = Sum(Term, Share(Products, key, w)) % kModulo
  PROVE  Gathered = Definition
<1> DEFINE p == [w \in Workers |-> Partial(w)]
<1>0. kModulo \in Nat \ {0} BY ChecksumAssumption
<1>1. Summable(Products, Term, Products) BY TermsSummable
<1>2. ASSUME NEW w \in Workers
      PROVE  /\ p[w] \in 0 .. kModulo - 1
             /\ p[w] % kModulo = Sum(Term, Share(Products, key, w)) % kModulo
  <2>1. Share(Products, key, w) \subseteq Products BY DEF Share
  <2>2. Summable(Products, Term, Share(Products, key, w)) BY <1>1, <2>1, PartSummable
  <2>3. Sum(Term, Share(Products, key, w)) \in Int BY <2>2, SumInt
  <2>4. p[w] = Sum(Term, Share(Products, key, w)) % kModulo OBVIOUS
  <2>5. (Sum(Term, Share(Products, key, w)) % kModulo) \in 0 .. kModulo - 1
    BY <1>0, <2>3, DivMod
  <2> HIDE DEF p
  <2> QED BY <1>0, <2>3, <2>4, <2>5, ModOfMod
<1>3. Summable(Workers, p, Workers)
  <2>1. IsFiniteSet(Workers) /\ Workers \in SUBSET Workers
    BY FS_Interval, ChecksumAssumption DEF Workers
  <2>2. p \in [Workers -> Int] BY <1>2
  <2> HIDE DEF p
  <2> QED BY <2>1, <2>2 DEF Summable
<1>4. Gathered = SumSub(p, Workers) BY DEF Gathered
<1> HIDE DEF p
<1>5. SumSub(p, Workers) = Sum(p, Workers) % kModulo BY <1>2, <1>3, SumSubIs
<1>6. Sum(p, Workers) % kModulo = Sum(Term, Products) % kModulo
  BY <1>1, <1>2, <1>3, SumOfRemainders
<1> QED BY <1>4, <1>5, <1>6 DEF Definition

\* The products of a worker's rows.
RowsOf(w) == RowTerms(StartRow(w), StartRow(w + 1))

LEMMA RowsOfSummable ==
  ASSUME Challenge, NEW w \in Workers
  PROVE  /\ RowsOf(w) = Rows(w) \X Indices \X Indices
         /\ Rows(w) \subseteq Indices
         /\ RowsOf(w) \subseteq Products
         /\ Summable(Products, Term, RowsOf(w))
<1>1. RowsOf(w) = Rows(w) \X Indices \X Indices BY DEF RowsOf, RowTerms, Rows
<1>2. Rows(w) \subseteq Indices
  BY RowsInRange DEF Rows, Indices, Challenge
<1>3. RowsOf(w) \subseteq Products BY <1>1, <1>2 DEF Products
<1>4. Summable(Products, Term, Products) BY TermsSummable
<1>5. Summable(Products, Term, RowsOf(w)) BY <1>3, <1>4, PartSummable
<1> QED BY <1>1, <1>2, <1>3, <1>5

\* parserThread's sum, when each worker adds up the products of its rows.
LEMMA ByRowsExact ==
  ASSUME Challenge,
         \A w \in Workers : Partial(w) = Sum(Term, RowsOf(w)) % kModulo
  PROVE  Gathered = Definition
<1> DEFINE key == [x \in Products |-> CHOOSE w \in Workers : x[1] \in Rows(w)]
<1>1. ASSUME NEW x \in Products PROVE key[x] \in Workers /\ x[1] \in Rows(key[x])
  <2>1. x[1] \in Indices BY DEF Products
  <2>2. \E w \in Workers : x[1] \in Rows(w) BY <2>1, RowsCover
  <2> QED BY <2>2
<1>2. ASSUME NEW w \in Workers PROVE Share(Products, key, w) = RowsOf(w)
  <2>1. ASSUME NEW x \in Products PROVE key[x] = w <=> x[1] \in Rows(w)
    <3> HIDE DEF key
    <3> QED BY <1>1, RowsApart
  <2>2. RowsOf(w) = {x \in Products : x[1] \in Rows(w)}
    BY RowsOfSummable DEF Products
  <2> HIDE DEF key
  <2> QED BY <2>1, <2>2 DEF Share
<1> HIDE DEF key
<1>3. \A w \in Workers : Partial(w) = Sum(Term, Share(Products, key, w)) % kModulo
  BY <1>2
<1> QED BY <1>1, <1>3, GatheredExact

\* v2: the remainders of the cells of its rows, each the reduced sum of remainders.
LEMMA V2Exact ==
  ASSUME Challenge, program = "v2"
  PROVE  Gathered = Definition
<1>0. kModulo \in Nat \ {0} BY ChecksumAssumption
<1> SUFFICES ASSUME NEW w \in Workers
             PROVE  Partial(w) = Sum(Term, RowsOf(w)) % kModulo
  BY ByRowsExact
<1> DEFINE E == Rows(w) \X Indices
           cij == [c \in E |-> SumSub(rowRemainders(c), Indices)]
<1>1. Partial(w) = SumSub(cij, E) BY DEF Partial, V2Partial, rowRemainders
<1>2. E \subseteq Cells BY RowsOfSummable DEF Cells
<1>3. ASSUME NEW c \in E PROVE Share(RowsOf(w), cellOf, c) = Share(Products, cellOf, c)
  BY RowsOfSummable DEF Share, cellOf, Products
<1>4. ASSUME NEW c \in E
      PROVE  /\ cij[c] \in 0 .. kModulo - 1
             /\ cij[c] % kModulo = Sum(Term, Share(RowsOf(w), cellOf, c)) % kModulo
  <2>1. c \in Cells BY <1>2
  <2>2. /\ Summable(Indices, rowRemainders(c), Indices)
        /\ \A k \in Indices : rowRemainders(c)[k] \in 0 .. kModulo - 1
        /\ Sum(rowRemainders(c), Indices) % kModulo =
             Sum(Term, Share(Products, cellOf, c)) % kModulo
    BY <2>1, RowOfCell
  <2>3. Sum(rowRemainders(c), Indices) \in Int BY <2>2, SumInt
  <2>4. cij[c] = Sum(rowRemainders(c), Indices) % kModulo BY <2>2, SumSubIs
  <2>5. (Sum(rowRemainders(c), Indices) % kModulo) \in 0 .. kModulo - 1
    BY <1>0, <2>3, DivMod
  <2> HIDE DEF cij
  <2> QED BY <1>0, <1>3, <2>2, <2>3, <2>4, <2>5, ModOfMod
<1>5. Summable(E, cij, E)
  <2>1. IsFiniteSet(E) /\ E \in SUBSET E BY <1>2, TermsSummable, FS_Subset
  <2>2. cij \in [E -> Int] BY <1>4
  <2> HIDE DEF E, cij
  <2> QED BY <2>1, <2>2 DEF Summable
<1>6. \A x \in RowsOf(w) : cellOf[x] \in E
  BY RowsOfSummable DEF cellOf
<1>7. Summable(Products, Term, RowsOf(w)) BY RowsOfSummable
<1> HIDE DEF cij, E
<1>8. SumSub(cij, E) = Sum(cij, E) % kModulo BY <1>4, <1>5, SumSubIs
<1>9. Sum(cij, E) % kModulo = Sum(Term, RowsOf(w)) % kModulo
  BY <1>4, <1>5, <1>6, <1>7, SumOfRemainders
<1> QED BY <1>1, <1>8, <1>9

\* What the innermost loop adds in a turn.
turnTerms(from, to) == [t \in Turns(from, to) |-> Term[t[2]]]

\* A part of the turns, and the products they are of.
LEMMA TurnsSum ==
  ASSUME Challenge, NEW from \in Nat, NEW to \in Nat, to <= N,
         NEW S, S \subseteq Turns(from, to)
  PROVE  /\ Summable(Turns(from, to), turnTerms(from, to), S)
         /\ Sum(turnTerms(from, to), S) = Sum(Term, {t[2] : t \in S})
<1> DEFINE turns == Turns(from, to)
           f == [t \in turns |-> Term[t[2]]]
           at == [t \in turns |-> t[2]]
           T == {t[2] : t \in S}
<1>1. /\ \A t \in turns : t[2] \in RowTerms(from, to)
      /\ \A t \in turns, u \in turns : t[2] = u[2] => t = u
  BY TurnsOfRows
<1>2. RowTerms(from, to) \subseteq Products
  BY DEF RowTerms, Products, Indices, Challenge
<1>3. IsFiniteSet(Products) /\ Summable(Products, Term, Products) BY TermsSummable
<1>4. Summable(turns, f, S)
  <2>1. f \in [turns -> Int]
    <3>1. \A t \in turns : Term[t[2]] \in Int BY <1>1, <1>2, <1>3 DEF Summable
    <3> HIDE DEF turns
    <3> QED BY <3>1
  <2>2. IsFiniteSet(S)
    <3> DEFINE h == [t \in S |-> t[2]]
    <3>1. h \in Injection(S, Products)
      <4>1. \A t \in S : h[t] \in Products BY <1>1, <1>2
      <4>2. \A t \in S, u \in S : h[t] = h[u] => t = u BY <1>1
      <4> QED BY <4>1, <4>2 DEF Injection, IsInjective
    <3> HIDE DEF h
    <3> QED BY <1>3, <3>1, FS_Injection
  <2> HIDE DEF f
  <2> QED BY <2>1, <2>2 DEF Summable
<1>5. Summable(Products, Term, T)
  <2>1. T \subseteq Products BY <1>1, <1>2
  <2> HIDE DEF T
  <2> QED BY <1>3, <2>1, PartSummable
<1>6. /\ \A t \in S : at[t] \in T /\ f[t] = Term[at[t]]
      /\ \A y \in T : \E t \in S : at[t] = y
      /\ \A t \in S, u \in S : at[t] = at[u] => t = u
  BY <1>1
<1> HIDE DEF f, T, at, turns
<1>7. Sum(f, S) = Sum(Term, T) BY <1>4, <1>5, <1>6, SumRenamed
<1> QED BY <1>4, <1>7 DEF f, T, turns, turnTerms

\* v3: the remainders of the products, block by block.
LEMMA V3Exact ==
  ASSUME Challenge, program = "v3"
  PROVE  Gathered = Definition
<1>0. kModulo \in Nat \ {0} BY ChecksumAssumption
<1> SUFFICES ASSUME NEW w \in Workers
             PROVE  Partial(w) = Sum(Term, RowsOf(w)) % kModulo
  BY ByRowsExact
<1> DEFINE turns == Turns(StartRow(w), StartRow(w + 1))
           f == [t \in turns |-> Term[t[2]]]
           g == [t \in turns |-> Term[t[2]] % kModulo]
<1>1. Partial(w) = SumSub(g, turns) BY DEF Partial, V3Partial
<1>2. StartRow(w) \in Nat /\ StartRow(w + 1) \in Nat /\ StartRow(w + 1) <= N
  BY RowsInRange
<1>3. Summable(turns, f, turns) /\ Sum(f, turns) = Sum(Term, {t[2] : t \in turns})
  <2>1. turns \subseteq turns OBVIOUS
  <2> QED BY <1>2, <2>1, TurnsSum DEF turnTerms
<1>4. {t[2] : t \in turns} = RowsOf(w) BY <1>2, TurnsOfRows DEF RowsOf
<1>5. ASSUME NEW t \in turns
      PROVE  g[t] \in 0 .. kModulo - 1 /\ g[t] % kModulo = f[t] % kModulo
  <2>1. f[t] \in Int
    <3> HIDE DEF f, turns
    <3> QED BY <1>3 DEF Summable
  <2>2. g[t] = f[t] % kModulo OBVIOUS
  <2> HIDE DEF f, g
  <2>3. (f[t] % kModulo) \in 0 .. kModulo - 1 BY <1>0, <2>1, DivMod
  <2> QED BY <1>0, <2>1, <2>2, <2>3, ModOfMod
<1>6. Summable(turns, g, turns)
  <2>1. g \in [turns -> Int]
    <3>1. \A t \in turns : g[t] \in Int BY <1>5
    <3> HIDE DEF turns
    <3> QED BY <3>1
  <2> HIDE DEF f, g, turns
  <2> QED BY <1>3, <2>1 DEF Summable
<1> HIDE DEF f, g, turns
<1>7. SumSub(g, turns) = Sum(g, turns) % kModulo BY <1>5, <1>6, SumSubIs
<1>8. Sum(g, turns) % kModulo = Sum(f, turns) % kModulo BY <1>3, <1>5, <1>6, SumCongruent
<1> QED BY <1>1, <1>3, <1>4, <1>7, <1>8

\* The team client: one remainder for each cell, and the sums of its threads.
LEMMA TeamExact ==
  ASSUME Challenge, taker \in [Cells -> Workers]
  PROVE  TeamChecksum = Definition
<1> DEFINE turns == Turns(0, N)
           f == turnTerms(0, N)
           ofCell(c) == {t \in turns : <<t[2][1], t[2][3]>> = c}
           C == [c \in Cells |-> Sum(f, ofCell(c)) % kModulo]
           private == [w \in Workers |-> SumMod(C, Share(Cells, taker, w))]
           total == Sum(private, Workers)
<1>0. kModulo \in Nat \ {0} BY ChecksumAssumption
<1>1. TeamChecksum = ((total % kModulo) + kModulo) % kModulo
  BY DEF TeamChecksum, Share, turnTerms
<1>2. 0 \in Nat /\ N \in Nat /\ N <= N BY DEF Challenge
<1>3. /\ \A t \in turns : t[2] \in Products
      /\ \A x \in Products : \E t \in turns : t[2] = x
  BY <1>2, TurnsOfRows DEF RowTerms, Products, Indices
<1>4. ASSUME NEW c \in Cells
      PROVE  /\ Summable(turns, f, ofCell(c))
             /\ Sum(f, ofCell(c)) = Sum(Term, Share(Products, cellOf, c))
  <2> DEFINE S == ofCell(c)
  <2>1. S \subseteq turns OBVIOUS
  <2>2. {t[2] : t \in S} = Share(Products, cellOf, c)
    BY <1>3 DEF Share, cellOf
  <2>3. Summable(turns, f, S) /\ Sum(f, S) = Sum(Term, {t[2] : t \in S})
    <3> HIDE DEF S
    <3> QED BY <1>2, <2>1, TurnsSum
  <2> QED BY <2>2, <2>3
<1> HIDE DEF f, ofCell
<1>5. ASSUME NEW c \in Cells
      PROVE  /\ C[c] \in Int
             /\ C[c] % kModulo = Sum(Term, Share(Products, cellOf, c)) % kModulo
  <2>1. Sum(f, ofCell(c)) \in Int BY <1>4, SumInt
  <2>2. C[c] = Sum(f, ofCell(c)) % kModulo OBVIOUS
  <2>3. (Sum(f, ofCell(c)) % kModulo) \in Int BY <1>0, <2>1, DivMod
  <2> HIDE DEF C
  <2> QED BY <1>0, <1>4, <2>1, <2>2, <2>3, ModOfMod
<1>6. Summable(Cells, C, Cells) /\ Sum(C, Cells) % kModulo = Definition
  <2>1. C \in [Cells -> Int] BY <1>5
  <2> HIDE DEF C
  <2> QED BY <1>5, <2>1, CellsSum
<1> HIDE DEF C
<1>7. ASSUME NEW w \in Workers
      PROVE  /\ private[w] \in Int
             /\ private[w] % kModulo = Sum(C, Share(Cells, taker, w)) % kModulo
  <2> DEFINE S == Share(Cells, taker, w)
  <2>1. S \subseteq Cells BY DEF Share
  <2>2. private[w] = SumMod(C, S) OBVIOUS
  <2> HIDE DEF S, private
  <2>3. Summable(Cells, C, S) BY <1>6, <2>1, PartSummable
  <2>4. SumMod(C, S) = Sum(C, S) % kModulo BY <2>3, SumModIs
  <2>5. Sum(C, S) \in Int BY <2>3, SumInt
  <2>6. (Sum(C, S) % kModulo) \in Int BY <1>0, <2>5, DivMod
  <2>7. (Sum(C, S) % kModulo) % kModulo = Sum(C, S) % kModulo BY <1>0, <2>5, ModOfMod
  <2> QED BY <2>2, <2>4, <2>6, <2>7 DEF S
<1>8. Summable(Workers, private, Workers)
  <2>1. IsFiniteSet(Workers) /\ Workers \in SUBSET Workers
    BY FS_Interval, ChecksumAssumption DEF Workers
  <2>2. private \in [Workers -> Int] BY <1>7
  <2> HIDE DEF private
  <2> QED BY <2>1, <2>2 DEF Summable
<1> HIDE DEF private
<1>9. total % kModulo = Sum(C, Cells) % kModulo
  <2>1. \A c \in Cells : taker[c] \in Workers OBVIOUS
  <2> QED BY <1>6, <1>7, <1>8, <2>1, SumOfRemainders
<1>10. total \in Int BY <1>8, SumInt
<1> HIDE DEF total
<1>11. PICK r \in 0 .. kModulo - 1 : r = total % kModulo BY <1>0, <1>10, DivMod
<1>12. (r + kModulo) % kModulo = r BY <1>0, SmallMod
<1> QED BY <1>1, <1>6, <1>9, <1>11, <1>12

-----------------------------------------------------------------------------
(* Tiles.                                                                  *)

\* The product of a turn is in one tile: the one of its three quotients.
tileOf ==
  [x \in Products |->
    ((x[1] \div kComputeTile) * TilesPerSide + (x[2] \div kComputeTile)) * TilesPerSide
      + (x[3] \div kComputeTile)]

\* The quotient of an index is that of a tile of its side.
LEMMA InTiles ==
  ASSUME NEW n \in Nat, NEW K \in Nat \ {0}, NEW i \in 0 .. n - 1
  PROVE  i \div K \in 0 .. ((n + K - 1) \div K) - 1
<1>1. PICK q \in Nat : q = i \div K /\ K * q <= i OBVIOUS
<1>2. PICK a \in Nat, u \in Nat : a = n + K - 1 /\ u = q + 1 OBVIOUS
<1>3. K * u = K * q + K BY <1>2
<1>4. K * u <= a BY <1>1, <1>2, <1>3
<1>5. a \div K \in Nat /\ u <= a \div K BY <1>4, QuotientBounds
<1> QED BY <1>1, <1>2, <1>5

\* tile is written i, k, j in base P.
Digits(P, tile, i, k, j) ==
  /\ P \in Nat \ {0}
  /\ i \in 0 .. P - 1 /\ k \in 0 .. P - 1 /\ j \in 0 .. P - 1
  /\ tile = (i * P + k) * P + j

\* Its digits are what the divisions return.
LEMMA DigitsOf ==
  ASSUME NEW P, NEW i, NEW k, NEW j, NEW tile, Digits(P, tile, i, k, j)
  PROVE  /\ tile \in 0 .. P * P * P - 1
         /\ tile % P = j /\ (tile \div P) % P = k /\ tile \div (P * P) = i
<1> SUFFICES ASSUME P \in Nat \ {0}, i \in 0 .. P - 1, k \in 0 .. P - 1, j \in 0 .. P - 1,
                    tile = (i * P + k) * P + j
             PROVE  /\ tile \in 0 .. P * P * P - 1
                    /\ tile % P = j /\ (tile \div P) % P = k /\ tile \div (P * P) = i
  BY DEF Digits
<1>0. PICK I \in Nat, D \in Nat : I = i /\ P = I + 1 + D
  <2>1. i \in Nat /\ P - i - 1 \in Nat /\ P = i + 1 + (P - i - 1) OBVIOUS
  <2> QED BY <2>1
<1>1. PICK u \in Nat : u = i * P + k
  <2>1. i * P >= 0 /\ i * P \in Nat BY <1>0
  <2> QED BY <2>1
<1>2. tile = P * u + j BY <1>1
<1>3. tile % P = j /\ tile \div P = u
  <2>1. (P * u + j) % P = j /\ (P * u + j) \div P = u
    <3>1. u \in Int OBVIOUS
    <3> QED BY <3>1, Remainder
  <2> QED BY <1>2, <2>1
<1>4. u = P * i + k BY <1>1
<1>5. u % P = k BY <1>4, Remainder
<1>6. PICK Q \in Nat \ {0}, v \in Nat : Q = P * P /\ v = k * P + j /\ v \in 0 .. Q - 1
  <2>1. k * P + j \in 0 .. P * P - 1 BY FlatIndex
  <2>2. P * P \in Nat \ {0} OBVIOUS
  <2> QED BY <2>1, <2>2
<1>7. tile = Q * i + v
  <2>1. (i * P + k) * P = i * (P * P) + k * P OBVIOUS
  <2> QED BY <1>6, <2>1
<1>8. tile \div Q = i
  <2>1. (Q * I + v) \div Q = I
    <3>1. I \in Int OBVIOUS
    <3> QED BY <1>6, <3>1, Remainder
  <2> QED BY <1>0, <1>7, <2>1
<1>9. tile \in 0 .. P * P * P - 1
  <2>1. P * P * P = Q * I + Q + Q * D BY <1>0, <1>6
  <2>2. Q * D >= 0 /\ Q * I >= 0 BY <1>6
  <2> QED BY <1>0, <1>6, <1>7, <2>1, <2>2
<1> QED BY <1>3, <1>5, <1>6, <1>8, <1>9

\* The tile at i, k, j along the three sides.
Place(tile, i, k, j) == Digits(TilesPerSide, tile, i, k, j)

\* A tile begins at kComputeTile times its place.
LEMMA OriginOf ==
  ASSUME NEW i, NEW k, NEW j, NEW tile, Place(tile, i, k, j)
  PROVE  /\ tile \in Tiles
         /\ Origin(tile) = <<i * kComputeTile, k * kComputeTile, j * kComputeTile>>
BY DigitsOf DEF Place, Tiles, Origin

\* Every tile is at one place.
LEMMA PlaceOfTile ==
  ASSUME TilesPerSide \in Nat, NEW tile \in Tiles
  PROVE  \E i, k, j : Place(tile, i, k, j)
<1>0. PICK P \in Nat : P = TilesPerSide OBVIOUS
<1>1. tile \in 0 .. P * P * P - 1 BY <1>0 DEF Tiles
<1>2. P # 0
  <2>1. P = 0 => P * P * P = 0 OBVIOUS
  <2> QED BY <1>1, <2>1
<1>3. PICK u \in Int, j \in 0 .. P - 1 : tile = P * u + j
  <2>1. tile \in Int /\ P \in Nat \ {0} BY <1>1, <1>2
  <2>2. /\ tile \div P \in Int /\ tile % P \in 0 .. P - 1
        /\ tile = P * (tile \div P) + (tile % P)
    BY <2>1, DivMod
  <2> QED BY <2>2
<1>4. PICK i \in Int, k \in 0 .. P - 1 : u = P * i + k BY <1>2, DivMod
<1>5. tile = (i * P + k) * P + j BY <1>3, <1>4
<1>6. PICK Q \in Nat \ {0}, v \in Nat : Q = P * P /\ v = k * P + j /\ v \in 0 .. Q - 1
  <2>1. k * P + j \in 0 .. P * P - 1 BY <1>2, FlatIndex
  <2>2. P * P \in Nat \ {0} BY <1>2
  <2> QED BY <2>1, <2>2
<1>7. tile = Q * i + v
  <2>1. (i * P + k) * P = i * (P * P) + k * P OBVIOUS
  <2> QED BY <1>5, <1>6, <2>1
<1>8. i >= 0
  <2> SUFFICES ASSUME i <= -1 PROVE FALSE OBVIOUS
  <2>1. Q * i <= -Q BY <1>6
  <2> QED BY <1>1, <1>6, <1>7, <2>1
<1>9. i <= P - 1
  <2> SUFFICES ASSUME i >= P PROVE FALSE OBVIOUS
  <2>1. Q * i >= Q * P
    <3>1. PICK d \in Nat : i = P + d
      <4>1. i - P \in Nat /\ i = P + (i - P) OBVIOUS
      <4> QED BY <4>1
    <3>2. Q * i = Q * P + Q * d /\ Q * d >= 0 BY <1>6, <3>1
    <3> QED BY <3>2
  <2>2. Q * P = P * P * P BY <1>6
  <2>3. PICK c \in Int, d \in Int : c = Q * i /\ d = P * P * P OBVIOUS
  <2>4. c + v \in 0 .. d - 1 /\ c >= d BY <1>1, <1>7, <2>1, <2>2, <2>3
  <2>5. v \in Int /\ v >= 0 BY <1>6
  <2> QED BY <2>4, <2>5
<1>10. Place(tile, i, k, j) BY <1>0, <1>2, <1>5, <1>8, <1>9 DEF Place, Digits
<1> QED BY <1>10

\* The products that the loops of a tile add up are those of that tile.
LEMMA TermsOfTile ==
  ASSUME Challenge, NEW tile \in Tiles
  PROVE  BlockTerms(Origin(tile), N) = Share(Products, tileOf, tile)
<1>0. kComputeTile \in Nat \ {0} /\ N \in Nat BY ChecksumAssumption DEF Challenge
<1>1. PICK K \in Nat \ {0}, n \in Nat : K = kComputeTile /\ n = N BY <1>0
<1>2. PICK P \in Nat : P = TilesPerSide
  <2>1. PICK a \in Nat : a = n + K - 1 OBVIOUS
  <2>2. a \div K \in Nat OBVIOUS
  <2> QED BY <1>1, <2>1, <2>2 DEF TilesPerSide
<1>3. PICK i \in 0 .. P - 1, k \in 0 .. P - 1, j \in 0 .. P - 1 :
        P \in Nat \ {0} /\ Place(tile, i, k, j)
  <2>1. PICK i, k, j : Place(tile, i, k, j) BY <1>2, PlaceOfTile
  <2> QED BY <1>2, <2>1 DEF Place, Digits
<1>4. Origin(tile) = <<i * K, k * K, j * K>>
  <2>1. Origin(tile) = <<i * kComputeTile, k * kComputeTile, j * kComputeTile>>
    BY <1>3, OriginOf
  <2> QED BY <1>1, <2>1
<1>5. ASSUME NEW q \in 0 .. P - 1, NEW x
      PROVE  x \in Span(q * K, N) <=> x \in Indices /\ x \div K = q
  <2>1. PICK b \in Nat : b = q * K /\ b = K * q
    <3>1. q * K >= 0 /\ q * K = K * q OBVIOUS
    <3> QED BY <3>1
  <2>2. x \in Span(b, N) <=> x \in Int /\ b <= x /\ x < b + K /\ x < n
    BY <1>1, InSpan
  <2>3. ASSUME x \in Int, b <= x, x < b + K, x < n PROVE x \in Indices /\ x \div K = q
    <3>1. PICK r \in 0 .. K - 1 : x = K * q + r
      <4>1. x - b \in 0 .. K - 1 /\ x = K * q + (x - b) BY <2>1, <2>3
      <4> QED BY <4>1
    <3>2. (K * q + r) \div K = q BY Remainder
    <3>3. x \in 0 .. n - 1 BY <2>1, <2>3
    <3> QED BY <1>1, <3>1, <3>2, <3>3 DEF Indices
  <2>4. ASSUME x \in Indices, x \div K = q PROVE x \in Int /\ b <= x /\ x < b + K /\ x < n
    <3>1. x \in 0 .. n - 1 BY <1>1, <2>4 DEF Indices
    <3>2. x % K \in 0 .. K - 1 /\ x = K * (x \div K) + (x % K) BY <3>1, DivMod
    <3>3. x = b + (x % K) BY <2>1, <2>4, <3>2
    <3> QED BY <3>1, <3>2, <3>3
  <2> QED BY <2>1, <2>2, <2>3, <2>4
<1>6. ASSUME NEW x \in Products
      PROVE  tileOf[x] = tile <=> x[1] \div K = i /\ x[2] \div K = k /\ x[3] \div K = j
  <2>1. x[1] \in 0 .. n - 1 /\ x[2] \in 0 .. n - 1 /\ x[3] \in 0 .. n - 1
    BY <1>1 DEF Products, Indices
  <2>2. /\ P = (n + K - 1) \div K
        /\ x[1] \div K \in 0 .. P - 1 /\ x[2] \div K \in 0 .. P - 1
        /\ x[3] \div K \in 0 .. P - 1
    BY <1>1, <1>2, <2>1, InTiles DEF TilesPerSide
  <2>3. PICK a \in 0 .. P - 1, b \in 0 .. P - 1, c \in 0 .. P - 1 :
          a = x[1] \div K /\ b = x[2] \div K /\ c = x[3] \div K
    BY <2>2
  <2>4. tileOf[x] = (a * P + b) * P + c BY <1>1, <1>2, <2>3 DEF tileOf
  <2>0. Place(tileOf[x], a, b, c) BY <1>2, <1>3, <2>4 DEF Place, Digits
  <2>5. ASSUME tileOf[x] = tile PROVE a = i /\ b = k /\ c = j
    <3>1. tileOf[x] \in Tiles BY <2>5
    <3>2. Origin(tileOf[x]) = <<a * K, b * K, c * K>>
      <4>1. Origin(tileOf[x]) = <<a * kComputeTile, b * kComputeTile, c * kComputeTile>>
        BY <2>0, OriginOf
      <4> QED BY <1>1, <4>1
    <3>3. a * K = i * K /\ b * K = k * K /\ c * K = j * K BY <1>4, <2>5, <3>2
    <3>4. \A y \in Int, z \in Int : y * K = z * K => y = z OBVIOUS
    <3> QED BY <3>3, <3>4
  <2>6. ASSUME a = i, b = k, c = j PROVE tileOf[x] = tile
    BY <1>2, <1>3, <2>4, <2>6 DEF Place, Digits
  <2> QED BY <2>3, <2>5, <2>6
<1>7. BlockTerms(Origin(tile), N) = Span(i * K, N) \X Span(k * K, N) \X Span(j * K, N)
  BY <1>4 DEF BlockTerms
<1>8. ASSUME NEW x \in BlockTerms(Origin(tile), N) PROVE x \in Share(Products, tileOf, tile)
  <2>1. /\ x[1] \in Indices /\ x[1] \div K = i
        /\ x[2] \in Indices /\ x[2] \div K = k
        /\ x[3] \in Indices /\ x[3] \div K = j
        /\ x = <<x[1], x[2], x[3]>>
    BY <1>5, <1>7
  <2>2. x \in Products BY <2>1 DEF Products
  <2> QED BY <1>6, <2>1, <2>2 DEF Share
<1>9. ASSUME NEW x \in Share(Products, tileOf, tile) PROVE x \in BlockTerms(Origin(tile), N)
  <2>1. x \in Products /\ tileOf[x] = tile BY DEF Share
  <2>2. x[1] \div K = i /\ x[2] \div K = k /\ x[3] \div K = j BY <1>6, <2>1
  <2>3. /\ x[1] \in Indices /\ x[2] \in Indices /\ x[3] \in Indices
        /\ x = <<x[1], x[2], x[3]>>
    BY <2>1 DEF Products
  <2>4. x[1] \in Span(i * K, N) /\ x[2] \in Span(k * K, N) /\ x[3] \in Span(j * K, N)
    BY <1>5, <2>2, <2>3
  <2> QED BY <1>7, <2>3, <2>4
<1> QED BY <1>8, <1>9

LEMMA TileOfProduct ==
  ASSUME Challenge, NEW x \in Products
  PROVE  tileOf[x] \in Tiles
<1>1. PICK K \in Nat \ {0}, n \in Nat : K = kComputeTile /\ n = N
  BY ChecksumAssumption DEF Challenge
<1>2. x[1] \in 0 .. n - 1 /\ x[2] \in 0 .. n - 1 /\ x[3] \in 0 .. n - 1
  BY <1>1 DEF Products, Indices
<1>3. PICK P \in Nat : P = TilesPerSide /\ P = (n + K - 1) \div K
  <2>1. PICK a \in Nat : a = n + K - 1 OBVIOUS
  <2>2. a \div K \in Nat OBVIOUS
  <2> QED BY <1>1, <2>1, <2>2 DEF TilesPerSide
<1>4. PICK a \in 0 .. P - 1, b \in 0 .. P - 1, c \in 0 .. P - 1 :
        a = x[1] \div K /\ b = x[2] \div K /\ c = x[3] \div K
  BY <1>2, <1>3, InTiles
<1>5. tileOf[x] = (a * P + b) * P + c BY <1>1, <1>3, <1>4 DEF tileOf
<1>6. Place(tileOf[x], a, b, c) BY <1>3, <1>4, <1>5 DEF Place, Digits
<1> QED BY <1>6, OriginOf

\* v4: the tiles it took.
LEMMA V4Exact ==
  ASSUME Challenge, program = "v4", taker \in [Tiles -> Workers]
  PROVE  Gathered = Definition
<1> DEFINE g == [tile \in Tiles |-> Sum(Term, BlockTerms(Origin(tile), N))]
           key == [x \in Products |-> taker[tileOf[x]]]
<1>0. kModulo \in Nat \ {0} BY ChecksumAssumption
<1>1. Summable(Products, Term, Products) BY TermsSummable
<1>2. \A x \in Products : tileOf[x] \in Tiles BY TileOfProduct
<1>3. \A x \in Products : key[x] \in Workers BY <1>2
<1>4. ASSUME NEW tile \in Tiles
      PROVE  g[tile] \in Int /\ g[tile] = Sum(Term, Share(Products, tileOf, tile))
  <2>1. g[tile] = Sum(Term, Share(Products, tileOf, tile)) BY TermsOfTile
  <2>2. Share(Products, tileOf, tile) \subseteq Products BY DEF Share
  <2>3. Summable(Products, Term, Share(Products, tileOf, tile)) BY <1>1, <2>2, PartSummable
  <2> HIDE DEF g
  <2> QED BY <2>1, <2>3, SumInt
<1>5. g \in [Tiles -> Int] BY <1>4
<1>6. IsFiniteSet(Tiles)
  <2>1. PICK K \in Nat \ {0}, n \in Nat : K = kComputeTile /\ n = N
    BY ChecksumAssumption DEF Challenge
  <2>2. PICK a \in Nat : a = n + K - 1 OBVIOUS
  <2>3. PICK P \in Nat : P = TilesPerSide
    <3>1. a \div K \in Nat OBVIOUS
    <3> QED BY <2>1, <2>2, <3>1 DEF TilesPerSide
  <2>4. P * P * P - 1 \in Int OBVIOUS
  <2>5. 0 \in Int OBVIOUS
  <2>6. IsFiniteSet(0 .. P * P * P - 1) BY <2>4, <2>5, FS_Interval
  <2> QED BY <2>3, <2>6 DEF Tiles
<1>7. ASSUME NEW w \in Workers
      PROVE  Partial(w) = Sum(Term, Share(Products, key, w)) % kModulo
  <2> DEFINE S == Share(Products, key, w)
             C == Share(Tiles, taker, w)
  <2>1. Partial(w) = Sum(g, C) % kModulo BY DEF Partial, V4Partial, Share
  <2>2. S \subseteq Products /\ C \subseteq Tiles BY DEF Share
  <2>3. \A x \in S : tileOf[x] \in C BY <1>2 DEF Share
  <2>4. ASSUME NEW tile \in C
        PROVE  Share(S, tileOf, tile) = Share(Products, tileOf, tile)
    BY DEF Share
  <2> HIDE DEF g, S, C
  <2>5. Summable(Products, Term, S) BY <1>1, <2>2, PartSummable
  <2>6. Summable(Tiles, g, C)
    <3>1. IsFiniteSet(C) BY <1>6, <2>2, FS_Subset
    <3> QED BY <1>5, <2>2, <3>1 DEF Summable
  <2>7. \A tile \in C : g[tile] % kModulo = Sum(Term, Share(S, tileOf, tile)) % kModulo
    BY <1>4, <2>2, <2>4
  <2>8. Sum(g, C) % kModulo = Sum(Term, S) % kModulo
    BY <2>3, <2>5, <2>6, <2>7, SumOfRemainders
  <2> QED BY <2>1, <2>8 DEF S
<1> HIDE DEF key
<1> QED BY <1>3, <1>7, GatheredExact

-----------------------------------------------------------------------------
(* The inductive invariant.                                                *)

ChecksumInv ==
  /\ Challenge
  /\ program \in {"server", "v1", "team"} \cup InWorkers
  /\ program = "v4" => taker \in [Tiles -> Workers]
  /\ program = "team" => taker \in [Cells -> Workers]
  /\ Exact

\* Each program leaves the checksum of the definition.
LEMMA ComputeExact ==
  ASSUME ChecksumInv, Compute
  PROVE  checksum' = Definition
<1>1. CASE program = "server"
  <2>1. checksum' = ServerChecksum BY <1>1 DEF Compute
  <2> QED BY <2>1, ServerExact DEF ChecksumInv
<1>2. CASE program = "v1"
  <2>1. checksum' = V1Checksum BY <1>2 DEF Compute
  <2> QED BY <2>1, V1Exact DEF ChecksumInv
<1>3. CASE program = "team"
  <2>1. checksum' = TeamChecksum BY <1>3 DEF Compute
  <2> QED BY <1>3, <2>1, TeamExact DEF ChecksumInv
<1>4. CASE program \in InWorkers
  <2>1. checksum' = Gathered BY <1>4 DEF Compute, InWorkers
  <2>2. Challenge BY DEF ChecksumInv
  <2>3. CASE program = "v2" BY <2>1, <2>2, <2>3, V2Exact
  <2>4. CASE program = "v3" BY <2>1, <2>2, <2>4, V3Exact
  <2>5. CASE program = "v4" BY <2>1, <2>5, V4Exact DEF ChecksumInv
  <2> QED BY <1>4, <2>3, <2>4, <2>5 DEF InWorkers
<1> QED BY <1>1, <1>2, <1>3, <1>4 DEF ChecksumInv

\* Whatever the challenge, the tile and the workers, and whichever thread takes what,
\* all seven programs compute the checksum of the definition.
THEOREM ChecksumExact == ChecksumSpec => []Exact
<1>1. ChecksumInit => ChecksumInv
  <2> SUFFICES ASSUME ChecksumInit PROVE ChecksumInv OBVIOUS
  <2>1. Challenge BY ChecksumAssumption DEF ChecksumInit, Challenge
  <2>2. program = "v4" => taker \in [Tiles -> Workers] BY DEF ChecksumInit
  <2>3. program = "team" => taker \in [Cells -> Workers] BY DEF ChecksumInit
  <2>4. Exact BY DEF ChecksumInit, Exact
  <2> QED BY <2>1, <2>2, <2>3, <2>4 DEF ChecksumInv, ChecksumInit
<1>2. ChecksumInv /\ [Compute]_checksumVars => ChecksumInv'
  <2> SUFFICES ASSUME ChecksumInv, [Compute]_checksumVars PROVE ChecksumInv' OBVIOUS
  <2>1. UNCHANGED <<N, A, B, program, taker>> BY DEF Compute, checksumVars
  <2>2. /\ Challenge' /\ Definition' = Definition
        /\ program' = program /\ taker' = taker /\ Tiles' = Tiles /\ Cells' = Cells
    BY <2>1 DEF ChecksumInv, Challenge, Definition, Term, Products, Indices, Tiles,
                TilesPerSide, Cells
  <2>3. CASE Compute
    <3>1. Exact' BY <2>2, <2>3, ComputeExact DEF Exact
    <3> QED BY <2>2, <3>1 DEF ChecksumInv
  <2>4. CASE UNCHANGED checksumVars
    <3>1. Exact' BY <2>2, <2>4 DEF ChecksumInv, Exact, checksumVars
    <3> QED BY <2>2, <3>1 DEF ChecksumInv
  <2> QED BY <2>3, <2>4
<1>3. ChecksumInv => Exact BY DEF ChecksumInv
<1> QED BY <1>1, <1>2, <1>3, PTL DEF ChecksumSpec

=============================================================================
