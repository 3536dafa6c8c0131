------------------------- MODULE BlastServerProofs -------------------------
(***************************************************************************)
(* Proofs about BlastServer for any connections, window, mode and number   *)
(* of challenges: what the log holds, that no sender sleeps on a challenge *)
(* nor is one lost between the broadcaster and the wire, and when a client *)
(* can be sent what is meant for another.                                  *)
(*                                                                         *)
(* The invariant is built up: the shape of the state (ShapeInv, FlagsInv), *)
(* the log (CountedInv, OwnedInv, LogInv), what keeps a sender awake       *)
(* (AwakeInv), whose each descriptor is (DescriptorsInv), who is listed    *)
(* and started (ListsInv, StartedInv), who was sent what by a stranger's   *)
(* sender (StrangersInv, NameInv), and what is between the broadcaster and *)
(* the wire (RunInv).                                                      *)
(***************************************************************************)
EXTENDS BlastServer, SequenceTheorems, FiniteSetTheorems, TLAPS

-----------------------------------------------------------------------------
(* The shape of the state: TypeOK without the flags, where no message or   *)
(* answer holds an id that has not been given.                             *)

Given == 0 .. cid
Heard == [of : Given, kind : Kinds]
Understood == [cid : Given \cup Numbers \cup {-1}, of : Given, explicit : BOOLEAN]
Times == [Conns -> [of : Given, explicit : BOOLEAN, now : Given] \cup {None}]
Messages == Conns \X Given
Entries == [challenge_id : Given, answers : Times]

NetShape ==
  /\ peer \in [Conns -> {"new", "open", "gone"}]
  /\ fd \in [Conns -> Fds \cup {0}]
  /\ owner \in [Fds -> Conns \cup {Nobody}]
  /\ delivered \in [Conns -> Seq(Messages)]
  /\ read \in [Conns -> Nat]
  /\ arriving \in [Conns -> Seq(Heard)]
  /\ accepted \in Conns \cup {Nobody}
  /\ clients \in Seq(Conns)

ThreadShape ==
  /\ outbox \in [Conns -> Seq(Given)]
  /\ spc \in [Conns -> {"none", "top", "test", "sleep", "asleep", "send", "relock",
                        "done"}]
  /\ msg \in [Conns -> Given]
  /\ hpc \in [Conns -> {"none", "name", "left", "recv", "record", "notify", "close",
                        "done"}]
  /\ name \in [Conns -> Seq(Heard)]
  /\ parsed \in [Conns -> Understood]
  /\ now \in [Conns -> Given]

\* What is left of a burst is positive while it lasts.
CastShape ==
  /\ bpc \in {"next", "lock", "push", "window", "log", "burst", "log_burst"}
  /\ todo \in Seq(Conns)
  /\ cid \in Ids
  /\ challengeId = cid + 1
  /\ counter \in Nat
  /\ burst \in 0 .. BurstLength
  /\ bpc \in {"burst", "log_burst"} => burst > 0

LogShape ==
  /\ snapshot \in Times
  /\ current \in [id : Given, answers : Times]
  /\ results \in Seq(Entries)

ShapeInv == NetShape /\ ThreadShape /\ CastShape /\ LogShape

FlagsInv == killed \in BOOLEAN /\ running \in [Conns -> BOOLEAN]

\* A part of a text is a text.
LEMMA PartOf ==
  ASSUME NEW S, NEW s \in Seq(S), NEW k \in 1 .. Len(s) + 1, NEW j \in 0 .. Len(s)
  PROVE  /\ SubSeq(s, k, j) \in Seq(S)
         /\ Len(SubSeq(s, k, j)) = IF k <= j THEN j - k + 1 ELSE 0
<1>1. Len(s) \in Nat BY LenProperties
<1>2. \A i \in k .. j : s[i] \in S BY <1>1, ElementOfSeq
<1> QED BY <1>1, <1>2, SubSeqProperties

\* recv() returns something, and that and what it leaves are made of what had
\* arrived, or pieces of it.
LEMMA ReceiptsOf ==
  ASSUME NEW S, \A t \in S : Cut(t) \in S, NEW text \in Seq(S),
         NEW r \in Receipts(text)
  PROVE  /\ r.got \in Seq(S) /\ Len(r.got) \in Nat \ {0}
         /\ r.rest \in Seq(S)
<1>1. Len(text) \in Nat BY LenProperties
<1>2. PICK k \in 1 .. Len(text) : r = Between(text, k) \/ r = Within(text, k)
  BY DEF Receipts
<1> DEFINE s == SubSeq(text, 1, k)
           u == SubSeq(text, k, Len(text))
<1>3. /\ s \in Seq(S) /\ Len(s) = k
      /\ u \in Seq(S) /\ Len(u) = Len(text) - k + 1
      /\ SubSeq(text, k + 1, Len(text)) \in Seq(S)
  BY <1>1, PartOf
<1>4. CASE r = Between(text, k) BY <1>1, <1>3, <1>4 DEF Between
<1>5. CASE r = Within(text, k)
  <2>1. k \in 1 .. Len(s) /\ 1 \in 1 .. Len(u) BY <1>1, <1>3
  <2> HIDE DEF s, u
  <2>2. Cut(s[k]) \in S /\ Cut(u[1]) \in S BY <1>3, <2>1, ElementOfSeq
  <2>3. /\ [s EXCEPT ![k] = Cut(s[k])] \in Seq(S)
        /\ Len([s EXCEPT ![k] = Cut(s[k])]) = Len(s)
    BY <1>3, <2>1, <2>2, ExceptSeq
  <2>4. [u EXCEPT ![1] = Cut(u[1])] \in Seq(S) BY <1>3, <2>1, <2>2, ExceptSeq
  <2>5. r = [got |-> [s EXCEPT ![k] = Cut(s[k])], rest |-> [u EXCEPT ![1] = Cut(u[1])]]
    BY <1>5 DEF Within, s, u
  <2> QED BY <1>1, <1>3, <2>3, <2>4, <2>5
<1> QED BY <1>2, <1>4, <1>5

LEMMA ReceiptsHeard ==
  ASSUME NEW text \in Seq(Heard), NEW r \in Receipts(text)
  PROVE  /\ r.got \in Seq(Heard) /\ Len(r.got) \in Nat \ {0}
         /\ r.rest \in Seq(Heard)
<1>1. \A t \in Heard : Cut(t) \in Heard BY DEF Cut, Heard, Kinds
<1> QED BY <1>1, ReceiptsOf

\* What sscanf() makes of it names no id that has not been given; and an answer
\* that came with an id is to that challenge.
LEMMA ParsedUnderstood ==
  ASSUME NEW got \in Seq(Heard), Len(got) \in Nat \ {0}, NEW p \in Parsed(got, Numbers)
  PROVE  p \in Understood /\ (p.explicit => p.cid = p.of)
<1>1. got[1] \in Heard BY ElementOfSeq
<1>2. CASE p \in OneNumber(got)
  <2>1. p = [cid |-> -1, of |-> got[1].of, explicit |-> FALSE]
    BY <1>2 DEF OneNumber
  <2> QED BY <1>1, <2>1 DEF Heard, Understood
<1>3. CASE Len(got) > 1 /\ p \in TwoNumbers(got, Numbers)
  <2>1. got[2] \in Heard BY <1>3, ElementOfSeq
  <2>2. PICK v \in Values(got[1], Numbers) :
          p = [cid |-> v, of |-> got[2].of,
               explicit |-> got[1] = Token(got[2].of, "id") /\ got[2].kind = "answer"]
    BY <1>3 DEF TwoNumbers
  <2>3. v \in Given \cup Numbers BY <1>1 DEF Values, Heard
  <2>4. got[1] = Token(got[2].of, "id") => v = got[2].of BY DEF Values, Token
  <2>5. p.explicit \in BOOLEAN /\ (p.explicit => got[1] = Token(got[2].of, "id"))
    BY <2>2
  <2>6. p \in Understood
    <3>1. got[2].of \in Given BY <2>1 DEF Heard
    <3> QED BY <2>2, <2>3, <3>1 DEF Understood
  <2>7. p.cid = v /\ p.of = got[2].of BY <2>2
  <2> QED BY <2>4, <2>5, <2>6, <2>7
<1> QED BY <1>2, <1>3 DEF Parsed

\* The ids that have been given, and what may hold them, grow with cid.
LEMMA Grows ==
  ASSUME cid \in Nat, cid' = cid + 1
  PROVE  /\ Given \subseteq Given' /\ Times \subseteq Times'
         /\ Messages \subseteq Messages' /\ Entries \subseteq Entries'
         /\ Understood \subseteq Understood'
         /\ Seq(Given) \subseteq Seq(Given') /\ Seq(Messages) \subseteq Seq(Messages')
         /\ Seq(Entries) \subseteq Seq(Entries') /\ Seq(Heard) \subseteq Seq(Heard')
         /\ cid + 1 \in Given'
<1>1. Given \subseteq Given' /\ cid + 1 \in Given' BY DEF Given
<1>2. Times \subseteq Times' BY <1>1 DEF Times
<1>3. Messages \subseteq Messages' BY <1>1 DEF Messages
<1>4. Entries \subseteq Entries' BY <1>1, <1>2 DEF Entries
<1>5. Heard \subseteq Heard' /\ Understood \subseteq Understood'
  BY <1>1 DEF Heard, Understood
<1> QED BY <1>1, <1>2, <1>3, <1>4, <1>5, SeqMonotonic

LEMMA EmptyType == Empty \in Times
BY DEF Empty, Times

LEMMA NothingType == ASSUME cid \in Nat PROVE Nothing \in Understood
BY DEF Nothing, Understood, Given

LEMMA InitShape == Init => ShapeInv
<1> SUFFICES ASSUME Init PROVE ShapeInv OBVIOUS
<1> USE ConstantsAssumption DEF Init
<1>1. cid = 0 /\ 0 \in Given /\ cid \in Nat BY DEF Given
<1>2. NetShape BY <1>1, EmptySeq DEF NetShape
<1>3. ThreadShape BY <1>1, NothingType, EmptySeq DEF ThreadShape
<1>4. CastShape BY <1>1, EmptySeq DEF CastShape, Ids
<1>5. LogShape BY <1>1, EmptyType, EmptySeq DEF LogShape
<1> QED BY <1>2, <1>3, <1>4, <1>5 DEF ShapeInv

\* An answer is recorded, or the current challenge stays as it is.
LEMMA RecordStep ==
  ASSUME ShapeInv, NEW c \in Conns, Record(c)
  PROVE  \/ current' = current
         \/ /\ IsCurrent(c)
            /\ current' = [id |-> current.id,
                           answers |-> [current.answers EXCEPT
                                          ![c] = [of |-> parsed[c].of,
                                                  explicit |-> parsed[c].explicit,
                                                  now |-> now[c]]]]
<1> DEFINE answer == [of |-> parsed[c].of, explicit |-> parsed[c].explicit, now |-> now[c]]
<1>1. current = [id |-> current.id, answers |-> current.answers]
  BY DEF ShapeInv, LogShape
<1>2. CASE IsCurrent(c)
  <2>1. current' = [current EXCEPT !.answers[c] = answer] BY <1>2 DEF Record
  <2> HIDE DEF answer
  <2>2. current' = [current EXCEPT !.answers = [current.answers EXCEPT ![c] = answer]]
    BY <2>1
  <2>3. current' = [id |-> current.id, answers |-> [current.answers EXCEPT ![c] = answer]]
    BY <1>1, <2>2
  <2> QED BY <1>2, <2>3 DEF answer
<1>3. CASE ~IsCurrent(c) BY <1>3 DEF Record
<1> QED BY <1>2, <1>3

LEMMA ClientShape == ASSUME ShapeInv, NEW c \in Conns, Client(c) PROVE ShapeInv'
<1>1. /\ ThreadShape' /\ CastShape' /\ LogShape' /\ cid' = cid
      /\ UNCHANGED <<fd, owner, delivered, accepted, clients>>
  <2>1. UNCHANGED <<fd, owner, delivered, mainVars, senderVars, handlerVars, castVars,
                    current, results>>
    BY DEF Client, ClientReads, ClientLeaves, serverVars, fdVars
  <2> QED BY <2>1 DEF mainVars, senderVars, handlerVars, castVars, ShapeInv, ThreadShape,
             CastShape, LogShape, Given, Times, Entries, Heard, Understood
<1>2. /\ Given' = Given /\ Messages' = Messages
      /\ Heard' = Heard /\ Understood' = Understood
  BY <1>1 DEF Given, Messages, Heard, Understood
<1>3. CASE ClientReads(c)
  <2>1. arriving[c] \in Seq(Heard) /\ delivered[c] \in Seq(Messages) /\ read[c] \in Nat
    BY DEF ShapeInv, NetShape
  <2>2. read[c] + 1 \in 1 .. Len(delivered[c])
    BY <1>3, <2>1, LenProperties DEF ClientReads
  <2>3. delivered[c][read[c] + 1] \in Messages BY <2>1, <2>2, ElementOfSeq
  <2> DEFINE id == delivered[c][read[c] + 1][2]
  <2>4. id \in Given BY <2>3 DEF Messages
  <2>5. /\ peer' = peer /\ read' = [read EXCEPT ![c] = read[c] + 1]
        /\ \/ arriving' = [arriving EXCEPT ![c] = arriving[c] \o WithId(id)]
           \/ arriving' = [arriving EXCEPT ![c] = arriving[c] \o Alone(id)]
           \/ arriving' = arriving
    BY <1>3 DEF ClientReads, Says
  <2> HIDE DEF id
  <2>6. /\ arriving[c] \o WithId(id) \in Seq(Heard)
        /\ arriving[c] \o Alone(id) \in Seq(Heard)
    <3>1. Token(id, "id") \in Heard /\ Token(id, "answer") \in Heard
      BY <2>4 DEF Token, Heard, Kinds
    <3>2. WithId(id) \in Seq(Heard) /\ Alone(id) \in Seq(Heard)
      BY <3>1 DEF WithId, Alone
    <3> QED BY <2>1, <3>2, ConcatProperties
  <2>7. arriving' \in [Conns -> Seq(Heard)] BY <2>5, <2>6 DEF ShapeInv, NetShape
  <2>8. read' \in [Conns -> Nat] BY <2>1, <2>5 DEF ShapeInv, NetShape
  <2>9. NetShape' BY <1>1, <1>2, <2>5, <2>7, <2>8 DEF ShapeInv, NetShape
  <2> QED BY <1>1, <2>9 DEF ShapeInv
<1>4. CASE ClientLeaves(c)
  <2>1. NetShape' BY <1>1, <1>2, <1>4 DEF ClientLeaves, ShapeInv, NetShape
  <2> QED BY <1>1, <2>1 DEF ShapeInv
<1> QED BY <1>3, <1>4 DEF Client

LEMMA MainShape ==
  ASSUME ShapeInv, PushClient \/ \E c \in Conns : Accept(c)
  PROVE  ShapeInv'
<1>1. /\ CastShape' /\ LogShape' /\ cid' = cid
      /\ UNCHANGED <<outbox, spc, msg, name, parsed, now, delivered, read>>
  <2>1. /\ UNCHANGED <<outbox, spc, msg, name, parsed, now, delivered, read>>
        /\ UNCHANGED <<castVars, current, results>>
    BY Zenon DEF PushClient, Accept, netVars, senderVars, handlerVars
  <2> QED BY <2>1 DEF castVars, ShapeInv, CastShape, LogShape, Given, Times, Entries
<1>2. /\ Given' = Given /\ Messages' = Messages
      /\ Heard' = Heard /\ Understood' = Understood
  BY <1>1 DEF Given, Messages, Heard, Understood
<1>3. CASE PushClient
  <2>1. /\ accepted \in Conns /\ clients' = Append(clients, accepted)
        /\ hpc' = [hpc EXCEPT ![accepted] = "name"] /\ accepted' = Nobody
        /\ UNCHANGED <<peer, fd, owner, arriving>>
    BY <1>3 DEF PushClient, ShapeInv, NetShape, netVars, fdVars
  <2>2. clients' \in Seq(Conns) BY <2>1, AppendProperties DEF ShapeInv, NetShape
  <2>3. NetShape' BY <1>1, <1>2, <2>1, <2>2 DEF ShapeInv, NetShape
  <2>4. ThreadShape' BY <1>1, <1>2, <2>1 DEF ShapeInv, ThreadShape
  <2> QED BY <1>1, <2>3, <2>4 DEF ShapeInv
<1>4. ASSUME NEW c \in Conns, Accept(c) PROVE ShapeInv'
  <2>1. PICK f \in Fds : /\ fd' = [fd EXCEPT ![c] = f]
                         /\ owner' = [owner EXCEPT ![f] = c]
    BY <1>4 DEF Accept
  <2>2. /\ peer' = [peer EXCEPT ![c] = "open"] /\ accepted' = c
        /\ arriving' = [arriving EXCEPT ![c] = NameText]
        /\ hpc' = hpc /\ clients' = clients
    BY <1>4 DEF Accept, handlerVars
  <2>3. NameText \in Seq(Heard)
    <3>1. 0 \in Given BY ConstantsAssumption DEF Given, ShapeInv, CastShape, Ids
    <3>2. Token(TheName, "name") \in Heard BY <3>1 DEF TheName, Token, Heard, Kinds
    <3> QED BY <3>2 DEF NameText
  <2>4. NetShape' BY <1>1, <1>2, <2>1, <2>2, <2>3 DEF ShapeInv, NetShape
  <2>5. ThreadShape' BY <1>1, <1>2, <2>2 DEF ShapeInv, ThreadShape
  <2> QED BY <1>1, <2>4, <2>5 DEF ShapeInv
<1> QED BY <1>3, <1>4

LEMMA SenderShape == ASSUME ShapeInv, NEW c \in Conns, Sender(c) PROVE ShapeInv'
<1>1. /\ CastShape' /\ LogShape' /\ cid' = cid
      /\ UNCHANGED <<peer, fd, owner, read, arriving, accepted, clients, hpc, name,
                     parsed, now>>
  BY DEF Sender, fdVars, mainVars, handlerVars, castVars, ShapeInv, CastShape,
     LogShape, Given, Times, Entries
<1>2. /\ Given' = Given /\ Messages' = Messages
      /\ Heard' = Heard /\ Understood' = Understood
  BY <1>1 DEF Given, Messages, Heard, Understood
<1>3. outbox[c] \in Seq(Given) /\ msg[c] \in Given BY DEF ShapeInv, ThreadShape
<1>4. CASE SenderTakes(c)
  <2>1. Head(outbox[c]) \in Given /\ Tail(outbox[c]) \in Seq(Given)
    BY <1>3, <1>4, HeadTailProperties DEF SenderTakes
  <2>2. /\ msg' = [msg EXCEPT ![c] = Head(outbox[c])] /\ delivered' = delivered
        /\ outbox' = [outbox EXCEPT ![c] = Tail(outbox[c])]
        /\ spc' = [spc EXCEPT ![c] = "send"]
    BY <1>4 DEF SenderTakes
  <2>3. NetShape' BY <1>1, <1>2, <2>2 DEF ShapeInv, NetShape
  <2>4. ThreadShape' BY <1>1, <1>2, <2>1, <2>2 DEF ShapeInv, ThreadShape
  <2> QED BY <1>1, <2>3, <2>4 DEF ShapeInv
<1>5. CASE SenderSends(c)
  <2>1. /\ outbox' = outbox /\ msg' = [msg EXCEPT ![c] = 0]
        /\ spc' = [spc EXCEPT ![c] = "relock"]
    BY <1>5 DEF SenderSends
  <2>2. delivered' \in [Conns -> Seq(Messages)]
    <3> DEFINE d == owner[fd[c]]
    <3>1. CASE Open(d)
      <4>1. d \in Conns BY <3>1 DEF Open
      <4>2. delivered[d] \in Seq(Messages) BY <4>1 DEF ShapeInv, NetShape
      <4>3. <<c, msg[c]>> \in Messages BY <1>3 DEF Messages
      <4>4. Append(delivered[d], <<c, msg[c]>>) \in Seq(Messages)
        BY <4>2, <4>3, AppendProperties
      <4>5. delivered' = [delivered EXCEPT
                            ![d] = Append(delivered[d], <<c, msg[c]>>)]
        BY <1>5, <3>1 DEF SenderSends
      <4> QED BY <4>1, <4>4, <4>5 DEF ShapeInv, NetShape
    <3>2. CASE ~Open(d) BY <1>5, <3>2 DEF SenderSends, ShapeInv, NetShape
    <3> QED BY <3>1, <3>2
  <2>3. 0 \in Given BY ConstantsAssumption DEF ShapeInv, CastShape, Given, Ids
  <2>4. NetShape' BY <1>1, <1>2, <2>2 DEF ShapeInv, NetShape
  <2>5. ThreadShape' BY <1>1, <1>2, <2>1, <2>3 DEF ShapeInv, ThreadShape
  <2> QED BY <1>1, <2>4, <2>5 DEF ShapeInv
<1>6. CASE ~SenderTakes(c) /\ ~SenderSends(c)
  <2>1. PICK place \in {"top", "test", "sleep", "asleep", "done"} :
          spc' = [spc EXCEPT ![c] = place]
    BY <1>6 DEF Sender, SenderTop, SenderTests, SenderSleeps, SenderRelocks
  <2>2. UNCHANGED <<outbox, msg, delivered>>
    BY <1>6 DEF Sender, SenderTop, SenderTests, SenderSleeps, SenderRelocks
  <2>3. NetShape' BY <1>1, <1>2, <2>2 DEF ShapeInv, NetShape
  <2>4. ThreadShape' BY <1>1, <1>2, <2>1, <2>2 DEF ShapeInv, ThreadShape
  <2> QED BY <1>1, <2>3, <2>4 DEF ShapeInv
<1> QED BY <1>4, <1>5, <1>6

\* A notification moves a sender that sleeps, and no other.
LEMMA WokenStep ==
  ASSUME ThreadShape, NEW c \in Conns
  PROVE  /\ Woken(c) \in [Conns -> {"none", "top", "test", "sleep", "asleep", "send",
                                    "relock", "done"}]
         /\ \A d \in Conns : d # c => Woken(c)[d] = spc[d]
         /\ Woken(c)[c] = IF spc[c] = "asleep" THEN "test" ELSE spc[c]
BY DEF ThreadShape, Woken

LEMMA HandlerShape == ASSUME ShapeInv, NEW c \in Conns, Handler(c) PROVE ShapeInv'
<1>1. /\ CastShape' /\ cid' = cid
      /\ UNCHANGED <<peer, fd, delivered, read, accepted, clients, outbox, msg,
                     snapshot, results>>
  BY DEF Handler, mainVars, castVars, ShapeInv, CastShape
<1>2. /\ Given' = Given /\ Messages' = Messages /\ Times' = Times /\ Entries' = Entries
      /\ Heard' = Heard /\ Understood' = Understood
  BY <1>1 DEF Given, Messages, Times, Entries, Heard, Understood
<1>3. 0 \in Given BY ConstantsAssumption DEF ShapeInv, CastShape, Given, Ids
<1>4. arriving[c] \in Seq(Heard) BY DEF ShapeInv, NetShape
<1>5. current.id \in Given BY DEF ShapeInv, LogShape
<1>6. CASE Record(c)
  <2>1. /\ hpc' = [hpc EXCEPT ![c] = "recv"]
        /\ parsed' = [parsed EXCEPT ![c] = Nothing]
        /\ now' = [now EXCEPT ![c] = 0]
        /\ UNCHANGED <<arriving, owner, spc, name>>
    BY <1>6 DEF Record
  <2> DEFINE answer == [of |-> parsed[c].of, explicit |-> parsed[c].explicit, now |-> now[c]]
  <2>2. answer \in [of : Given, explicit : BOOLEAN, now : Given]
    <3>1. parsed[c] \in Understood /\ now[c] \in Given BY DEF ShapeInv, ThreadShape
    <3> QED BY <3>1 DEF Understood
  <2>3. [current.answers EXCEPT ![c] = answer] \in Times
    BY <2>2 DEF ShapeInv, LogShape, Times
  <2>4. current' \in [id : Given, answers : Times]
    BY <1>5, <1>6, <2>3, RecordStep DEF ShapeInv, LogShape
  <2>5. NetShape' BY <1>1, <1>2, <2>1 DEF ShapeInv, NetShape
  <2>6. ThreadShape'
    <3>1. Nothing \in Understood
      BY NothingType, ConstantsAssumption DEF ShapeInv, CastShape, Ids
    <3> QED BY <1>1, <1>2, <1>3, <2>1, <3>1 DEF ShapeInv, ThreadShape
  <2>7. LogShape' BY <1>1, <1>2, <2>4 DEF ShapeInv, LogShape
  <2> QED BY <1>1, <2>5, <2>6, <2>7 DEF ShapeInv
<1>7. CASE RecvName(c)
  <2>1. PICK receipt \in Received(c) :
          /\ name' = [name EXCEPT ![c] = receipt.got]
          /\ arriving' = [arriving EXCEPT ![c] = receipt.rest]
    BY <1>7 DEF RecvName
  <2>2. /\ hpc' = [hpc EXCEPT ![c] = "recv"] /\ spc' = [spc EXCEPT ![c] = "top"]
        /\ UNCHANGED <<owner, parsed, now, current>>
    BY <1>7 DEF RecvName
  <2>3. receipt.got \in Seq(Heard) /\ receipt.rest \in Seq(Heard)
    BY <1>4, ReceiptsHeard DEF Received
  <2>4. NetShape' BY <1>1, <1>2, <2>1, <2>2, <2>3 DEF ShapeInv, NetShape
  <2>5. ThreadShape' BY <1>1, <1>2, <2>1, <2>2, <2>3 DEF ShapeInv, ThreadShape
  <2>6. LogShape' BY <1>1, <1>2, <2>2 DEF ShapeInv, LogShape
  <2> QED BY <1>1, <2>4, <2>5, <2>6 DEF ShapeInv
<1>8. CASE RecvAnswer(c)
  <2>1. PICK receipt \in Received(c) :
          /\ arriving' = [arriving EXCEPT ![c] = receipt.rest]
          /\ \/ \E p \in Parsed(receipt.got, Numbers) :
                  /\ parsed' = [parsed EXCEPT ![c] = p]
                  /\ now' = [now EXCEPT ![c] = current.id]
                  /\ hpc' = [hpc EXCEPT ![c] = "record"]
             \/ UNCHANGED <<parsed, now, hpc>>
    BY <1>8 DEF RecvAnswer
  <2>2. UNCHANGED <<owner, spc, name, current>> BY <1>8 DEF RecvAnswer
  <2>3. /\ receipt.got \in Seq(Heard) /\ Len(receipt.got) \in Nat \ {0}
        /\ receipt.rest \in Seq(Heard)
    BY <1>4, ReceiptsHeard DEF Received
  <2>4. NetShape' BY <1>1, <1>2, <2>1, <2>2, <2>3 DEF ShapeInv, NetShape
  <2>5. ThreadShape'
    <3>1. CASE UNCHANGED <<parsed, now, hpc>>
      BY <1>1, <1>2, <2>2, <3>1 DEF ShapeInv, ThreadShape
    <3>2. ASSUME NEW p \in Parsed(receipt.got, Numbers),
                 /\ parsed' = [parsed EXCEPT ![c] = p]
                 /\ now' = [now EXCEPT ![c] = current.id]
                 /\ hpc' = [hpc EXCEPT ![c] = "record"]
          PROVE  ThreadShape'
      <4>1. p \in Understood BY <2>3, ParsedUnderstood
      <4> QED BY <1>1, <1>2, <1>5, <2>2, <3>2, <4>1 DEF ShapeInv, ThreadShape
    <3> QED BY <2>1, <3>1, <3>2
  <2>6. LogShape' BY <1>1, <1>2, <2>2 DEF ShapeInv, LogShape
  <2> QED BY <1>1, <2>4, <2>5, <2>6 DEF ShapeInv
<1>9. CASE NoName(c) \/ HandlerEnds(c) \/ HandlerNotifies(c) \/ HandlerCloses(c)
  <2>1. PICK place \in {"left", "notify", "close", "done"} :
          hpc' = [hpc EXCEPT ![c] = place]
    BY <1>9 DEF NoName, HandlerEnds, HandlerNotifies, HandlerCloses
  <2>2. /\ UNCHANGED <<arriving, name, parsed, now, current>>
        /\ spc' = spc \/ spc' = Woken(c)
        /\ owner' = owner \/ owner' = [owner EXCEPT ![fd[c]] = Nobody]
    BY <1>9 DEF NoName, HandlerEnds, HandlerNotifies, HandlerCloses
  <2>3. spc' \in [Conns -> {"none", "top", "test", "sleep", "asleep", "send",
                            "relock", "done"}]
    BY <2>2, WokenStep DEF ShapeInv, ThreadShape
  <2>4. owner' \in [Fds -> Conns \cup {Nobody}] BY <2>2 DEF ShapeInv, NetShape
  <2>5. NetShape' BY <1>1, <1>2, <2>2, <2>4 DEF ShapeInv, NetShape
  <2>6. ThreadShape' BY <1>1, <1>2, <2>1, <2>2, <2>3 DEF ShapeInv, ThreadShape
  <2>7. LogShape' BY <1>1, <1>2, <2>2 DEF ShapeInv, LogShape
  <2> QED BY <1>1, <2>5, <2>6, <2>7 DEF ShapeInv
<1> QED BY <1>6, <1>7, <1>8, <1>9 DEF Handler

\* The broadcaster, by what it does to the ids.
LEMMA CastKeeps ==
  ASSUME Broadcaster
  PROVE  UNCHANGED <<killed, peer, fd, owner, delivered, read, arriving, accepted, clients,
                     msg, running, hpc, name, parsed, now>>
BY DEF Broadcaster, netVars, fdVars, mainVars, handlerVars

LEMMA PushShape == ASSUME ShapeInv, PushOutbox, Broadcaster PROVE ShapeInv'
<1>1. /\ LogShape' /\ cid' = cid /\ bpc' = bpc /\ burst' = burst /\ counter' = counter
      /\ challengeId' = challengeId
  BY DEF PushOutbox, ShapeInv, LogShape, Given, Times, Entries
<1>2. /\ Given' = Given /\ Messages' = Messages
      /\ Heard' = Heard /\ Understood' = Understood
  BY <1>1 DEF Given, Messages, Heard, Understood
<1>3. /\ todo \in Seq(Conns) /\ todo # <<>> /\ todo' = Tail(todo)
      /\ outbox' = [outbox EXCEPT ![Head(todo)] = Append(outbox[Head(todo)], cid)]
      /\ spc' = Woken(Head(todo))
  BY DEF PushOutbox, Payload, ShapeInv, CastShape
<1>4. Head(todo) \in Conns /\ todo' \in Seq(Conns) BY <1>3, HeadTailProperties
<1>5. outbox[Head(todo)] \in Seq(Given) BY <1>4 DEF ShapeInv, ThreadShape
<1>6. cid \in Given BY ConstantsAssumption DEF ShapeInv, CastShape, Given, Ids
<1>7. Append(outbox[Head(todo)], cid) \in Seq(Given) BY <1>5, <1>6, AppendProperties
<1>8. outbox' \in [Conns -> Seq(Given)]
  BY <1>3, <1>4, <1>7 DEF ShapeInv, ThreadShape
<1>9. NetShape' BY <1>2, CastKeeps DEF ShapeInv, NetShape
<1>10. ThreadShape'
  <2>1. spc' \in [Conns -> {"none", "top", "test", "sleep", "asleep", "send",
                            "relock", "done"}]
    BY <1>3, <1>4, WokenStep DEF ShapeInv
  <2> QED BY <1>2, <1>8, <2>1, CastKeeps DEF ShapeInv, ThreadShape
<1>11. CastShape' BY <1>1, <1>4 DEF ShapeInv, CastShape
<1> QED BY <1>1, <1>9, <1>10, <1>11 DEF ShapeInv

LEMMA BegunShape ==
  ASSUME ShapeInv, NewChallenge \/ BurstChallenge, Broadcaster
  PROVE  ShapeInv'
<1>1. /\ cid \in Nat /\ cid' = cid + 1 /\ cid + 1 <= MaxChallenges
      /\ challengeId' = cid' + 1
  BY ConstantsAssumption DEF NewChallenge, BurstChallenge, ShapeInv, CastShape, Ids
<1>2. UNCHANGED <<outbox, spc, todo, counter, burst, snapshot, results>> /\ bpc' = "lock"
  BY DEF NewChallenge, BurstChallenge, outboxVars
<1>3. /\ Given \subseteq Given' /\ Times \subseteq Times'
      /\ Messages \subseteq Messages' /\ Entries \subseteq Entries'
      /\ Understood \subseteq Understood'
      /\ Seq(Given) \subseteq Seq(Given') /\ Seq(Messages) \subseteq Seq(Messages')
      /\ Seq(Entries) \subseteq Seq(Entries') /\ Seq(Heard) \subseteq Seq(Heard')
      /\ cid + 1 \in Given'
  BY <1>1, Grows
<1>4. NetShape'
  <2>1. delivered' \in [Conns -> Seq(Messages')] BY <1>3, CastKeeps DEF ShapeInv, NetShape
  <2>2. arriving' \in [Conns -> Seq(Heard')] BY <1>3, CastKeeps DEF ShapeInv, NetShape
  <2> QED BY <2>1, <2>2, CastKeeps DEF ShapeInv, NetShape
<1>5. ThreadShape'
  <2>1. /\ outbox' \in [Conns -> Seq(Given')] /\ msg' \in [Conns -> Given']
        /\ name' \in [Conns -> Seq(Heard')] /\ parsed' \in [Conns -> Understood']
        /\ now' \in [Conns -> Given']
    BY <1>2, <1>3, CastKeeps DEF ShapeInv, ThreadShape
  <2> QED BY <1>2, <2>1, CastKeeps DEF ShapeInv, ThreadShape
<1>6. CastShape' BY <1>1, <1>2 DEF ShapeInv, CastShape, Ids
<1>7. LogShape'
  <2>1. snapshot' \in Times' /\ results' \in Seq(Entries')
    BY <1>2, <1>3 DEF ShapeInv, LogShape
  <2>2. current' \in [id : Given', answers : Times']
    <3>1. CASE NewChallenge
      <4>1. current' = [id |-> cid + 1, answers |-> Empty]
        BY <3>1 DEF NewChallenge, ShapeInv, CastShape
      <4>2. Empty \in Times' BY <1>1, <1>3, EmptyType
      <4> QED BY <1>3, <4>1, <4>2
    <3>2. CASE BurstChallenge
      BY <1>3, <3>2 DEF BurstChallenge, ShapeInv, LogShape
    <3> QED BY <3>1, <3>2
  <2> QED BY <2>1, <2>2 DEF LogShape
<1> QED BY <1>4, <1>5, <1>6, <1>7 DEF ShapeInv

LEMMA CastShapes ==
  ASSUME ShapeInv, Broadcaster,
         StartPush \/ EndPush \/ Snapshot \/ Log \/ LogBurst
  PROVE  ShapeInv'
<1>1. UNCHANGED <<outbox, spc, cid, challengeId, current>>
  BY DEF StartPush, EndPush, Snapshot, Log, LogBurst, outboxVars
<1>2. /\ Given' = Given /\ Messages' = Messages /\ Times' = Times /\ Entries' = Entries
      /\ Heard' = Heard /\ Understood' = Understood
  BY <1>1 DEF Given, Messages, Times, Entries, Heard, Understood
<1>3. NetShape' BY <1>2, CastKeeps DEF ShapeInv, NetShape
<1>4. ThreadShape' BY <1>1, <1>2, CastKeeps DEF ShapeInv, ThreadShape
<1>5. cid \in Given /\ cid \in Nat
  BY ConstantsAssumption DEF ShapeInv, CastShape, Given, Ids
<1>6. CastShape'
  <2>1. CASE StartPush
    BY <1>1, <2>1 DEF StartPush, ShapeInv, NetShape, CastShape
  <2>2. CASE EndPush
    BY <1>1, <2>2 DEF EndPush, ShapeInv, CastShape
  <2>3. CASE Snapshot BY <1>1, <2>3 DEF Snapshot, ShapeInv, CastShape
  <2>4. CASE Log
    <3>1. counter' \in Nat /\ burst' \in {0, BurstLength} /\ todo' = todo
      BY <2>4 DEF Log, ShapeInv, CastShape
    <3>2. bpc' = IF burst' > 0 THEN "burst" ELSE "next" BY <2>4 DEF Log
    <3> QED BY <1>1, <3>1, <3>2, ConstantsAssumption DEF ShapeInv, CastShape
  <2>5. CASE LogBurst
    <3>1. /\ burst \in 1 .. BurstLength /\ burst' = burst - 1
          /\ counter' = counter /\ todo' = todo
      BY <2>5, ConstantsAssumption DEF LogBurst, ShapeInv, CastShape
    <3>2. bpc' = IF burst' > 0 THEN "burst" ELSE "next" BY <2>5 DEF LogBurst
    <3> QED BY <1>1, <3>1, <3>2, ConstantsAssumption DEF ShapeInv, CastShape
  <2> QED BY <2>1, <2>2, <2>3, <2>4, <2>5
<1>7. LogShape'
  <2>1. snapshot' \in Times
    BY DEF StartPush, EndPush, Snapshot, Log, LogBurst, ShapeInv, LogShape
  <2>2. results' \in Seq(Entries)
    <3>1. ASSUME NEW a \in Times, results' = Append(results, [challenge_id |-> cid, answers |-> a])
          PROVE  results' \in Seq(Entries)
      <4>1. [challenge_id |-> cid, answers |-> a] \in Entries BY <1>5 DEF Entries
      <4> QED BY <3>1, <4>1, AppendProperties DEF ShapeInv, LogShape
    <3>2. CASE Log BY <3>1, <3>2 DEF Log, ShapeInv, LogShape
    <3>3. CASE LogBurst BY <1>5, <3>1, <3>3, EmptyType DEF LogBurst, BurstEntry
    <3>4. CASE StartPush \/ EndPush \/ Snapshot
      BY <3>4 DEF StartPush, EndPush, Snapshot, ShapeInv, LogShape
    <3> QED BY <3>2, <3>3, <3>4
  <2> QED BY <1>1, <1>2, <2>1, <2>2 DEF ShapeInv, LogShape
<1> QED BY <1>3, <1>4, <1>6, <1>7 DEF ShapeInv

LEMMA Shape == Spec => []ShapeInv
<1>1. ASSUME ShapeInv, [Next]_vars PROVE ShapeInv'
  <2>1. CASE Broadcaster
    BY <1>1, <2>1, PushShape, BegunShape, CastShapes DEF Broadcaster
  <2>2. ASSUME NEW c \in Conns, SendKills(c) PROVE ShapeInv'
    <3>1. UNCHANGED <<netVars, fdVars, mainVars, senderVars, handlerVars, castVars, current,
                     results>>
      BY <2>2 DEF SendKills
    <3> QED BY <1>1, <3>1 DEF netVars, fdVars, mainVars, senderVars, handlerVars, castVars,
               ShapeInv, NetShape, ThreadShape, CastShape, LogShape, Given, Times,
               Messages, Entries, Heard, Understood
  <2>3. CASE UNCHANGED vars
    BY <1>1, <2>3 DEF vars, netVars, fdVars, mainVars, senderVars, handlerVars, castVars,
       ShapeInv, NetShape, ThreadShape, CastShape, LogShape, Given, Times, Messages, Entries,
       Heard, Understood
  <2> QED BY <1>1, <2>1, <2>2, <2>3, ClientShape, MainShape, SenderShape, HandlerShape
          DEF Next
<1> QED BY <1>1, InitShape, PTL DEF Spec

LEMMA Flags == Spec => []FlagsInv
<1>1. Init => FlagsInv BY DEF Init, FlagsInv
<1>2. ASSUME FlagsInv, [Next]_vars PROVE FlagsInv'
  <2>1. ASSUME NEW c \in Conns, Handler(c) PROVE FlagsInv'
    <3>1. killed' = killed BY <2>1 DEF Handler
    <3>2. running' = running \/ running' = [running EXCEPT ![c] = FALSE]
      BY <2>1 DEF Handler, RecvName, NoName, RecvAnswer, Record, HandlerEnds,
         HandlerNotifies, HandlerCloses
    <3>3. running' \in [Conns -> BOOLEAN] BY <1>2, <3>2 DEF FlagsInv
    <3> QED BY <1>2, <3>1, <3>3, Zenon DEF FlagsInv
  <2>2. CASE Broadcaster BY <1>2, <2>2, CastKeeps DEF FlagsInv
  <2>3. CASE PushClient \/ UNCHANGED vars
    BY <1>2, <2>3 DEF PushClient, vars, handlerVars, FlagsInv
  <2>4. ASSUME NEW c \in Conns, Client(c) \/ Accept(c) \/ Sender(c)
        PROVE  FlagsInv'
    BY <1>2, <2>4 DEF Client, ClientReads, ClientLeaves, Accept, Sender, serverVars,
       handlerVars, FlagsInv
  <2>5. ASSUME NEW c \in Conns, SendKills(c) PROVE FlagsInv'
    BY <1>2, <2>5 DEF SendKills, handlerVars, FlagsInv
  <2> QED BY <1>2, <2>1, <2>2, <2>3, <2>4, <2>5 DEF Next
<1> QED BY <1>1, <1>2, PTL DEF Spec

\* Every variable has its type, always.
THEOREM TypeCorrect == Spec => []TypeOK
<1>1. ASSUME ShapeInv, FlagsInv PROVE TypeOK
  <2>1. Given \subseteq Ids
    BY <1>1, ConstantsAssumption DEF ShapeInv, CastShape, Given, Ids
  <2>2. /\ Seq(Given) \subseteq Seq(Ids) /\ Seq(Messages) \subseteq Seq(Conns \X Ids)
        /\ Times \subseteq Answers
        /\ Seq(Entries) \subseteq Seq([challenge_id : Ids, answers : Answers])
        /\ Seq(Heard) \subseteq Seq(Tokens)
        /\ Understood \subseteq [cid : Ids \cup Numbers \cup {-1}, of : Ids,
                                 explicit : BOOLEAN]
    <3>1. Messages \subseteq Conns \X Ids BY <2>1 DEF Messages
    <3>2. Times \subseteq Answers BY <2>1 DEF Times, Answers
    <3>3. Entries \subseteq [challenge_id : Ids, answers : Answers]
      BY <2>1, <3>2 DEF Entries
    <3>4. Heard \subseteq Tokens BY <2>1 DEF Heard, Tokens
    <3>5. Understood \subseteq [cid : Ids \cup Numbers \cup {-1}, of : Ids,
                                explicit : BOOLEAN]
      BY <2>1 DEF Understood
    <3> QED BY <2>1, <3>1, <3>2, <3>3, <3>4, <3>5, SeqMonotonic
  <2>3. /\ delivered \in [Conns -> Seq(Conns \X Ids)] /\ arriving \in [Conns -> Seq(Tokens)]
    BY <1>1, <2>2 DEF ShapeInv, NetShape
  <2>4. /\ outbox \in [Conns -> Seq(Ids)] /\ msg \in [Conns -> Ids]
        /\ name \in [Conns -> Seq(Tokens)]
        /\ parsed \in [Conns -> [cid : Ids \cup Numbers \cup {-1}, of : Ids,
                                explicit : BOOLEAN]]
        /\ now \in [Conns -> Ids]
    BY <1>1, <2>1, <2>2 DEF ShapeInv, ThreadShape
  <2>5. /\ snapshot \in Answers /\ current \in [id : Ids, answers : Answers]
        /\ results \in Seq([challenge_id : Ids, answers : Answers])
    BY <1>1, <2>1, <2>2 DEF ShapeInv, LogShape
  <2>6. challengeId \in 1 .. MaxChallenges + 1
    BY <1>1, ConstantsAssumption DEF ShapeInv, CastShape, Ids
  <2> QED BY <1>1, <2>3, <2>4, <2>5, <2>6, Zenon
          DEF ShapeInv, NetShape, ThreadShape, CastShape, FlagsInv, TypeOK
<1> QED BY <1>1, Shape, Flags, PTL

-----------------------------------------------------------------------------
(* The log.                                                                *)

\* The log is one entry behind the ids until the entry is added.
CountedInv ==
  /\ cid = IF bpc \in {"next", "burst"} THEN Len(results) ELSE Len(results) + 1
  /\ bpc \in {"next", "window", "log"} => burst = 0
  /\ burst = 0 /\ bpc # "next" => current.id = cid
  /\ bpc \in {"lock", "push"} => cid > 0

\* Timed from no later start than that of challenge id, and, where they came with
\* their id, to that challenge and timed from its own.
TimedIn(answers, id) ==
  \A c \in Conns :
    /\ answers[c].now <= id
    /\ answers[c].explicit => answers[c].of = id /\ answers[c].now = id

\* What may be logged with challenge id.
OwnedBy(answers, id) == TimedIn(answers, id) /\ \A c \in Conns : answers[c].of <= id

\* An answer that came with the id of the current challenge was timed within it;
\* what is current may be to a challenge of the burst that goes on, but what is
\* about to be logged is not to one after the entry's.
OwnedInv ==
  /\ \A c \in Conns : now[c] <= current.id
  /\ \A c \in Conns : hpc[c] = "record" /\ parsed[c].explicit =>
       /\ parsed[c].cid = parsed[c].of
       /\ parsed[c].of = current.id => now[c] = current.id
  /\ TimedIn(current.answers, current.id)
  /\ bpc = "log" => OwnedBy(snapshot, cid)

LogInv ==
  \A i \in 1 .. Len(results) :
    results[i].challenge_id = i /\ OwnedBy(results[i].answers, i)

LEMMA CastCounted ==
  ASSUME ShapeInv, CountedInv, Broadcaster
  PROVE  CountedInv'
<1> USE ConstantsAssumption DEF CountedInv
<1>1. /\ cid \in Nat /\ challengeId = cid + 1 /\ Len(results) \in Nat
      /\ burst \in 0 .. BurstLength
      /\ bpc \in {"burst", "log_burst"} => burst > 0
  <2>1. results \in Seq(Entries) BY DEF ShapeInv, LogShape
  <2> QED BY <2>1, LenProperties DEF ShapeInv, CastShape, Ids
<1>2. ASSUME NEW a \in Times,
             results' = Append(results, [challenge_id |-> cid, answers |-> a])
      PROVE  Len(results') = Len(results) + 1
  <2>1. cid \in Given BY <1>1 DEF Given
  <2>2. [challenge_id |-> cid, answers |-> a] \in Entries BY <2>1 DEF Entries
  <2>3. results \in Seq(Entries) BY DEF ShapeInv, LogShape
  <2> QED BY <1>2, <2>2, <2>3, AppendProperties
<1>3. CASE NewChallenge BY <1>1, <1>3 DEF NewChallenge
<1>4. CASE StartPush BY <1>1, <1>4 DEF StartPush
<1>5. CASE PushOutbox BY <1>1, <1>5 DEF PushOutbox
<1>6. CASE EndPush BY <1>1, <1>6 DEF EndPush
<1>7. CASE Snapshot BY <1>1, <1>7 DEF Snapshot
<1>8. CASE Log
  <2>1. Len(results') = Len(results) + 1
    BY <1>2, <1>8 DEF Log, ShapeInv, LogShape
  <2>2. /\ bpc = "log" /\ burst' \in {0, BurstLength} /\ cid' = cid
        /\ current' = current
    BY <1>8 DEF Log
  <2>3. bpc' = IF burst' > 0 THEN "burst" ELSE "next" BY <1>8 DEF Log
  <2> QED BY <1>1, <2>1, <2>2, <2>3
<1>9. CASE BurstChallenge BY <1>1, <1>9 DEF BurstChallenge
<1>10. CASE LogBurst
  <2>1. Len(results') = Len(results) + 1
    BY <1>1, <1>2, <1>10, EmptyType DEF LogBurst, BurstEntry
  <2>2. /\ bpc = "log_burst" /\ burst' = burst - 1 /\ cid' = cid
        /\ current' = current
    BY <1>10 DEF LogBurst
  <2>3. bpc' = IF burst' > 0 THEN "burst" ELSE "next" BY <1>10 DEF LogBurst
  <2> QED BY <1>1, <2>1, <2>2, <2>3
<1> QED BY <1>3, <1>4, <1>5, <1>6, <1>7, <1>8, <1>9, <1>10 DEF Broadcaster

\* What a client, main, a sender or a handler leaves of the log.
LEMMA OtherCast ==
  ASSUME ShapeInv, [Next]_vars, ~Broadcaster
  PROVE  /\ UNCHANGED <<bpc, todo, cid, counter, burst, snapshot, challengeId, results>>
         /\ current'.id = current.id
<1>1. ASSUME NEW c \in Conns, Handler(c) PROVE current'.id = current.id
  <2>1. CASE Record(c)
    BY <2>1, RecordStep
  <2>2. CASE ~Record(c)
    BY <1>1, <2>2 DEF Handler, RecvName, NoName, RecvAnswer, HandlerEnds,
       HandlerNotifies, HandlerCloses
  <2> QED BY <2>1, <2>2
<1>2. ASSUME NEW c \in Conns, Handler(c)
      PROVE  UNCHANGED <<castVars, results>>
  BY <1>2 DEF Handler
<1>3. ASSUME NEW c \in Conns, Client(c) \/ Accept(c) \/ Sender(c) \/ SendKills(c)
      PROVE  UNCHANGED <<castVars, current, results>>
  BY <1>3 DEF Client, ClientReads, ClientLeaves, Accept, Sender, SendKills, serverVars
<1>4. CASE PushClient \/ UNCHANGED vars
  BY <1>4 DEF PushClient, vars, castVars
<1> QED BY <1>1, <1>2, <1>3, <1>4 DEF Next, castVars

LEMMA Counted == Spec => []CountedInv
<1>1. Init => CountedInv BY DEF Init, CountedInv
<1>2. ASSUME ShapeInv, CountedInv, [Next]_vars PROVE CountedInv'
  <2>1. CASE Broadcaster BY <1>2, <2>1, CastCounted
  <2>2. CASE ~Broadcaster BY <1>2, <2>2, OtherCast DEF CountedInv
  <2> QED BY <2>1, <2>2
<1> QED BY <1>1, <1>2, Shape, PTL DEF Spec

LEMMA EmptyOwned == ASSUME NEW id \in Nat PROVE OwnedBy(Empty, id)
BY DEF OwnedBy, TimedIn, Empty, None

LEMMA HandlerOwned ==
  ASSUME ShapeInv, OwnedInv, NEW c \in Conns, Handler(c)
  PROVE  OwnedInv'
<1>1. UNCHANGED <<bpc, snapshot, cid>> BY DEF Handler, castVars
<1>2. OwnedBy(snapshot, cid)' <=> OwnedBy(snapshot, cid) BY <1>1 DEF OwnedBy, TimedIn
<1>3. ThreadShape /\ current.id \in Nat /\ current.answers \in Times
  BY ConstantsAssumption DEF ShapeInv, LogShape, CastShape, Given, Ids
<1>4. CASE UNCHANGED <<hpc, parsed, now, current>>
  BY <1>1, <1>2, <1>4 DEF OwnedInv, TimedIn
<1>5. CASE RecvAnswer(c)
  <2>1. PICK receipt \in Received(c) :
          \/ \E p \in Parsed(receipt.got, Numbers) :
               /\ parsed' = [parsed EXCEPT ![c] = p]
               /\ now' = [now EXCEPT ![c] = current.id]
               /\ hpc' = [hpc EXCEPT ![c] = "record"]
          \/ UNCHANGED <<parsed, now, hpc>>
    BY <1>5 DEF RecvAnswer
  <2>2. current' = current BY <1>5 DEF RecvAnswer
  <2>3. ASSUME NEW p \in Parsed(receipt.got, Numbers),
               /\ parsed' = [parsed EXCEPT ![c] = p]
               /\ now' = [now EXCEPT ![c] = current.id]
               /\ hpc' = [hpc EXCEPT ![c] = "record"]
        PROVE  OwnedInv'
    <3>1. p.explicit => p.cid = p.of
      <4>1. arriving[c] \in Seq(Heard) BY DEF ShapeInv, NetShape
      <4>2. receipt.got \in Seq(Heard) /\ Len(receipt.got) \in Nat \ {0}
        BY <4>1, ReceiptsHeard DEF Received
      <4> QED BY <4>2, ParsedUnderstood
    <3>2. parsed'[c] = p /\ now'[c] = current.id BY <1>3, <2>3 DEF ThreadShape
    <3>3. \A d \in Conns : d # c => /\ hpc'[d] = hpc[d] /\ now'[d] = now[d]
                                    /\ parsed'[d] = parsed[d]
      BY <1>3, <2>3 DEF ThreadShape
    <3>4. TimedIn(current.answers, current.id)' BY <2>2 DEF OwnedInv, TimedIn
    <3> QED BY <1>1, <1>2, <1>3, <2>2, <3>1, <3>2, <3>3, <3>4 DEF OwnedInv
  <2> QED BY <1>4, <2>1, <2>2, <2>3
<1>6. CASE Record(c)
  <2>1. /\ hpc[c] = "record" /\ hpc' = [hpc EXCEPT ![c] = "recv"]
        /\ parsed' = [parsed EXCEPT ![c] = Nothing]
        /\ now' = [now EXCEPT ![c] = 0]
    BY <1>6 DEF Record
  <2>2. /\ current'.id = current.id
        /\ TimedIn(current.answers, current.id)'
    <3>1. CASE current' = current BY <3>1 DEF OwnedInv, TimedIn
    <3> DEFINE answer == [of |-> parsed[c].of, explicit |-> parsed[c].explicit,
                          now |-> now[c]]
    <3>2. CASE /\ IsCurrent(c)
               /\ current' = [id |-> current.id,
                              answers |-> [current.answers EXCEPT ![c] = answer]]
      <4>1. /\ answer.now <= current.id
            /\ answer.explicit => answer.of = current.id /\ answer.now = current.id
        <5>1. parsed[c].of # -1
          BY <1>3, ConstantsAssumption
             DEF ThreadShape, Understood, Given, ShapeInv, CastShape, Ids
        <5> QED BY <2>1, <3>2, <5>1 DEF OwnedInv, IsCurrent
      <4> HIDE DEF answer
      <4>2. \A d \in Conns : current'.answers[d] = IF d = c THEN answer
                                                   ELSE current.answers[d]
        BY <1>3, <3>2 DEF Times
      <4>3. current'.id = current.id BY <3>2
      <4> QED BY <4>1, <4>2, <4>3 DEF OwnedInv, TimedIn
    <3> QED BY <1>6, <3>1, <3>2, RecordStep
  <2>3. \A d \in Conns : d # c => /\ hpc'[d] = hpc[d] /\ now'[d] = now[d]
                                  /\ parsed'[d] = parsed[d]
    BY <1>3, <2>1 DEF ThreadShape
  <2>4. hpc'[c] # "record" /\ now'[c] = 0 BY <1>3, <2>1 DEF ThreadShape
  <2> QED BY <1>1, <1>2, <1>3, <2>2, <2>3, <2>4 DEF OwnedInv
<1>7. CASE ~RecvAnswer(c) /\ ~Record(c)
  <2>1. PICK place \in {"left", "recv", "notify", "close", "done"} :
          hpc' = [hpc EXCEPT ![c] = place]
    BY <1>7 DEF Handler, RecvName, NoName, HandlerEnds, HandlerNotifies, HandlerCloses
  <2>2. UNCHANGED <<parsed, now, current>>
    BY <1>7 DEF Handler, RecvName, NoName, HandlerEnds, HandlerNotifies, HandlerCloses
  <2>3. \A d \in Conns : hpc'[d] = "record" => hpc[d] = "record"
    BY <1>3, <2>1 DEF ThreadShape
  <2>4. TimedIn(current.answers, current.id)' BY <2>2 DEF OwnedInv, TimedIn
  <2> QED BY <1>1, <1>2, <2>2, <2>3, <2>4 DEF OwnedInv
<1> QED BY <1>5, <1>6, <1>7

LEMMA CastOwned ==
  ASSUME ShapeInv, CountedInv, OwnedInv, Broadcaster
  PROVE  OwnedInv'
<1>1. UNCHANGED <<hpc, parsed, now>> BY CastKeeps
<1>2. CASE NewChallenge
  <2>1. current' = [id |-> cid + 1, answers |-> Empty] /\ bpc' = "lock"
    BY <1>2 DEF NewChallenge, ShapeInv, CastShape
  <2>2. cid \in Nat /\ cid + 1 \in Nat
    BY ConstantsAssumption DEF ShapeInv, CastShape, Ids
  <2>3. ASSUME NEW c \in Conns PROVE now[c] <= cid + 1 /\ parsed[c].of # cid + 1
    <3>1. parsed[c] \in Understood /\ now[c] \in Given BY DEF ShapeInv, ThreadShape
    <3> QED BY <2>2, <3>1 DEF Understood, Given
  <2>4. TimedIn(current.answers, current.id)'
    BY <2>1, <2>2, EmptyOwned DEF OwnedBy, TimedIn
  <2>5. current'.id = cid + 1 BY <2>1
  <2> QED BY <1>1, <2>1, <2>3, <2>4, <2>5 DEF OwnedInv
<1>3. CASE Snapshot
  <2>1. snapshot' = current.answers /\ bpc = "window" /\ UNCHANGED <<cid, current>>
    BY <1>3 DEF Snapshot
  <2>2. current.id = cid BY <2>1 DEF CountedInv
  <2>3. \A c \in Conns : current.answers[c].of <= cid
    <3>1. cid \in Nat BY ConstantsAssumption DEF ShapeInv, CastShape, Ids
    <3> QED BY <3>1 DEF ShapeInv, LogShape, Times, Given, None
  <2>4. OwnedBy(snapshot, cid)' BY <2>1, <2>2, <2>3 DEF OwnedInv, OwnedBy, TimedIn
  <2>5. TimedIn(current.answers, current.id)' BY <2>1 DEF OwnedInv, TimedIn
  <2> QED BY <1>1, <2>1, <2>4, <2>5 DEF OwnedInv
<1>4. CASE ~NewChallenge /\ ~Snapshot
  <2>1. current' = current /\ bpc' # "log"
    BY <1>4 DEF Broadcaster, StartPush, PushOutbox, EndPush, Log, BurstChallenge,
       LogBurst
  <2>2. TimedIn(current.answers, current.id)' BY <2>1 DEF OwnedInv, TimedIn
  <2> QED BY <1>1, <2>1, <2>2 DEF OwnedInv
<1> QED BY <1>2, <1>3, <1>4

LEMMA Owned == Spec => []OwnedInv
<1>1. Init => OwnedInv
  <2> SUFFICES ASSUME Init PROVE OwnedInv OBVIOUS
  <2>1. TimedIn(current.answers, current.id) BY EmptyOwned DEF Init, OwnedBy, TimedIn
  <2> QED BY <2>1 DEF Init, OwnedInv
<1>2. ASSUME ShapeInv, CountedInv, OwnedInv, [Next]_vars PROVE OwnedInv'
  <2>1. CASE Broadcaster BY <1>2, <2>1, CastOwned
  <2>2. ASSUME NEW c \in Conns, Handler(c) PROVE OwnedInv'
    BY <1>2, <2>2, HandlerOwned
  <2>3. CASE UNCHANGED <<hpc, parsed, now, current, bpc, snapshot, cid>>
    BY <1>2, <2>3 DEF OwnedInv, OwnedBy, TimedIn
  <2>4. ASSUME NEW c \in Conns, Client(c) \/ Accept(c) \/ Sender(c) \/ SendKills(c)
        PROVE  UNCHANGED <<hpc, parsed, now, current, bpc, snapshot, cid>>
    BY <2>4 DEF Client, ClientReads, ClientLeaves, Accept, Sender, SendKills,
       serverVars, castVars, handlerVars
  <2>5. CASE PushClient
    <3>1. UNCHANGED <<parsed, now, current, bpc, snapshot, cid>>
          /\ hpc' = [hpc EXCEPT ![accepted] = "name"]
      BY <2>5 DEF PushClient, castVars
    <3>2. \A c \in Conns : hpc'[c] = "record" => hpc[c] = "record"
      BY <1>2, <3>1 DEF ShapeInv, ThreadShape
    <3> QED BY <1>2, <3>1, <3>2 DEF OwnedInv, OwnedBy, TimedIn
  <2>6. UNCHANGED vars => UNCHANGED <<hpc, parsed, now, current, bpc, snapshot, cid>>
    BY DEF vars, castVars, handlerVars
  <2> QED BY <1>2, <2>1, <2>2, <2>3, <2>4, <2>5, <2>6 DEF Next
<1> QED BY <1>1, <1>2, Shape, Counted, PTL DEF Spec

\* Every id is in the log once and in order, those of bursts among them.  An
\* answer that came with its id is in the entry of its own challenge only, timed
\* from that one's start; any other is in the entry of a challenge that is not
\* before its own, and not timed from a later one.
THEOREM LogCorrect == Spec => []LogMatches
<1>1. Init => LogInv BY DEF Init, LogInv
<1>2. ASSUME ShapeInv, CountedInv, OwnedInv, LogInv, [Next]_vars PROVE LogInv'
  <2>1. /\ results \in Seq(Entries) /\ Len(results) \in Nat /\ cid \in Given
    BY <1>2, LenProperties, ConstantsAssumption
       DEF ShapeInv, LogShape, CastShape, Given, Ids
  <2>2. ASSUME NEW a \in Times, OwnedBy(a, cid), bpc \in {"log", "log_burst"},
               results' = Append(results, [challenge_id |-> cid, answers |-> a])
        PROVE  LogInv'
    <3>1. [challenge_id |-> cid, answers |-> a] \in Entries BY <2>1 DEF Entries
    <3>2. /\ Len(results') = Len(results) + 1
          /\ \A i \in 1 .. Len(results) : results'[i] = results[i]
          /\ results'[Len(results) + 1] = [challenge_id |-> cid, answers |-> a]
      BY <2>1, <2>2, <3>1, AppendProperties
    <3>3. cid = Len(results) + 1 BY <1>2, <2>2 DEF CountedInv
    <3>4. ASSUME NEW i \in 1 .. Len(results')
          PROVE  results'[i].challenge_id = i /\ OwnedBy(results'[i].answers, i)
      <4>1. CASE i \in 1 .. Len(results) BY <1>2, <3>2, <4>1 DEF LogInv
      <4>2. CASE i = Len(results) + 1 BY <2>2, <3>2, <3>3, <4>2
      <4> QED BY <2>1, <3>2, <4>1, <4>2
    <3> QED BY <3>4 DEF LogInv, OwnedBy, TimedIn
  <2>3. CASE Broadcaster /\ Log
    BY <1>2, <2>2, <2>3 DEF Log, OwnedInv, ShapeInv, LogShape
  <2>4. CASE Broadcaster /\ LogBurst
    <3>1. Empty \in Times
      BY EmptyType
    <3>2. OwnedBy(Empty, cid)
      BY <1>2, EmptyOwned, ConstantsAssumption DEF ShapeInv, CastShape, Ids
    <3> QED BY <2>2, <2>4, <3>1, <3>2 DEF LogBurst, BurstEntry
  <2>5. CASE results' = results BY <1>2, <2>5 DEF LogInv, OwnedBy, TimedIn
  <2>6. Broadcaster => Log \/ LogBurst \/ results' = results
    BY DEF Broadcaster, NewChallenge, StartPush, PushOutbox, EndPush, Snapshot,
       BurstChallenge
  <2> QED BY <1>2, <2>3, <2>4, <2>5, <2>6, OtherCast
<1>3. LogInv => LogMatches BY DEF LogInv, LogMatches, OwnedBy, TimedIn
<1> QED BY <1>1, <1>2, <1>3, Shape, Counted, Owned, PTL DEF Spec

-----------------------------------------------------------------------------
(* The senders and their outboxes.                                         *)

\* A sender takes qMutex to find its outbox empty before it sleeps, and the
\* broadcaster fills it under that mutex.
AwakeInv == \A c \in Conns : spc[c] \in {"sleep", "asleep"} => outbox[c] = <<>>

\* What moves neither a sender nor an outbox.
LEMMA SendersKept ==
  ASSUME PushClient \/ UNCHANGED vars
         \/ \E c \in Conns : Client(c) \/ Accept(c) \/ SendKills(c)
  PROVE  UNCHANGED <<outbox, spc, msg>>
<1>1. ASSUME NEW c \in Conns, Client(c) \/ Accept(c) \/ SendKills(c)
      PROVE  UNCHANGED <<outbox, spc, msg>>
  BY <1>1 DEF Client, ClientReads, ClientLeaves, serverVars, Accept, SendKills, senderVars
<1>2. CASE PushClient \/ UNCHANGED vars BY <1>2 DEF PushClient, vars, senderVars
<1> QED BY <1>1, <1>2

\* What a handler does to the senders.
LEMMA HandlerSenders ==
  ASSUME NEW c \in Conns, Handler(c)
  PROVE  /\ UNCHANGED <<outbox, msg, delivered, peer, fd, clients, todo, bpc, cid, accepted>>
         /\ \/ spc' = spc
            \/ hpc[c] = "name" /\ spc' = [spc EXCEPT ![c] = "top"]
            \/ hpc[c] = "notify" /\ spc' = Woken(c)
BY DEF Handler, RecvName, NoName, RecvAnswer, Record, HandlerEnds, HandlerNotifies,
   HandlerCloses, mainVars, castVars

\* What the broadcaster does to the senders: nothing, or the next outbox.
LEMMA CastSenders ==
  ASSUME ShapeInv, Broadcaster
  PROVE  \/ /\ PushOutbox /\ Head(todo) \in Conns /\ todo # <<>>
            /\ outbox' = [outbox EXCEPT ![Head(todo)] = Append(outbox[Head(todo)], cid)]
            /\ spc' = Woken(Head(todo)) /\ spc[Head(todo)] # "sleep"
         \/ ~PushOutbox /\ UNCHANGED <<outbox, spc>>
<1>1. CASE PushOutbox
  <2>1. todo \in Seq(Conns) /\ todo # <<>> BY <1>1 DEF PushOutbox, ShapeInv, CastShape
  <2>2. Head(todo) \in Conns BY <2>1, HeadTailProperties
  <2> QED BY <1>1, <2>1, <2>2 DEF PushOutbox, Payload, QMutexFree
<1>2. CASE ~PushOutbox
  BY <1>2 DEF Broadcaster, NewChallenge, StartPush, EndPush, Snapshot, Log,
     BurstChallenge, LogBurst, outboxVars
<1> QED BY <1>1, <1>2

LEMMA Awake == Spec => []AwakeInv
<1>1. Init => AwakeInv BY DEF Init, AwakeInv
<1>2. ASSUME ShapeInv, AwakeInv, [Next]_vars PROVE AwakeInv'
  <2> SUFFICES ASSUME NEW d \in Conns, spc'[d] \in {"sleep", "asleep"}
               PROVE  outbox'[d] = <<>>
    BY DEF AwakeInv
  <2>0. ThreadShape BY <1>2 DEF ShapeInv
  <2>1. ASSUME NEW c \in Conns, Sender(c) PROVE outbox'[d] = <<>>
    <3>1. CASE SenderTakes(c)
      BY <1>2, <2>0, <3>1 DEF SenderTakes, AwakeInv, ThreadShape
    <3>2. CASE ~SenderTakes(c)
      <4>1. /\ outbox' = outbox
            /\ \E place \in {"top", "test", "sleep", "asleep", "done", "relock"} :
                 /\ spc' = [spc EXCEPT ![c] = place]
                 /\ place = "asleep" => spc[c] = "sleep"
                 /\ place = "sleep" => outbox[c] = <<>>
        BY <2>1, <3>2
           DEF Sender, SenderTop, SenderTests, SenderSleeps, SenderRelocks, SenderSends
      <4> QED BY <1>2, <2>0, <4>1 DEF AwakeInv, ThreadShape
    <3> QED BY <3>1, <3>2
  <2>2. ASSUME NEW c \in Conns, Handler(c) PROVE outbox'[d] = <<>>
    <3>0. \/ spc' = spc \/ spc' = [spc EXCEPT ![c] = "top"] \/ spc' = Woken(c)
      BY <2>2, HandlerSenders
    <3>1. spc'[d] = spc[d] \/ spc'[d] \in {"top", "test"}
      BY <2>0, <3>0 DEF ThreadShape, Woken
    <3>2. outbox' = outbox BY <2>2, HandlerSenders
    <3> QED BY <1>2, <3>1, <3>2 DEF AwakeInv
  <2>3. CASE Broadcaster
    <3>1. CASE ~PushOutbox
      <4>1. UNCHANGED <<outbox, spc>> BY <1>2, <2>3, <3>1, CastSenders
      <4> QED BY <1>2, <4>1 DEF AwakeInv
    <3>2. CASE PushOutbox
      <4>1. PICK h \in Conns :
              /\ outbox' = [outbox EXCEPT ![h] = Append(outbox[h], cid)]
              /\ spc' = Woken(h) /\ spc[h] # "sleep"
        BY <1>2, <2>3, <3>2, CastSenders
      <4>2. d # h /\ spc'[d] = spc[d] BY <2>0, <4>1, WokenStep
      <4>3. outbox'[d] = outbox[d] BY <2>0, <4>1, <4>2 DEF ThreadShape
      <4> QED BY <1>2, <4>2, <4>3 DEF AwakeInv
    <3> QED BY <3>1, <3>2
  <2>4. CASE UNCHANGED <<outbox, spc>> BY <1>2, <2>4 DEF AwakeInv
  <2> QED BY <1>2, <2>1, <2>2, <2>3, <2>4, SendersKept DEF Next
<1> QED BY <1>1, <1>2, Shape, PTL DEF Spec

\* No sender sleeps while its outbox holds a challenge.
THEOREM NoneLeftAsleep == Spec => []AsleepOnlyWhenEmpty
<1>1. AwakeInv => AsleepOnlyWhenEmpty BY DEF AwakeInv, AsleepOnlyWhenEmpty
<1> QED BY <1>1, Awake, PTL

-----------------------------------------------------------------------------
(* The descriptors.                                                        *)

Closed(c) == hpc[c] = "done"

\* A connection has its descriptor until its handler closes it, and nobody
\* else has it till then; the handler leaves when the client has gone, and is
\* not there before main has added the client.
Descriptor(c) ==
  /\ peer[c] = "new" <=> fd[c] = 0
  /\ peer[c] = "new" => hpc[c] = "none" /\ accepted # c /\ delivered[c] = <<>>
  /\ fd[c] # 0 /\ ~Closed(c) => owner[fd[c]] = c
  /\ \A f \in Fds : owner[f] = c => fd[c] = f /\ ~Closed(c)
  /\ accepted = c => hpc[c] = "none"
  /\ hpc[c] \in {"left", "notify", "close", "done"} => peer[c] = "gone"

DescriptorsInv == \A c \in Conns : Descriptor(c)

LEMMA HandlerPlaces ==
  ASSUME ThreadShape, NEW c \in Conns, Handler(c)
  PROVE  \E place \in {"left", "recv", "record", "notify", "close", "done"} :
           /\ hpc' = [hpc EXCEPT ![c] = place]
           /\ hpc[c] # "none" /\ hpc[c] # "done"
           /\ \/ peer[c] = "gone"
              \/ place \in {"recv", "record"}
              \/ hpc[c] \in {"left", "notify", "close", "done"}
           /\ place = "left" => hpc[c] = "name"
           /\ hpc[c] = "name" => place = "left" \/ spc' = [spc EXCEPT ![c] = "top"]
           /\ owner' = IF place = "done" THEN [owner EXCEPT ![fd[c]] = Nobody] ELSE owner
<1>1. CASE RecvName(c) BY <1>1 DEF RecvName
<1>2. CASE NoName(c) BY <1>2 DEF NoName
<1>3. CASE RecvAnswer(c) \/ Record(c)
  <2>1. /\ hpc[c] \in {"recv", "record"} /\ owner' = owner
        /\ \/ hpc' = hpc /\ hpc[c] = "recv"
           \/ \E place \in {"recv", "record"} : hpc' = [hpc EXCEPT ![c] = place]
    BY <1>3 DEF RecvAnswer, Record
  <2>2. hpc' = hpc /\ hpc[c] = "recv" => hpc' = [hpc EXCEPT ![c] = "recv"]
    BY DEF ThreadShape
  <2>3. PICK place \in {"recv", "record"} : hpc' = [hpc EXCEPT ![c] = place]
    BY <2>1, <2>2
  <2> QED BY <2>1, <2>3
<1>4. CASE HandlerEnds(c) BY <1>4 DEF HandlerEnds
<1>5. CASE HandlerNotifies(c) BY <1>5 DEF HandlerNotifies
<1>6. CASE HandlerCloses(c) BY <1>6 DEF HandlerCloses
<1> QED BY <1>1, <1>2, <1>3, <1>4, <1>5, <1>6 DEF Handler

LEMMA Descriptors == Spec => []DescriptorsInv
<1> USE DEF Closed
<1>0. 0 \notin Fds BY ConstantsAssumption, FS_CardinalityType DEF Fds
<1>1. Init => DescriptorsInv
  BY ConstantsAssumption DEF Init, DescriptorsInv, Descriptor
<1>2. ASSUME ShapeInv, DescriptorsInv, [Next]_vars PROVE DescriptorsInv'
  <2> SUFFICES ASSUME NEW d \in Conns PROVE Descriptor(d)' BY DEF DescriptorsInv
  <2>0. /\ NetShape /\ hpc \in [Conns -> {"none", "name", "left", "recv", "record",
                                          "notify", "close", "done"}]
        /\ Descriptor(d) /\ Nobody \notin Conns
    BY <1>2, ConstantsAssumption DEF ShapeInv, ThreadShape, DescriptorsInv
  <2>1. ASSUME NEW c \in Conns, Client(c) PROVE Descriptor(d)'
    <3>1. /\ UNCHANGED <<fd, owner, hpc, accepted, delivered>>
          /\ \/ peer' = peer
             \/ peer[c] = "open" /\ peer' = [peer EXCEPT ![c] = "gone"]
      BY <2>1 DEF Client, ClientReads, ClientLeaves, serverVars, fdVars, mainVars,
         handlerVars
    <3> QED BY <2>0, <3>1 DEF Descriptor, NetShape
  <2>2. ASSUME NEW c \in Conns, Accept(c) PROVE Descriptor(d)'
    <3>1. PICK f \in Fds : /\ owner[f] = Nobody /\ fd' = [fd EXCEPT ![c] = f]
                           /\ owner' = [owner EXCEPT ![f] = c]
      BY <2>2 DEF Accept
    <3>2. /\ accepted = Nobody /\ peer[c] = "new" /\ peer' = [peer EXCEPT ![c] = "open"]
          /\ accepted' = c /\ hpc' = hpc /\ delivered' = delivered
      BY <2>2 DEF Accept, handlerVars
    <3>3. Descriptor(c) BY <1>2 DEF DescriptorsInv
    <3>4. CASE d = c
      <4>1. /\ peer'[d] = "open" /\ fd'[d] = f /\ owner'[f] = d /\ hpc'[d] = "none"
            /\ f \in Fds
            /\ \A g \in Fds : owner'[g] = d => g = f
        BY <1>0, <2>0, <3>1, <3>2, <3>3, <3>4 DEF Descriptor, NetShape
      <4> QED BY <1>0, <2>0, <4>1 DEF Descriptor
    <3>5. CASE d # c
      <4>1. /\ peer'[d] = peer[d] /\ fd'[d] = fd[d] /\ hpc'[d] = hpc[d]
            /\ accepted' # d /\ delivered'[d] = delivered[d]
            /\ \A g \in Fds : g # f => owner'[g] = owner[g]
            /\ owner'[f] = c /\ owner[f] # d
        BY <2>0, <3>1, <3>2, <3>5 DEF NetShape
      <4> QED BY <2>0, <3>5, <4>1 DEF Descriptor, NetShape
    <3> QED BY <3>4, <3>5
  <2>3. CASE PushClient
    <3>1. /\ accepted \in Conns /\ hpc' = [hpc EXCEPT ![accepted] = "name"]
          /\ accepted' = Nobody /\ UNCHANGED <<peer, fd, owner, delivered>>
      BY <2>0, <2>3, Zenon DEF PushClient, netVars, fdVars, NetShape
    <3>2. hpc'[d] = hpc[d] \/ hpc'[d] = "name" BY <2>0, <3>1
    <3>3. d = accepted => hpc[d] = "none" /\ peer[d] # "new" BY <2>0 DEF Descriptor
    <3>4. d # accepted => hpc'[d] = hpc[d] BY <2>0, <3>1
    <3> QED BY <2>0, <3>1, <3>2, <3>3, <3>4 DEF Descriptor
  <2>4. ASSUME NEW c \in Conns, Handler(c) PROVE Descriptor(d)'
    <3>1. UNCHANGED <<peer, fd, delivered, accepted>> BY <2>4, HandlerSenders
    <3>2. PICK place \in {"left", "recv", "record", "notify", "close", "done"} :
              /\ hpc' = [hpc EXCEPT ![c] = place]
              /\ hpc[c] # "none" /\ hpc[c] # "done"
              /\ \/ peer[c] = "gone"
                 \/ place \in {"recv", "record"}
                 \/ hpc[c] \in {"left", "notify", "close", "done"}
              /\ owner' = IF place = "done" THEN [owner EXCEPT ![fd[c]] = Nobody] ELSE owner
      BY <1>2, <2>4, HandlerPlaces DEF ShapeInv
    <3>3. Descriptor(c) BY <1>2 DEF DescriptorsInv
    <3>4. fd[c] \in Fds /\ owner[fd[c]] = c BY <2>0, <3>2, <3>3 DEF Descriptor, NetShape
    <3>5. CASE d = c
      <4>1. hpc'[d] = place BY <2>0, <3>2, <3>5
      <4>2. accepted # d /\ peer[d] # "new" BY <3>2, <3>3, <3>5 DEF Descriptor
      <4>3. place # "done" => owner' = owner BY <3>2
      <4>4. ASSUME place = "done", NEW f \in Fds PROVE owner'[f] # d
        BY <2>0, <3>2, <3>3, <3>4, <3>5, <4>4 DEF Descriptor, NetShape
      <4> QED BY <2>0, <3>1, <3>2, <3>3, <3>5, <4>1, <4>2, <4>3, <4>4 DEF Descriptor
    <3>6. CASE d # c
      <4>1. hpc'[d] = hpc[d] BY <2>0, <3>2, <3>6
      <4>2. \A f \in Fds : \/ owner'[f] = owner[f]
                           \/ owner'[f] = Nobody /\ owner[f] = c
        BY <2>0, <3>2, <3>4 DEF NetShape
      <4> QED BY <2>0, <3>1, <3>6, <4>1, <4>2 DEF Descriptor, NetShape
    <3> QED BY <3>5, <3>6
  <2>5. ASSUME NEW c \in Conns, Sender(c) PROVE Descriptor(d)'
    <3>1. UNCHANGED <<peer, fd, owner, hpc, accepted>>
      BY <2>5 DEF Sender, fdVars, mainVars, handlerVars
    <3>2. delivered'[d] = delivered[d] \/ peer[d] = "open"
      <4>1. \/ delivered' = delivered
            \/ \E e \in Conns : peer[e] = "open"
                 /\ delivered' = [delivered EXCEPT ![e] = Append(@, <<c, msg[c]>>)]
        BY <2>5 DEF Sender, SenderTop, SenderTests, SenderTakes, SenderSleeps,
           SenderRelocks, SenderSends, Open
      <4> QED BY <2>0, <4>1 DEF NetShape
    <3> QED BY <2>0, <3>1, <3>2 DEF Descriptor
  <2>6. ASSUME NEW c \in Conns, SendKills(c) PROVE Descriptor(d)'
    <3>1. UNCHANGED <<peer, fd, owner, hpc, accepted, delivered>>
      BY <2>6 DEF SendKills, netVars, fdVars, mainVars, handlerVars
    <3> QED BY <2>0, <3>1 DEF Descriptor
  <2>7. CASE Broadcaster BY <2>0, <2>7, CastKeeps DEF Descriptor
  <2>8. CASE UNCHANGED vars
    BY <2>0, <2>8 DEF vars, netVars, fdVars, mainVars, handlerVars, Descriptor
  <2> QED BY <1>2, <2>1, <2>2, <2>3, <2>4, <2>5, <2>6, <2>7, <2>8 DEF Next
<1> QED BY <1>1, <1>2, Shape, PTL DEF Spec

-----------------------------------------------------------------------------
(* Who has been added.                                                     *)

\* clients and what the broadcaster has still to go through name nobody twice.
ListsInv ==
  /\ \A i, j \in 1 .. Len(clients) : clients[i] = clients[j] => i = j
  /\ \A c \in Conns : Added(c) <=> hpc[c] # "none"
  /\ \A i, j \in 1 .. Len(todo) : todo[i] = todo[j] => i = j
  /\ \A i \in 1 .. Len(todo) : hpc[todo[i]] # "none"

\* A sender is started when the name has been received, and nothing is pushed to
\* who has not been added.
StartedInv ==
  \A c \in Conns :
    /\ hpc[c] \in {"none", "name", "left"} => spc[c] = "none"
    /\ hpc[c] = "none" => outbox[c] = <<>>

\* The handlers there are, by what a step does to hpc.
LEMMA HandlerStays ==
  ASSUME ShapeInv, NEW c \in Conns, Handler(c), NEW d \in Conns
  PROVE  /\ hpc[d] = "none" <=> hpc'[d] = "none"
         /\ Closed(d) => Closed(d)'
         /\ hpc'[d] \in {"none", "name", "left"} =>
              /\ hpc[d] \in {"none", "name", "left"} /\ spc'[d] = spc[d]
              /\ arriving'[d] = arriving[d] /\ name'[d] = name[d]
<1>0. ThreadShape /\ NetShape BY DEF ShapeInv
<1>1. PICK place \in {"left", "recv", "record", "notify", "close", "done"} :
         /\ hpc' = [hpc EXCEPT ![c] = place]
         /\ hpc[c] # "none" /\ hpc[c] # "done"
         /\ place = "left" => hpc[c] = "name"
  BY <1>0, HandlerPlaces
<1>2. \/ UNCHANGED <<spc, arriving, name>>
      \/ place # "left"
  <2>1. hpc'[c] = place BY <1>0, <1>1 DEF ThreadShape
  <2>2. ~NoName(c) => hpc'[c] # "left"
    BY <1>0 DEF Handler, RecvName, RecvAnswer, Record, HandlerEnds, HandlerNotifies,
       HandlerCloses, ThreadShape
  <2> QED BY <2>1, <2>2 DEF NoName
<1>3. d # c => UNCHANGED <<spc[d], arriving[d], name[d], hpc[d]>>
  <2>1. d # c => hpc'[d] = hpc[d] BY <1>0, <1>1 DEF ThreadShape
  <2>2. ASSUME d # c PROVE arriving'[d] = arriving[d] /\ name'[d] = name[d]
    <3>1. /\ arriving' = arriving
             \/ \E a : arriving' = [arriving EXCEPT ![c] = a]
          /\ name' = name \/ \E a : name' = [name EXCEPT ![c] = a]
      BY DEF Handler, RecvName, NoName, RecvAnswer, Record, HandlerEnds,
         HandlerNotifies, HandlerCloses
    <3> QED BY <1>0, <2>2, <3>1 DEF ThreadShape, NetShape
  <2>3. ASSUME d # c PROVE spc'[d] = spc[d]
    <3>1. spc' = spc \/ (\E a : spc' = [spc EXCEPT ![c] = a]) \/ spc' = Woken(c)
      BY HandlerSenders
    <3> QED BY <1>0, <2>3, <3>1 DEF ThreadShape, Woken
  <2> QED BY <2>1, <2>2, <2>3
<1>4. hpc'[c] = place BY <1>0, <1>1 DEF ThreadShape
<1> QED BY <1>1, <1>2, <1>3, <1>4 DEF Closed

LEMMA CastLists == ASSUME ShapeInv, ListsInv, Broadcaster PROVE ListsInv'
<1>0. UNCHANGED <<clients, hpc>> BY CastKeeps
<1>1. \A c : Added(c)' <=> Added(c) BY <1>0 DEF Added
<1>2. CASE todo' = todo BY <1>0, <1>1, <1>2 DEF ListsInv
<1>3. CASE StartPush
  <2>1. todo' = clients BY <1>3 DEF StartPush
  <2>2. \A i \in 1 .. Len(clients) : hpc[clients[i]] # "none"
    <3>1. \A i \in 1 .. Len(clients) : clients[i] \in Conns
      BY ElementOfSeq DEF ShapeInv, NetShape
    <3> QED BY <3>1 DEF ListsInv, Added
  <2> QED BY <1>0, <1>1, <2>1, <2>2 DEF ListsInv
<1>4. CASE PushOutbox
  <2>1. todo \in Seq(Conns) /\ todo # <<>> /\ todo' = Tail(todo)
    BY <1>4 DEF PushOutbox, ShapeInv, CastShape
  <2>2. /\ Len(todo) \in Nat /\ Len(todo') = Len(todo) - 1
        /\ \A i \in 1 .. Len(todo') : todo'[i] = todo[i + 1]
    BY <2>1, HeadTailProperties, LenProperties
  <2>3. \A i \in 1 .. Len(todo') : i + 1 \in 1 .. Len(todo) BY <2>2
  <2> QED BY <1>0, <1>1, <2>2, <2>3 DEF ListsInv
<1> QED BY <1>2, <1>3, <1>4 DEF Broadcaster, NewChallenge, EndPush, Snapshot, Log,
           BurstChallenge, LogBurst

LEMMA Lists == Spec => []ListsInv
<1>1. Init => ListsInv BY DEF Init, ListsInv, Added
<1>2. ASSUME ShapeInv, DescriptorsInv, ListsInv, [Next]_vars PROVE ListsInv'
  <2>1. CASE Broadcaster BY <1>2, <2>1, CastLists
  <2>2. ASSUME NEW c \in Conns, Handler(c) PROVE ListsInv'
    <3>1. UNCHANGED <<clients, todo>> BY <2>2, HandlerSenders
    <3>2. \A d \in Conns : hpc[d] = "none" <=> hpc'[d] = "none"
      BY <1>2, <2>2, HandlerStays
    <3>3. \A i \in 1 .. Len(todo) : todo[i] \in Conns
      BY <1>2, ElementOfSeq DEF ShapeInv, CastShape
    <3> QED BY <1>2, <3>1, <3>2, <3>3 DEF ListsInv, Added
  <2>3. CASE PushClient
    <3>1. /\ accepted \in Conns /\ clients' = Append(clients, accepted)
          /\ hpc' = [hpc EXCEPT ![accepted] = "name"] /\ todo' = todo
      BY <1>2, <2>3 DEF PushClient, castVars, ShapeInv, NetShape
    <3>2. clients \in Seq(Conns) /\ hpc[accepted] = "none" /\ Len(clients) \in Nat
      BY <1>2, <3>1, LenProperties
         DEF ShapeInv, NetShape, DescriptorsInv, Descriptor
    <3>3. /\ Len(clients') = Len(clients) + 1
          /\ \A i \in 1 .. Len(clients) : clients'[i] = clients[i]
          /\ clients'[Len(clients) + 1] = accepted
      BY <3>1, <3>2, AppendProperties
    <3>4. ~Added(accepted) BY <1>2, <3>1, <3>2 DEF ListsInv
    <3>5. \A c : Added(c)' <=> Added(c) \/ c = accepted
      BY <3>2, <3>3 DEF Added
    <3>6. \A c \in Conns : hpc'[c] # "none" <=> hpc[c] # "none" \/ c = accepted
      BY <1>2, <3>1 DEF ShapeInv, ThreadShape
    <3>7. ASSUME NEW i \in 1 .. Len(clients'), NEW j \in 1 .. Len(clients'),
                 clients'[i] = clients'[j]
          PROVE  i = j
      BY <1>2, <3>2, <3>3, <3>4, <3>7 DEF ListsInv, Added
    <3>8. \A i \in 1 .. Len(todo) : todo[i] \in Conns
      BY <1>2, ElementOfSeq DEF ShapeInv, CastShape
    <3> QED BY <1>2, <3>1, <3>5, <3>6, <3>7, <3>8 DEF ListsInv
  <2>4. CASE UNCHANGED <<clients, hpc, todo>> BY <1>2, <2>4 DEF ListsInv, Added
  <2>5. ASSUME NEW c \in Conns, Client(c) \/ Accept(c) \/ Sender(c) \/ SendKills(c)
        PROVE  UNCHANGED <<clients, hpc, todo>>
    BY <2>5 DEF Client, ClientReads, ClientLeaves, Accept, Sender, SendKills, serverVars,
       mainVars, handlerVars, castVars
  <2>6. UNCHANGED vars => UNCHANGED <<clients, hpc, todo>>
    BY DEF vars, mainVars, handlerVars, castVars
  <2> QED BY <1>2, <2>1, <2>2, <2>3, <2>4, <2>5, <2>6 DEF Next
<1> QED BY <1>1, <1>2, Shape, Descriptors, PTL DEF Spec

\* The next to be pushed to has been added, and comes once in what is left.
LEMMA NextPushed ==
  ASSUME ShapeInv, ListsInv, todo # <<>>
  PROVE  /\ Head(todo) \in Conns /\ hpc[Head(todo)] # "none"
         /\ Len(todo) \in Nat /\ Len(Tail(todo)) = Len(todo) - 1
         /\ \A i \in 1 .. Len(todo) - 1 : Tail(todo)[i] = todo[i + 1]
         /\ todo[1] = Head(todo)
         /\ \A i \in 1 .. Len(todo) - 1 : Tail(todo)[i] # Head(todo)
<1>1. todo \in Seq(Conns) BY DEF ShapeInv, CastShape
<1>2. /\ Len(todo) \in Nat /\ Len(Tail(todo)) = Len(todo) - 1 /\ Len(todo) > 0
      /\ \A i \in 1 .. Len(todo) - 1 : Tail(todo)[i] = todo[i + 1]
      /\ Head(todo) = todo[1] /\ Head(todo) \in Conns
  BY <1>1, HeadTailProperties, LenProperties, EmptySeq
<1>3. hpc[Head(todo)] # "none" BY <1>2 DEF ListsInv
<1>4. \A i \in 1 .. Len(todo) - 1 : i + 1 \in 1 .. Len(todo) /\ i + 1 # 1 BY <1>2
<1>5. \A i \in 1 .. Len(todo) - 1 : Tail(todo)[i] # Head(todo)
  BY <1>2, <1>4 DEF ListsInv
<1> QED BY <1>2, <1>3, <1>5 DEF ListsInv

LEMMA Started == Spec => []StartedInv
<1>1. Init => StartedInv BY DEF Init, StartedInv
<1>2. ASSUME ShapeInv, DescriptorsInv, ListsInv, StartedInv, [Next]_vars PROVE StartedInv'
  <2> SUFFICES ASSUME NEW d \in Conns
               PROVE  /\ hpc'[d] \in {"none", "name", "left"} => spc'[d] = "none"
                      /\ hpc'[d] = "none" => outbox'[d] = <<>>
    BY DEF StartedInv
  <2>0. /\ ThreadShape /\ (hpc[d] \in {"none", "name", "left"} => spc[d] = "none")
        /\ hpc[d] = "none" => outbox[d] = <<>>
    BY <1>2 DEF StartedInv, ShapeInv
  <2>1. CASE Broadcaster
    <3>0. hpc' = hpc BY <2>1, CastKeeps
    <3>1. CASE ~PushOutbox
      <4>1. UNCHANGED <<outbox, spc>> BY <1>2, <2>1, <3>1, CastSenders
      <4> QED BY <2>0, <3>0, <4>1
    <3>2. CASE PushOutbox
      <4>1. PICK h \in Conns :
              /\ outbox' = [outbox EXCEPT ![h] = Append(outbox[h], cid)]
              /\ spc' = Woken(h) /\ hpc[h] # "none"
        BY <1>2, <2>1, <3>2, CastSenders, NextPushed
      <4>2. spc[d] = "none" => spc'[d] = "none" BY <2>0, <4>1 DEF Woken, ThreadShape
      <4>3. hpc[d] = "none" => outbox'[d] = outbox[d] BY <2>0, <4>1 DEF ThreadShape
      <4> QED BY <2>0, <3>0, <4>2, <4>3
    <3> QED BY <3>1, <3>2
  <2>2. ASSUME NEW c \in Conns, Handler(c) PROVE StartedInv'
    <3>1. outbox' = outbox BY <2>2, HandlerSenders
    <3>2. \A e \in Conns : /\ hpc[e] = "none" <=> hpc'[e] = "none"
                           /\ hpc'[e] \in {"none", "name", "left"} =>
                                hpc[e] \in {"none", "name", "left"} /\ spc'[e] = spc[e]
      BY <1>2, <2>2, HandlerStays
    <3> QED BY <1>2, <3>1, <3>2 DEF StartedInv
  <2>3. CASE PushClient
    <3>1. /\ accepted \in Conns /\ hpc' = [hpc EXCEPT ![accepted] = "name"]
          /\ UNCHANGED <<outbox, spc>>
      BY <1>2, <2>3, SendersKept DEF PushClient, ShapeInv, NetShape
    <3>2. hpc[accepted] = "none"
      BY <1>2, <3>1 DEF DescriptorsInv, Descriptor
    <3> QED BY <1>2, <2>0, <3>1, <3>2 DEF ThreadShape
  <2>4. ASSUME NEW c \in Conns, Sender(c) PROVE StartedInv'
    <3>1. hpc' = hpc /\ spc[c] # "none"
      BY <2>4 DEF Sender, SenderTop, SenderTests, SenderTakes, SenderSleeps, SenderRelocks,
         SenderSends, handlerVars
    <3>2. hpc[c] \notin {"none", "name", "left"} BY <1>2, <3>1 DEF StartedInv
    <3>3. \A e \in Conns : e # c => spc'[e] = spc[e] /\ outbox'[e] = outbox[e]
      BY <2>0, <2>4 DEF Sender, SenderTop, SenderTests, SenderTakes, SenderSleeps,
         SenderRelocks, SenderSends, ThreadShape
    <3> QED BY <1>2, <3>1, <3>2, <3>3 DEF StartedInv
  <2>5. ASSUME NEW c \in Conns, Client(c) \/ Accept(c) \/ SendKills(c) PROVE StartedInv'
    <3>1. hpc' = hpc
      BY <2>5 DEF Client, ClientReads, ClientLeaves, Accept, SendKills, serverVars,
         handlerVars
    <3> QED BY <1>2, <2>5, <3>1, SendersKept DEF StartedInv
  <2>6. CASE UNCHANGED vars
    BY <2>0, <2>6 DEF vars, senderVars, handlerVars
  <2> QED BY <1>2, <2>1, <2>2, <2>3, <2>4, <2>5, <2>6 DEF Next, StartedInv
<1> QED BY <1>1, <1>2, Shape, Descriptors, Lists, PTL DEF Spec

-----------------------------------------------------------------------------
(* What is sent to whom.                                                   *)

\* delivered[d] grows by m.
Arrives(d, m) ==
  /\ Len(delivered'[d]) = Len(delivered[d]) + 1
  /\ \A i \in 1 .. Len(delivered[d]) : delivered'[d][i] = delivered[d][i]
  /\ delivered'[d][Len(delivered[d]) + 1] = m
  /\ \A e \in Conns : e # d => delivered'[e] = delivered[e]

\* What is sent arrives at the client itself, or after its handler has closed
\* at the one that has the descriptor now; or at nobody.
LEMMA SendStep ==
  ASSUME ShapeInv, DescriptorsInv, StartedInv, NEW c \in Conns, SenderSends(c)
  PROVE  \/ delivered' = delivered /\ peer[c] # "open"
         \/ \E d \in Conns :
              /\ peer[d] = "open" /\ fd[d] = fd[c] /\ (d = c \/ Closed(c))
              /\ Arrives(d, <<c, msg[c]>>)
<1>0. NetShape /\ ThreadShape /\ Descriptor(c) BY DEF ShapeInv, DescriptorsInv
<1>1. spc[c] = "send" BY DEF SenderSends
<1>2. hpc[c] \notin {"none", "name", "left"} BY <1>1 DEF StartedInv
<1>3. fd[c] \in Fds /\ (Closed(c) \/ owner[fd[c]] = c)
  BY <1>0, <1>2 DEF Descriptor, NetShape
<1>4. Closed(c) => peer[c] = "gone" BY <1>0 DEF Descriptor, Closed
<1>5. CASE ~Open(owner[fd[c]])
  <2>1. delivered' = delivered BY <1>5 DEF SenderSends
  <2>2. peer[c] # "open" BY <1>3, <1>4, <1>5 DEF Open
  <2> QED BY <2>1, <2>2
<1>6. CASE Open(owner[fd[c]])
  <2>1. PICK d \in Conns : d = owner[fd[c]] /\ peer[d] = "open"
    BY <1>6 DEF Open
  <2>2. delivered' = [delivered EXCEPT ![d] = Append(delivered[d], <<c, msg[c]>>)]
    BY <1>6, <2>1 DEF SenderSends
  <2>3. fd[d] = fd[c] BY <1>3, <2>1 DEF DescriptorsInv, Descriptor
  <2>4. delivered[d] \in Seq(Messages) /\ <<c, msg[c]>> \in Messages
    BY <1>0 DEF NetShape, ThreadShape, Messages
  <2>5. Arrives(d, <<c, msg[c]>>)
    <3>1. delivered'[d] = Append(delivered[d], <<c, msg[c]>>) BY <1>0, <2>2 DEF NetShape
    <3>2. \A e \in Conns : e # d => delivered'[e] = delivered[e]
      BY <1>0, <2>2 DEF NetShape
    <3> QED BY <2>4, <3>1, <3>2, AppendProperties DEF Arrives
  <2>6. d = c \/ Closed(c) BY <1>3, <2>1
  <2> QED BY <2>1, <2>3, <2>5, <2>6
<1> QED BY <1>5, <1>6

\* Only a sender moves delivered.
LEMMA DeliveredKept ==
  ASSUME [Next]_vars, ~(\E c \in Conns : SenderSends(c) /\ Sender(c))
  PROVE  delivered' = delivered
<1>1. ASSUME NEW c \in Conns, Client(c) \/ Accept(c) \/ SendKills(c) \/ Sender(c)
      PROVE  delivered' = delivered
  BY <1>1 DEF Client, ClientReads, ClientLeaves, Accept, SendKills, netVars, Sender,
     SenderTop, SenderTests, SenderTakes, SenderSleeps, SenderRelocks
<1>2. ASSUME NEW c \in Conns, Handler(c) PROVE delivered' = delivered
  BY <1>2, HandlerSenders
<1>3. CASE PushClient \/ UNCHANGED vars BY <1>3 DEF PushClient, vars, netVars
<1> QED BY <1>1, <1>2, <1>3, CastKeeps DEF Next

\* A handler that has closed stays so, and a descriptor given stays given.
LEMMA ClosedKept ==
  ASSUME ShapeInv, DescriptorsInv, [Next]_vars, NEW c \in Conns, Closed(c)
  PROVE  Closed(c)' /\ fd'[c] = fd[c]
<1>0. NetShape /\ ThreadShape /\ Descriptor(c) BY DEF ShapeInv, DescriptorsInv
<1>1. hpc[c] = "done" /\ peer[c] = "gone" /\ accepted # c
  BY <1>0 DEF Descriptor, Closed
<1>2. ASSUME NEW d \in Conns, Handler(d) PROVE Closed(c)' /\ fd'[c] = fd[c]
  BY <1>2, HandlerStays, HandlerSenders
<1>3. CASE PushClient
  <2>1. accepted \in Conns /\ hpc' = [hpc EXCEPT ![accepted] = "name"] /\ fd' = fd
    BY <1>0, <1>3, Zenon DEF PushClient, NetShape, fdVars
  <2> QED BY <1>0, <1>1, <2>1 DEF ThreadShape, Closed
<1>4. ASSUME NEW d \in Conns, Accept(d) PROVE Closed(c)' /\ fd'[c] = fd[c]
  <2>1. peer[d] = "new" /\ hpc' = hpc /\ \E f \in Fds : fd' = [fd EXCEPT ![d] = f]
    BY <1>4 DEF Accept, handlerVars
  <2> QED BY <1>0, <1>1, <2>1 DEF NetShape, Closed
<1>5. ASSUME NEW d \in Conns, Client(d) \/ Sender(d) \/ SendKills(d)
      PROVE  hpc' = hpc /\ fd' = fd
  BY <1>5 DEF Client, ClientReads, ClientLeaves, Sender, SendKills, serverVars,
     handlerVars, fdVars
<1>6. UNCHANGED vars => hpc' = hpc /\ fd' = fd BY DEF vars, handlerVars, fdVars
<1> QED BY <1>1, <1>2, <1>3, <1>4, <1>5, <1>6, CastKeeps DEF Next, Closed

\* What another's sender has sent came from a handler that had closed; and who
\* has no sender has sent itself nothing.
StrangersInv ==
  \A d \in Conns : \A i \in 1 .. Len(delivered[d]) :
    LET c == delivered[d][i][1] IN
      /\ c # d => Closed(c) /\ fd[c] = fd[d]
      /\ c = d => spc[d] # "none"

\* Of a message that is there: who sent it.
LEMMA SenderOf ==
  ASSUME ShapeInv, NEW d \in Conns, NEW i \in 1 .. Len(delivered[d])
  PROVE  delivered[d][i] \in Messages /\ delivered[d][i][1] \in Conns
         /\ delivered[d][i][2] \in Given /\ Len(delivered[d]) \in Nat
<1>1. delivered[d] \in Seq(Messages) BY DEF ShapeInv, NetShape
<1>2. delivered[d][i] \in Messages BY <1>1, ElementOfSeq
<1> QED BY <1>1, <1>2, LenProperties DEF Messages

\* A sender that has been started stays so.
LEMMA StartedKept ==
  ASSUME ShapeInv, StartedInv, [Next]_vars, NEW c \in Conns, spc[c] # "none"
  PROVE  spc'[c] # "none"
<1>0. ThreadShape BY DEF ShapeInv
<1>1. ASSUME NEW d \in Conns, Handler(d) PROVE spc'[c] # "none"
  <2>1. \/ spc' = spc \/ spc' = [spc EXCEPT ![d] = "top"] \/ spc' = Woken(d)
    BY <1>1, HandlerSenders
  <2> QED BY <1>0, <2>1 DEF ThreadShape, Woken
<1>2. ASSUME NEW d \in Conns, Sender(d) PROVE spc'[c] # "none"
  <2>1. \E place \in {"top", "test", "sleep", "asleep", "send", "relock", "done"} :
          spc' = [spc EXCEPT ![d] = place]
    BY <1>2 DEF Sender, SenderTop, SenderTests, SenderTakes, SenderSleeps, SenderRelocks,
       SenderSends
  <2> QED BY <1>0, <2>1 DEF ThreadShape
<1>3. CASE Broadcaster
  <2>1. spc' = spc \/ \E h \in Conns : spc' = Woken(h) BY <1>3, CastSenders
  <2> QED BY <1>0, <2>1 DEF ThreadShape, Woken
<1> QED BY <1>1, <1>2, <1>3, SendersKept DEF Next

LEMMA Strangers == Spec => []StrangersInv
<1>1. Init => StrangersInv BY DEF Init, StrangersInv
<1>2. ASSUME ShapeInv, DescriptorsInv, StartedInv, StrangersInv, [Next]_vars
      PROVE  StrangersInv'
  <2> SUFFICES ASSUME NEW d \in Conns, NEW i \in 1 .. Len(delivered'[d]),
                      NEW c, c = delivered'[d][i][1]
               PROVE  /\ c # d => Closed(c)' /\ fd'[c] = fd'[d]
                      /\ c = d => spc'[d] # "none"
    BY DEF StrangersInv
  <2>1. ASSUME i \in 1 .. Len(delivered[d]), delivered'[d][i] = delivered[d][i]
        PROVE  /\ c # d => Closed(c)' /\ fd'[c] = fd'[d]
               /\ c = d => spc'[d] # "none"
    <3>1. c \in Conns /\ c = delivered[d][i][1] BY <1>2, <2>1, SenderOf
    <3>2. (c # d => Closed(c) /\ fd[c] = fd[d]) /\ (c = d => spc[d] # "none")
      BY <1>2, <2>1, <3>1 DEF StrangersInv
    <3>3. CASE c = d BY <1>2, <3>1, <3>2, <3>3, StartedKept
    <3>4. CASE c # d
      <4>1. Closed(c)' /\ fd'[c] = fd[c] BY <1>2, <3>1, <3>2, <3>4, ClosedKept
      <4>2. fd[d] # 0
        <5>1. Len(delivered[d]) \in Nat /\ Len(delivered[d]) # 0
          BY <1>2, <2>1, SenderOf
        <5>2. delivered[d] # <<>> BY <5>1
        <5> QED BY <1>2, <5>2 DEF DescriptorsInv, Descriptor
      <4>3. fd'[d] = fd[d]
        <5>1. CASE \E e \in Conns : Accept(e)
          <6>1. PICK e \in Conns : Accept(e) BY <5>1
          <6>2. peer[e] = "new" /\ \E f \in Fds : fd' = [fd EXCEPT ![e] = f]
            BY <6>1 DEF Accept
          <6>3. e # d BY <1>2, <4>2, <6>2 DEF DescriptorsInv, Descriptor
          <6> QED BY <1>2, <6>2, <6>3 DEF ShapeInv, NetShape
        <5>2. CASE ~\E e \in Conns : Accept(e)
          <6>1. ASSUME NEW e \in Conns, Client(e) \/ Sender(e) \/ SendKills(e)
                PROVE  fd' = fd
            BY <6>1 DEF Client, ClientReads, ClientLeaves, Sender, SendKills, serverVars,
               fdVars
          <6>2. PushClient \/ UNCHANGED vars => fd' = fd
            BY Zenon DEF PushClient, vars, fdVars
          <6>3. \A e \in Conns : Handler(e) => fd' = fd BY HandlerSenders
          <6> QED BY <1>2, <5>2, <6>1, <6>2, <6>3, CastKeeps DEF Next
        <5> QED BY <5>1, <5>2
      <4> QED BY <3>2, <3>4, <4>1, <4>3
    <3> QED BY <3>3, <3>4
  <2>2. CASE \E e \in Conns : SenderSends(e) /\ Sender(e)
    <3>1. PICK e \in Conns : SenderSends(e) /\ Sender(e) BY <2>2
    <3>2. CASE delivered' = delivered BY <2>1, <3>2
    <3>3. ASSUME NEW a \in Conns, fd[a] = fd[e], a = e \/ Closed(e),
                 Arrives(a, <<e, msg[e]>>)
          PROVE  /\ c # d => Closed(c)' /\ fd'[c] = fd'[d]
                 /\ c = d => spc'[d] # "none"
      <4>1. CASE d # a BY <2>1, <3>3, <4>1 DEF Arrives
      <4>2. CASE d = a
        <5>1. Len(delivered[d]) \in Nat
          BY <1>2, LenProperties DEF ShapeInv, NetShape
        <5>2. CASE i \in 1 .. Len(delivered[d]) BY <2>1, <3>3, <4>2, <5>2 DEF Arrives
        <5>3. CASE i = Len(delivered[d]) + 1
          <6>1. c = e BY <3>3, <4>2, <5>3 DEF Arrives
          <6>2. UNCHANGED <<hpc, fd>> /\ spc[e] # "none"
            BY <3>1 DEF Sender, SenderSends, fdVars, handlerVars
          <6>3. spc'[e] # "none" BY <1>2, <6>2, StartedKept
          <6> QED BY <3>3, <4>2, <6>1, <6>2, <6>3 DEF Closed
        <5> QED BY <3>3, <4>2, <5>1, <5>2, <5>3 DEF Arrives
      <4> QED BY <4>1, <4>2
    <3> QED BY <1>2, <3>1, <3>2, <3>3, SendStep
  <2>3. CASE delivered' = delivered BY <2>1, <2>3
  <2> QED BY <1>2, <2>2, <2>3, DeliveredKept
<1> QED BY <1>1, <1>2, Shape, Descriptors, Started, PTL DEF Spec

\* Messages stay where they are on the wire.
LEMMA DeliveredGrows ==
  ASSUME ShapeInv, DescriptorsInv, StartedInv, [Next]_vars, NEW d \in Conns
  PROVE  /\ Len(delivered[d]) \in Nat /\ Len(delivered'[d]) \in Nat
         /\ Len(delivered[d]) <= Len(delivered'[d])
         /\ \A i \in 1 .. Len(delivered[d]) : delivered'[d][i] = delivered[d][i]
<1>1. Len(delivered[d]) \in Nat BY LenProperties DEF ShapeInv, NetShape
<1>2. CASE delivered' = delivered BY <1>1, <1>2
<1>3. ASSUME NEW c \in Conns, NEW a \in Conns, Arrives(a, <<c, msg[c]>>)
      PROVE  /\ Len(delivered'[d]) \in {Len(delivered[d]), Len(delivered[d]) + 1}
             /\ \A i \in 1 .. Len(delivered[d]) : delivered'[d][i] = delivered[d][i]
  BY <1>1, <1>3 DEF Arrives
<1>4. CASE \E c \in Conns : SenderSends(c)
  <2>1. \/ delivered' = delivered
        \/ \E c, a \in Conns : Arrives(a, <<c, msg[c]>>)
    BY <1>4, SendStep
  <2>2. CASE \E c, a \in Conns : Arrives(a, <<c, msg[c]>>)
    <3>1. PICK c \in Conns, a \in Conns : Arrives(a, <<c, msg[c]>>) BY <2>2
    <3>2. /\ Len(delivered'[d]) \in {Len(delivered[d]), Len(delivered[d]) + 1}
          /\ \A i \in 1 .. Len(delivered[d]) : delivered'[d][i] = delivered[d][i]
      BY <1>3, <3>1
    <3> QED BY <1>1, <3>2
  <2> QED BY <1>2, <2>1, <2>2
<1> QED BY <1>2, <1>4, DeliveredKept

\* Pieces of a name.
NameTokens == [of : {TheName}, kind : Kinds]

\* Until the name is received, all that a client sends is its name, unless it has
\* been sent something; and who has another name has been sent what was not meant
\* for it.
NameInv ==
  \A d \in Conns :
    /\ hpc[d] \in {"none", "name", "left"} =>
         /\ name[d] = <<>>
         /\ arriving[d] \in Seq(NameTokens) \/ delivered[d] # <<>>
    /\ \/ name[d] \in Seq(NameTokens)
       \/ \E i \in 1 .. Len(delivered[d]) : delivered[d][i][1] # d

LEMMA Names == Spec => []NameInv
<1>1. Init => NameInv BY EmptySeq DEF Init, NameInv
<1>n. NameText \in Seq(NameTokens)
  <2>1. Token(TheName, "name") \in NameTokens BY DEF Token, NameTokens, Kinds
  <2> QED BY <2>1 DEF NameText
<1>2. ASSUME ShapeInv, DescriptorsInv, ListsInv, StartedInv, StrangersInv, NameInv,
             [Next]_vars
      PROVE  NameInv'
  <2> SUFFICES ASSUME NEW d \in Conns
               PROVE  /\ hpc'[d] \in {"none", "name", "left"} =>
                           /\ name'[d] = <<>>
                           /\ \/ arriving'[d] \in Seq(NameTokens)
                              \/ delivered'[d] # <<>>
                      /\ \/ name'[d] \in Seq(NameTokens)
                         \/ \E i \in 1 .. Len(delivered'[d]) : delivered'[d][i][1] # d
    BY DEF NameInv
  <2>0. /\ NetShape /\ ThreadShape
        /\ hpc[d] \in {"none", "name", "left"} =>
             /\ name[d] = <<>>
             /\ arriving[d] \in Seq(NameTokens) \/ delivered[d] # <<>>
        /\ \/ name[d] \in Seq(NameTokens)
           \/ \E i \in 1 .. Len(delivered[d]) : delivered[d][i][1] # d
    BY <1>2 DEF ShapeInv, NameInv
  <2>1. /\ delivered[d] # <<>> => delivered'[d] # <<>>
        /\ (\E i \in 1 .. Len(delivered[d]) : delivered[d][i][1] # d) =>
              \E i \in 1 .. Len(delivered'[d]) : delivered'[d][i][1] # d
    <3>1. /\ Len(delivered[d]) \in Nat /\ Len(delivered'[d]) \in Nat
          /\ Len(delivered[d]) <= Len(delivered'[d])
          /\ \A i \in 1 .. Len(delivered[d]) : delivered'[d][i] = delivered[d][i]
      BY <1>2, DeliveredGrows
    <3>2. delivered[d] # <<>> => Len(delivered[d]) # 0
      BY <2>0, EmptySeq DEF NetShape
    <3>3. delivered'[d] = <<>> => Len(delivered'[d]) = 0 OBVIOUS
    <3> QED BY <3>1, <3>2, <3>3
  <2>2. ASSUME NEW c \in Conns, Handler(c), RecvName(c), c = d
        PROVE  /\ hpc'[d] = "recv"
               /\ name'[d] \in Seq(NameTokens)
                  \/ \E i \in 1 .. Len(delivered[d]) : delivered[d][i][1] # d
    <3>1. PICK receipt \in Receipts(arriving[d]) : name'[d] = receipt.got
      BY <2>0, <2>2 DEF RecvName, Received, ThreadShape
    <3>2. hpc[d] = "name" /\ hpc'[d] = "recv" BY <2>0, <2>2 DEF RecvName, ThreadShape
    <3>3. CASE arriving[d] \in Seq(NameTokens)
      <4>1. \A t \in NameTokens : Cut(t) \in NameTokens BY DEF Cut, NameTokens, Kinds
      <4>2. receipt.got \in Seq(NameTokens) BY <3>3, <4>1, ReceiptsOf
      <4> QED BY <3>1, <3>2, <4>2
    <3>4. CASE delivered[d] # <<>>
      <4>1. spc[d] = "none" BY <1>2, <3>2 DEF StartedInv
      <4>2. 1 \in 1 .. Len(delivered[d])
        BY <2>0, <3>4, EmptySeq, LenProperties DEF NetShape
      <4>3. delivered[d][1][1] # d BY <1>2, <4>1, <4>2 DEF StrangersInv
      <4> QED BY <3>2, <4>2, <4>3
    <3> QED BY <2>0, <3>2, <3>3, <3>4
  <2>3. ASSUME NEW c \in Conns, Handler(c), ~(RecvName(c) /\ c = d)
        PROVE  name'[d] = name[d]
    BY <2>0, <2>3 DEF Handler, RecvName, NoName, RecvAnswer, Record, HandlerEnds,
       HandlerNotifies, HandlerCloses, ThreadShape
  <2>4. ASSUME NEW c \in Conns, Handler(c), hpc'[d] \in {"none", "name", "left"}
        PROVE  /\ hpc[d] \in {"none", "name", "left"}
               /\ name'[d] = name[d] /\ arriving'[d] = arriving[d]
    BY <1>2, <2>4, HandlerStays
  <2>5. CASE \E c \in Conns : Handler(c)
    <3>1. PICK c \in Conns : Handler(c) BY <2>5
    <3>2. CASE RecvName(c) /\ c = d BY <2>1, <2>2, <3>1, <3>2
    <3>3. CASE ~(RecvName(c) /\ c = d) BY <2>0, <2>1, <2>3, <2>4, <3>1, <3>3
    <3> QED BY <3>2, <3>3
  <2>6. CASE PushClient
    <3>1. /\ accepted \in Conns /\ hpc' = [hpc EXCEPT ![accepted] = "name"]
          /\ name' = name /\ arriving' = arriving
      BY <2>0, <2>6, Zenon DEF PushClient, NetShape, netVars
    <3>2. hpc[accepted] = "none" BY <1>2, <3>1 DEF DescriptorsInv, Descriptor
    <3>3. hpc'[d] = hpc[d] \/ hpc[d] = "none" BY <2>0, <3>1, <3>2 DEF ThreadShape
    <3> QED BY <2>0, <2>1, <3>1, <3>3
  <2>7. ASSUME NEW c \in Conns, Client(c) \/ Accept(c)
        PROVE  /\ hpc' = hpc /\ name' = name
               /\ \/ arriving'[d] \in {arriving[d], NameText}
                  \/ delivered[d] # <<>>
    <3>1. hpc' = hpc /\ name' = name
      BY <2>7 DEF Client, ClientReads, ClientLeaves, Accept, serverVars, handlerVars
    <3>2. CASE ClientReads(c)
      <4>1. CASE c = d
        <5>1. read[d] < Len(delivered[d]) /\ read[d] \in Nat
          BY <2>0, <3>2, <4>1 DEF ClientReads, NetShape
        <5>2. delivered[d] # <<>> BY <5>1
        <5> QED BY <3>1, <5>2
      <4>2. CASE c # d
        <5>1. arriving' = arriving \/ \E a : arriving' = [arriving EXCEPT ![c] = a]
          BY <3>2 DEF ClientReads, Says
        <5>2. arriving'[d] = arriving[d] BY <2>0, <4>2, <5>1 DEF NetShape
        <5> QED BY <3>1, <5>2
      <4> QED BY <4>1, <4>2
    <3>3. CASE ClientLeaves(c) BY <3>1, <3>3 DEF ClientLeaves
    <3>4. CASE Accept(c) BY <2>0, <3>1, <3>4 DEF Accept, NetShape
    <3> QED BY <2>7, <3>2, <3>3, <3>4 DEF Client
  <2>8. CASE UNCHANGED <<hpc, name, arriving>> BY <2>0, <2>1, <2>8
  <2>9. ASSUME NEW c \in Conns, Sender(c) \/ SendKills(c)
        PROVE  UNCHANGED <<hpc, name, arriving>>
    BY <2>9 DEF Sender, SendKills, handlerVars, netVars
  <2>10. UNCHANGED vars => UNCHANGED <<hpc, name, arriving>>
    BY DEF vars, handlerVars, netVars
  <2> QED BY <1>2, <1>n, <2>0, <2>1, <2>5, <2>6, <2>7, <2>8, <2>9, <2>10, CastKeeps
          DEF Next
<1> QED BY <1>1, <1>2, Shape, Descriptors, Lists, Started, Strangers, PTL DEF Spec

\* A client is sent what is meant for another only over a descriptor the other's
\* handler has closed; till then its name is its name.
THEOREM StrangersAfterClose == Spec => []StrangersOnlyAfterClose
<1>1. ASSUME ShapeInv, StrangersInv, NameInv PROVE StrangersOnlyAfterClose
  <2> SUFFICES ASSUME NEW d \in Conns
               PROVE  LET strangers ==
                            {delivered[d][i][1] : i \in 1 .. Len(delivered[d])} \ {d}
                      IN  /\ \A c \in strangers : hpc[c] = "done" /\ fd[c] = fd[d]
                          /\ strangers = {} =>
                               \A k \in 1 .. Len(name[d]) : name[d][k].of = TheName
    BY DEF StrangersOnlyAfterClose
  <2> DEFINE strangers == {delivered[d][i][1] : i \in 1 .. Len(delivered[d])} \ {d}
  <2>1. ASSUME NEW c \in strangers PROVE hpc[c] = "done" /\ fd[c] = fd[d]
    BY <1>1 DEF StrangersInv, Closed
  <2>2. ASSUME strangers = {}, NEW k \in 1 .. Len(name[d])
        PROVE  name[d][k].of = TheName
    <3>1. \A i \in 1 .. Len(delivered[d]) : delivered[d][i][1] = d BY <2>2
    <3>2. name[d] \in Seq(NameTokens) BY <1>1, <3>1 DEF NameInv
    <3>3. name[d][k] \in NameTokens BY <3>2, ElementOfSeq
    <3> QED BY <3>3 DEF NameTokens
  <2> QED BY <2>1, <2>2
<1> QED BY <1>1, Shape, Strangers, Names, PTL

-----------------------------------------------------------------------------
(* The run of ids from the broadcaster to the wire.                        *)

Todo(c) == \E i \in 1 .. Len(todo) : todo[i] = c

\* The last id pushed to c, and the next its sender will put on the wire.
Frontier(c) == IF bpc = "lock" \/ (bpc = "push" /\ Todo(c)) THEN cid - 1 ELSE cid
NextOnWire(c) == Frontier(c) + 1 - Len(outbox[c]) - Sending(c)

\* The outbox and what the sender holds are the ids up to the last pushed; what
\* it has sent are lower ones in order, of which none is missing from the first
\* while the client stays.
HeldRun(c) ==
  /\ \A k \in 1 .. Len(outbox[c]) : outbox[c][k] = Frontier(c) - Len(outbox[c]) + k
  /\ spc[c] = "send" => msg[c] = NextOnWire(c)
SentRun(c) ==
  /\ \A i \in Own(c) : delivered[c][i][2] < NextOnWire(c)
  /\ \A i, j \in Own(c) : i < j => delivered[c][i][2] < delivered[c][j][2]
  /\ peer[c] = "open" =>
       \E first \in 1 .. cid + 1 :
         /\ first <= NextOnWire(c)
         /\ {delivered[c][i][2] : i \in Own(c)} = first .. NextOnWire(c) - 1

RunInv == \A c \in Conns : HeldRun(c) /\ SentRun(c)

LEMMA RunNumbers ==
  ASSUME ShapeInv, NEW c \in Conns
  PROVE  /\ Len(outbox[c]) \in Nat /\ cid \in Nat /\ Frontier(c) \in {cid, cid - 1}
         /\ Sending(c) \in {0, 1} /\ NextOnWire(c) \in Int
         /\ \A i \in Own(c) : delivered[c][i][2] \in Nat
<1>1. Len(outbox[c]) \in Nat BY LenProperties DEF ShapeInv, ThreadShape
<1>2. cid \in Nat BY ConstantsAssumption DEF ShapeInv, CastShape, Ids
<1>3. \A i \in Own(c) : delivered[c][i][2] \in Given BY SenderOf DEF Own
<1>4. Frontier(c) \in {cid, cid - 1} /\ Sending(c) \in {0, 1}
  BY <1>2 DEF Frontier, Sending
<1>5. NextOnWire(c) \in Int BY <1>1, <1>2, <1>4 DEF NextOnWire
<1> QED BY <1>1, <1>2, <1>3, <1>4, <1>5 DEF Given

LEMMA Wider ==
  ASSUME NEW n \in Nat, NEW m \in {n, n + 1}
  PROVE  \A first \in 1 .. n + 1 : first \in 1 .. m + 1
OBVIOUS

LEMMA Shift ==
  ASSUME NEW f \in Int, NEW n \in Nat, NEW m, m = n - 1, NEW k \in Int
  PROVE  f - n + (k + 1) = f - m + k
OBVIOUS

\* What leaves a run as it is.
LEMMA SameRun ==
  ASSUME ShapeInv, NEW c \in Conns, HeldRun(c), SentRun(c),
         outbox'[c] = outbox[c], msg'[c] = msg[c], spc'[c] = "send" <=> spc[c] = "send",
         Own(c)' = Own(c), \A i \in Own(c) : delivered'[c][i] = delivered[c][i],
         Frontier(c)' = Frontier(c), cid' \in {cid, cid + 1},
         peer'[c] = "open" => peer[c] = "open"
  PROVE  HeldRun(c)' /\ SentRun(c)'
<1>1. Sending(c)' = Sending(c) BY DEF Sending
<1>2. NextOnWire(c)' = NextOnWire(c) BY <1>1 DEF NextOnWire
<1>3. HeldRun(c)' BY <1>2 DEF HeldRun
<1>4. {delivered'[c][i][2] : i \in Own(c)'} = {delivered[c][i][2] : i \in Own(c)}
  OBVIOUS
<1>5. cid \in Nat BY RunNumbers
<1>6. \A first \in 1 .. cid + 1 : first \in 1 .. cid' + 1 BY <1>5, Wider
<1>7. SentRun(c)' BY <1>2, <1>4, <1>6 DEF SentRun
<1> QED BY <1>3, <1>7

\* A client that nothing has been pushed to.
LEMMA EmptyRun ==
  ASSUME ShapeInv', NEW c \in Conns, outbox'[c] = <<>>, spc'[c] # "send", Own(c)' = {},
         Frontier(c)' >= 0
  PROVE  HeldRun(c)' /\ SentRun(c)'
<1>1. Len(outbox'[c]) = 0 /\ Sending(c)' = 0 BY DEF Sending
<1>2. cid' \in Nat BY ConstantsAssumption DEF ShapeInv, CastShape, Ids
<1>3. Frontier(c)' \in {cid', cid' - 1} BY DEF Frontier
<1>4. NextOnWire(c)' = Frontier(c)' + 1 /\ NextOnWire(c)' \in 1 .. cid' + 1
  BY <1>1, <1>2, <1>3 DEF NextOnWire
<1>5. HeldRun(c)' BY <1>1 DEF HeldRun
<1>6. {delivered'[c][i][2] : i \in Own(c)'} = {} OBVIOUS
<1>7. NextOnWire(c)' .. NextOnWire(c)' - 1 = {} BY <1>4
<1>8. SentRun(c)' BY <1>4, <1>6, <1>7 DEF SentRun
<1> QED BY <1>5, <1>8

\* The next id leaves the outbox.
LEMMA TakeRun ==
  ASSUME ShapeInv, NEW c \in Conns, HeldRun(c), SentRun(c), SenderTakes(c),
         spc[c] # "send", UNCHANGED <<peer, bpc, todo, cid>>
  PROVE  HeldRun(c)' /\ SentRun(c)'
<1>0. ThreadShape BY DEF ShapeInv
<1>1. /\ delivered' = delivered /\ spc'[c] = "send" /\ outbox[c] # <<>>
      /\ msg'[c] = Head(outbox[c]) /\ outbox'[c] = Tail(outbox[c])
  BY <1>0 DEF SenderTakes, ThreadShape
<1>2. /\ outbox[c] \in Seq(Given) /\ Len(outbox[c]) \in Nat /\ Len(outbox[c]) > 0
      /\ Head(outbox[c]) = outbox[c][1] /\ Len(outbox'[c]) = Len(outbox[c]) - 1
      /\ \A k \in 1 .. Len(outbox'[c]) : outbox'[c][k] = outbox[c][k + 1]
  BY <1>0, <1>1, HeadTailProperties, LenProperties, EmptySeq DEF ThreadShape
<1>3. Frontier(c)' = Frontier(c) BY DEF Frontier, Todo
<1>4. Frontier(c) \in Int /\ cid \in Nat BY RunNumbers
<1>5. Sending(c) = 0 /\ Sending(c)' = 1 BY <1>1 DEF Sending
<1>6. NextOnWire(c)' = NextOnWire(c) BY <1>2, <1>3, <1>4, <1>5 DEF NextOnWire
<1>7. NextOnWire(c) = Frontier(c) + 1 - Len(outbox[c])
  BY <1>2, <1>4, <1>5 DEF NextOnWire
<1>8. HeldRun(c)'
  <2>1. outbox[c][1] = Frontier(c) - Len(outbox[c]) + 1 BY <1>2 DEF HeldRun
  <2>2. msg'[c] = NextOnWire(c)' BY <1>1, <1>2, <1>4, <1>6, <1>7, <2>1
  <2>3. ASSUME NEW k \in 1 .. Len(outbox'[c])
        PROVE  outbox'[c][k] = Frontier(c)' - Len(outbox'[c]) + k
    <3>1. k + 1 \in 1 .. Len(outbox[c]) BY <1>2
    <3>2. outbox[c][k + 1] = Frontier(c) - Len(outbox[c]) + (k + 1)
      BY <3>1 DEF HeldRun
    <3>3. outbox'[c][k] = Frontier(c) - Len(outbox[c]) + (k + 1) BY <1>2, <3>2
    <3>4. Len(outbox[c]) \in Nat /\ Len(outbox'[c]) = Len(outbox[c]) - 1 BY <1>2
    <3>5. k \in Int BY <3>4
    <3>6. Frontier(c) - Len(outbox[c]) + (k + 1) = Frontier(c) - Len(outbox'[c]) + k
      <4>1. PICK f \in Int : f = Frontier(c) BY <1>4
      <4>2. PICK n \in Nat : n = Len(outbox[c]) BY <3>4
      <4>3. PICK m : m = Len(outbox'[c]) OBVIOUS
      <4>4. m = n - 1 BY <3>4, <4>2, <4>3, Zenon
      <4>5. f - n + (k + 1) = f - m + k BY <3>5, <4>4, Shift
      <4> QED BY <4>1, <4>2, <4>3, <4>5, Zenon
    <3> QED BY <1>3, <3>3, <3>6
  <2> QED BY <2>2, <2>3 DEF HeldRun
<1>9. SentRun(c)' BY <1>1, <1>6 DEF SentRun, Own
<1> QED BY <1>8, <1>9

\* The next id goes on the wire of the client itself, or the client has gone.
LEMMA SendRun ==
  ASSUME ShapeInv, NEW c \in Conns, HeldRun(c), SentRun(c), spc[c] = "send",
         spc'[c] = "relock", outbox'[c] = outbox[c], UNCHANGED <<peer, bpc, todo, cid>>,
         \/ Arrives(c, <<c, msg[c]>>)
         \/ delivered'[c] = delivered[c] /\ peer[c] # "open"
  PROVE  HeldRun(c)' /\ SentRun(c)'
<1>1. Frontier(c)' = Frontier(c) BY DEF Frontier, Todo
<1>2. /\ Len(outbox[c]) \in Nat /\ Frontier(c) \in Int /\ NextOnWire(c) \in Int
      /\ cid \in Nat /\ \A i \in Own(c) : delivered[c][i][2] \in Nat
  BY RunNumbers
<1>3. Sending(c) = 1 /\ Sending(c)' = 0 BY DEF Sending
<1>4. NextOnWire(c)' = NextOnWire(c) + 1 BY <1>1, <1>2, <1>3 DEF NextOnWire
<1>5. msg[c] = NextOnWire(c) BY DEF HeldRun
<1>6. HeldRun(c)' BY <1>1 DEF HeldRun
<1>7. ASSUME Arrives(c, <<c, msg[c]>>) PROVE SentRun(c)'
  <2> DEFINE n == Len(delivered[c]) + 1
  <2>1. Len(delivered[c]) \in Nat BY LenProperties DEF ShapeInv, NetShape
  <2>2. /\ Len(delivered'[c]) = n /\ delivered'[c][n] = <<c, msg[c]>>
        /\ \A i \in 1 .. Len(delivered[c]) : delivered'[c][i] = delivered[c][i]
    BY <1>7 DEF Arrives
  <2>3. /\ Own(c)' = Own(c) \cup {n} /\ n \notin Own(c)
        /\ \A i \in Own(c) : i < n /\ delivered'[c][i] = delivered[c][i]
    BY <2>1, <2>2 DEF Own
  <2>4. delivered'[c][n][2] = NextOnWire(c) BY <1>5, <2>2
  <2>5. {delivered'[c][i][2] : i \in Own(c)'}
          = {delivered[c][i][2] : i \in Own(c)} \cup {NextOnWire(c)}
    BY <2>3, <2>4
  <2>6. \A i \in Own(c)' : delivered'[c][i][2] < NextOnWire(c)'
    BY <1>2, <1>4, <2>3, <2>4 DEF SentRun
  <2>7. ASSUME NEW i \in Own(c)', NEW j \in Own(c)', i < j
        PROVE  delivered'[c][i][2] < delivered'[c][j][2]
    <3>1. i \in Nat /\ j \in Nat BY <2>1, <2>3 DEF Own
    <3>2. i \in Own(c) BY <2>1, <2>3, <2>7, <3>1
    <3> QED BY <2>3, <2>4, <2>7, <3>2 DEF SentRun
  <2>8. ASSUME peer'[c] = "open"
        PROVE  \E first \in 1 .. cid' + 1 :
                 /\ first <= NextOnWire(c)'
                 /\ {delivered'[c][i][2] : i \in Own(c)'} = first .. NextOnWire(c)' - 1
    <3>1. PICK first \in 1 .. cid + 1 :
            /\ first <= NextOnWire(c)
            /\ {delivered[c][i][2] : i \in Own(c)} = first .. NextOnWire(c) - 1
      BY <2>8 DEF SentRun
    <3>2. first <= NextOnWire(c)' BY <1>2, <1>4, <3>1
    <3>3. (first .. NextOnWire(c) - 1) \cup {NextOnWire(c)} = first .. NextOnWire(c)' - 1
      BY <1>2, <1>4, <3>1
    <3> QED BY <2>5, <3>1, <3>2, <3>3
  <2> QED BY <2>6, <2>7, <2>8 DEF SentRun
<1>8. ASSUME delivered'[c] = delivered[c], peer[c] # "open" PROVE SentRun(c)'
  <2>1. Own(c)' = Own(c) BY <1>8 DEF Own
  <2>2. \A i \in Own(c)' : delivered'[c][i][2] < NextOnWire(c)'
    BY <1>2, <1>4, <1>8, <2>1 DEF SentRun
  <2> QED BY <1>8, <2>1, <2>2 DEF SentRun
<1> QED BY <1>6, <1>7, <1>8

\* A challenge is pushed.
LEMMA PushRun ==
  ASSUME ShapeInv, ListsInv, NEW c \in Conns, HeldRun(c), SentRun(c), Broadcaster,
         PushOutbox
  PROVE  HeldRun(c)' /\ SentRun(c)'
<1>0. ThreadShape BY DEF ShapeInv
<1>1. /\ bpc = "push" /\ bpc' = "push" /\ todo # <<>> /\ todo' = Tail(todo)
      /\ UNCHANGED <<cid, delivered, msg, peer>>
  BY CastKeeps DEF PushOutbox
<1>2. PICK h \in Conns : /\ h = Head(todo) /\ spc' = Woken(h)
                         /\ outbox' = [outbox EXCEPT ![h] = Append(outbox[h], cid)]
  BY CastSenders
<1>3. /\ Len(todo) \in Nat /\ Len(todo') = Len(todo) - 1 /\ todo[1] = h
      /\ \A i \in 1 .. Len(todo) - 1 : todo'[i] = todo[i + 1] /\ todo'[i] # h
  BY <1>1, <1>2, NextPushed
<1>4. /\ Len(outbox[c]) \in Nat /\ cid \in Nat /\ NextOnWire(c) \in Int
      /\ Sending(c) \in {0, 1}
  BY RunNumbers
<1>5. spc'[c] = "send" <=> spc[c] = "send" BY <1>0, <1>2 DEF ThreadShape, Woken
<1>6. Own(c)' = Own(c) BY <1>1 DEF Own
<1>7. Len(todo) > 0
  <2>1. todo \in Seq(Conns) BY DEF ShapeInv, CastShape
  <2> QED BY <1>1, <1>3, <2>1, EmptySeq
<1>8. CASE c # h
  <2>1. Todo(c)' <=> Todo(c)
    <3>1. ASSUME NEW i \in 1 .. Len(todo'), todo'[i] = c PROVE Todo(c)
      <4>1. i + 1 \in 1 .. Len(todo) /\ todo[i + 1] = c BY <1>3, <3>1
      <4> QED BY <4>1 DEF Todo
    <3>2. ASSUME NEW i \in 1 .. Len(todo), todo[i] = c PROVE Todo(c)'
      <4>1. i # 1 BY <1>3, <1>8, <3>2
      <4>2. i - 1 \in 1 .. Len(todo) - 1 /\ (i - 1) + 1 = i BY <1>3, <4>1
      <4>3. todo'[i - 1] = c BY <1>3, <3>2, <4>2
      <4> QED BY <1>3, <4>2, <4>3 DEF Todo
    <3> QED BY <3>1, <3>2 DEF Todo
  <2>2. Frontier(c)' = Frontier(c) BY <1>1, <2>1 DEF Frontier
  <2>3. outbox'[c] = outbox[c] BY <1>0, <1>2, <1>8 DEF ThreadShape
  <2> QED BY <1>1, <1>5, <1>6, <2>2, <2>3, SameRun
<1>9. CASE c = h
  <2>1. Todo(c) /\ ~Todo(c)' BY <1>3, <1>7, <1>9 DEF Todo
  <2>2. Frontier(c) = cid - 1 /\ Frontier(c)' = cid BY <1>1, <2>1 DEF Frontier
  <2>3. outbox[c] \in Seq(Given) /\ outbox'[c] = Append(outbox[c], cid) /\ cid \in Given
    BY <1>0, <1>2, <1>4, <1>9 DEF ThreadShape, Given
  <2>4. /\ Len(outbox'[c]) = Len(outbox[c]) + 1
        /\ \A k \in 1 .. Len(outbox[c]) : outbox'[c][k] = outbox[c][k]
        /\ outbox'[c][Len(outbox[c]) + 1] = cid
    BY <2>3, AppendProperties
  <2>5. Sending(c)' = Sending(c) BY <1>5 DEF Sending
  <2>6. NextOnWire(c)' = NextOnWire(c)
    <3>1. PICK s \in {0, 1} : s = Sending(c) BY <1>4
    <3>2. PICK n \in Nat : n = Len(outbox[c]) BY <1>4
    <3>3. NextOnWire(c) = (cid - 1) + 1 - n - s BY <2>2, <3>1, <3>2 DEF NextOnWire
    <3>4. NextOnWire(c)' = cid + 1 - (n + 1) - s
      BY <2>2, <2>4, <2>5, <3>1, <3>2, Zenon DEF NextOnWire
    <3> QED BY <1>4, <3>3, <3>4
  <2>7. ASSUME NEW k \in 1 .. Len(outbox'[c])
        PROVE  outbox'[c][k] = Frontier(c)' - Len(outbox'[c]) + k
    <3>1. PICK n \in Nat : n = Len(outbox[c]) BY <1>4
    <3>2. Frontier(c)' = cid /\ Len(outbox'[c]) = n + 1 BY <2>2, <2>4, <3>1
    <3>3. k \in 1 .. n + 1 BY <3>2
    <3>4. CASE k \in 1 .. n
      <4>1. outbox'[c][k] = (cid - 1) - n + k BY <2>2, <2>4, <3>1, <3>4 DEF HeldRun
      <4>2. cid - (n + 1) + k = (cid - 1) - n + k BY <1>4, <3>3
      <4> QED BY <3>2, <4>1, <4>2
    <3>5. CASE k = n + 1
      <4>1. outbox'[c][k] = cid BY <2>4, <3>1, <3>5
      <4>2. cid - (n + 1) + k = cid BY <1>4, <3>5
      <4> QED BY <3>2, <4>1, <4>2
    <3> QED BY <3>3, <3>4, <3>5
  <2>8. HeldRun(c)' BY <1>1, <1>5, <2>6, <2>7 DEF HeldRun
  <2>9. SentRun(c)' BY <1>1, <1>6, <2>6 DEF SentRun
  <2> QED BY <2>8, <2>9
<1> QED BY <1>8, <1>9

LEMMA CastRun ==
  ASSUME ShapeInv, ShapeInv', CountedInv, ListsInv, StartedInv, StrangersInv, RunInv,
         Broadcaster, NEW c \in Conns
  PROVE  HeldRun(c)' /\ SentRun(c)'
<1>0. HeldRun(c) /\ SentRun(c) BY DEF RunInv
<1>1. UNCHANGED <<delivered, msg, peer, hpc, clients>> /\ Own(c)' = Own(c)
  BY CastKeeps DEF Own
<1>2. CASE PushOutbox BY <1>0, <1>2, PushRun
<1>3. CASE ~PushOutbox
  <2>1. UNCHANGED <<outbox, spc>> BY <1>3, CastSenders
  <2>2. ASSUME Frontier(c)' = Frontier(c), cid' \in {cid, cid + 1}
        PROVE  HeldRun(c)' /\ SentRun(c)'
    BY <1>0, <1>1, <2>1, <2>2, SameRun
  <2>3. cid \in Nat BY RunNumbers
  <2>4. CASE NewChallenge \/ BurstChallenge
    <3>1. bpc \in {"next", "burst"} /\ bpc' = "lock" /\ cid' = cid + 1
      BY <2>4 DEF NewChallenge, BurstChallenge, ShapeInv, CastShape
    <3>2. Frontier(c)' = Frontier(c) BY <2>3, <3>1 DEF Frontier
    <3> QED BY <2>2, <3>1, <3>2
  <2>5. CASE StartPush
    <3>1. bpc = "lock" /\ bpc' = "push" /\ todo' = clients /\ cid' = cid
      BY <2>5 DEF StartPush
    <3>2. CASE hpc[c] # "none"
      <4>1. Todo(c)' BY <3>1, <3>2 DEF ListsInv, Added, Todo
      <4>2. Frontier(c)' = Frontier(c) BY <3>1, <4>1 DEF Frontier
      <4> QED BY <2>2, <3>1, <4>2
    <3>3. CASE hpc[c] = "none"
      <4>1. outbox[c] = <<>> /\ spc[c] = "none" BY <3>3 DEF StartedInv
      <4>2. Own(c) = {} BY <4>1 DEF StrangersInv, Own
      <4>3. cid > 0 BY <3>1 DEF CountedInv
      <4>4. Frontier(c)' >= 0 BY <2>3, <3>1, <4>3 DEF Frontier
      <4> QED BY <1>1, <2>1, <4>1, <4>2, <4>4, EmptyRun
    <3> QED BY <3>2, <3>3
  <2>6. CASE EndPush
    <3>1. bpc = "push" /\ todo = <<>> /\ bpc' \notin {"lock", "push"} /\ cid' = cid
      BY <2>6 DEF EndPush
    <3>2. ~Todo(c) BY <3>1 DEF Todo
    <3>3. Frontier(c)' = Frontier(c) BY <3>1, <3>2 DEF Frontier
    <3> QED BY <2>2, <3>1, <3>3
  <2>7. CASE Snapshot \/ Log \/ LogBurst
    <3>1. bpc \notin {"lock", "push"} /\ bpc' \notin {"lock", "push"} /\ cid' = cid
      BY <2>7 DEF Snapshot, Log, LogBurst
    <3>2. Frontier(c)' = Frontier(c) BY <3>1 DEF Frontier
    <3> QED BY <2>2, <3>1, <3>2
  <2> QED BY <1>3, <2>4, <2>5, <2>6, <2>7 DEF Broadcaster
<1> QED BY <1>2, <1>3

LEMMA SenderRun ==
  ASSUME ShapeInv, DescriptorsInv, StartedInv, RunInv, NEW c \in Conns, NEW e \in Conns,
         Sender(e)
  PROVE  HeldRun(c)' /\ SentRun(c)'
<1>0. /\ HeldRun(c) /\ SentRun(c) /\ ThreadShape
      /\ UNCHANGED <<peer, bpc, todo, cid>>
  BY DEF RunInv, ShapeInv, Sender, castVars
<1>1. Frontier(c)' = Frontier(c) BY <1>0 DEF Frontier, Todo
<1>2. CASE e # c
  <2>1. outbox'[c] = outbox[c] /\ msg'[c] = msg[c] /\ spc'[c] = spc[c]
    BY <1>0, <1>2 DEF Sender, SenderTop, SenderTests, SenderTakes, SenderSleeps,
       SenderRelocks, SenderSends, ThreadShape
  <2>2. Own(c)' = Own(c) /\ \A i \in Own(c) : delivered'[c][i] = delivered[c][i]
    <3>1. CASE delivered'[c] = delivered[c] BY <3>1 DEF Own
    <3>2. CASE Arrives(c, <<e, msg[e]>>)
      <4>1. Len(delivered[c]) \in Nat BY LenProperties DEF ShapeInv, NetShape
      <4>2. delivered'[c][Len(delivered[c]) + 1][1] # c BY <1>2, <3>2 DEF Arrives
      <4> QED BY <3>2, <4>1, <4>2 DEF Own, Arrives
    <3>3. CASE SenderSends(e)
      <4>1. \/ delivered' = delivered
            \/ \E d \in Conns : Arrives(d, <<e, msg[e]>>)
        BY <3>3, SendStep
      <4>2. \A d \in Conns :
              d # c /\ Arrives(d, <<e, msg[e]>>) => delivered'[c] = delivered[c]
        BY DEF Arrives
      <4> QED BY <3>1, <3>2, <4>1, <4>2
    <3>4. CASE ~SenderSends(e)
      <4>1. delivered' = delivered
        BY <3>4 DEF Sender, SenderTop, SenderTests, SenderTakes, SenderSleeps,
           SenderRelocks
      <4> QED BY <3>1, <4>1
    <3> QED BY <3>3, <3>4
  <2> QED BY <1>0, <1>1, <2>1, <2>2, SameRun
<1>3. CASE e = c
  <2>1. CASE SenderTakes(c)
    <3>1. ~SenderSends(c)
      BY <1>0, <2>1 DEF SenderTakes, SenderSends, ThreadShape
    <3>2. spc[c] # "send"
      <4>1. SenderTop(c) \/ SenderTests(c) \/ SenderSleeps(c) \/ SenderRelocks(c)
        BY <1>3, <3>1 DEF Sender
      <4> QED BY <4>1 DEF SenderTop, SenderTests, SenderSleeps, SenderRelocks
    <3> QED BY <1>0, <2>1, <3>2, TakeRun
  <2>2. CASE SenderSends(c)
    <3>1. spc[c] = "send" /\ spc'[c] = "relock" /\ outbox'[c] = outbox[c]
      BY <1>0, <2>2 DEF SenderSends, ThreadShape
    <3>2. Closed(c) => peer[c] # "open" BY DEF DescriptorsInv, Descriptor, Closed
    <3>3. \/ Arrives(c, <<c, msg[c]>>)
          \/ delivered'[c] = delivered[c] /\ peer[c] # "open"
      <4>1. \/ delivered' = delivered /\ peer[c] # "open"
            \/ \E d \in Conns : (d = c \/ Closed(c)) /\ Arrives(d, <<c, msg[c]>>)
        BY <2>2, SendStep
      <4>2. ASSUME NEW d \in Conns, d # c, Arrives(d, <<c, msg[c]>>)
            PROVE  delivered'[c] = delivered[c]
        BY <4>2 DEF Arrives
      <4> QED BY <3>2, <4>1, <4>2
    <3> QED BY <1>0, <3>1, <3>3, SendRun
  <2>3. CASE ~SenderTakes(c) /\ ~SenderSends(c)
    <3>1. UNCHANGED <<outbox, msg, delivered>> /\ spc[c] # "send" /\ spc'[c] # "send"
      <4>1. /\ UNCHANGED <<outbox, msg, delivered>> /\ spc[c] # "send"
            /\ \E place \in {"top", "test", "sleep", "asleep", "done"} :
                 spc' = [spc EXCEPT ![c] = place]
        BY <1>3, <2>3 DEF Sender, SenderTop, SenderTests, SenderSleeps, SenderRelocks
      <4> QED BY <1>0, <4>1 DEF ThreadShape
    <3>2. Own(c)' = Own(c) BY <3>1 DEF Own
    <3> QED BY <1>0, <1>1, <3>1, <3>2, SameRun
  <2> QED BY <2>1, <2>2, <2>3
<1> QED BY <1>2, <1>3

LEMMA Runs == Spec => []RunInv
<1>1. Init => RunInv
  <2> SUFFICES ASSUME Init, NEW c \in Conns PROVE HeldRun(c) /\ SentRun(c)
    BY DEF RunInv
  <2>1. Frontier(c) = 0 /\ Sending(c) = 0 /\ Own(c) = {} /\ outbox[c] = <<>>
        /\ spc[c] = "none" /\ peer[c] = "new"
    BY DEF Init, Frontier, Sending, Own
  <2> QED BY <2>1 DEF HeldRun, SentRun
<1>2. ASSUME ShapeInv, ShapeInv', CountedInv, DescriptorsInv, ListsInv, StartedInv,
             StrangersInv, RunInv, [Next]_vars
      PROVE  RunInv'
  <2> SUFFICES ASSUME NEW c \in Conns PROVE HeldRun(c)' /\ SentRun(c)'
    BY DEF RunInv
  <2>0. HeldRun(c) /\ SentRun(c) /\ ThreadShape /\ NetShape
    BY <1>2 DEF RunInv, ShapeInv
  <2>1. CASE Broadcaster BY <1>2, <2>1, CastRun
  <2>2. ASSUME NEW e \in Conns, Sender(e) PROVE HeldRun(c)' /\ SentRun(c)'
    BY <1>2, <2>2, SenderRun
  <2>3. ASSUME UNCHANGED <<delivered, outbox, msg, bpc, todo, cid>>,
               spc'[c] = "send" <=> spc[c] = "send",
               peer'[c] = "open" => peer[c] = "open"
        PROVE  HeldRun(c)' /\ SentRun(c)'
    <3>1. Frontier(c)' = Frontier(c) BY <2>3 DEF Frontier, Todo
    <3>2. Own(c)' = Own(c) BY <2>3 DEF Own
    <3> QED BY <1>2, <2>0, <2>3, <3>1, <3>2, SameRun
  <2>4. ASSUME NEW e \in Conns, Handler(e) PROVE HeldRun(c)' /\ SentRun(c)'
    <3>1. UNCHANGED <<delivered, outbox, msg, bpc, todo, cid, peer>>
      BY <2>4, HandlerSenders
    <3>2. \/ spc' = spc \/ spc' = Woken(e)
          \/ hpc[e] = "name" /\ spc' = [spc EXCEPT ![e] = "top"]
      BY <2>4, HandlerSenders
    <3>3. hpc[e] = "name" => spc[e] = "none" BY <1>2 DEF StartedInv
    <3>4. spc'[c] = "send" <=> spc[c] = "send"
      BY <2>0, <3>2, <3>3 DEF ThreadShape, Woken
    <3> QED BY <2>3, <3>1, <3>4
  <2>5. ASSUME NEW e \in Conns, Accept(e) PROVE HeldRun(c)' /\ SentRun(c)'
    <3>1. /\ UNCHANGED <<delivered, outbox, msg, spc, bpc, todo, cid>>
          /\ peer[e] = "new" /\ peer' = [peer EXCEPT ![e] = "open"]
      BY <2>5 DEF Accept, senderVars, castVars
    <3>2. CASE e # c
      <4>1. peer'[c] = peer[c] BY <2>0, <3>1, <3>2 DEF NetShape
      <4> QED BY <2>3, <3>1, <4>1
    <3>3. CASE e = c
      <4>1. hpc[c] = "none" /\ delivered[c] = <<>>
        BY <1>2, <3>1, <3>3 DEF DescriptorsInv, Descriptor
      <4>2. outbox[c] = <<>> /\ spc[c] = "none" BY <1>2, <4>1 DEF StartedInv
      <4>3. Own(c)' = {} BY <3>1, <4>1 DEF Own
      <4>4. Frontier(c)' >= 0
        <5>1. cid \in Nat BY <1>2, RunNumbers
        <5>2. Frontier(c)' = Frontier(c) BY <3>1 DEF Frontier, Todo
        <5>3. Frontier(c) >= 0 BY <1>2, <5>1 DEF Frontier, CountedInv
        <5> QED BY <5>2, <5>3
      <4> QED BY <1>2, <3>1, <4>2, <4>3, <4>4, EmptyRun
    <3> QED BY <3>2, <3>3
  <2>6. ASSUME NEW e \in Conns, Client(e) \/ SendKills(e)
        PROVE  HeldRun(c)' /\ SentRun(c)'
    <3>1. UNCHANGED <<delivered, outbox, msg, spc, bpc, todo, cid>>
      BY <2>6 DEF Client, ClientReads, ClientLeaves, SendKills, serverVars, netVars,
         senderVars, castVars
    <3>2. peer'[c] = "open" => peer[c] = "open"
      BY <2>0, <2>6 DEF Client, ClientReads, ClientLeaves, SendKills, netVars, NetShape
    <3> QED BY <2>3, <3>1, <3>2
  <2>7. CASE PushClient \/ UNCHANGED vars
    <3>1. UNCHANGED <<delivered, outbox, msg, spc, bpc, todo, cid, peer>>
      BY <2>7 DEF PushClient, vars, netVars, senderVars, castVars
    <3> QED BY <2>3, <3>1
  <2> QED BY <1>2, <2>1, <2>2, <2>4, <2>5, <2>6, <2>7 DEF Next
<1> QED BY <1>1, <1>2, Shape, Counted, Descriptors, Lists, Started, Strangers, PTL
        DEF Spec

\* A client that stays is sent every challenge since it was added, in order and
\* once: nothing is lost or doubled between the broadcaster, the outbox, the
\* sender and the wire.
THEOREM NothingLost == Spec => []OutboxLossless
<1>1. ASSUME ShapeInv, RunInv PROVE OutboxLossless
  <2> SUFFICES ASSUME NEW c \in Conns, peer[c] = "open"
               PROVE  /\ \A i, j \in Own(c) : i < j => delivered[c][i][2] < delivered[c][j][2]
                      /\ \E first, next \in 1 .. MaxChallenges + 1 :
                           first <= next /\ OneRun(c, first, next)
    BY DEF OutboxLossless
  <2>0. HeldRun(c) /\ SentRun(c) BY <1>1 DEF RunInv
  <2>1. PICK first \in 1 .. cid + 1 :
          /\ first <= NextOnWire(c)
          /\ {delivered[c][i][2] : i \in Own(c)} = first .. NextOnWire(c) - 1
    BY <2>0 DEF SentRun
  <2>2. PICK n \in Nat : n = Len(outbox[c]) BY <1>1, RunNumbers
  <2>3. PICK s \in {0, 1} : s = Sending(c) BY <1>1, RunNumbers
  <2>4. PICK f \in Int : f = Frontier(c) /\ f <= cid BY <1>1, RunNumbers
  <2>5. PICK next \in Int : next = NextOnWire(c) BY <1>1, RunNumbers
  <2>6. next = f + 1 - n - s BY <2>2, <2>3, <2>4, <2>5 DEF NextOnWire
  <2>7. cid \in Nat /\ cid <= MaxChallenges /\ MaxChallenges \in Nat
    BY <1>1, ConstantsAssumption DEF ShapeInv, CastShape, Ids
  <2>8. first <= next /\ next \in 1 .. MaxChallenges + 1 /\ first \in 1 .. MaxChallenges + 1
    <3>1. first <= next BY <2>1, <2>5
    <3>2. next <= cid + 1 BY <2>4, <2>6, <2>7
    <3> QED BY <2>1, <2>7, <3>1, <3>2
  <2>9. OneRun(c, first, next)
    <3>1. \A k \in 1 .. Len(outbox[c]) :
            outbox[c][k] = next + Sending(c) + k - 1
      <4>1. \A k \in 1 .. n : outbox[c][k] = f - n + k
        BY <2>0, <2>2, <2>4 DEF HeldRun
      <4>2. \A k \in 1 .. n : f - n + k = next + s + k - 1 BY <2>6
      <4> QED BY <2>2, <2>3, <4>1, <4>2
    <3>2. bpc = "window" => next + Sending(c) + Len(outbox[c]) = cid + 1
      <4>1. bpc = "window" => f = cid BY <2>4 DEF Frontier
      <4>2. next + s + n = f + 1 BY <2>6
      <4> QED BY <2>2, <2>3, <4>1, <4>2
    <3>3. spc[c] = "send" => msg[c] = next BY <2>0, <2>5 DEF HeldRun
    <3> QED BY <2>1, <2>5, <3>1, <3>2, <3>3 DEF OneRun
  <2> QED BY <2>0, <2>8, <2>9 DEF SentRun
<1> QED BY <1>1, Shape, Runs, PTL

\* The whole of BlastInv: types, outboxes and senders.
THEOREM BlastInvariant == Spec => []BlastInv
<1>1. TypeOK /\ OutboxLossless /\ AsleepOnlyWhenEmpty => BlastInv BY DEF BlastInv
<1> QED BY <1>1, TypeCorrect, NothingLost, NoneLeftAsleep, PTL

=============================================================================
