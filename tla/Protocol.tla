------------------------------ MODULE Protocol ------------------------------
(***************************************************************************)
(* The text of challenges, as broadcastChallengeLoop of both servers       *)
(* writes it.  A character is a digit 0 .. 9, the minus sign, white space, *)
(* or another.                                                             *)
(***************************************************************************)
EXTENDS Integers, Sequences

Minus == -1
Space == -2
Other == -3
Digit == 0 .. 9
Chars == Digit \cup {Minus, Space, Other}

Digits[n \in Nat] == IF n < 10 THEN <<n>> ELSE Append(Digits[n \div 10], n % 10)

\* Every number is followed by one white space, each matrix by one more.
Numbers(ns) ==
  LET text[k \in 0 .. Len(ns)] ==
        IF k = 0 THEN <<>> ELSE text[k - 1] \o Append(Digits[ns[k]], Space)
  IN text[Len(ns)]

\* A challenge here is [cid, size, cellsA, cellsB], the cells row by row.
Serialize(ch) ==
  Numbers(<<ch.cid, ch.size>>)
    \o Numbers(ch.cellsA) \o <<Space>>
    \o Numbers(ch.cellsB) \o <<Space>>

\* Number k of challenge ch: its id, its size, the cells of A, those of B.
NumberCount(ch) == 2 + 2 * (ch.size * ch.size)

NumberOf(ch, k) ==
  LET cells == ch.size * ch.size IN
  CASE k = 1 -> ch.cid
    [] k = 2 -> ch.size
    [] k \in 3 .. 2 + cells -> ch.cellsA[k - 2]
    [] OTHER -> ch.cellsB[k - 2 - cells]

\* How far the text of the challenges chs has got: the number it has come to,
\* whether digits of that one have been written, and what they amount to.
Beginning(i) == [challenge |-> i, number |-> 1, begun |-> FALSE, value |-> 0]

After(chs, mark, c) ==
  IF c \in Digit
  THEN [mark EXCEPT !.begun = TRUE, !.value = 10 * @ + c]
  ELSE IF c # Space \/ ~mark.begun
  THEN mark
  ELSE IF mark.number < NumberCount(chs[mark.challenge])
  THEN [mark EXCEPT !.number = @ + 1, !.begun = FALSE, !.value = 0]
  ELSE Beginning(mark.challenge + 1)

\* What may come next: digits while there are challenges, and white space
\* after the whole of a number or after other white space.  Noise between two
\* challenges, which no server writes, is let in: the parsers pass over it.
MayWrite(chs, mark, c) ==
  \/ c \in Digit /\ mark.challenge <= Len(chs)
  \/ /\ c = Space
     /\ mark.begun => mark.value = NumberOf(chs[mark.challenge], mark.number)
  \/ c = Other /\ mark.number = 1 /\ ~mark.begun

\* The challenges chs, each after a line of other characters if noise is set;
\* marks[p] is how far the first p characters have got.
Conversation(chs, noise) ==
  LET line == IF noise THEN <<Other, Other, Space>> ELSE <<>>
      text[k \in 0 .. Len(chs)] ==
        IF k = 0 THEN <<>> ELSE text[k - 1] \o line \o Serialize(chs[k])
      whole == text[Len(chs)]
      marks[p \in 0 .. Len(whole)] ==
        IF p = 0 THEN Beginning(1) ELSE After(chs, marks[p - 1], whole[p])
  IN [text |-> whole,
      challenges |-> chs,
      ends |-> [k \in 1 .. Len(chs) |-> Len(text[k]) - 1],
      marks |-> marks]

\* A challenge that a client with arrays of dim rows can hold.
IsChallenge(ch, dim) ==
  /\ ch.cid \in Nat
  /\ ch.size \in 1 .. dim
  /\ ch.cellsA \in [1 .. ch.size * ch.size -> Nat]
  /\ ch.cellsB \in [1 .. ch.size * ch.size -> Nat]

\* The text of conv carries the challenges of conv, whole and in order, and
\* that of number i ends with its first ends[i] characters.
IsConversation(conv, dim) ==
  /\ Len(conv.challenges) \in Nat
  /\ \A i \in 1 .. Len(conv.challenges) : IsChallenge(conv.challenges[i], dim)
  /\ conv.marks[0] = Beginning(1)
  /\ \A p \in 0 .. Len(conv.text) - 1 :
       /\ MayWrite(conv.challenges, conv.marks[p], conv.text[p + 1])
       /\ conv.marks[p + 1] = After(conv.challenges, conv.marks[p], conv.text[p + 1])
  /\ \A i \in 1 .. Len(conv.challenges) : conv.ends[i] \in 1 .. Len(conv.text)
  /\ \A i \in 1 .. Len(conv.challenges), p \in 0 .. Len(conv.text) :
       p >= conv.ends[i] <=> conv.marks[p].challenge > i

\* A job that a client has parsed is the challenge that was sent.
SameChallenge(job, ch) ==
  /\ job.challenge_id = ch.cid
  /\ job.N = ch.size
  /\ \A c \in 0 .. ch.size * ch.size - 1 :
       job.A[c] = ch.cellsA[c + 1] /\ job.B[c] = ch.cellsB[c + 1]

=============================================================================
