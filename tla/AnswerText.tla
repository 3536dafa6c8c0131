----------------------------- MODULE AnswerText -----------------------------
(***************************************************************************)
(* What a client sends to a server, and what the handlers of both servers  *)
(* make of what recv() returns of it.                                      *)
(*                                                                         *)
(* Neither side frames its messages.  A client sends its name and then, an *)
(* answer at a time, "challenge_id answer" or the answer alone; send() may *)
(* take an answer in several pieces, and recv() returns any non-empty      *)
(* prefix of what has arrived: several messages run together, or the       *)
(* beginning of one whose end comes later, cut between two numbers or      *)
(* within one.  A stream is a sequence of the numbers (and the name) in    *)
(* it, each with the challenge it belongs to, 0 for the name.  White space *)
(* is left out: recv() returning nothing else has no effect.               *)
(***************************************************************************)
EXTENDS Integers, Sequences

Token(of, kind) == [of |-> of, kind |-> kind]

TheName == 0
NameText == <<Token(TheName, "name")>>

\* "challenge_id answer", or the single integer of the older protocol.
WithId(id) == <<Token(id, "id"), Token(id, "answer")>>
Alone(id) == <<Token(id, "answer")>>

\* Either piece of a number (or name) that two recv() calls return.
Cut(token) == [token EXCEPT !.kind = "part"]

\* What recv() may return of text, and what it then leaves.
Between(text, k) ==
  [got |-> SubSeq(text, 1, k), rest |-> SubSeq(text, k + 1, Len(text))]
Within(text, k) ==
  [got |-> [SubSeq(text, 1, k) EXCEPT ![k] = Cut(@)],
   rest |-> [SubSeq(text, k, Len(text)) EXCEPT ![1] = Cut(@)]]
Receipts(text) ==
  {Between(text, k) : k \in 1 .. Len(text)} \cup {Within(text, k) : k \in 1 .. Len(text)}

\* Where the last message that was returned is whole.
EndsMessage(got) == got[Len(got)].kind \in {"name", "answer"}

-----------------------------------------------------------------------------
(* sscanf().  An id that is whole has its own value; a checksum, or part   *)
(* of a number, may have any of the values numbers.                        *)

Values(token, numbers) == IF token.kind = "id" THEN {token.of} ELSE numbers

\* The id and whose answer is recorded under it; explicit if the client gave
\* the two together.
TwoNumbers(got, numbers) ==
  {[cid |-> v, of |-> got[2].of,
    explicit |-> /\ got[1] = Token(got[2].of, "id")
                 /\ got[2].kind = "answer"] : v \in Values(got[1], numbers)}

\* A single number is the answer, and -1 the id.
OneNumber(got) == {[cid |-> -1, of |-> got[1].of, explicit |-> FALSE]}

\* The tail of a name may begin with a digit, and hide what follows it.
IsName(got) == got[1].of = TheName
Parsed(got, numbers) ==
  (IF Len(got) > 1 THEN TwoNumbers(got, numbers) ELSE {})
    \cup (IF Len(got) = 1 \/ IsName(got) THEN OneNumber(got) ELSE {})

=============================================================================
