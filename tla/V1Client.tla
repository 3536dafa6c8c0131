------------------------------ MODULE V1Client ------------------------------
(***************************************************************************)
(* How the first client (hftclient2026/main_v1.cpp) finds challenges: what *)
(* recv() returns is appended to pending, which is parsed from its         *)
(* beginning, with an istringstream, until that fails.  A number at the    *)
(* very end of pending is taken as it is, whether or not more digits are   *)
(* to come.                                                                *)
(***************************************************************************)
EXTENDS Protocol, FiniteSetsExt

\* The first position of text from i on whose character is not in S, or the
\* one after its end.
Skip(text, i, S) ==
  Min({j \in i .. Len(text) + 1 : j = Len(text) + 1 \/ text[j] \notin S})

\* The number that the digits of text from first to last make.
Value(text, first, last) ==
  LET value[d \in 0 .. last - first + 1] ==
        IF d = 0 THEN 0 ELSE 10 * value[d - 1] + text[first + d - 1]
  IN value[last - first + 1]

\* iss >> n from position i: white space is skipped, then there must be digits.
Extract(text, i) ==
  LET start == Skip(text, i, {Space})
      negative == start <= Len(text) /\ text[start] = Minus
      first == IF negative THEN start + 1 ELSE start
      next == Skip(text, first, Digit)
      value == Value(text, first, next - 1)
  IN [ok |-> next > first, value |-> IF negative THEN -value ELSE value, next |-> next]

\* The first n numbers of text.
Extracts(text, n) ==
  LET numbers[k \in 0 .. n] ==
        IF k = 0 THEN [ok |-> TRUE, value |-> 0, next |-> 1]
        ELSE Extract(text, numbers[k - 1].next)
  IN numbers

AllOk(numbers) == \A k \in DOMAIN numbers : numbers[k].ok

Failed == [ok |-> FALSE]

\* Mutant: one character too many is consumed.
ConsumedTooMuch(text, next) == Skip(text, next, {Space})

Consumed(text, next) == Skip(text, next, {Space}) - 1

\* parseChallengeFromBuffer: whether it succeeds, the challenge, and consumed.
\* (A text of fewer characters than numbers is to have cannot have them all.)
ParseChallenge(text) ==
  LET header == Extracts(text, 2)
      N == header[2].value
      cells == N * N
      numbers == Extracts(text, 2 + 2 * cells)
  IN IF ~AllOk(header) \/ N <= 0 \/ 2 + 2 * cells > Len(text) \/ ~AllOk(numbers)
     THEN Failed
     ELSE [ok |-> TRUE,
           job |-> [challenge_id |-> header[1].value,
                    N |-> N,
                    A |-> [c \in 0 .. cells - 1 |-> numbers[3 + c].value],
                    B |-> [c \in 0 .. cells - 1 |-> numbers[3 + cells + c].value]],
           consumed |-> Consumed(text, numbers[2 + 2 * cells].next)]

\* The body of the inner loop of main: the challenge at the beginning of pending
\* is erased from it and answered; the loop ends when there is none.
AnswerOne(v1) ==
  LET parsed == ParseChallenge(v1.pending) IN
  IF ~parsed.ok
  THEN v1
  ELSE [v1 EXCEPT !.pending = SubSeq(@, parsed.consumed + 1, Len(@)),
                  !.jobs = Append(@, parsed.job)]

\* No challenge has fewer than four characters.
AnswerAll(v1) ==
  LET after[k \in 0 .. Len(v1.pending) \div 4] ==
        IF k = 0 THEN v1 ELSE AnswerOne(after[k - 1])
  IN after[Len(v1.pending) \div 4]

=============================================================================
