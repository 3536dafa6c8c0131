----------------------------- MODULE TeamParser -----------------------------
(***************************************************************************)
(* ChallengeStreamParser of the team client (hftclient2026/main_team.cpp), *)
(* as operators on a record of its fields; jobs are those emitted so far.  *)
(* Unlike the current client's parser it emits a challenge itself and goes *)
(* on with the next character, and it has a finish() for the end of the    *)
(* stream.  A and B grow with their indices; the zeros they are filled     *)
(* with beforehand are never seen.                                         *)
(***************************************************************************)
EXTENDS Protocol

CONSTANT kMaxMatrixDim

Fresh == [phase |-> "ChallengeId", in_number |-> FALSE, sign |-> 1,
          current_value |-> 0, challenge_id |-> 0, N |-> 0,
          A |-> <<>>, B |-> <<>>, jobs |-> <<>>]

\* Mutant: the phase is not reset.
ResetKeepsPhase(p) == [Fresh EXCEPT !.jobs = p.jobs, !.phase = p.phase]

Reset(p) == [Fresh EXCEPT !.jobs = p.jobs]

Emitted(p) ==
  [challenge_id |-> p.challenge_id, N |-> p.N,
   A |-> [c \in 0 .. p.N * p.N - 1 |-> p.A[c + 1]],
   B |-> [c \in 0 .. p.N * p.N - 1 |-> p.B[c + 1]]]

FinalizeNumber(p) ==
  LET v == p.sign * p.current_value
      q == [p EXCEPT !.in_number = FALSE, !.sign = 1, !.current_value = 0]
      total == p.N * p.N
  IN CASE p.phase = "ChallengeId" -> [q EXCEPT !.challenge_id = v, !.phase = "N"]
       [] p.phase = "N" ->
            IF v <= 0 \/ v > kMaxMatrixDim
            THEN Reset(q)
            ELSE [q EXCEPT !.N = v, !.A = <<>>, !.B = <<>>, !.phase = "A"]
       [] p.phase = "A" ->
            [q EXCEPT !.A = Append(@, v),
                      !.phase = IF Len(p.A) + 1 = total THEN "B" ELSE "A"]
       [] p.phase = "B" ->
            LET full == [q EXCEPT !.B = Append(@, v)] IN
            IF Len(full.B) = total
            THEN Reset([full EXCEPT !.jobs = Append(@, Emitted(full))])
            ELSE full

ProcessChar(p, c) ==
  CASE c \in Digit ->
         [p EXCEPT !.in_number = TRUE,
                   !.sign = IF p.in_number THEN @ ELSE 1,
                   !.current_value = (IF p.in_number THEN @ ELSE 0) * 10 + c]
    [] c = Minus /\ ~p.in_number ->
         [p EXCEPT !.in_number = TRUE, !.sign = -1, !.current_value = 0]
    [] c = Space -> IF p.in_number THEN FinalizeNumber(p) ELSE p
    [] OTHER -> Reset(p)

\* finish(): the stream has ended.
Finish(p) == IF p.in_number THEN FinalizeNumber(p) ELSE p

=============================================================================
