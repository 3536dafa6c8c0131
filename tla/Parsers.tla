------------------------------ MODULE Parsers ------------------------------
(***************************************************************************)
(* One stream, three parsers: that of the current client, character by     *)
(* character as in ChallengeParser, that of the team client, and that of   *)
(* the first client, which sees the stream in the portions that recv()     *)
(* returns.                                                                *)
(***************************************************************************)
EXTENDS ChallengeParser

Team == INSTANCE TeamParser
First == INSTANCE V1Client

VARIABLES
  team,      \* the fields of the team client's parser, and the jobs emitted
  v1,        \* the first client: pending, with what recv() is about to return;
             \* its answers; whether recv() has just returned
  cut        \* ghost: a recv() has ended within the last number of a challenge

parsersVars == <<vars, team, v1, cut>>

ParsersInit ==
  /\ Init
  /\ team = Team!Fresh
  /\ v1 = [pending |-> <<>>, jobs |-> <<>>, parsed |-> TRUE]
  /\ cut = FALSE

\* The first client is followed on what a server sends, without noise, until
\* a recv() misleads it.
V1Follows == FromServer /\ ~cut /\ ~\E i \in 1 .. Len(sent.text) : sent.text[i] = Other

\* A recv() that returns character p as its last ends within the last number
\* of a challenge.
CutsLast(p) ==
  \E k \in 1 .. Len(sent.challenges) :
    LET last == sent.ends[k] - 1 IN  \* its last digit
      p < last /\ \A i \in p .. last : sent.text[i] \in Digit

\* recv() returns, with c as its last character, or goes on.
V1Recv(c) ==
  \/ ~V1Follows /\ UNCHANGED <<v1, cut>>
  \/ /\ V1Follows
     /\ v1' = [v1 EXCEPT !.pending = Append(@, c), !.parsed = FALSE]
     /\ UNCHANGED cut
  \/ /\ V1Follows
     /\ v1' = First!AnswerAll([v1 EXCEPT !.pending = Append(@, c), !.parsed = TRUE])
     /\ cut' = (cut \/ CutsLast(pos + 1))

Char(c) ==
  /\ DigitChar(c) \/ MinusChar(c) \/ SpaceChar(c) \/ OtherChar(c)
  /\ team' = Team!ProcessChar(team, c)
  /\ V1Recv(c)

ParsersNext ==
  \/ \E c \in Chars : Char(c)
  \/ Answer /\ UNCHANGED <<team, v1, cut>>

ParsersSpec == ParsersInit /\ [][ParsersNext]_parsersVars

-----------------------------------------------------------------------------
(* Properties.                                                             *)

\* Two jobs differ at most in the last cell of B.
UpToLastCell(job, ch) ==
  /\ job.challenge_id = ch.cid /\ job.N = ch.size
  /\ \A c \in 0 .. ch.size * ch.size - 1 : job.A[c] = ch.cellsA[c + 1]
  /\ \A c \in 0 .. ch.size * ch.size - 2 : job.B[c] = ch.cellsB[c + 1]

\* On every text the team client's parser emits the challenges that the
\* current client completes, and no later; and if the stream ends here,
\* finish() adds at most one, which, when a server sent the text, is wrong in
\* no more than its last cell.
TeamAgrees ==
  LET finished == Team!Finish(team).jobs
      emitted == Len(team.jobs)
  IN /\ team.jobs = answered \o (IF completed THEN <<Job>> ELSE <<>>)
     /\ Len(finished) <= emitted + 1
     /\ FromServer /\ Len(finished) > emitted =>
          UpToLastCell(finished[emitted + 1], sent.challenges[emitted + 1])

\* "first correct client, fixed TCP stream parsing": the first client answers
\* the challenges sent, in order and each with the recv() that returns the last
\* digit of it, however recv() cuts the stream, unless it cuts the last number
\* of a challenge; a number cut anywhere else is harmless.
V1Agrees == ~cut =>
  /\ \A i \in 1 .. Len(v1.jobs) : SameChallenge(v1.jobs[i], sent.challenges[i])
  /\ V1Follows /\ v1.parsed =>
       \A i \in 1 .. Len(sent.challenges) :
         pos >= sent.ends[i] - 1 => Len(v1.jobs) >= i

=============================================================================
