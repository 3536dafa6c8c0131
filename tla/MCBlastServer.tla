--------------------------- MODULE MCBlastServer ---------------------------
(***************************************************************************)
(* Two kinds of behaviour of BlastServer, for TLC. Either there are two    *)
(* connections, alike, and two challenges, the second of them a burst's,   *)
(* messages arrive whole, and one of the clients answers the first         *)
(* challenge, with its id; or there is one connection, which stays, three  *)
(* challenges, and recv() returns what is sent on it, in either form, in   *)
(* any pieces.                                                             *)
(***************************************************************************)
EXTENDS BlastServer, TLC

CONSTANTS c1, c2

TwoConns == {c1, c2}
ConnSymmetry == Permutations(TwoConns)

VARIABLE pieces

\* One connection, that stays.
OneConnection ==
  /\ Cardinality({c \in Conns : peer[c] # "new"}) <= 1
  /\ \A c \in Conns : peer[c] # "gone"
TwoChallenges == challengeId <= 3

\* Nothing has been cut, answers have ids and are to the first challenge.
WholeMessages ==
  \A c \in Conns : \A i \in 1 .. Len(arriving[c]) :
    LET token == arriving[c][i] IN
      /\ token.kind # "part" /\ token.of <= 1
      /\ token.kind = "answer" => i > 1 /\ arriving[c][i - 1].kind = "id"

\* Not more than one client has answered, wherever its answer has got to.
Answered(c) ==
  \/ Len(arriving[c]) > 1 \/ Len(name[c]) > 1
  \/ parsed[c] # Nothing \/ current.answers[c] # None
OneAnswers == Cardinality({c \in Conns : Answered(c)}) <= 1

MCInit == Init /\ pieces \in BOOLEAN
MCNext ==
  /\ Next
  /\ IF pieces THEN OneConnection' ELSE WholeMessages' /\ OneAnswers' /\ TwoChallenges'
  /\ UNCHANGED pieces
MCSpec == MCInit /\ [][MCNext]_<<vars, pieces>>

=============================================================================
