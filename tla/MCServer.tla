------------------------------ MODULE MCServer ------------------------------
(***************************************************************************)
(* Two kinds of behaviour of Server, for TLC.  Either messages arrive      *)
(* whole, from a client that connects again under its own name once its    *)
(* first connection has gone, or from two that chose the same name, one    *)
(* with ids and one without; or there is one connection, which stays, and  *)
(* recv() returns what is sent on it, in either form, in any pieces.  No   *)
(* action that Fairness is about is restricted: a client may read and not  *)
(* answer.                                                                 *)
(***************************************************************************)
EXTENDS Server

CONSTANTS c1, c2

Reconnecting == {c1, c2}
SameName == [c \in Reconnecting |-> "TeamA"]
First == {c1}
FirstName == [c \in First |-> "TeamA"]
NoOne == {}

VARIABLE pieces

\* One connection, that stays.
OneConnection ==
  /\ Cardinality({c \in Conns : peer[c] # "new"}) <= 1
  /\ \A c \in Conns : peer[c] # "gone"

\* Nothing has been cut, and those who can answer with ids do.
WholeMessages ==
  \A c \in Conns : \A i \in 1 .. Len(arriving[c]) :
    LET token == arriving[c][i] IN
      /\ token.kind # "part"
      /\ c \in Numbered /\ token.kind = "answer" => i > 1 /\ arriving[c][i - 1].kind = "id"

MCInit == Init /\ pieces \in BOOLEAN
MCNext ==
  /\ Next
  /\ IF pieces THEN OneConnection' ELSE WholeMessages'
  /\ UNCHANGED pieces
MCSpec == MCInit /\ [][MCNext]_<<vars, pieces>>
MCFairSpec == MCSpec /\ Fairness

=============================================================================
