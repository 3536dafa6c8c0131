------------------------------- MODULE Replies -------------------------------
(***************************************************************************)
(* What the client of hftclient2026 promises a server: its replies are to  *)
(* the challenges that arrived, one each, in their order, and each carries *)
(* the checksum of the whole product; only while the client is stopping    *)
(* may a reply be wrong, and then it is the last one.                      *)
(***************************************************************************)
EXTENDS Naturals, Sequences

VARIABLES
  arrived,   \* how many challenges have arrived in full
  stopping,
  replies    \* the replies, in order: [id, whole]

vars == <<arrived, stopping, replies>>

Init ==
  /\ arrived = 0
  /\ stopping = FALSE
  /\ replies = <<>>

LastWasWrong == \E i \in 1 .. Len(replies) : ~replies[i].whole

Arrive ==
  /\ ~LastWasWrong
  /\ arrived' = arrived + 1
  /\ UNCHANGED <<stopping, replies>>

Reply ==
  /\ ~LastWasWrong
  /\ Len(replies) < arrived
  /\ \E whole \in BOOLEAN :
       /\ whole \/ stopping
       /\ replies' = Append(replies, [id |-> Len(replies) + 1, whole |-> whole])
  /\ UNCHANGED <<arrived, stopping>>

Stop ==
  /\ stopping' = TRUE
  /\ UNCHANGED <<arrived, replies>>

Next == Arrive \/ Reply \/ Stop

Spec == Init /\ [][Next]_vars

=============================================================================
