------------------------------ MODULE MCClient ------------------------------
(* A stream of challenges for checking Client.                             *)
EXTENDS Client

\* Two challenges, of two tiles and of one: as many tiles as workers, then
\* fewer, with the partials of the first still there.
TwoThenOne == <<2, 1>>
=============================================================================
