----------------------------- MODULE MCRowClient -----------------------------
(* A stream of challenges for checking RowClient.                          *)
EXTENDS RowClient

\* Three challenges, of three rows, of one and of two: rows that do not divide
\* evenly, a worker without any, and one each.
ThreeOneTwo == <<3, 1, 2>>
=============================================================================
