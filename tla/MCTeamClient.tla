---------------------------- MODULE MCTeamClient ----------------------------
(* Constants for checking TeamClient.                                      *)
EXTENDS TeamClient

CONSTANTS w1, w2

TwoWorkers == {w1, w2}

=============================================================================
