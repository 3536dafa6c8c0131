-------------------------------- MODULE MCLog --------------------------------
(***************************************************************************)
(* What a server does about a challenge whose time is over: its checksum   *)
(* (Checksum, with the ways of the clients), the entry of the log          *)
(* (LogEntry) and the file (Results).  TLC checks each stage from all of   *)
(* its own inputs, while the two others rest.                              *)
(***************************************************************************)
EXTENDS Results, LogEntry, Checksum

CONSTANTS n1, n2, none

\* Players, one of them without a name.
ThreeNames == {n1, n2, none}
FewLatencies == {-1, 4, 5}
TwoAnswers == {7, 8}

Flat(n) == 0 .. n * n - 1

\* All of up to two rows, and some of three.
SmallMatrices ==
  [n \in 1 .. 3 |->
    IF n < 3
    THEN [Flat(n) -> 0 .. kModulo - 1]
    ELSE {[c \in Flat(n) |-> kModulo - 1], [c \in Flat(n) |-> (c * c + 1) % kModulo],
          [c \in Flat(n) |-> IF c % 4 = 0 THEN 1 ELSE 0],
          [c \in Flat(n) |-> IF c = 5 THEN 2 ELSE 0]}]

VARIABLE stage

NoPlayers ==
  /\ latencies = <<>> /\ answers = <<>> /\ todo = {}
  /\ winner = Empty /\ bestLatency = INT_MAX /\ entry = NoEntry
NoProduct ==
  /\ N = 1 /\ A = [c \in Flat(1) |-> 0] /\ B = A
  /\ program = "server" /\ taker = <<>> /\ checksum = NotYet

LogInit ==
  /\ Init
  /\ \/ stage = "checksum" /\ ChecksumInit /\ NoPlayers
     \/ stage = "entry" /\ EntryInit /\ NoProduct
     \/ stage = "file" /\ NoPlayers /\ NoProduct

LogNext ==
  /\ \/ stage = "checksum" /\ Compute /\ UNCHANGED <<entryVars, vars>>
     \/ stage = "entry" /\ EntryNext /\ UNCHANGED <<checksumVars, vars>>
     \/ stage = "file" /\ Next /\ UNCHANGED <<checksumVars, entryVars>>
  /\ UNCHANGED stage

LogSpec == LogInit /\ [][LogNext]_<<vars, entryVars, checksumVars, stage>>

=============================================================================
