------------------------------ MODULE Checksum ------------------------------
(***************************************************************************)
(* The checksum of a challenge, as the seven programs compute it: both     *)
(* servers, the four clients and the team client.  They differ in who adds *)
(* up which products (by cell, by rows of a worker, by tiles) and where    *)
(* they reduce modulo kModulo.  Cells are those of generateMatrix, so that *)
(* % of C++ is % here; no sum of at most kMaxMatrixDim^3 products of cells *)
(* comes near 2^63, and the int sums stay below 2 * kModulo, or kModulo^2  *)
(* in v1: no width is modelled.                                            *)
(***************************************************************************)
EXTENDS Integers, Sequences, FiniteSetsExt

CONSTANTS
  Matrices,         \* Matrices[n]: the n by n matrices to be multiplied, flat
  kModulo,
  kComputeTile,     \* kTile in the team client
  kComputeWorkers

ASSUME ChecksumAssumption ==
  /\ DOMAIN Matrices \subseteq Nat
  /\ kModulo \in Nat \ {0}
  /\ kComputeTile \in Nat \ {0}
  /\ kComputeWorkers \in Nat \ {0}
  /\ \A n \in DOMAIN Matrices : Matrices[n] \subseteq [0 .. n * n - 1 -> 0 .. kModulo - 1]

VARIABLES N, A, B,  \* the challenge
          program,
          taker,    \* v4, of each tile: the worker whose fetch_add returned it;
                    \* team, of each cell: the OpenMP thread that adds it up
          checksum

checksumVars == <<N, A, B, program, taker, checksum>>

Workers == 0 .. kComputeWorkers - 1
Indices == 0 .. N - 1
Cells == Indices \X Indices
NotYet == -1

-----------------------------------------------------------------------------
(* Sums.                                                                   *)

AddMod(x, sum) == (sum + x) % kModulo

\* Mutant: off by one.
AddSubLate(x, sum) == IF sum + x > kModulo THEN sum + x - kModulo ELSE sum + x

AddSub(x, sum) == IF sum + x >= kModulo THEN sum + x - kModulo ELSE sum + x

\* Of f[x], for every x of S: with no reduction, or with one at every step.
Sum(f, S) == SumFunctionOnSet(f, S)
SumMod(f, S) == FoldFunctionOnSet(AddMod, 0, f, S)
SumSub(f, S) == FoldFunctionOnSet(AddSub, 0, f, S)

\* <<i, k, j>> stands for a product of the definition.
Products == Indices \X Indices \X Indices
Term == [x \in Products |-> A[x[1] * N + x[2]] * B[x[2] * N + x[3]]]

\* "checksum = sum(A * B) mod 997"
Definition == Sum(Term, Products) % kModulo

-----------------------------------------------------------------------------
(* Blocks: from .. to - 1 in steps of kComputeTile.                        *)

Steps(from, to) == {b \in from .. to - 1 : (b - from) % kComputeTile = 0}

Span(b, to) == b .. Min({b + kComputeTile, to}) - 1

BlockTerms(b, to) == Span(b[1], to) \X Span(b[2], N) \X Span(b[3], N)

\* The turns of the six loops over rows from .. to - 1: a block, and a product of it.
Turns(from, to) ==
  UNION {{b} \X BlockTerms(b, to) : b \in Steps(from, to) \X Steps(0, N) \X Steps(0, N)}

-----------------------------------------------------------------------------
(* Row by row: the servers, v1.                                            *)

ServerChecksum ==
  LET cell == [c \in Cells |->
                SumMod([k \in Indices |-> Term[<<c[1], k, c[2]>>] % kModulo], Indices)]
  IN SumMod(cell, Cells)

V1Checksum ==
  LET C == [c \in Cells |-> SumMod([k \in Indices |-> Term[<<c[1], k, c[2]>>]], Indices)]
  IN SumMod(C, Cells)

\* One reduction for each cell of C; the threads' sums are added with none, and the
\* last line reduces them.  Without OpenMP there is one thread.
TeamChecksum ==
  LET C == [c \in Cells |->
             Sum([t \in Turns(0, N) |-> Term[t[2]]],
                 {t \in Turns(0, N) : <<t[2][1], t[2][3]>> = c}) % kModulo]
      private == [w \in Workers |-> SumMod(C, {c \in Cells : taker[c] = w})]
  IN ((Sum(private, Workers) % kModulo) + kModulo) % kModulo

-----------------------------------------------------------------------------
(* A partial sum for each worker: v2 and v3 by rows, v4 by tiles.          *)

StartRow(w) == (w * N) \div kComputeWorkers

Rows(w) == StartRow(w) .. StartRow(w + 1) - 1

V2Partial(w) ==
  LET cij == [c \in Rows(w) \X Indices |->
               SumSub([k \in Indices |-> Term[<<c[1], k, c[2]>>] % kModulo], Indices)]
  IN SumSub(cij, Rows(w) \X Indices)

V3Partial(w) ==
  LET turns == Turns(StartRow(w), StartRow(w + 1))
  IN SumSub([t \in turns |-> Term[t[2]] % kModulo], turns)

TilesPerSide == (N + kComputeTile - 1) \div kComputeTile

Tiles == 0 .. TilesPerSide * TilesPerSide * TilesPerSide - 1

Origin(tile) ==
  LET j_tile == tile % TilesPerSide
      k_tile == (tile \div TilesPerSide) % TilesPerSide
      i_tile == tile \div (TilesPerSide * TilesPerSide)
  IN <<i_tile * kComputeTile, k_tile * kComputeTile, j_tile * kComputeTile>>

V4Partial(w) ==
  Sum([tile \in Tiles |-> Sum(Term, BlockTerms(Origin(tile), N))],
      {tile \in Tiles : taker[tile] = w}) % kModulo

Partial(w) == CASE program = "v2" -> V2Partial(w)
                [] program = "v3" -> V3Partial(w)
                [] program = "v4" -> V4Partial(w)

\* parserThread adds the partials up.
Gathered == SumSub([w \in Workers |-> Partial(w)], Workers)

-----------------------------------------------------------------------------

InWorkers == {"v2", "v3", "v4"}

\* schedule(static): a thread's cells are next to one another.
InChunks(t) ==
  \A c, d \in Cells : c[1] * N + c[2] <= d[1] * N + d[2] => t[c] <= t[d]

ChecksumInit ==
  /\ N \in DOMAIN Matrices
  /\ A \in Matrices[N]
  /\ B \in Matrices[N]
  /\ program \in {"server", "v1", "team"} \cup InWorkers
  /\ taker \in CASE program = "v4" -> [Tiles -> Workers]
                 [] program = "team" -> {t \in [Cells -> Workers] : InChunks(t)}
                 [] OTHER -> {<<>>}
  /\ checksum = NotYet

Compute ==
  /\ checksum = NotYet
  /\ checksum' = CASE program = "server" -> ServerChecksum
                   [] program = "v1" -> V1Checksum
                   [] program = "team" -> TeamChecksum
                   [] OTHER -> Gathered
  /\ UNCHANGED <<N, A, B, program, taker>>

ChecksumSpec == ChecksumInit /\ [][Compute]_checksumVars

-----------------------------------------------------------------------------
(* Properties.                                                             *)

\* Every program computes the checksum of the definition: no product is left out
\* or added twice at the edge of a tile or of a worker's rows, whichever worker
\* takes which tile, and the reductions end below kModulo.
Exact == checksum # NotYet => checksum = Definition

=============================================================================
