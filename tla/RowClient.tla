------------------------------ MODULE RowClient ------------------------------
(***************************************************************************)
(* The clients before the current one (hftclient2026/main_v2.cpp and       *)
(* main_v3.cpp).  They differ from it in the round: there is no next_tile; *)
(* worker w adds up the rows w * N / 7 .. (w + 1) * N / 7 - 1 of every     *)
(* challenge, so the tiles of ComputeRound are rows here, TotalTiles[c] is *)
(* the N of challenge c, tile[w] is the row worker w is at and             *)
(* total_tiles[w] its end_row.  v3 goes through the rows of a worker in    *)
(* blocks; the order in which they are added up makes no difference.       *)
(***************************************************************************)
EXTENDS Client

\* There is nothing to reset before done_count.
FeedLastRow ==
  /\ Running /\ ~seen_empty
  /\ ppc = "peek"
  /\ loaded < Len(TotalTiles)
  /\ received >= 2 * (loaded + 1)
  /\ loaded' = loaded + 1
  /\ dirty' = FALSE
  /\ taken' = 2 * (loaded + 1)
  /\ ppc' = "reset_done"
  /\ UNCHANGED <<flags, sumVars, sent, workerVars, jobVars,
                 peer, received, closed, seen_empty, ipc, mpc>>

RowRoundStep ==
  /\ Running
  /\ \/ ParserTop
     \/ ResetDoneCount
     \/ PublishEpoch
     \/ WaitAllDone
     \/ WaitStop
     \/ Gather
     \/ SendAnswer
  /\ UNCHANGED shellVars

RowParserStep ==
  \/ SeeEmpty
  \/ EmptyOrClosed
  \/ FeedPart
  \/ FeedLastRow
  \/ SendFailsOrKills
  \/ RowRoundStep

\* Mutant: N / 7 rows for each worker.
EndRowEven(w, N) == (w + 1) * (N \div kComputeWorkers)

StartRow(w, N) == (w * N) \div kComputeWorkers
EndRow(w, N) == ((w + 1) * N) \div kComputeWorkers

\* The second look at stop_requested, and the first lines of
\* computePartialChecksum.
RowTakeUp(w) ==
  /\ wpc[w] = "recheck"
  /\ IF stop_requested
     THEN /\ wpc' = [wpc EXCEPT ![w] = "done"]
          /\ UNCHANGED <<tile, total_tiles, partial>>
     ELSE LET N == IF loaded = 0 THEN 0 ELSE TotalTiles[loaded] IN
          /\ tile' = [tile EXCEPT ![w] = StartRow(w, N)]
          /\ total_tiles' = [total_tiles EXCEPT ![w] = EndRow(w, N)]
          /\ partial' = [partial EXCEPT ![w] = {}]
          /\ wpc' = [wpc EXCEPT ![w] = "row"]
  /\ UNCHANGED <<flags, parserVars, jobVars, seen_epoch>>

RowTurn(w) ==
  /\ wpc[w] = "row"
  /\ IF tile[w] < total_tiles[w]
     THEN /\ partial' = [partial EXCEPT ![w] =
                           @ \cup {<<IF dirty THEN 0 ELSE loaded, tile[w]>>}]
          /\ tile' = [tile EXCEPT ![w] = @ + 1]
          /\ UNCHANGED wpc
     ELSE /\ wpc' = [wpc EXCEPT ![w] = "store"]
          /\ UNCHANGED <<partial, tile>>
  /\ UNCHANGED <<flags, parserVars, jobVars, seen_epoch, total_tiles>>

RowWorkerStep(w) ==
  /\ Running
  /\ \/ WorkerTop(w)
     \/ WorkerLoadEpoch(w)
     \/ RowTakeUp(w)
     \/ RowTurn(w)
     \/ StorePartial(w)
     \/ CountDone(w)
  /\ UNCHANGED shellVars

RowNext ==
  \/ PeerLeaves
  \/ Main
  \/ Io
  \/ Recv
  \/ RowParserStep
  \/ \E w \in Workers : RowWorkerStep(w)

RowSpec == ClientInit /\ [][RowNext]_clientVars

\* Fairness as for the current client.
RowFairSpec ==
  /\ RowSpec
  /\ WF_clientVars(Main)
  /\ WF_clientVars(Io)
  /\ SF_clientVars(RecvEnds)
  /\ WF_clientVars(RowParserStep)
  /\ \A w \in Workers : WF_clientVars(RowWorkerStep(w))

-----------------------------------------------------------------------------
(***************************************************************************)
(* Why an answer is whole here: no counter hands out the rows, so all that *)
(* keeps the sums right is the barrier, and that the shares of the rows    *)
(* fit together.                                                           *)
(***************************************************************************)

RowLabels == {"check", "load", "recheck", "row", "store", "count", "done",
              "killed"}

RowTypeOK ==
  /\ stop_requested \in BOOLEAN
  /\ released \in BOOLEAN
  /\ ppc \in ParserLabels
  /\ loaded \in Tiles
  /\ dirty \in BOOLEAN
  /\ gathered \in 0 .. kComputeWorkers
  /\ checksum \in [Workers -> TileSets]
  /\ sent \in Seq([id : Tiles, parts : [Workers -> TileSets]])
  /\ epoch \in Nat
  /\ done_count \in 0 .. kComputeWorkers
  /\ partials \in [Workers -> TileSets]
  /\ wpc \in [Workers -> RowLabels]
  /\ seen_epoch \in [Workers -> Nat]
  /\ total_tiles \in [Workers -> Nat]
  /\ tile \in [Workers -> Nat]
  /\ partial \in [Workers -> TileSets]

RowSumming(w) == wpc[w] \in {"row", "store"}

\* Worker w may yet add one to done_count.
RowMayCount(w) ==
  \/ RowSumming(w) \/ wpc[w] = "count"
  \/ /\ ~stop_requested
     /\ \/ wpc[w] = "recheck"
        \/ wpc[w] \in {"check", "load"} /\ seen_epoch[w] # epoch
RowCounters == {w \in Workers : RowMayCount(w)}
RowCountInv ==
  /\ done_count + Cardinality(RowCounters) <= kComputeWorkers
  /\ ppc = "publish" => done_count = 0

\* A worker inside a round is in the last one published.
RowRoundInv ==
  \A w \in Workers :
    (wpc[w] \in {"recheck", "count"} \/ RowSumming(w)) /\ ~released
      => seen_epoch[w] = epoch

\* From publication to answer the job is whole; a worker that is adding up
\* rows goes through its share of that job, and has added up the first of it.
RowJobInv ==
  /\ ppc \in {"reset_done", "publish"} \cup InRound
       => loaded \in Challenges /\ ~dirty
  /\ \A w \in Workers : RowSumming(w) =>
       LET N == TotalTiles[loaded] IN
       /\ loaded \in Challenges
       /\ ~dirty
       /\ total_tiles[w] = EndRow(w, N)
       /\ tile[w] \in StartRow(w, N) .. EndRow(w, N)
       /\ partial[w] = {loaded} \X (StartRow(w, N) .. tile[w] - 1)
       /\ wpc[w] = "store" => tile[w] = EndRow(w, N)

\* While not stopping, a worker that is through with the round has left its
\* share of the rows, and no other.
Share(w, N) == StartRow(w, N) .. EndRow(w, N) - 1
RowDoneInv ==
  (ppc \in InRound /\ ~stop_requested) =>
    \A w \in Workers : wpc[w] = "count" \/ CaughtUp(w) =>
      partials[w] = {loaded} \X Share(w, TotalTiles[loaded])

\* The rest is as for the current client.
RowInv ==
  /\ RowTypeOK
  /\ EndInv
  /\ QuietInv
  /\ RowRoundInv
  /\ RowCountInv
  /\ RowJobInv
  /\ RowDoneInv
  /\ GatherInv
  /\ SentInv

=============================================================================
