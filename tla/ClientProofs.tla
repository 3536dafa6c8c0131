---------------------------- MODULE ClientProofs ----------------------------
(***************************************************************************)
(* Proofs about the current client: its compute round (ComputeRound) and   *)
(* the whole (Client), and about the clients before it (RowClient), for    *)
(* any number of workers, any stream of challenges and any ring.           *)
(*                                                                         *)
(* Every safety property of the round follows from the inductive invariant *)
(* IInv: one lemma per action says that the action preserves it, and the   *)
(* theorem Invariant puts them together.  The two facts with content are   *)
(* AllArrived (the barrier: when done_count reaches kComputeWorkers, every *)
(* worker has finished the round) and GatheredExact (what is then added up *)
(* is each tile of the challenge once).                                    *)
(*                                                                         *)
(* The rounds of Client are those of ComputeRound, whose theorems          *)
(* therefore hold of the whole client; and what Client adds has an         *)
(* invariant of its own.  The first needs that the ring is closed only     *)
(* once stop_requested is set, the second that job holds the challenges    *)
(* ComputeRound says it does.                                              *)
(*                                                                         *)
(* The earlier clients have the same barrier, and no counter of tiles.     *)
(* There the fact with content is that the workers' shares of the rows are *)
(* apart (SharesApart) and leave no row out (SharesCover), whatever the    *)
(* number of rows and of workers.                                          *)
(***************************************************************************)
EXTENDS RowClient, FiniteSetTheorems, TLAPS

-----------------------------------------------------------------------------
(* Counting workers.                                                       *)

\* There are kComputeWorkers workers.
LEMMA WorkersFinite ==
  IsFiniteSet(Workers) /\ Cardinality(Workers) = kComputeWorkers
<1>1. kComputeWorkers - 1 >= 0 /\ kComputeWorkers - 1 \in Int
  BY ConstantsAssumption
<1>2. Cardinality(0 .. kComputeWorkers - 1) = kComputeWorkers
  BY <1>1, ConstantsAssumption, FS_Interval
<1> QED BY <1>1, <1>2, FS_Interval DEF Workers

\* The length of the stream is a number.
LEMMA StreamLength == Len(TotalTiles) \in Nat
BY ConstantsAssumption

\* A set of workers has at least as many members as its subsets.
LEMMA FewerWorkers ==
  ASSUME NEW S \in SUBSET Workers, NEW T \in SUBSET S
  PROVE  /\ Cardinality(S) \in Nat
         /\ Cardinality(T) \in Nat
         /\ Cardinality(T) <= Cardinality(S)
         /\ Cardinality(S) = 0 => S = {}
         /\ \A w \in S \ T : Cardinality(T) < Cardinality(S)
<1>1. IsFiniteSet(S) /\ IsFiniteSet(T) BY WorkersFinite, FS_Subset
<1>2. Cardinality(S) \in Nat /\ Cardinality(T) \in Nat
  BY <1>1, FS_CardinalityType
<1>3. Cardinality(T) <= Cardinality(S) /\ (Cardinality(S) = Cardinality(T) => S = T)
  BY <1>1, FS_Subset
<1>4. Cardinality(S) = 0 => S = {} BY <1>1, FS_EmptySet
<1> QED BY <1>2, <1>3, <1>4

-----------------------------------------------------------------------------
(* Consequences of the invariant.                                          *)

\* The sum of CountInv does not grow when no worker joins the counters.
LEMMA NoNewCounter ==
  ASSUME IInv, UNCHANGED done_count, Counters' \subseteq Counters
  PROVE  (done_count + Cardinality(Counters) <= kComputeWorkers)'
<1>1. Counters \in SUBSET Workers BY DEF Counters
<1>2. Cardinality(Counters') <= Cardinality(Counters)
      /\ Cardinality(Counters) \in Nat /\ Cardinality(Counters') \in Nat
  BY <1>1, FewerWorkers
<1> QED BY <1>2, ConstantsAssumption DEF IInv, CountInv, TypeOK

\* The barrier: when done_count says that all workers have arrived, they have.
LEMMA AllArrived ==
  ASSUME IInv, done_count = kComputeWorkers, ~stop_requested,
         ppc # "killed"
  PROVE  \A w \in Workers : CaughtUp(w)
<1>1. Counters \in SUBSET Workers BY DEF Counters
<1>2. Cardinality(Counters) \in Nat BY <1>1, FewerWorkers
<1>3. Cardinality(Counters) = 0
  BY <1>2, ConstantsAssumption DEF IInv, CountInv
<1>4. Counters = {} BY <1>1, <1>3, FewerWorkers
<1> SUFFICES ASSUME NEW w \in Workers PROVE CaughtUp(w) OBVIOUS
<1>5. ~MayCount(w) BY <1>4 DEF Counters
<1>6. wpc[w] \notin {"done", "killed"} BY DEF IInv, EndInv
<1>7. wpc[w] \in WorkerLabels BY DEF IInv, TypeOK
<1> QED BY <1>5, <1>6, <1>7 DEF MayCount, Summing, CaughtUp, WorkerLabels

\* A worker inside a round keeps the parser out of the job.
LEMMA BusyWorker ==
  ASSUME IInv, NEW w \in Workers,
         wpc[w] \in {"recheck", "count"} \/ Summing(w)
  PROVE  /\ ppc \in {"top", "done"} \cup InRound
         /\ ~stop_requested => ppc \in {"wait", "wait_stop"}
<1>1. ~CaughtUp(w) BY DEF CaughtUp, Summing
<1>2. ppc \in ParserLabels /\ ppc # "killed"
  BY DEF IInv, TypeOK, EndInv, Summing
<1> QED
  BY <1>1, <1>2 DEF IInv, QuietInv, Filling, InRound, ParserLabels, EndInv

\* While the parser may write the job, every worker is between rounds.
LEMMA QuietWorkers ==
  ASSUME IInv, ppc \in Filling
  PROVE  \A w \in Workers : /\ wpc[w] \in {"check", "load", "done"}
                            /\ seen_epoch[w] = epoch
BY DEF IInv, QuietInv, CaughtUp

\* What the parser adds up when no one has asked it to stop is the product.
LEMMA GatheredExact ==
  ASSUME IInv, ppc = "send", ~stop_requested
  PROVE  CoversOnce(checksum, loaded)
<1>1. loaded \in Challenges BY DEF IInv, JobInv, InRound
<1>2. \A w \in Workers : CaughtUp(w) BY DEF IInv, QuietInv
<1>3. \A w \in Workers : checksum[w] = partials[w]
  BY ConstantsAssumption DEF IInv, GatherInv, Workers
<1>4. \A w \in Workers : Contribution(w) = partials[w]
  BY <1>2 DEF CaughtUp, Contribution, Summing
<1>5. 0 \in Workers BY ConstantsAssumption DEF Workers
<1>6. next_tile >= TotalTiles[loaded] /\ TotalTiles[loaded] \in Nat
  BY <1>1, <1>2, <1>5, ConstantsAssumption
     DEF IInv, CoverInv, OutOfTiles, InRound, Challenges
<1>7. UNION {checksum[w] : w \in Workers}
        \subseteq {loaded} \X (0 .. TotalTiles[loaded] - 1)
  <2> SUFFICES ASSUME NEW w \in Workers, NEW x \in partials[w]
               PROVE  x \in {loaded} \X (0 .. TotalTiles[loaded] - 1)
    BY <1>3
  <2>1. x \in Tiles \X Nat BY DEF IInv, TypeOK, TileSets
  <2>2. x[1] = loaded
    BY <1>2, <1>4 DEF IInv, CoverInv, InRound, TookUp
  <2>3. x[2] < TotalTiles[loaded] BY <2>2 DEF IInv, HeldInv
  <2> QED BY <1>6, <2>1, <2>2, <2>3
<1>8. {loaded} \X (0 .. TotalTiles[loaded] - 1)
        \subseteq UNION {checksum[w] : w \in Workers}
  <2> SUFFICES ASSUME NEW t \in 0 .. TotalTiles[loaded] - 1
               PROVE  \E w \in Workers : <<loaded, t>> \in partials[w]
    BY <1>3
  <2>1. t < next_tile BY <1>6 DEF IInv, TypeOK
  <2>2. \A w \in Workers : wpc[w] # "tile" BY <1>2 DEF CaughtUp
  <2>3. \E w \in Workers : <<loaded, t>> \in Contribution(w)
    BY <2>1, <2>2 DEF IInv, CoverInv, InRound
  <2> QED BY <2>3, <1>4
<1>9. \A v, w \in Workers : v # w => checksum[v] \cap checksum[w] = {}
  BY <1>3 DEF IInv, SumsDisjoint
<1> QED BY <1>7, <1>8, <1>9 DEF CoversOnce

\* A step after which worker v still holds the tiles it has added up or is
\* computing, and has added none of another challenge.
KeepsTiles(v) ==
  /\ TookUp(v)' => \A x \in Contribution(v)' : x[1] = loaded
  /\ OutOfTiles(v)' => OutOfTiles(v) \/ next_tile >= TotalTiles[loaded]
  /\ TookUp(v) => TookUp(v)' /\ Contribution(v) \subseteq Contribution(v)'
  /\ wpc[v] = "tile" =>
       \/ wpc'[v] = "tile" /\ tile'[v] = tile[v]
       \/ TookUp(v)' /\ <<loaded, tile[v]>> \in Contribution(v)'

\* Such a step of every worker keeps the account of the tiles, when a tile
\* that next_tile passes is taken by some worker.
LEMMA KeepsCover ==
  ASSUME IInv,
         UNCHANGED <<ppc, loaded, stop_requested>>,
         ppc \in InRound, ~stop_requested,
         next_tile' \in Nat, next_tile' >= next_tile,
         \A v \in Workers : KeepsTiles(v),
         \A t \in next_tile .. next_tile' - 1 : t < TotalTiles[loaded] =>
           \E v \in Workers : wpc'[v] = "tile" /\ tile'[v] = t
  PROVE  CoverInv'
<1> USE DEF KeepsTiles
<1>1. /\ next_tile \in Nat
      /\ TotalTiles[loaded] \in Nat
  BY StreamLength, ConstantsAssumption DEF IInv, TypeOK, JobInv, InRound,
     Challenges
<1>2. \A v \in Workers : TookUp(v)' => \A x \in Contribution(v)' : x[1] = loaded'
  OBVIOUS
<1>3. \A v \in Workers : OutOfTiles(v)' => next_tile' >= TotalTiles[loaded']
  <2>1. \A v \in Workers : OutOfTiles(v) => next_tile >= TotalTiles[loaded]
    BY DEF IInv, CoverInv
  <2>2. \A v \in Workers : OutOfTiles(v)' => next_tile >= TotalTiles[loaded]
    BY <2>1
  <2> QED BY <1>1, <2>2
<1>4. ASSUME NEW t \in 0 .. TotalTiles[loaded] - 1, t < next_tile'
      PROVE  \E v \in Workers :
               \/ (TookUp(v)' /\ <<loaded, t>> \in Contribution(v)')
               \/ (wpc'[v] = "tile" /\ tile'[v] = t)
  <2>1. CASE t < next_tile
    BY <2>1 DEF IInv, CoverInv
  <2>2. CASE ~(t < next_tile)
    BY <1>1, <1>4, <2>2
  <2> QED BY <2>1, <2>2
<1> QED BY <1>2, <1>3, <1>4 DEF CoverInv

\* An answer that is whole, or sent when stopping, keeps the account of the
\* answers.
LEMMA SendAnswerSent ==
  ASSUME SentInv, SendAnswer, loaded \in Challenges,
         sent \in Seq([id : Tiles, parts : [Workers -> TileSets]]),
         checksum \in [Workers -> TileSets],
         CoversOnce(checksum, loaded) \/ stop_requested
  PROVE  SentInv'
<1> USE DEF flags, inputVars, sumVars, parserVars
<1>1. loaded \in Nat /\ Len(sent) = loaded - 1
  BY StreamLength DEF SendAnswer, SentInv, InRound, Challenges
<1>2. /\ Len(sent') = loaded
      /\ sent'[loaded] = [id |-> loaded, parts |-> checksum]
      /\ \A i \in 1 .. Len(sent) : sent'[i] = sent[i]
  BY <1>1 DEF SendAnswer, Tiles
<1>3. \A i \in 1 .. Len(sent) : i \in Challenges /\ sent[i].id = i /\ Exact(sent[i])
  BY DEF SendAnswer, SentInv
<1>4. Exact(sent'[loaded]) \/ stop_requested BY <1>2 DEF Exact
<1>5. ASSUME NEW i \in 1 .. Len(sent')
      PROVE  i \in 1 .. Len(sent) \/ i = loaded
  BY <1>1, <1>2
<1> QED
  BY <1>1, <1>2, <1>3, <1>4, <1>5 DEF SendAnswer, SentInv, InRound, Exact

-----------------------------------------------------------------------------
(* Every action preserves the invariant.                                   *)

\* Going round the loop again is safe: an early answer leaves only with the
\* flag set, and then the parser stops here.
LEMMA ParserTopStep ==
  ASSUME IInv, ParserTop
  PROVE  IInv'
<1> USE ConstantsAssumption DEF flags, inputVars, sumVars, parserVars,
      workerVars, jobVars, IInv, Workers
<1>1. TypeOK' BY DEF ParserTop, TypeOK, ParserLabels, WorkerLabels
<1>2. (EndInv /\ QuietInv /\ RoundInv /\ CountInv)'
  BY DEF ParserTop, EndInv, QuietInv, Filling, CaughtUp, RoundInv, Summing,
     CountInv, Counters, MayCount, TypeOK
<1>3. (JobInv /\ HeldInv /\ InFlightInv /\ SumsDisjoint)'
  BY DEF ParserTop, JobInv, InRound, Summing, HeldInv, InFlightInv,
     SumsDisjoint, TypeOK
<1>4. CoverInv'
  BY DEF ParserTop, CoverInv, TookUp, OutOfTiles, Summing, CaughtUp,
     Contribution, InRound, TypeOK
<1>5. (GatherInv /\ SentInv)'
  BY DEF ParserTop, GatherInv, SentInv, InRound, TypeOK
<1> QED BY <1>1, <1>2, <1>3, <1>4, <1>5

\* An idle turn of the parser changes nothing the invariant is about.
LEMMA ParserIdleStep ==
  ASSUME IInv, ParserIdle
  PROVE  IInv'
<1> USE ConstantsAssumption DEF flags, inputVars, sumVars, parserVars,
      workerVars, jobVars, IInv, Workers
<1>1. TypeOK' BY DEF ParserIdle, TypeOK, ParserLabels, WorkerLabels
<1>2. (EndInv /\ QuietInv /\ RoundInv /\ CountInv)'
  BY DEF ParserIdle, EndInv, QuietInv, Filling, CaughtUp, RoundInv, Summing,
     CountInv, Counters, MayCount, TypeOK
<1>3. (JobInv /\ HeldInv /\ InFlightInv /\ SumsDisjoint)'
  BY DEF ParserIdle, JobInv, InRound, Summing, HeldInv, InFlightInv,
     SumsDisjoint, TypeOK
<1>4. CoverInv'
  BY DEF ParserIdle, CoverInv, TookUp, OutOfTiles, Summing, CaughtUp,
     Contribution, InRound, TypeOK
<1>5. (GatherInv /\ SentInv)'
  BY DEF ParserIdle, GatherInv, SentInv, InRound, TypeOK
<1> QED BY <1>1, <1>2, <1>3, <1>4, <1>5

\* Half of a challenge may be written because every worker is between rounds.
LEMMA ParserFeedPartStep ==
  ASSUME IInv, ParserFeedPart
  PROVE  IInv'
<1> USE ConstantsAssumption DEF flags, inputVars, sumVars, parserVars,
      workerVars, jobVars, IInv, Workers
<1>q. \A v \in Workers : /\ wpc[v] \in {"check", "load", "done"}
                         /\ seen_epoch[v] = epoch
  BY QuietWorkers DEF ParserFeedPart, Filling
<1>1. TypeOK' BY DEF ParserFeedPart, TypeOK, ParserLabels, WorkerLabels
<1>2. (EndInv /\ QuietInv /\ RoundInv /\ CountInv)'
  BY DEF ParserFeedPart, EndInv, QuietInv, Filling, CaughtUp, RoundInv,
     Summing, CountInv, Counters, MayCount, TypeOK
<1>3. (JobInv /\ HeldInv /\ InFlightInv /\ SumsDisjoint)'
  BY <1>q DEF ParserFeedPart, JobInv, InRound, Summing, HeldInv, InFlightInv,
     SumsDisjoint, TypeOK
<1>4. CoverInv'
  BY DEF ParserFeedPart, CoverInv, TookUp, OutOfTiles, Summing, CaughtUp,
     Contribution, InRound, TypeOK
<1>5. (GatherInv /\ SentInv)'
  BY DEF ParserFeedPart, GatherInv, SentInv, InRound, TypeOK
<1> QED BY <1>1, <1>2, <1>3, <1>4, <1>5

\* A completed challenge is newer than every tile added up so far.
LEMMA ParserCompleteStep ==
  ASSUME IInv, ParserComplete
  PROVE  IInv'
<1> USE ConstantsAssumption DEF flags, inputVars, sumVars, parserVars,
      workerVars, jobVars, IInv, Workers
<1>q. \A v \in Workers : /\ wpc[v] \in {"check", "load", "done"}
                         /\ seen_epoch[v] = epoch
  BY QuietWorkers DEF ParserComplete, Filling
<1>1. TypeOK'
  <2>1. loaded' \in Tiles
    BY StreamLength DEF ParserComplete, TypeOK, Tiles, Challenges
  <2> QED BY <2>1 DEF ParserComplete, TypeOK, ParserLabels, WorkerLabels
<1>2. (EndInv /\ QuietInv /\ RoundInv /\ CountInv)'
  BY DEF ParserComplete, EndInv, QuietInv, Filling, CaughtUp, RoundInv,
     Summing, CountInv, Counters, MayCount, TypeOK
<1>3. (InFlightInv /\ SumsDisjoint)'
  BY <1>q DEF ParserComplete, InFlightInv, SumsDisjoint, TypeOK
<1>4. JobInv'
  <2>1. loaded' \in Challenges
    BY StreamLength DEF ParserComplete, TypeOK, Tiles, Challenges
  <2> QED BY <1>q, <2>1 DEF ParserComplete, JobInv, InRound, Summing
<1>5. HeldInv'
  <2>1. loaded' = loaded + 1 /\ loaded \in Nat
    BY StreamLength DEF ParserComplete, TypeOK, Tiles, Challenges
  <2>2. \A i \in Challenges : i <= loaded => i <= loaded' /\ i # loaded'
    BY <2>1, StreamLength DEF Challenges
  <2> QED BY <2>2 DEF ParserComplete, HeldInv
<1>6. CoverInv'
  BY DEF ParserComplete, CoverInv, TookUp, OutOfTiles, Summing, CaughtUp,
     Contribution, InRound, TypeOK
<1>7. (GatherInv /\ SentInv)'
  BY DEF ParserComplete, GatherInv, SentInv, InRound, Tiles, Challenges,
     TypeOK
<1> QED BY <1>1, <1>2, <1>3, <1>4, <1>5, <1>6, <1>7

\* The tile counter restarts while no worker is claiming.
LEMMA ResetNextTileStep ==
  ASSUME IInv, ResetNextTile
  PROVE  IInv'
<1> USE ConstantsAssumption DEF flags, inputVars, sumVars, parserVars,
      workerVars, jobVars, IInv, Workers
<1>q. \A v \in Workers : /\ wpc[v] \in {"check", "load", "done"}
                         /\ seen_epoch[v] = epoch
  BY QuietWorkers DEF ResetNextTile, Filling
<1>1. TypeOK' BY DEF ResetNextTile, TypeOK, ParserLabels, WorkerLabels
<1>2. (EndInv /\ QuietInv /\ RoundInv /\ CountInv)'
  BY DEF ResetNextTile, EndInv, QuietInv, Filling, CaughtUp, RoundInv,
     Summing, CountInv, Counters, MayCount, TypeOK
<1>3. (JobInv /\ HeldInv /\ InFlightInv /\ SumsDisjoint)'
  BY <1>q DEF ResetNextTile, JobInv, InRound, Summing, HeldInv, InFlightInv,
     SumsDisjoint, TypeOK
<1>4. CoverInv'
  BY DEF ResetNextTile, CoverInv, TookUp, OutOfTiles, Summing, CaughtUp,
     Contribution, InRound, TypeOK
<1>5. (GatherInv /\ SentInv)'
  BY DEF ResetNextTile, GatherInv, SentInv, InRound, TypeOK
<1> QED BY <1>1, <1>2, <1>3, <1>4, <1>5

\* The barrier restarts while no worker is about to count itself.
LEMMA ResetDoneCountStep ==
  ASSUME IInv, ResetDoneCount
  PROVE  IInv'
<1> USE ConstantsAssumption DEF flags, inputVars, sumVars, parserVars,
      workerVars, jobVars, IInv, Workers
<1>q. \A v \in Workers : /\ wpc[v] \in {"check", "load", "done"}
                         /\ seen_epoch[v] = epoch
  BY QuietWorkers DEF ResetDoneCount, Filling
<1>1. TypeOK'
  <2>1. done_count' \in 0 .. kComputeWorkers
    BY DEF ResetDoneCount, TypeOK
  <2> QED BY <2>1 DEF ResetDoneCount, TypeOK, ParserLabels, WorkerLabels
<1>2. (EndInv /\ QuietInv /\ RoundInv)'
  BY DEF ResetDoneCount, EndInv, QuietInv, Filling, CaughtUp, RoundInv,
     Summing, TypeOK
<1>3. CountInv'
  <2>1. Counters' = {}
    BY <1>q DEF ResetDoneCount, Counters, MayCount, Summing
  <2> QED BY <2>1, FS_EmptySet DEF ResetDoneCount, CountInv
<1>4. (JobInv /\ HeldInv /\ InFlightInv /\ SumsDisjoint)'
  BY DEF ResetDoneCount, JobInv, InRound, Summing, HeldInv, InFlightInv,
     SumsDisjoint, TypeOK
<1>5. CoverInv'
  BY DEF ResetDoneCount, CoverInv, TookUp, OutOfTiles, Summing, CaughtUp,
     Contribution, InRound, TypeOK
<1>6. (GatherInv /\ SentInv)'
  BY DEF ResetDoneCount, GatherInv, SentInv, InRound, TypeOK
<1> QED BY <1>1, <1>2, <1>3, <1>4, <1>5, <1>6

\* The new epoch makes every worker a counter of the round, and none has yet
\* taken it up.
LEMMA PublishEpochStep ==
  ASSUME IInv, PublishEpoch
  PROVE  IInv'
<1> USE ConstantsAssumption DEF flags, inputVars, sumVars, parserVars,
      workerVars, jobVars, IInv, Workers
<1>q. \A v \in Workers : /\ wpc[v] \in {"check", "load", "done"}
                         /\ seen_epoch[v] = epoch
  BY QuietWorkers DEF PublishEpoch, Filling
<1>1. TypeOK'
  <2>1. epoch' \in Nat BY DEF PublishEpoch, TypeOK
  <2> QED BY <2>1 DEF PublishEpoch, TypeOK, ParserLabels
<1>2. (EndInv /\ QuietInv /\ RoundInv)'
  BY <1>q DEF PublishEpoch, EndInv, QuietInv, Filling, CaughtUp, RoundInv,
     Summing, TypeOK
<1>3. CountInv'
  <2>1. Cardinality(Counters') <= kComputeWorkers /\ Cardinality(Counters') \in Nat
    BY WorkersFinite, FewerWorkers DEF Counters
  <2> QED BY <2>1 DEF PublishEpoch, CountInv
<1>4. (JobInv /\ HeldInv /\ InFlightInv /\ SumsDisjoint)'
  BY DEF PublishEpoch, JobInv, InRound, Summing, HeldInv, InFlightInv,
     SumsDisjoint, TypeOK
<1>5. CoverInv'
  BY <1>q DEF PublishEpoch, CoverInv, TookUp, OutOfTiles, Summing, CaughtUp,
     Contribution, InRound, JobInv, TypeOK
<1>6. (GatherInv /\ SentInv)'
  BY DEF PublishEpoch, GatherInv, SentInv, InRound, TypeOK
<1> QED BY <1>1, <1>2, <1>3, <1>4, <1>5, <1>6

\* The parser passes the barrier only when every worker has arrived.
LEMMA WaitAllDoneStep ==
  ASSUME IInv, WaitAllDone
  PROVE  IInv'
<1> USE ConstantsAssumption DEF flags, inputVars, sumVars, parserVars,
      workerVars, jobVars, IInv, Workers
<1>1. TypeOK'
  <2>1. checksum' \in [Workers -> TileSets] /\ gathered' \in 0 .. kComputeWorkers
    <3>1. checksum \in [Workers -> TileSets] /\ gathered \in 0 .. kComputeWorkers
      BY DEF TypeOK
    <3> HIDE DEF IInv, Workers
    <3> QED BY <3>1 DEF WaitAllDone, StartGather, TileSets
  <2>2. ppc' \in ParserLabels BY DEF WaitAllDone, StartGather, ParserLabels
  <2> QED BY <2>1, <2>2 DEF WaitAllDone, TypeOK
<1>2. (EndInv /\ RoundInv /\ CountInv)'
  BY DEF WaitAllDone, EndInv, StartGather, RoundInv, Summing, CountInv,
     Counters, MayCount, TypeOK
<1>3. QuietInv'
  <2>1. CASE done_count < kComputeWorkers
    BY <2>1 DEF WaitAllDone, QuietInv, Filling
  <2>2. CASE ~(done_count < kComputeWorkers)
    <3>1. done_count = kComputeWorkers BY <2>2 DEF TypeOK
    <3>2. ~stop_requested => \A v \in Workers : CaughtUp(v)
      BY <3>1, AllArrived DEF WaitAllDone
    <3> QED
      BY <2>2, <3>2 DEF WaitAllDone, StartGather, QuietInv, Filling, CaughtUp
  <2> QED BY <2>1, <2>2
<1>4. (JobInv /\ HeldInv /\ InFlightInv /\ SumsDisjoint)'
  BY DEF WaitAllDone, JobInv, InRound, Summing, StartGather, HeldInv,
     InFlightInv, SumsDisjoint, TypeOK
<1>5. CoverInv'
  <2>1. /\ UNCHANGED <<workerVars, jobVars, loaded, stop_requested>>
        /\ ppc \in InRound
    BY DEF WaitAllDone, InRound
  <2> QED
    BY <2>1 DEF CoverInv, TookUp, OutOfTiles, Summing, CaughtUp, Contribution
<1>6. SentInv' BY DEF WaitAllDone, SentInv, InRound, StartGather, TypeOK
<1>7. GatherInv'
  <2>1. CASE ppc' = "gather"
    BY <2>1 DEF WaitAllDone, StartGather, GatherInv
  <2>2. CASE ppc' # "gather"
    BY <2>2 DEF WaitAllDone, StartGather, GatherInv
  <2> QED BY <2>1, <2>2
<1> QED BY <1>1, <1>2, <1>3, <1>4, <1>5, <1>6, <1>7

\* Leaving the wait early takes the flag, under which nothing is promised of
\* the sum.
LEMMA WaitStopStep ==
  ASSUME IInv, WaitStop
  PROVE  IInv'
<1> USE ConstantsAssumption DEF flags, inputVars, sumVars, parserVars,
      workerVars, jobVars, IInv, Workers
<1>1. TypeOK'
  <2>1. checksum' \in [Workers -> TileSets] /\ gathered' \in 0 .. kComputeWorkers
    <3>1. checksum \in [Workers -> TileSets] /\ gathered \in 0 .. kComputeWorkers
      BY DEF TypeOK
    <3> HIDE DEF IInv, Workers
    <3> QED BY <3>1 DEF WaitStop, StartGather, TileSets
  <2>2. ppc' \in ParserLabels BY DEF WaitStop, StartGather, ParserLabels
  <2> QED BY <2>1, <2>2 DEF WaitStop, TypeOK
<1>2. (EndInv /\ QuietInv /\ RoundInv /\ CountInv)'
  BY DEF WaitStop, EndInv, StartGather, QuietInv, Filling, CaughtUp, RoundInv,
     Summing, CountInv, Counters, MayCount, TypeOK
<1>3. (JobInv /\ HeldInv /\ InFlightInv /\ SumsDisjoint)'
  BY DEF WaitStop, JobInv, InRound, Summing, StartGather, HeldInv,
     InFlightInv, SumsDisjoint, TypeOK
<1>4. CoverInv'
  <2>1. /\ UNCHANGED <<workerVars, jobVars, loaded, stop_requested>>
        /\ ppc \in InRound
    BY DEF WaitStop, InRound
  <2> QED
    BY <2>1 DEF CoverInv, TookUp, OutOfTiles, Summing, CaughtUp, Contribution
<1>5. SentInv' BY DEF WaitStop, SentInv, InRound, StartGather, TypeOK
<1>6. GatherInv'
  <2>1. CASE ppc' = "gather"
    BY <2>1 DEF WaitStop, StartGather, GatherInv
  <2>2. CASE ppc' # "gather"
    BY <2>2 DEF WaitStop, StartGather, GatherInv
  <2> QED BY <2>1, <2>2
<1> QED BY <1>1, <1>2, <1>3, <1>4, <1>5, <1>6

\* The parser reads partials that no worker writes any more.
LEMMA GatherStep ==
  ASSUME IInv, Gather
  PROVE  IInv'
<1> USE ConstantsAssumption DEF flags, inputVars, sumVars, parserVars,
      workerVars, jobVars, IInv, Workers
<1>1. TypeOK'
  <2>1. gathered \in Workers BY DEF Gather, GatherInv, TypeOK
  <2>2. gathered' \in 0 .. kComputeWorkers BY <2>1 DEF Gather
  <2>3. checksum' \in [Workers -> TileSets] BY <2>1 DEF Gather, TypeOK
  <2> QED BY <2>2, <2>3 DEF Gather, TypeOK, ParserLabels
<1>2. (EndInv /\ QuietInv /\ RoundInv /\ CountInv)'
  BY DEF Gather, EndInv, QuietInv, Filling, CaughtUp, RoundInv, Summing,
     CountInv, Counters, MayCount, TypeOK
<1>3. (JobInv /\ HeldInv /\ InFlightInv /\ SumsDisjoint)'
  BY DEF Gather, JobInv, InRound, Summing, HeldInv, InFlightInv, SumsDisjoint,
     TypeOK
<1>4. CoverInv'
  <2>1. /\ UNCHANGED <<workerVars, jobVars, loaded, stop_requested>>
        /\ ppc \in InRound
    BY DEF Gather, InRound
  <2> QED
    BY <2>1 DEF CoverInv, TookUp, OutOfTiles, Summing, CaughtUp, Contribution
<1>5. (GatherInv /\ SentInv)'
  BY DEF Gather, GatherInv, SentInv, InRound, TypeOK
<1> QED BY <1>1, <1>2, <1>3, <1>4, <1>5

\* The answer is exact unless the flag is set, and the parser will then send
\* no other.
LEMMA SendAnswerStep ==
  ASSUME IInv, SendAnswer
  PROVE  IInv'
<1> USE ConstantsAssumption DEF flags, inputVars, sumVars, parserVars,
      workerVars, jobVars, IInv, Workers
<1>1. TypeOK'
  <2>1. sent' \in Seq([id : Tiles, parts : [Workers -> TileSets]])
    BY DEF SendAnswer, TypeOK
  <2>2. ppc' \in ParserLabels BY DEF SendAnswer, ParserLabels
  <2> QED BY <2>1, <2>2 DEF SendAnswer, TypeOK
<1>2. (EndInv /\ QuietInv /\ RoundInv /\ CountInv)'
  BY DEF SendAnswer, EndInv, QuietInv, Filling, CaughtUp, RoundInv, Summing,
     CountInv, Counters, MayCount, TypeOK
<1>3. (JobInv /\ HeldInv /\ InFlightInv /\ SumsDisjoint)'
  BY DEF SendAnswer, JobInv, InRound, Summing, HeldInv, InFlightInv,
     SumsDisjoint, TypeOK
<1>4. CoverInv'
  BY DEF SendAnswer, CoverInv, TookUp, OutOfTiles, Summing, CaughtUp,
     Contribution, InRound, TypeOK
<1>5. GatherInv' BY DEF SendAnswer, GatherInv, TypeOK
<1>6. SentInv'
  BY SendAnswerSent, GatheredExact DEF SendAnswer, TypeOK, JobInv, InRound
<1> QED BY <1>1, <1>2, <1>3, <1>4, <1>5, <1>6

\* A failed send sets the flag before the parser ends.
LEMMA SendFailsStep ==
  ASSUME IInv, SendFails
  PROVE  IInv'
<1> USE ConstantsAssumption DEF flags, inputVars, sumVars, parserVars,
      workerVars, jobVars, IInv, Workers
<1>1. TypeOK' BY DEF SendFails, TypeOK, ParserLabels, WorkerLabels
<1>2. (EndInv /\ QuietInv /\ RoundInv)'
  BY DEF SendFails, EndInv, QuietInv, Filling, CaughtUp, RoundInv, Summing,
     TypeOK
<1>3. CountInv'
  <2>1. Counters' \subseteq Counters
    BY DEF SendFails, Counters, MayCount, Summing
  <2> QED BY <2>1, NoNewCounter DEF SendFails, CountInv
<1>4. (JobInv /\ HeldInv /\ InFlightInv /\ SumsDisjoint)'
  BY DEF SendFails, JobInv, InRound, Summing, HeldInv, InFlightInv,
     SumsDisjoint, TypeOK
<1>5. CoverInv'
  BY DEF SendFails, CoverInv, TookUp, OutOfTiles, Summing, CaughtUp,
     Contribution, InRound, TypeOK
<1>6. (GatherInv /\ SentInv)'
  BY DEF SendFails, GatherInv, SentInv, InRound, TypeOK
<1> QED BY <1>1, <1>2, <1>3, <1>4, <1>5, <1>6

\* A signal ends every thread at once.
LEMMA SendKillsStep ==
  ASSUME IInv, SendKills
  PROVE  IInv'
<1> USE ConstantsAssumption DEF flags, inputVars, sumVars, parserVars,
      workerVars, jobVars, IInv, Workers
<1>1. TypeOK' BY DEF SendKills, TypeOK, ParserLabels, WorkerLabels
<1>2. (EndInv /\ QuietInv /\ RoundInv)'
  BY DEF SendKills, EndInv, QuietInv, Filling, CaughtUp, RoundInv, Summing,
     TypeOK
<1>3. CountInv'
  <2>1. Counters' \subseteq Counters
    BY DEF SendKills, Counters, MayCount, Summing, TypeOK
  <2> QED BY <2>1, NoNewCounter DEF SendKills, CountInv
<1>4. (JobInv /\ HeldInv /\ InFlightInv /\ SumsDisjoint)'
  BY DEF SendKills, JobInv, InRound, Summing, HeldInv, InFlightInv,
     SumsDisjoint, TypeOK
<1>5. CoverInv'
  BY DEF SendKills, CoverInv, TookUp, OutOfTiles, Summing, CaughtUp,
     Contribution, InRound, TypeOK
<1>6. (GatherInv /\ SentInv)'
  BY DEF SendKills, GatherInv, SentInv, InRound, TypeOK
<1> QED BY <1>1, <1>2, <1>3, <1>4, <1>5, <1>6

\* Setting the flag only takes promises away.
LEMMA RequestStopStep ==
  ASSUME IInv, RequestStop
  PROVE  IInv'
<1> USE ConstantsAssumption DEF flags, inputVars, sumVars, parserVars,
      workerVars, jobVars, IInv, Workers
<1>1. TypeOK' BY DEF RequestStop, TypeOK, ParserLabels, WorkerLabels
<1>2. (EndInv /\ QuietInv /\ RoundInv)'
  BY DEF RequestStop, EndInv, QuietInv, Filling, CaughtUp, RoundInv, Summing,
     TypeOK
<1>3. CountInv'
  <2>1. Counters' \subseteq Counters
    BY DEF RequestStop, Counters, MayCount, Summing
  <2> QED BY <2>1, NoNewCounter DEF RequestStop, CountInv
<1>4. (JobInv /\ HeldInv /\ InFlightInv /\ SumsDisjoint)'
  BY DEF RequestStop, JobInv, InRound, Summing, HeldInv, InFlightInv,
     SumsDisjoint, TypeOK
<1>5. CoverInv'
  BY DEF RequestStop, CoverInv, TookUp, OutOfTiles, Summing, CaughtUp,
     Contribution, InRound, TypeOK
<1>6. (GatherInv /\ SentInv)'
  BY DEF RequestStop, GatherInv, SentInv, InRound, TypeOK
<1> QED BY <1>1, <1>2, <1>3, <1>4, <1>5, <1>6

\* The last epoch is bumped when the flag is set: nobody counts for it.
LEMMA ReleaseWorkersStep ==
  ASSUME IInv, ReleaseWorkers
  PROVE  IInv'
<1> USE ConstantsAssumption DEF flags, inputVars, sumVars, parserVars,
      workerVars, jobVars, IInv, Workers
<1>1. TypeOK' BY DEF ReleaseWorkers, TypeOK, ParserLabels, WorkerLabels
<1>2. (EndInv /\ QuietInv /\ RoundInv)'
  BY DEF ReleaseWorkers, EndInv, QuietInv, Filling, CaughtUp, RoundInv,
     Summing, TypeOK
<1>3. CountInv'
  <2>1. Counters' \subseteq Counters
    BY DEF ReleaseWorkers, Counters, MayCount, Summing
  <2> QED BY <2>1, NoNewCounter DEF ReleaseWorkers, CountInv
<1>4. (JobInv /\ HeldInv /\ InFlightInv /\ SumsDisjoint)'
  BY DEF ReleaseWorkers, JobInv, InRound, Summing, HeldInv, InFlightInv,
     SumsDisjoint, TypeOK
<1>5. CoverInv'
  BY DEF ReleaseWorkers, CoverInv, TookUp, OutOfTiles, Summing, CaughtUp,
     Contribution, InRound, TypeOK
<1>6. (GatherInv /\ SentInv)'
  BY DEF ReleaseWorkers, GatherInv, SentInv, InRound, TypeOK
<1> QED BY <1>1, <1>2, <1>3, <1>4, <1>5, <1>6

\* A worker looks at the flag between rounds.
LEMMA WorkerTopStep ==
  ASSUME IInv, NEW w \in Workers, WorkerTop(w)
  PROVE  IInv'
<1> USE ConstantsAssumption DEF flags, inputVars, sumVars, parserVars,
      workerVars, jobVars, IInv, Workers
<1>1. TypeOK' BY DEF WorkerTop, TypeOK, ParserLabels, WorkerLabels
<1>2. (EndInv /\ QuietInv /\ RoundInv)'
  BY DEF WorkerTop, EndInv, QuietInv, Filling, CaughtUp, RoundInv, Summing,
     TypeOK
<1>3. CountInv'
  <2>1. Counters' \subseteq Counters
    BY DEF WorkerTop, Counters, MayCount, Summing, TypeOK
  <2> QED BY <2>1, NoNewCounter DEF WorkerTop, CountInv
<1>4. (JobInv /\ HeldInv /\ InFlightInv /\ SumsDisjoint)'
  BY DEF WorkerTop, JobInv, InRound, Summing, HeldInv, InFlightInv,
     SumsDisjoint, TypeOK
<1>5. CoverInv'
  <2> SUFFICES ASSUME ppc \in InRound, ~stop_requested PROVE CoverInv'
    BY DEF WorkerTop, CoverInv
  <2>1. UNCHANGED <<ppc, loaded, stop_requested>> BY DEF WorkerTop
  <2>2. next_tile \in Nat /\ next_tile' = next_tile BY DEF WorkerTop, TypeOK
  <2>3. ASSUME NEW v \in Workers
        PROVE  KeepsTiles(v)
    <3>1. CASE v = w
      BY <3>1 DEF WorkerTop, CoverInv, KeepsTiles, TookUp, OutOfTiles,
         Summing, CaughtUp, Contribution, TypeOK
    <3>2. CASE v # w
      BY <3>2 DEF WorkerTop, CoverInv, KeepsTiles, TookUp, OutOfTiles,
         Summing, CaughtUp, Contribution, TypeOK
    <3> QED BY <3>1, <3>2
  <2>4. \A t \in next_tile .. next_tile' - 1 : t < TotalTiles[loaded] =>
          \E v \in Workers : wpc'[v] = "tile" /\ tile'[v] = t
    BY <2>2
  <2>5. next_tile' \in Nat /\ next_tile' >= next_tile BY <2>2
  <2> QED BY <2>1, <2>3, <2>4, <2>5, KeepsCover
<1>6. (GatherInv /\ SentInv)'
  BY DEF WorkerTop, GatherInv, SentInv, InRound, TypeOK
<1> QED BY <1>1, <1>2, <1>3, <1>4, <1>5, <1>6

\* A worker takes up a round at most once, by the epoch it has seen.
LEMMA WorkerLoadEpochStep ==
  ASSUME IInv, NEW w \in Workers, WorkerLoadEpoch(w)
  PROVE  IInv'
<1> USE ConstantsAssumption DEF flags, inputVars, sumVars, parserVars,
      workerVars, jobVars, IInv, Workers
<1>1. TypeOK' BY DEF WorkerLoadEpoch, TypeOK, ParserLabels, WorkerLabels
<1>2. (EndInv /\ QuietInv /\ RoundInv)'
  BY DEF WorkerLoadEpoch, EndInv, QuietInv, Filling, CaughtUp, RoundInv,
     Summing, TypeOK
<1>3. CountInv'
  <2>1. Counters' \subseteq Counters
    BY DEF WorkerLoadEpoch, Counters, MayCount, Summing, TypeOK
  <2> QED BY <2>1, NoNewCounter DEF WorkerLoadEpoch, CountInv
<1>4. (JobInv /\ HeldInv /\ InFlightInv /\ SumsDisjoint)'
  BY DEF WorkerLoadEpoch, JobInv, InRound, Summing, HeldInv, InFlightInv,
     SumsDisjoint, TypeOK
<1>5. CoverInv'
  <2> SUFFICES ASSUME ppc \in InRound, ~stop_requested PROVE CoverInv'
    BY DEF WorkerLoadEpoch, CoverInv
  <2>1. UNCHANGED <<ppc, loaded, stop_requested>> BY DEF WorkerLoadEpoch
  <2>2. next_tile \in Nat /\ next_tile' = next_tile
    BY DEF WorkerLoadEpoch, TypeOK
  <2>3. ASSUME NEW v \in Workers
        PROVE  KeepsTiles(v)
    <3>1. CASE v = w
      BY <3>1 DEF WorkerLoadEpoch, CoverInv, KeepsTiles, TookUp, OutOfTiles,
         Summing, CaughtUp, Contribution, TypeOK
    <3>2. CASE v # w
      BY <3>2 DEF WorkerLoadEpoch, CoverInv, KeepsTiles, TookUp, OutOfTiles,
         Summing, CaughtUp, Contribution, TypeOK
    <3> QED BY <3>1, <3>2
  <2>4. \A t \in next_tile .. next_tile' - 1 : t < TotalTiles[loaded] =>
          \E v \in Workers : wpc'[v] = "tile" /\ tile'[v] = t
    BY <2>2
  <2>5. next_tile' \in Nat /\ next_tile' >= next_tile BY <2>2
  <2> QED BY <2>1, <2>3, <2>4, <2>5, KeepsCover
<1>6. (GatherInv /\ SentInv)'
  BY DEF WorkerLoadEpoch, GatherInv, SentInv, InRound, TypeOK
<1> QED BY <1>1, <1>2, <1>3, <1>4, <1>5, <1>6

\* A worker that starts adding up finds the job whole.
LEMMA WorkerRecheckStep ==
  ASSUME IInv, NEW w \in Workers, WorkerRecheck(w)
  PROVE  IInv'
<1> USE ConstantsAssumption DEF flags, inputVars, sumVars, parserVars,
      workerVars, jobVars, IInv, Workers
<1>b. /\ ppc \in {"top", "done"} \cup InRound
      /\ ~stop_requested => ppc \in {"wait", "wait_stop"}
  BY BusyWorker DEF WorkerRecheck, Summing
<1>1. TypeOK'
  <2>1. CASE stop_requested
    BY <2>1 DEF WorkerRecheck, TypeOK, WorkerLabels
  <2>2. CASE ~stop_requested
    <3>1. loaded \in Challenges BY <1>b, <2>2 DEF JobInv, InRound
    <3>2. TotalTiles[loaded] \in Nat /\ loaded # 0
      BY <3>1, StreamLength DEF Challenges
    <3>3. total_tiles' \in [Workers -> Nat]
      BY <2>2, <3>2 DEF WorkerRecheck, TypeOK
    <3>4. wpc' \in [Workers -> WorkerLabels]
      BY <2>2 DEF WorkerRecheck, TypeOK, WorkerLabels
    <3>5. partial' \in [Workers -> TileSets]
      BY <2>2 DEF WorkerRecheck, TypeOK, TileSets
    <3> QED BY <3>3, <3>4, <3>5 DEF WorkerRecheck, TypeOK
  <2> QED BY <2>1, <2>2
<1>2. (EndInv /\ QuietInv /\ RoundInv)'
  BY <1>b DEF WorkerRecheck, EndInv, QuietInv, Filling, CaughtUp, InRound,
     RoundInv, Summing, TypeOK
<1>3. CountInv'
  <2>1. Counters' \subseteq Counters
    BY DEF WorkerRecheck, Counters, MayCount, Summing, TypeOK
  <2> QED BY <2>1, NoNewCounter DEF WorkerRecheck, CountInv
<1>4. (HeldInv /\ InFlightInv /\ SumsDisjoint)'
  <2>0. HeldInv /\ InFlightInv /\ SumsDisjoint OBVIOUS
  <2>1. UNCHANGED <<ppc, loaded, next_tile, tile, partials>> BY DEF WorkerRecheck
  <2>t. wpc \in [Workers -> WorkerLabels] /\ partial \in [Workers -> TileSets]
    BY DEF TypeOK
  <2> HIDE DEF IInv, Workers
  <2>2. \A v \in Workers : partial'[v] \subseteq partial[v]
    BY <2>t DEF WorkerRecheck
  <2>3. \A v \in Workers : wpc'[v] = "tile" => wpc[v] = "tile"
    BY <2>t DEF WorkerRecheck
  <2>4. HeldInv' BY <2>0, <2>1, <2>2 DEF HeldInv
  <2>5. InFlightInv' BY <2>0, <2>1, <2>2, <2>3 DEF InFlightInv
  <2>6. SumsDisjoint' BY <2>0, <2>1, <2>2 DEF SumsDisjoint
  <2> QED BY <2>4, <2>5, <2>6
<1>5. JobInv'
  <2>1. CASE stop_requested
    BY <2>1 DEF WorkerRecheck, JobInv, InRound, Summing, TypeOK
  <2>2. CASE ~stop_requested
    <3>1. loaded \in Challenges /\ ~dirty BY <1>b, <2>2 DEF JobInv, InRound
    <3>2. loaded # 0 BY <3>1, StreamLength DEF Challenges
    <3>3. /\ total_tiles' = [total_tiles EXCEPT ![w] = TotalTiles[loaded]]
          /\ wpc' = [wpc EXCEPT ![w] = "claim"]
          /\ UNCHANGED <<loaded, dirty, ppc, next_tile, tile>>
      BY <2>2, <3>2 DEF WorkerRecheck
    <3> QED BY <3>1, <3>3 DEF JobInv, Summing, TypeOK, InRound
  <2> QED BY <2>1, <2>2
<1>6. CoverInv'
  <2> SUFFICES ASSUME ppc \in InRound, ~stop_requested PROVE CoverInv'
    BY DEF WorkerRecheck, CoverInv
  <2>1. UNCHANGED <<ppc, loaded, stop_requested>> BY DEF WorkerRecheck
  <2>2. next_tile \in Nat /\ next_tile' = next_tile
    BY DEF WorkerRecheck, TypeOK
  <2>t. /\ wpc[w] = "recheck"
        /\ wpc' = [wpc EXCEPT ![w] = "claim"]
        /\ partial' = [partial EXCEPT ![w] = {}]
        /\ UNCHANGED <<tile, partials, epoch, seen_epoch>>
    BY DEF WorkerRecheck
  <2>3. ASSUME NEW v \in Workers
        PROVE  KeepsTiles(v)
    <3>1. CASE v = w
      BY <2>t, <3>1 DEF KeepsTiles, TookUp, OutOfTiles, Summing, CaughtUp,
         Contribution, TypeOK
    <3>2. CASE v # w
      BY <2>1, <2>t, <3>2 DEF CoverInv, KeepsTiles, TookUp, OutOfTiles,
         Summing, CaughtUp, Contribution, TypeOK
    <3> QED BY <3>1, <3>2
  <2>4. \A t \in next_tile .. next_tile' - 1 : t < TotalTiles[loaded] =>
          \E v \in Workers : wpc'[v] = "tile" /\ tile'[v] = t
    BY <2>2
  <2>5. next_tile' \in Nat /\ next_tile' >= next_tile BY <2>2
  <2> QED BY <2>1, <2>3, <2>4, <2>5, KeepsCover
<1>7. (GatherInv /\ SentInv)'
  BY <1>b DEF WorkerRecheck, GatherInv, InRound, SentInv, TypeOK
<1> QED BY <1>1, <1>2, <1>3, <1>4, <1>5, <1>6, <1>7

\* A tile is claimed by one worker, and is in no sum yet.
LEMMA ClaimTileStep ==
  ASSUME IInv, NEW w \in Workers, ClaimTile(w)
  PROVE  IInv'
<1> USE ConstantsAssumption DEF flags, inputVars, sumVars, parserVars,
      workerVars, jobVars, IInv, Workers
<1>b. /\ ppc \in {"top", "done"} \cup InRound
      /\ ~stop_requested => ppc \in {"wait", "wait_stop"}
  BY BusyWorker DEF ClaimTile, Summing
<1>1. TypeOK' BY DEF ClaimTile, TypeOK, ParserLabels, WorkerLabels
<1>2. (EndInv /\ QuietInv /\ RoundInv)'
  BY <1>b DEF ClaimTile, EndInv, QuietInv, Filling, CaughtUp, InRound,
     RoundInv, Summing, TypeOK
<1>3. CountInv'
  <2>1. Counters' \subseteq Counters
    BY DEF ClaimTile, Counters, MayCount, Summing, TypeOK
  <2> QED BY <2>1, NoNewCounter DEF ClaimTile, CountInv
<1>4. SumsDisjoint' BY DEF ClaimTile, SumsDisjoint, TypeOK
<1>5. JobInv'
  <2>1. UNCHANGED <<ppc, loaded, dirty, total_tiles>> BY DEF ClaimTile
  <2>2. \A v \in Workers : Summing(v)' => Summing(v)
    BY DEF ClaimTile, Summing, TypeOK
  <2>3. ASSUME NEW v \in Workers, wpc'[v] = "tile"
        PROVE  tile'[v] < next_tile' /\ tile'[v] < total_tiles'[v]
    <3>1. next_tile \in Nat /\ next_tile' = next_tile + 1 /\ tile[v] \in Nat
      BY DEF ClaimTile, TypeOK
    <3>2. CASE v = w BY <2>1, <2>3, <3>1, <3>2 DEF ClaimTile, TypeOK
    <3>3. CASE v # w
      <4>1. tile'[v] = tile[v] /\ wpc'[v] = wpc[v]
        BY <3>3 DEF ClaimTile, TypeOK
      <4> QED BY <2>1, <2>3, <3>1, <4>1 DEF JobInv
    <3> QED BY <3>2, <3>3
  <2>4. ppc \notin {"reset_done", "publish"} BY <1>b DEF InRound
  <2> QED BY <2>1, <2>2, <2>3, <2>4 DEF JobInv, InRound, Summing
<1>6. HeldInv'
  <2>1. UNCHANGED <<ppc, loaded, partial, partials>> BY DEF ClaimTile
  <2>2. next_tile' = next_tile + 1 /\ next_tile \in Nat
    BY DEF ClaimTile, TypeOK
  <2> SUFFICES ASSUME NEW v \in Workers, NEW x \in partial[v] \cup partials[v],
                      x[1] = loaded
               PROVE  x[2] < next_tile + 1
    BY <2>1, <2>2 DEF HeldInv
  <2>3. x[2] \in Nat
    <3>1. partial[v] \in TileSets /\ partials[v] \in TileSets BY DEF TypeOK
    <3> QED BY <3>1 DEF TileSets
  <2>4. x[2] < next_tile BY DEF HeldInv
  <2> QED BY <2>2, <2>3, <2>4
<1>7. InFlightInv'
  <2>1. UNCHANGED <<loaded, partial, partials>> BY DEF ClaimTile
  <2>2. \A v \in Workers : <<loaded, next_tile>> \notin partial[v] \cup partials[v]
    <3>1. ~(next_tile < next_tile) BY DEF TypeOK
    <3> QED BY <3>1 DEF HeldInv
  <2>3. \A v \in Workers : wpc[v] = "tile" => tile[v] # next_tile
    BY DEF JobInv, TypeOK
  <2>4. /\ tile'[w] = next_tile
        /\ \A v \in Workers \ {w} : tile'[v] = tile[v] /\ wpc'[v] = wpc[v]
    BY DEF ClaimTile, TypeOK
  <2>5. InFlightInv OBVIOUS
  <2> HIDE DEF IInv, Workers
  <2> QED BY <2>1, <2>2, <2>3, <2>4, <2>5 DEF InFlightInv
<1>8. CoverInv'
  <2> SUFFICES ASSUME ppc \in InRound, ~stop_requested PROVE CoverInv'
    BY DEF ClaimTile, CoverInv
  <2>1. UNCHANGED <<ppc, loaded, stop_requested>> BY DEF ClaimTile
  <2>2. next_tile \in Nat /\ next_tile' = next_tile + 1
    BY DEF ClaimTile, TypeOK
  <2>t. total_tiles[w] = TotalTiles[loaded] /\ total_tiles[w] \in Nat
    BY DEF ClaimTile, JobInv, Summing, TypeOK
  <2>3. ASSUME NEW v \in Workers
        PROVE  KeepsTiles(v)
    <3>1. CASE v = w
      <4>1. /\ tile'[w] = next_tile /\ UNCHANGED <<partial, partials>>
            /\ wpc[w] = "claim"
            /\ wpc'[w] = IF next_tile < total_tiles[w] THEN "tile" ELSE "store"
        BY DEF ClaimTile, TypeOK
      <4>2. \A x \in partial[w] : x[1] = loaded
        BY <4>1 DEF CoverInv, TookUp, Summing, Contribution
      <4> HIDE DEF IInv, Workers
      <4> QED BY <2>2, <2>t, <3>1, <4>1, <4>2 DEF KeepsTiles, TookUp, OutOfTiles,
         Summing, CaughtUp, Contribution
    <3>2. CASE v # w
      BY <3>2 DEF ClaimTile, CoverInv, KeepsTiles, TookUp, OutOfTiles,
         Summing, CaughtUp, Contribution, TypeOK
    <3> QED BY <3>1, <3>2
  <2>4. \A t \in next_tile .. next_tile' - 1 : t < TotalTiles[loaded] =>
          \E v \in Workers : wpc'[v] = "tile" /\ tile'[v] = t
    BY <2>2, <2>t DEF ClaimTile, TypeOK
  <2>5. next_tile' \in Nat /\ next_tile' >= next_tile BY <2>2
  <2> QED BY <2>1, <2>3, <2>4, <2>5, KeepsCover
<1>9. (GatherInv /\ SentInv)'
  BY <1>b DEF ClaimTile, GatherInv, InRound, SentInv, TypeOK
<1> QED BY <1>1, <1>2, <1>3, <1>4, <1>5, <1>6, <1>7, <1>8, <1>9

\* The tile added to a sum is a tile of the current challenge, added once.
LEMMA ComputeTileStep ==
  ASSUME IInv, NEW w \in Workers, ComputeTile(w)
  PROVE  IInv'
<1> USE ConstantsAssumption DEF flags, inputVars, sumVars, parserVars,
      workerVars, jobVars, IInv, Workers
<1>b. /\ ppc \in {"top", "done"} \cup InRound
      /\ ~stop_requested => ppc \in {"wait", "wait_stop"}
  BY BusyWorker DEF ComputeTile, Summing
<1>c. /\ ~dirty
      /\ partial' = [partial EXCEPT ![w] = @ \cup {<<loaded, tile[w]>>}]
      /\ loaded \in Challenges
      /\ tile[w] \in Nat
      /\ tile[w] < next_tile
      /\ tile[w] < TotalTiles[loaded]
  BY DEF ComputeTile, JobInv, Summing, TypeOK
<1>1. TypeOK'
  <2>1. partial' \in [Workers -> TileSets]
    <3>1. partial \in [Workers -> TileSets] BY DEF TypeOK
    <3>2. partial[w] \cup {<<loaded, tile[w]>>} \in TileSets
      BY <1>c, <3>1 DEF TileSets, Tiles
    <3> HIDE DEF IInv, Workers
    <3> QED BY <1>c, <3>1, <3>2
  <2> QED BY <2>1 DEF ComputeTile, TypeOK, WorkerLabels
<1>2. (EndInv /\ QuietInv /\ RoundInv)'
  BY <1>b DEF ComputeTile, EndInv, QuietInv, Filling, CaughtUp, InRound,
     RoundInv, Summing, TypeOK
<1>3. CountInv'
  <2>1. Counters' \subseteq Counters
    BY DEF ComputeTile, Counters, MayCount, Summing, TypeOK
  <2> QED BY <2>1, NoNewCounter DEF ComputeTile, CountInv
<1>4. (JobInv /\ InFlightInv)'
  BY DEF ComputeTile, JobInv, InRound, Summing, InFlightInv, TypeOK
<1>5. HeldInv'
  <2>1. UNCHANGED <<ppc, loaded, next_tile, partials>> BY DEF ComputeTile
  <2> SUFFICES ASSUME NEW v \in Workers, NEW x \in partial'[v] \cup partials[v],
                      x \notin partial[v] \cup partials[v]
               PROVE  /\ x[1] \in Challenges
                      /\ x[2] < TotalTiles[x[1]]
                      /\ x[1] <= loaded
                      /\ x[1] = loaded =>
                           /\ x[2] < next_tile
                           /\ ppc \notin {"reset_tile", "reset_done", "publish"}
    BY <2>1 DEF HeldInv
  <2>2. x = <<loaded, tile[w]>> BY <1>c DEF TypeOK
  <2>3. loaded <= loaded BY <1>c, StreamLength DEF Challenges
  <2> QED BY <1>b, <1>c, <2>2, <2>3 DEF InRound
<1>6. SumsDisjoint'
  <2>1. \A v \in Workers : <<loaded, tile[w]>> \notin partial[v] \cup partials[v]
    BY DEF ComputeTile, InFlightInv
  <2>2. /\ partials' = partials
        /\ partial'[w] = partial[w] \cup {<<loaded, tile[w]>>}
        /\ \A v \in Workers \ {w} : partial'[v] = partial[v]
    BY <1>c DEF ComputeTile, TypeOK
  <2>3. ASSUME NEW u \in Workers, NEW v \in Workers, u # v,
               NEW x \in partial'[u] \cup partials'[u],
               x \in partial'[v] \cup partials'[v]
        PROVE  FALSE
    <3>1. CASE x = <<loaded, tile[w]>> BY <2>1, <2>2, <2>3, <3>1
    <3>2. CASE x # <<loaded, tile[w]>>
      <4>1. x \in partial[u] \cup partials[u] /\ x \in partial[v] \cup partials[v]
        BY <2>2, <2>3, <3>2
      <4> QED BY <2>3, <4>1 DEF SumsDisjoint
    <3> QED BY <3>1, <3>2
  <2> QED BY <2>3 DEF SumsDisjoint
<1>7. CoverInv'
  <2> SUFFICES ASSUME ppc \in InRound, ~stop_requested PROVE CoverInv'
    BY DEF ComputeTile, CoverInv
  <2>1. UNCHANGED <<ppc, loaded, stop_requested>> BY DEF ComputeTile
  <2>2. next_tile \in Nat /\ next_tile' = next_tile BY DEF ComputeTile, TypeOK
  <2>3. ASSUME NEW v \in Workers
        PROVE  KeepsTiles(v)
    <3>1. CASE v = w
      <4>1. ~dirty BY DEF ComputeTile, JobInv, Summing
      <4>2. partial'[w] = partial[w] \cup {<<loaded, tile[w]>>}
        BY <4>1 DEF ComputeTile, TypeOK
      <4>3. \A x \in partial[w] : x[1] = loaded
        BY DEF ComputeTile, CoverInv, KeepsTiles, TookUp, OutOfTiles,
           Summing, CaughtUp, Contribution
      <4> QED BY <3>1, <4>2, <4>3 DEF ComputeTile, KeepsTiles, TookUp,
         OutOfTiles, Summing, CaughtUp, Contribution, TypeOK
    <3>2. CASE v # w
      BY <3>2 DEF ComputeTile, CoverInv, KeepsTiles, TookUp, OutOfTiles,
         Summing, CaughtUp, Contribution, TypeOK
    <3> QED BY <3>1, <3>2
  <2>4. \A t \in next_tile .. next_tile' - 1 : t < TotalTiles[loaded] =>
          \E v \in Workers : wpc'[v] = "tile" /\ tile'[v] = t
    BY <2>2
  <2>5. next_tile' \in Nat /\ next_tile' >= next_tile BY <2>2
  <2> QED BY <2>1, <2>3, <2>4, <2>5, KeepsCover
<1>8. (GatherInv /\ SentInv)'
  BY <1>b DEF ComputeTile, GatherInv, InRound, SentInv, TypeOK
<1> QED BY <1>1, <1>2, <1>3, <1>4, <1>5, <1>6, <1>7, <1>8

\* Storing the sum keeps the account of the tiles.
LEMMA StorePartialStep ==
  ASSUME IInv, NEW w \in Workers, StorePartial(w)
  PROVE  IInv'
<1> USE ConstantsAssumption DEF flags, inputVars, sumVars, parserVars,
      workerVars, jobVars, IInv, Workers
<1>b. /\ ppc \in {"top", "done"} \cup InRound
      /\ ~stop_requested => ppc \in {"wait", "wait_stop"}
  BY BusyWorker DEF StorePartial, Summing
<1>1. TypeOK' BY DEF StorePartial, TypeOK, ParserLabels, WorkerLabels
<1>2. (EndInv /\ QuietInv /\ RoundInv)'
  BY <1>b DEF StorePartial, EndInv, QuietInv, Filling, CaughtUp, InRound,
     RoundInv, Summing, TypeOK
<1>3. CountInv'
  <2>1. Counters' \subseteq Counters
    BY DEF StorePartial, Counters, MayCount, Summing, TypeOK
  <2> QED BY <2>1, NoNewCounter DEF StorePartial, CountInv
<1>4. (JobInv /\ HeldInv)'
  BY DEF StorePartial, JobInv, InRound, Summing, HeldInv, TypeOK
<1>h. (InFlightInv /\ SumsDisjoint)'
  BY DEF StorePartial, InFlightInv, SumsDisjoint, TypeOK
<1>5. CoverInv'
  <2> SUFFICES ASSUME ppc \in InRound, ~stop_requested PROVE CoverInv'
    BY DEF StorePartial, CoverInv
  <2>1. UNCHANGED <<ppc, loaded, stop_requested>> BY DEF StorePartial
  <2>2. next_tile \in Nat /\ next_tile' = next_tile BY DEF StorePartial, TypeOK
  <2>3. ASSUME NEW v \in Workers
        PROVE  KeepsTiles(v)
    <3>1. CASE v = w
      BY <3>1 DEF StorePartial, CoverInv, KeepsTiles, TookUp, OutOfTiles,
         Summing, CaughtUp, Contribution, TypeOK
    <3>2. CASE v # w
      BY <3>2 DEF StorePartial, CoverInv, KeepsTiles, TookUp, OutOfTiles,
         Summing, CaughtUp, Contribution, TypeOK
    <3> QED BY <3>1, <3>2
  <2>4. \A t \in next_tile .. next_tile' - 1 : t < TotalTiles[loaded] =>
          \E v \in Workers : wpc'[v] = "tile" /\ tile'[v] = t
    BY <2>2
  <2>5. next_tile' \in Nat /\ next_tile' >= next_tile BY <2>2
  <2> QED BY <2>1, <2>3, <2>4, <2>5, KeepsCover
<1>6. (GatherInv /\ SentInv)'
  BY <1>b DEF StorePartial, GatherInv, InRound, SentInv, TypeOK
<1> QED BY <1>1, <1>2, <1>3, <1>4, <1>h, <1>5, <1>6

\* A worker counts itself once in a round: it stops being a counter.
LEMMA CountDoneStep ==
  ASSUME IInv, NEW w \in Workers, CountDone(w)
  PROVE  IInv'
<1> USE ConstantsAssumption DEF flags, inputVars, sumVars, parserVars,
      workerVars, jobVars, IInv, Workers
<1>b. /\ ppc \in {"top", "done"} \cup InRound
      /\ ~stop_requested => ppc \in {"wait", "wait_stop"}
  BY BusyWorker DEF CountDone, Summing
<1>1. TypeOK'
  <2>1. Counters \in SUBSET Workers /\ w \in Counters
    BY DEF CountDone, Counters, MayCount
  <2>2. Cardinality(Counters) \in Nat /\ Cardinality(Counters) # 0
    BY <2>1, FewerWorkers
  <2>3. done_count' \in 0 .. kComputeWorkers
    <3>1. /\ done_count \in Nat /\ done_count' = done_count + 1
          /\ done_count + Cardinality(Counters) <= kComputeWorkers
      BY DEF CountDone, CountInv, TypeOK
    <3> HIDE DEF IInv
    <3> QED BY <2>2, <3>1
  <2> QED BY <2>3 DEF CountDone, TypeOK, WorkerLabels
<1>2. (EndInv /\ QuietInv /\ RoundInv)'
  BY <1>b DEF CountDone, EndInv, QuietInv, Filling, CaughtUp, InRound,
     RoundInv, Summing, TypeOK
<1>3. CountInv'
  <2>1. Counters \in SUBSET Workers /\ w \in Counters
    BY DEF CountDone, Counters, MayCount
  <2>2. Counters' \in SUBSET Counters /\ w \notin Counters'
    BY DEF CountDone, Counters, MayCount, Summing, TypeOK, RoundInv, EndInv
  <2>3. /\ Cardinality(Counters') < Cardinality(Counters)
        /\ Cardinality(Counters) \in Nat
        /\ Cardinality(Counters') \in Nat
    BY <2>1, <2>2, FewerWorkers
  <2>4. ppc # "publish" BY <1>b DEF InRound
  <2>5. done_count' = done_count + 1 /\ done_count \in Nat
    BY DEF CountDone, TypeOK
  <2>6. (done_count + Cardinality(Counters) <= kComputeWorkers)'
    BY <2>3, <2>5 DEF CountInv
  <2> QED BY <2>4, <2>6 DEF CountDone, CountInv
<1>4. (JobInv /\ HeldInv /\ InFlightInv /\ SumsDisjoint)'
  BY DEF CountDone, JobInv, InRound, Summing, HeldInv, InFlightInv,
     SumsDisjoint, TypeOK
<1>5. CoverInv'
  <2> SUFFICES ASSUME ppc \in InRound, ~stop_requested PROVE CoverInv'
    BY DEF CountDone, CoverInv
  <2>1. UNCHANGED <<ppc, loaded, stop_requested>> BY DEF CountDone
  <2>2. next_tile \in Nat /\ next_tile' = next_tile BY DEF CountDone, TypeOK
  <2>3. ASSUME NEW v \in Workers
        PROVE  KeepsTiles(v)
    <3>1. CASE v = w
      BY <3>1 DEF CountDone, CoverInv, KeepsTiles, TookUp, OutOfTiles,
         Summing, CaughtUp, Contribution, TypeOK, RoundInv, EndInv
    <3>2. CASE v # w
      BY <3>2 DEF CountDone, CoverInv, KeepsTiles, TookUp, OutOfTiles,
         Summing, CaughtUp, Contribution, TypeOK
    <3> QED BY <3>1, <3>2
  <2>4. \A t \in next_tile .. next_tile' - 1 : t < TotalTiles[loaded] =>
          \E v \in Workers : wpc'[v] = "tile" /\ tile'[v] = t
    BY <2>2
  <2>5. next_tile' \in Nat /\ next_tile' >= next_tile BY <2>2
  <2> QED BY <2>1, <2>3, <2>4, <2>5, KeepsCover
<1>6. (GatherInv /\ SentInv)'
  BY <1>b DEF CountDone, GatherInv, InRound, SentInv, TypeOK
<1> QED BY <1>1, <1>2, <1>3, <1>4, <1>5, <1>6

-----------------------------------------------------------------------------
(* The theorems.                                                           *)

\* The invariant holds before any thread has run.
LEMMA InitIInv == Init => IInv
<1> SUFFICES ASSUME Init PROVE IInv OBVIOUS
<1> USE ConstantsAssumption DEF Init
<1>1. TypeOK
  <2>1. /\ checksum \in [Workers -> TileSets]
        /\ partials \in [Workers -> TileSets]
        /\ partial \in [Workers -> TileSets]
    BY DEF TileSets
  <2>2. sent \in Seq([id : Tiles, parts : [Workers -> TileSets]]) OBVIOUS
  <2>3. /\ wpc \in [Workers -> WorkerLabels]
        /\ seen_epoch \in [Workers -> Nat]
        /\ total_tiles \in [Workers -> Nat]
        /\ tile \in [Workers -> Nat]
    BY DEF WorkerLabels
  <2>4. ppc \in ParserLabels /\ loaded \in Tiles BY DEF ParserLabels, Tiles
  <2>5. gathered \in 0 .. kComputeWorkers /\ done_count \in 0 .. kComputeWorkers
    OBVIOUS
  <2> QED BY <2>1, <2>2, <2>3, <2>4, <2>5 DEF TypeOK
<1>2. EndInv /\ QuietInv /\ RoundInv
  BY DEF EndInv, QuietInv, RoundInv, CaughtUp, Summing
<1>3. CountInv
  <2>1. Counters = {} BY DEF Counters, MayCount, Summing
  <2> QED BY <2>1, FS_EmptySet DEF CountInv
<1>4. JobInv /\ HeldInv /\ InFlightInv /\ SumsDisjoint
  BY DEF JobInv, InRound, Summing, HeldInv, InFlightInv, SumsDisjoint
<1>5. CoverInv /\ GatherInv BY DEF CoverInv, InRound, GatherInv
<1>6. SentInv BY DEF SentInv, InRound
<1> QED BY <1>1, <1>2, <1>3, <1>4, <1>5, <1>6 DEF IInv

\* A step of something else changes nothing.
LEMMA StutterIInv == IInv /\ UNCHANGED vars => IInv'
BY DEF vars, flags, inputVars, sumVars, parserVars, workerVars, jobVars,
       IInv, TypeOK, EndInv, QuietInv, RoundInv, CountInv, Counters, MayCount, JobInv, HeldInv, InFlightInv,
       SumsDisjoint, CoverInv, TookUp, OutOfTiles, Contribution, CaughtUp,
       Summing, GatherInv, SentInv

\* The inductive invariant holds in every reachable state.
THEOREM Invariant == Spec => []IInv
<1>1. IInv /\ [Next]_vars => IInv'
  <2> SUFFICES ASSUME IInv, [Next]_vars PROVE IInv' OBVIOUS
  <2>1. CASE Parser
    BY <2>1, ParserTopStep, ParserIdleStep, ParserFeedPartStep,
       ParserCompleteStep, ResetNextTileStep, ResetDoneCountStep,
       PublishEpochStep, WaitAllDoneStep, WaitStopStep, GatherStep,
       SendAnswerStep, SendFailsStep, SendKillsStep DEF Parser
  <2>2. ASSUME NEW w \in Workers, Worker(w) PROVE IInv'
    BY <2>2, WorkerTopStep, WorkerLoadEpochStep, WorkerRecheckStep,
       ClaimTileStep, ComputeTileStep, StorePartialStep, CountDoneStep
       DEF Worker
  <2>3. CASE RequestStop BY <2>3, RequestStopStep
  <2>4. CASE ReleaseWorkers BY <2>4, ReleaseWorkersStep
  <2>5. CASE UNCHANGED vars BY <2>5, StutterIInv
  <2> QED BY <2>1, <2>2, <2>3, <2>4, <2>5 DEF Next
<1> QED BY InitIInv, <1>1, PTL DEF Spec

\* Every variable keeps its type; done_count never passes kComputeWorkers.
THEOREM TypeCorrect == Spec => []TypeOK
<1>1. IInv => TypeOK BY DEF IInv
<1> QED BY <1>1, Invariant, PTL

\* Only the last answer can be wrong, and only when the client is stopping:
\* while the flag is down, every answer is the whole checksum of its challenge.
THEOREM WrongAnswers == Spec => []WrongOnlyAtShutdown
<1>1. IInv => WrongOnlyAtShutdown BY DEF IInv, SentInv, WrongOnlyAtShutdown
<1> QED BY <1>1, Invariant, PTL

\* The client answers the challenges in the order they arrive, each once.
THEOREM InOrder == Spec => []AnswersInOrder
<1>1. IInv => AnswersInOrder BY DEF IInv, SentInv, AnswersInOrder
<1> QED BY <1>1, Invariant, PTL

\* fetch_add on next_tile, reset for each round, gives no tile to two workers.
THEOREM TilesOnce == Spec => []NoTileTwice
<1>1. IInv => NoTileTwice BY DEF IInv, InFlightInv, NoTileTwice
<1> QED BY <1>1, Invariant, PTL

\* The parser and the workers never race on job.N, job.A and job.B, although
\* the parser may stop waiting for the workers.
THEOREM JobStable == Spec => JobStableWhileRead
<1>1. IInv /\ [Next]_vars
        => [(\E w \in Workers : Reading(w)) => UNCHANGED <<loaded, dirty>>]_vars
  <2> SUFFICES ASSUME IInv, [Next]_vars, NEW w \in Workers, Reading(w)
               PROVE  UNCHANGED <<loaded, dirty>>
    OBVIOUS
  <2>1. ppc # "peek"
    BY QuietWorkers DEF Reading, Filling
  <2>2. CASE Parser
    BY <2>1, <2>2 DEF Parser, ParserTop, ParserIdle, ParserFeedPart,
       ParserComplete, ResetNextTile, ResetDoneCount, PublishEpoch,
       WaitAllDone, WaitStop, Gather, SendAnswer, SendFails, SendKills, inputVars
  <2>3. ASSUME NEW v \in Workers, Worker(v) PROVE UNCHANGED <<loaded, dirty>>
    BY <2>3 DEF Worker, WorkerTop, WorkerLoadEpoch, WorkerRecheck, ClaimTile,
       ComputeTile, StorePartial, CountDone, parserVars, inputVars
  <2> QED
    BY <2>2, <2>3 DEF Next, RequestStop, ReleaseWorkers, vars, parserVars,
       inputVars
<1> QED BY <1>1, Invariant, PTL DEF Spec, JobStableWhileRead

\* No answer is wrong when the parser is about to load a challenge or to send.
LEMMA NoneWrongYet ==
  ASSUME SentInv, Len(sent) \in Nat, ppc \in {"peek", "send"}
  PROVE  ~Promise!LastWasWrong
<1> DEFINE told == [i \in 1 .. Len(sent) |->
                      [id |-> sent[i].id, whole |-> Exact(sent[i])]]
<1>1. \A i \in 1 .. Len(sent) : Exact(sent[i]) BY DEF SentInv
<1>3. Len(told) = Len(sent) OBVIOUS
<1>4. \A i \in 1 .. Len(told) : told[i].whole BY <1>1, <1>3
<1> HIDE DEF told
<1> QED BY <1>4 DEF Promise!LastWasWrong, told

\* An answer sent without a stop is whole, and the one sent at a stop ends the
\* list: every step of the round is one of Replies, or none.
LEMMA SendAnswerReplies ==
  ASSUME SentInv, SendAnswer, loaded \in Challenges,
         sent \in Seq([id : Tiles, parts : [Workers -> TileSets]]),
         checksum \in [Workers -> TileSets],
         CoversOnce(checksum, loaded) \/ stop_requested
  PROVE  Promise!Reply
<1> DEFINE new == [id |-> loaded, parts |-> checksum]
<1> DEFINE told == [i \in 1 .. Len(sent) |->
                      [id |-> sent[i].id, whole |-> Exact(sent[i])]]
<1>1. /\ sent \in Seq([id : Tiles, parts : [Workers -> TileSets]])
      /\ new \in [id : Tiles, parts : [Workers -> TileSets]]
      /\ ppc = "send"
      /\ sent' = Append(sent, new)
  BY DEF SendAnswer, Tiles
<1>2. /\ Len(sent) \in Nat /\ Len(sent') = Len(sent) + 1
      /\ \A i \in 1 .. Len(sent) : sent'[i] = sent[i]
      /\ sent'[Len(sent) + 1] = new
  BY <1>1
<1>3. /\ Len(sent) = loaded - 1 /\ loaded \in Nat
  BY <1>1, StreamLength DEF SentInv, InRound, Challenges
<1>4. Exact(new) \/ stop_requested BY DEF Exact
<1>5. Exact(new) \in BOOLEAN BY DEF Exact, CoversOnce
<1>6. Len(told) = Len(sent) BY <1>2
<1>7. told' = Append(told, [id |-> Len(told) + 1, whole |-> Exact(new)])
  <2> DEFINE last == [id |-> Len(told) + 1, whole |-> Exact(new)]
  <2>1. last = [id |-> sent'[Len(sent) + 1].id,
                whole |-> Exact(sent'[Len(sent) + 1])]
    BY <1>2, <1>3, <1>6
  <2>2. told' = [i \in 1 .. Len(sent) + 1 |->
                  [id |-> sent'[i].id, whole |-> Exact(sent'[i])]]
    BY <1>2
  <2>3. Append(told, last) = [i \in 1 .. Len(sent) + 1 |->
                  IF i = Len(sent) + 1 THEN last ELSE told[i]]
    BY <1>2, <1>6
  <2> HIDE DEF last
  <2>4. \A i \in 1 .. Len(sent) + 1 :
          [id |-> sent'[i].id, whole |-> Exact(sent'[i])]
            = (IF i = Len(sent) + 1 THEN last ELSE told[i])
    BY <1>2, <2>1
  <2> QED BY <2>2, <2>3, <2>4 DEF last
<1>8. ~Promise!LastWasWrong BY <1>1, <1>2, NoneWrongYet
<1>9. loaded' = loaded /\ stop_requested' = stop_requested
  BY DEF SendAnswer, flags, inputVars
<1> HIDE DEF told
<1>10. Len(told) < loaded BY <1>2, <1>3, <1>6
<1> QED
  BY <1>4, <1>5, <1>7, <1>8, <1>9, <1>10
     DEF Promise!Reply, told

\* The answers of the round are the replies promised.
THEOREM KeepsPromise == Spec => IsReplies
<1>1. Init => Promise!Init BY DEF Init, Promise!Init
<1>2. ASSUME IInv, [Next]_vars PROVE [Promise!Next]_(Promise!vars)
  <2> USE <1>2
  <2>1. CASE UNCHANGED <<loaded, stop_requested, sent>>
    BY <2>1 DEF Promise!vars
  <2>2. CASE SendAnswer
    BY <2>2, GatheredExact, SendAnswerReplies
       DEF SendAnswer, IInv, TypeOK, JobInv, InRound, Promise!Next
  <2>3. CASE ParserComplete
    <3>1. ~Promise!LastWasWrong
      BY <2>3, NoneWrongYet DEF ParserComplete, IInv, TypeOK
    <3>2. UNCHANGED <<stop_requested, sent>> /\ loaded' = loaded + 1
      BY <2>3 DEF ParserComplete, flags
    <3> QED BY <3>1, <3>2 DEF Promise!Next, Promise!Arrive
  <2>4. CASE SendFails \/ RequestStop
    BY <2>4 DEF SendFails, RequestStop, inputVars, parserVars, Promise!Next,
       Promise!Stop
  <2>5. CASE Parser /\ ~SendAnswer /\ ~ParserComplete /\ ~SendFails
    BY <2>1, <2>5 DEF Parser, ParserTop, ParserIdle, ParserFeedPart,
       ResetNextTile, ResetDoneCount, PublishEpoch, WaitAllDone, WaitStop,
       Gather, SendKills, flags, inputVars
  <2>6. ASSUME NEW w \in Workers, Worker(w)
        PROVE  UNCHANGED <<loaded, stop_requested, sent>>
    BY <2>6 DEF Worker, WorkerTop, WorkerLoadEpoch, WorkerRecheck, ClaimTile,
       ComputeTile, StorePartial, CountDone, parserVars, inputVars, flags
  <2>7. CASE ReleaseWorkers \/ UNCHANGED vars
    BY <2>1, <2>7 DEF ReleaseWorkers, vars, parserVars, inputVars, flags
  <2> QED BY <2>1, <2>2, <2>3, <2>4, <2>5, <2>6, <2>7 DEF Next
<1> QED BY <1>1, <1>2, Invariant, PTL DEF Spec, IsReplies, Promise!Spec

-----------------------------------------------------------------------------
(* The whole client.                                                       *)

\* Flags are set, threads end and main moves on in this order.
LEMMA EndsInOrderStep ==
  ASSUME EndsInOrder, [ClientNext]_clientVars
  PROVE  EndsInOrder'
<1> USE DEF EndsInOrder
<1>1. CASE PeerLeaves
  BY <1>1 DEF PeerLeaves, vars, flags, parserVars
<1>2. CASE Main
  BY <1>2 DEF Main, Connect, SendName, JoinThreads, MainStops, MainReleases,
     JoinWorkers, RequestStop, ReleaseWorkers, Running, vars, flags,
     parserVars
<1>3. CASE Io \/ Recv
  BY <1>3 DEF Io, IoTop, IoReserve, IoStops, IoCloses, Recv, RecvPiece,
     RecvInterrupted, RecvEnds, RequestStop, Running, vars, flags, parserVars
<1>4. CASE SeeEmpty \/ EmptyOrClosed \/ FeedPart \/ FeedRest
  BY <1>4 DEF SeeEmpty, EmptyOrClosed, FeedPart, FeedRest, ParserFeedPart,
     ParserComplete, Running, vars, flags, parserVars
<1>5. CASE SendFailsOrKills \/ RoundStep
  BY <1>5 DEF SendFailsOrKills, SendFails, SendKills, RoundStep, ParserTop,
     ResetNextTile, ResetDoneCount, PublishEpoch, WaitAllDone, StartGather,
     WaitStop, Gather, SendAnswer, Running, shellVars, flags
<1>6. ASSUME NEW w \in Workers, WorkerStep(w) PROVE EndsInOrder'
  BY <1>6 DEF WorkerStep, Worker, WorkerTop, WorkerLoadEpoch, WorkerRecheck,
     ClaimTile, ComputeTile, StorePartial, CountDone, shellVars, flags,
     parserVars
<1>7. CASE UNCHANGED clientVars
  BY <1>7 DEF clientVars, shellVars, vars, flags, parserVars
<1> QED BY <1>1, <1>2, <1>3, <1>4, <1>5, <1>6, <1>7
        DEF ClientNext, ParserStep

\* They do so in every reachable state.
LEMMA EndsInOrderInvariant == ClientSpec => []EndsInOrder
<1>1. ClientInit => EndsInOrder BY DEF ClientInit, Init, EndsInOrder
<1> QED BY <1>1, EndsInOrderStep, PTL DEF ClientSpec

\* Every step of the client is one of its round, or leaves the round alone: in
\* particular the parser ends on a closed ring only when stopping.
THEOREM ImplementsRound == ClientSpec => IsRound
<1>1. ClientInit => Init BY DEF ClientInit
<1>2. ASSUME EndsInOrder, [ClientNext]_clientVars PROVE [Next]_vars
  <2> USE <1>2
  <2>1. CASE EmptyOrClosed
    BY <2>1 DEF EmptyOrClosed, EndsInOrder, ParserIdle, Parser, Next
  <2>2. CASE PeerLeaves \/ Main \/ Io \/ Recv
    BY <2>2 DEF PeerLeaves, Main, Connect, SendName, JoinThreads, MainStops,
       MainReleases, JoinWorkers, Io, IoTop, IoReserve, IoStops, IoCloses,
       Recv, RecvPiece, RecvInterrupted, RecvEnds, Next
  <2>3. CASE SeeEmpty \/ FeedPart \/ FeedRest \/ SendFailsOrKills \/ RoundStep
    BY <2>3 DEF SeeEmpty, FeedPart, FeedRest, SendFailsOrKills, RoundStep,
       Parser, Next
  <2>4. ASSUME NEW w \in Workers, WorkerStep(w) PROVE Next
    BY <2>4 DEF WorkerStep, Next
  <2>5. CASE UNCHANGED clientVars BY <2>5 DEF clientVars
  <2> QED BY <2>1, <2>2, <2>3, <2>4, <2>5 DEF ClientNext, ParserStep
<1> QED BY <1>1, <1>2, EndsInOrderInvariant, PTL DEF ClientSpec, IsRound, Spec

\* What was proved of the round holds of the client.
THEOREM ClientRoundInvariant == ClientSpec => []IInv
BY ImplementsRound, Invariant DEF IsRound

\* The answers of the whole client are the replies promised.
THEOREM ClientKeepsPromise == ClientSpec => IsReplies
BY ImplementsRound, KeepsPromise DEF IsRound

\* In the whole client too the job is not written while a worker reads it.
THEOREM ClientJobStable == ClientSpec => JobStableWhileRead
BY ImplementsRound, JobStable DEF IsRound

\* Every variable of Client keeps its type.
LEMMA ClientTypes == ClientSpec => []ClientTypeOK
<1>1. ASSUME ClientInit PROVE ClientTypeOK
  BY <1>1 DEF ClientInit, ClientTypeOK
<1>2. ASSUME ClientTypeOK, IInv, [ClientNext]_clientVars PROVE ClientTypeOK'
  <2> USE <1>2 DEF ClientTypeOK
  <2>0. loaded \in Nat BY DEF IInv, TypeOK, Tiles, Challenges
  <2>1. CASE PeerLeaves \/ Main
    BY <2>1 DEF PeerLeaves, Main, Connect, SendName, JoinThreads, MainStops,
       MainReleases, JoinWorkers
  <2>2. CASE Io \/ Recv
    <3>1. received' \in {received, received + 1}
      BY <2>2 DEF Io, IoTop, IoReserve, IoStops, IoCloses, Recv, RecvPiece,
         RecvInterrupted, RecvEnds
    <3>2. closed' \in {closed, TRUE}
      BY <2>2 DEF Io, IoTop, IoReserve, IoStops, IoCloses, Recv, RecvPiece,
         RecvInterrupted, RecvEnds
    <3>3. /\ ipc' \in {"top", "reserve", "recv", "stop", "close", "done"}
          /\ UNCHANGED <<peer, taken, seen_empty, mpc>>
      BY <2>2 DEF Io, IoTop, IoReserve, IoStops, IoCloses, Recv, RecvPiece,
         RecvInterrupted, RecvEnds
    <3>4. received' \in Nat BY <3>1
    <3>5. closed' \in BOOLEAN BY <3>2
    <3> QED BY <3>3, <3>4, <3>5
  <2>3. CASE SeeEmpty \/ EmptyOrClosed
    <3>1. received' = received /\ taken' = taken
      BY <2>3 DEF SeeEmpty, EmptyOrClosed
    <3>2. /\ seen_empty' \in BOOLEAN
          /\ UNCHANGED <<closed, peer, ipc, mpc>>
      BY <2>3 DEF SeeEmpty, EmptyOrClosed
    <3> QED BY <3>1, <3>2
  <2>4. CASE FeedPart \/ FeedRest
    <3>1. taken' \in Nat
      BY <2>4, <2>0 DEF FeedPart, FeedRest
    <3>2. UNCHANGED <<received, closed, seen_empty, peer, ipc, mpc>>
      BY <2>4 DEF FeedPart, FeedRest
    <3> QED BY <3>1, <3>2
  <2>5. CASE SendFailsOrKills \/ RoundStep \/ UNCHANGED clientVars
    <3>1. UNCHANGED shellVars
      BY <2>5 DEF SendFailsOrKills, RoundStep, clientVars
    <3> QED BY <3>1 DEF shellVars
  <2>6. ASSUME NEW w \in Workers, WorkerStep(w) PROVE ClientTypeOK'
    BY <2>6 DEF WorkerStep, shellVars
  <2> QED BY <2>1, <2>2, <2>3, <2>4, <2>5, <2>6 DEF ClientNext, ParserStep
<1> QED BY <1>1, <1>2, ClientRoundInvariant, PTL DEF ClientSpec

\* The ring holds what was received and not yet taken, never more than it can,
\* and job what was taken.
LEMMA RingHoldsInvariant == ClientSpec => []RingHolds
<1> USE RingAssumption
<1>0. Pieces \in Nat BY StreamLength DEF Pieces
<1>1. ASSUME ClientInit PROVE RingHolds
  BY <1>0, <1>1 DEF ClientInit, Init, RingHolds
<1>2. ASSUME RingHolds, ClientTypeOK, IInv, [ClientNext]_clientVars
      PROVE  RingHolds'
  <2> USE <1>0, <1>2
  <2>1. /\ loaded \in Nat
        /\ received \in Nat
        /\ taken \in Nat
    BY DEF IInv, TypeOK, Tiles, Challenges, ClientTypeOK
  <2>2. CASE FeedPart
    BY <2>1, <2>2 DEF FeedPart, ParserFeedPart, RingHolds
  <2>3. CASE FeedRest
    BY <2>1, <2>3 DEF FeedRest, ParserComplete, RingHolds
  <2>4. CASE RecvPiece
    <3>1. UNCHANGED <<loaded, dirty, taken>> /\ received' = received + 1
      BY <2>4 DEF RecvPiece, vars, parserVars, inputVars
    <3>2. received < Pieces /\ received - taken < RingPieces /\ ipc' = "top"
      BY <2>4 DEF RecvPiece, RingHolds
    <3> QED BY <2>1, <3>1, <3>2 DEF RingHolds
  <2>5. CASE IoReserve
    <3>1. UNCHANGED <<loaded, dirty, taken, received>>
      BY <2>5 DEF IoReserve, vars, parserVars, inputVars
    <3>2. ipc' = "recv" => received - taken # RingPieces
      BY <2>5 DEF IoReserve
    <3> QED BY <2>1, <3>1, <3>2 DEF RingHolds
  <2>6. ASSUME UNCHANGED <<loaded, dirty, taken, received>>,
               ipc' = "recv" => ipc = "recv"
        PROVE  RingHolds'
    BY <2>1, <2>6 DEF RingHolds
  <2>7. CASE PeerLeaves \/ Main
    BY <2>6, <2>7 DEF PeerLeaves, Main, Connect, SendName, JoinThreads,
       MainStops, MainReleases, JoinWorkers, RequestStop, ReleaseWorkers,
       vars, parserVars, inputVars
  <2>8. CASE IoTop \/ IoStops \/ IoCloses \/ RecvInterrupted \/ RecvEnds
    BY <2>6, <2>8 DEF IoTop, IoStops, IoCloses, RecvInterrupted, RecvEnds,
       RequestStop, vars, parserVars, inputVars
  <2>9. CASE SeeEmpty \/ EmptyOrClosed
    BY <2>6, <2>9 DEF SeeEmpty, EmptyOrClosed, vars, parserVars, inputVars
  <2>10. CASE SendFailsOrKills \/ RoundStep
    BY <2>6, <2>10 DEF SendFailsOrKills, SendFails, SendKills, RoundStep,
       ParserTop, ResetNextTile, ResetDoneCount, PublishEpoch, WaitAllDone,
       WaitStop, Gather, SendAnswer, shellVars, inputVars
  <2>11. ASSUME NEW w \in Workers, WorkerStep(w) PROVE RingHolds'
    BY <2>6, <2>11 DEF WorkerStep, Worker, WorkerTop, WorkerLoadEpoch,
       WorkerRecheck, ClaimTile, ComputeTile, StorePartial, CountDone,
       shellVars, parserVars, inputVars
  <2>12. CASE UNCHANGED clientVars
    BY <2>6, <2>12 DEF clientVars, shellVars, vars, parserVars, inputVars
  <2> QED
    BY <2>2, <2>3, <2>4, <2>5, <2>7, <2>8, <2>9, <2>10, <2>11, <2>12
       DEF ClientNext, ParserStep, Io, Recv
<1> QED
  BY <1>1, <1>2, ClientTypes, ClientRoundInvariant, PTL DEF ClientSpec

\* The invariant of the client, for every stream, ring and number of workers.
THEOREM ClientInvariant == ClientSpec => []ClientInv
<1>1. ClientTypeOK /\ RingHolds /\ EndsInOrder => ClientInv BY DEF ClientInv
<1> QED
  BY <1>1, ClientTypes, RingHoldsInvariant, EndsInOrderInvariant, PTL

-----------------------------------------------------------------------------
(* The clients before: a share of the rows for each worker.                *)

\* What a quotient is.
LEMMA Quotient ==
  ASSUME NEW a \in Nat, NEW K \in Nat \ {0}
  PROVE  a \div K \in Nat /\ K * (a \div K) <= a /\ a < K * (a \div K) + K
OBVIOUS

\* A quotient is found by the multiples next to it.
LEMMA QuotientBounds ==
  ASSUME NEW a \in Nat, NEW K \in Nat \ {0}, NEW t \in Nat
  PROVE  /\ a < K * t + K => a \div K <= t
         /\ K * t <= a => t <= a \div K
<1>1. PICK q \in Nat : q = a \div K /\ K * q <= a /\ a < K * q + K BY Quotient
<1>2. ASSUME a < K * t + K, q > t PROVE FALSE
  <2>1. PICK d \in Nat : q = t + 1 + d
    <3>1. q - t - 1 \in Nat /\ q = t + 1 + (q - t - 1) BY <1>2
    <3> QED BY <3>1
  <2>2. K * q = K * t + K + K * d BY <2>1
  <2>3. K * d >= 0 OBVIOUS
  <2> QED BY <1>1, <1>2, <2>2, <2>3
<1>3. ASSUME K * t <= a, q < t PROVE FALSE
  <2>1. PICK d \in Nat : t = q + 1 + d
    <3>1. t - q - 1 \in Nat /\ t = q + 1 + (t - q - 1) BY <1>3
    <3> QED BY <3>1
  <2>2. K * t = K * q + K + K * d BY <2>1
  <2>3. K * d >= 0 OBVIOUS
  <2> QED BY <1>1, <1>3, <2>2, <2>3
<1> QED BY <1>1, <1>2, <1>3


\* The shares are within the rows, and no two of them have a row in common.
LEMMA SharesApart ==
  ASSUME NEW N \in Nat, NEW w \in Workers
  PROVE  /\ StartRow(w, N) \in Nat /\ EndRow(w, N) \in Nat
         /\ StartRow(w, N) <= EndRow(w, N) /\ EndRow(w, N) <= N
         /\ \A v \in Workers : w < v => EndRow(w, N) <= StartRow(v, N)
<1>1. PICK K \in Nat \ {0} : K = kComputeWorkers BY ConstantsAssumption
<1>2. w \in Nat /\ w + 1 <= K BY <1>1 DEF Workers
<1>3. PICK a \in Nat, b \in Nat : a = w * N /\ b = (w + 1) * N /\ b = a + N BY <1>2
<1>4. StartRow(w, N) = a \div K /\ EndRow(w, N) = b \div K
  BY <1>1, <1>3 DEF StartRow, EndRow
<1>5. /\ a \div K \in Nat /\ K * (a \div K) <= a
      /\ b \div K \in Nat /\ K * (b \div K) <= b
  BY <1>3, Quotient
<1>6. a \div K <= b \div K
  <2>1. K * (a \div K) <= b BY <1>3, <1>5
  <2> QED BY <1>3, <1>5, <2>1, QuotientBounds
<1>7. b \div K <= N
  <2>1. PICK d \in Nat : K = w + 1 + d
    <3>1. K - w - 1 \in Nat /\ K = w + 1 + (K - w - 1) BY <1>2
    <3> QED BY <3>1
  <2>2. K * N = b + d * N /\ d * N >= 0 BY <1>2, <1>3, <2>1
  <2>3. b < K * N + K BY <1>3, <2>2
  <2> QED BY <1>3, <2>3, QuotientBounds
<1>8. ASSUME NEW v \in Workers, w < v PROVE b \div K <= StartRow(v, N)
  <2>1. v \in Nat BY <1>1 DEF Workers
  <2>2. PICK d \in Nat : v = w + 1 + d
    <3>1. v - w - 1 \in Nat /\ v = w + 1 + (v - w - 1) BY <1>2, <1>8, <2>1
    <3> QED BY <3>1
  <2>3. PICK c \in Nat : c = v * N BY <2>1
  <2>4. c = b + d * N /\ d * N >= 0 BY <1>2, <1>3, <2>2, <2>3
  <2>5. K * (b \div K) <= c BY <1>3, <1>5, <2>4
  <2>6. b \div K <= c \div K BY <1>5, <2>3, <2>5, QuotientBounds
  <2> QED BY <1>1, <2>3, <2>6 DEF StartRow
<1> QED BY <1>4, <1>5, <1>6, <1>7, <1>8

\* Every row is in one, though they do not divide evenly.
LEMMA SharesCover ==
  ASSUME NEW N \in Nat, NEW t \in 0 .. N - 1
  PROVE  \E w \in Workers : t \in Share(w, N)
<1>1. PICK K \in Nat \ {0} : K = kComputeWorkers BY ConstantsAssumption
<1>2. N \in Nat \ {0} /\ t \in Nat /\ t + 1 <= N OBVIOUS
<1>3. PICK b \in Nat : b = K * t + K - 1
  <2>1. K * t >= 0 /\ K * t \in Nat BY <1>2
  <2> QED BY <2>1
<1>4. PICK w \in Nat : w = b \div N /\ N * w <= b /\ b < N * w + N BY <1>2, <1>3, Quotient
<1>5. w \in Workers
  <2>1. K - 1 \in Nat OBVIOUS
  <2>2. PICK d \in Nat : N = t + 1 + d
    <3>1. N - t - 1 \in Nat /\ N = t + 1 + (N - t - 1) BY <1>2
    <3> QED BY <3>1
  <2>3. K * N = K * t + K + K * d /\ K * d >= 0 BY <1>2, <2>2
  <2>4. N * (K - 1) + N = K * N BY <1>2
  <2>5. b < N * (K - 1) + N BY <1>3, <2>3, <2>4
  <2>6. w <= K - 1 BY <1>2, <1>3, <1>4, <2>1, <2>5, QuotientBounds
  <2> QED BY <1>1, <1>4, <2>6 DEF Workers
<1>6. PICK a \in Nat, c \in Nat : a = w * N /\ c = (w + 1) * N /\ a = N * w /\ c = N * w + N
  BY <1>2, <1>4
<1>7. StartRow(w, N) <= t
  <2>1. a < K * t + K BY <1>3, <1>4, <1>6
  <2>2. a \div K <= t BY <1>2, <1>6, <2>1, QuotientBounds
  <2> QED BY <1>1, <1>6, <2>2 DEF StartRow
<1>8. t + 1 <= EndRow(w, N)
  <2>1. K * (t + 1) = K * t + K BY <1>2
  <2>2. K * (t + 1) <= c BY <1>3, <1>4, <1>6, <2>1
  <2>3. t + 1 <= c \div K BY <1>2, <1>6, <2>2, QuotientBounds
  <2> QED BY <1>1, <1>6, <2>3 DEF EndRow
<1>9. StartRow(w, N) \in Nat /\ EndRow(w, N) \in Nat BY <1>5, SharesApart
<1> QED BY <1>2, <1>5, <1>7, <1>8, <1>9 DEF Share

\* While the parser may write the job, every worker is between rounds.
LEMMA RowQuietWorkers ==
  ASSUME RowInv, ppc \in Filling
  PROVE  \A w \in Workers : /\ wpc[w] \in {"check", "load", "done"}
                            /\ seen_epoch[w] = epoch
BY DEF RowInv, QuietInv, CaughtUp

\* A worker inside a round keeps the parser out of the job.
LEMMA RowBusyWorker ==
  ASSUME RowInv, NEW w \in Workers,
         wpc[w] \in {"recheck", "count"} \/ RowSumming(w)
  PROVE  /\ ppc \in {"top", "done"} \cup InRound
         /\ ~stop_requested => ppc \in {"wait", "wait_stop"}
<1>1. ~CaughtUp(w) BY DEF CaughtUp, RowSumming
<1>2. ppc \in ParserLabels /\ ppc # "killed"
  BY DEF RowInv, RowTypeOK, EndInv, RowSumming
<1> QED
  BY <1>1, <1>2 DEF RowInv, QuietInv, Filling, InRound, ParserLabels, EndInv

\* The barrier: when done_count says that all workers have arrived, they have.
LEMMA RowAllArrived ==
  ASSUME RowInv, done_count = kComputeWorkers, ~stop_requested,
         ppc # "killed"
  PROVE  \A w \in Workers : CaughtUp(w)
<1>1. RowCounters \in SUBSET Workers BY DEF RowCounters
<1>2. Cardinality(RowCounters) \in Nat BY <1>1, FewerWorkers
<1>3. Cardinality(RowCounters) = 0
  BY <1>2, ConstantsAssumption DEF RowInv, RowCountInv
<1>4. RowCounters = {} BY <1>1, <1>3, FewerWorkers
<1> SUFFICES ASSUME NEW w \in Workers PROVE CaughtUp(w) OBVIOUS
<1>5. ~RowMayCount(w) BY <1>4 DEF RowCounters
<1>6. wpc[w] \notin {"done", "killed"} BY DEF RowInv, EndInv
<1>7. wpc[w] \in RowLabels BY DEF RowInv, RowTypeOK
<1> QED BY <1>5, <1>6, <1>7 DEF RowMayCount, RowSumming, CaughtUp, RowLabels

\* The sum of RowCountInv does not grow when no worker joins the counters.
LEMMA NoNewRowCounter ==
  ASSUME RowInv, UNCHANGED done_count, RowCounters' \subseteq RowCounters
  PROVE  (done_count + Cardinality(RowCounters) <= kComputeWorkers)'
<1>1. RowCounters \in SUBSET Workers BY DEF RowCounters
<1>2. Cardinality(RowCounters') <= Cardinality(RowCounters)
      /\ Cardinality(RowCounters) \in Nat /\ Cardinality(RowCounters') \in Nat
  BY <1>1, FewerWorkers
<1> QED BY <1>2, ConstantsAssumption DEF RowInv, RowCountInv, RowTypeOK

\* When no one has asked the parser to stop, the shares it adds up are the
\* whole product: they have no row in common and leave none out.
LEMMA RowGatheredExact ==
  ASSUME RowInv, ppc = "send", ~stop_requested
  PROVE  CoversOnce(checksum, loaded)
<1> DEFINE N == TotalTiles[loaded]
<1>1. loaded \in Challenges /\ N \in Nat
  BY StreamLength, ConstantsAssumption DEF RowInv, RowJobInv, InRound, Challenges
<1> HIDE DEF N
<1>2. \A w \in Workers : CaughtUp(w) BY DEF RowInv, QuietInv
<1>3. \A w \in Workers : checksum[w] = partials[w]
  BY ConstantsAssumption DEF RowInv, GatherInv, Workers
<1>4. \A w \in Workers : checksum[w] = {loaded} \X Share(w, N)
  BY <1>2, <1>3 DEF RowInv, RowDoneInv, InRound, N
<1>5. UNION {checksum[w] : w \in Workers} \subseteq {loaded} \X (0 .. N - 1)
  <2> SUFFICES ASSUME NEW w \in Workers, NEW t \in Share(w, N)
               PROVE  t \in 0 .. N - 1
    BY <1>4
  <2>1. /\ StartRow(w, N) \in Nat /\ EndRow(w, N) \in Nat /\ EndRow(w, N) <= N
    BY <1>1, SharesApart
  <2> QED BY <1>1, <2>1 DEF Share
<1>6. {loaded} \X (0 .. N - 1) \subseteq UNION {checksum[w] : w \in Workers}
  <2> SUFFICES ASSUME NEW t \in 0 .. N - 1
               PROVE  \E w \in Workers : t \in Share(w, N)
    BY <1>4
  <2> QED BY <1>1, SharesCover
<1>7. ASSUME NEW v \in Workers, NEW w \in Workers, v < w
      PROVE  checksum[v] \cap checksum[w] = {}
  <2>1. /\ EndRow(v, N) \in Nat /\ StartRow(w, N) \in Nat
        /\ EndRow(v, N) <= StartRow(w, N)
    BY <1>1, <1>7, SharesApart
  <2>2. \A t : ~(t \in Share(v, N) /\ t \in Share(w, N))
    BY <2>1 DEF Share
  <2> QED BY <1>4, <2>2
<1>8. \A v, w \in Workers : v # w => v < w \/ w < v
  BY ConstantsAssumption DEF Workers
<1> QED BY <1>5, <1>6, <1>7, <1>8 DEF CoversOnce, N

-----------------------------------------------------------------------------
(* Every action keeps it.                                                  *)

\* The invariant holds before any thread has run.
LEMMA RowInitially == ClientInit => RowInv
<1> SUFFICES ASSUME ClientInit PROVE RowInv OBVIOUS
<1> USE ConstantsAssumption DEF ClientInit, Init
<1>1. RowTypeOK
  <2>1. /\ checksum \in [Workers -> TileSets]
        /\ partials \in [Workers -> TileSets]
        /\ partial \in [Workers -> TileSets]
    BY DEF TileSets
  <2>2. sent \in Seq([id : Tiles, parts : [Workers -> TileSets]]) OBVIOUS
  <2>3. /\ wpc \in [Workers -> RowLabels]
        /\ seen_epoch \in [Workers -> Nat]
        /\ total_tiles \in [Workers -> Nat]
        /\ tile \in [Workers -> Nat]
    BY DEF RowLabels
  <2>4. ppc \in ParserLabels /\ loaded \in Tiles BY DEF ParserLabels, Tiles
  <2>5. gathered \in 0 .. kComputeWorkers /\ done_count \in 0 .. kComputeWorkers
    OBVIOUS
  <2> QED BY <2>1, <2>2, <2>3, <2>4, <2>5 DEF RowTypeOK
<1>2. EndInv /\ QuietInv /\ RowRoundInv
  BY DEF EndInv, QuietInv, RowRoundInv, CaughtUp, RowSumming
<1>3. RowCountInv
  <2>1. RowCounters = {} BY DEF RowCounters, RowMayCount, RowSumming
  <2> QED BY <2>1, FS_EmptySet DEF RowCountInv
<1>4. RowJobInv /\ RowDoneInv /\ GatherInv /\ SentInv
  BY DEF RowJobInv, InRound, RowSumming, RowDoneInv, GatherInv, SentInv
<1> QED BY <1>1, <1>2, <1>3, <1>4 DEF RowInv

\* The parser goes round its loop, or reads part of a challenge: the workers
\* are between rounds while it writes job.
LEMMA RowReads ==
  ASSUME RowInv, ParserTop \/ ParserIdle \/ ParserFeedPart
  PROVE  RowInv'
<1> USE ConstantsAssumption DEF flags, inputVars, sumVars, parserVars,
      workerVars, jobVars, RowInv, Workers
<1>0. /\ UNCHANGED <<flags, loaded, sumVars, sent, workerVars, jobVars>>
      /\ ppc \in {"top", "peek"} /\ ppc' \in {"top", "peek", "done"}
      /\ ppc' = "done" => stop_requested
      /\ ppc = "top" => ppc' = IF stop_requested THEN "done" ELSE "peek"
      /\ ppc = "top" => dirty' = dirty
      /\ dirty' \in {dirty, TRUE}
  BY DEF ParserTop, ParserIdle, ParserFeedPart
<1>1. RowTypeOK' BY <1>0 DEF RowTypeOK, ParserLabels
<1>2. (EndInv /\ QuietInv)'
  BY <1>0 DEF EndInv, QuietInv, Filling, CaughtUp
<1>c. (RowRoundInv /\ RowCountInv)'
  BY <1>0 DEF RowRoundInv, RowSumming, RowCountInv, RowCounters, RowMayCount
<1>3. RowJobInv'
  <2>1. CASE ppc = "peek"
    BY <1>0, <2>1, RowQuietWorkers DEF RowJobInv, InRound, RowSumming, Filling
  <2>2. CASE ppc = "top" BY <1>0, <2>2 DEF RowJobInv, InRound, RowSumming
  <2> QED BY <1>0, <2>1, <2>2
<1>4. (RowDoneInv /\ GatherInv /\ SentInv)'
  BY <1>0 DEF RowDoneInv, InRound, GatherInv, SentInv
<1> QED BY <1>1, <1>2, <1>c, <1>3, <1>4

\* A completed challenge finds every worker between rounds.
LEMMA RowFeedsLast ==
  ASSUME RowInv, FeedLastRow
  PROVE  RowInv'
<1> USE ConstantsAssumption DEF flags, inputVars, sumVars, parserVars,
      workerVars, jobVars, RowInv, Workers, FeedLastRow
<1>q. \A w \in Workers : /\ wpc[w] \in {"check", "load", "done"}
                         /\ seen_epoch[w] = epoch
  BY RowQuietWorkers DEF Filling
<1>0. loaded' \in Challenges /\ loaded \in Nat /\ loaded' = loaded + 1
  BY StreamLength DEF RowTypeOK, Tiles, Challenges
<1>1. RowTypeOK' BY <1>0 DEF RowTypeOK, ParserLabels, Tiles
<1>2. (EndInv /\ QuietInv /\ RowRoundInv /\ RowCountInv)'
  BY DEF EndInv, QuietInv, Filling, CaughtUp, RowRoundInv, RowSumming,
     RowCountInv, RowCounters, RowMayCount
<1>3. (RowJobInv /\ RowDoneInv)'
  BY <1>q, <1>0 DEF RowJobInv, RowDoneInv, InRound, RowSumming
<1>4. GatherInv' BY DEF GatherInv
<1>5. SentInv' BY <1>0 DEF SentInv, InRound
<1> QED BY <1>1, <1>2, <1>3, <1>4, <1>5

\* The barrier restarts while no worker is about to count itself, and the new
\* epoch makes every worker a counter of the round.
LEMMA RowPublishes ==
  ASSUME RowInv, ResetDoneCount \/ PublishEpoch
  PROVE  RowInv'
<1> USE ConstantsAssumption DEF flags, inputVars, sumVars, parserVars,
      workerVars, jobVars, RowInv, Workers
<1>0. /\ UNCHANGED <<flags, inputVars, sumVars, sent, workerVars, partials>>
      /\ \/ /\ ppc = "reset_done" /\ ppc' = "publish"
            /\ done_count' = 0 /\ epoch' = epoch
         \/ /\ ppc = "publish" /\ ppc' = "wait"
            /\ done_count' = done_count /\ epoch' = epoch + 1
  BY DEF ResetDoneCount, PublishEpoch
<1>q. \A w \in Workers : /\ wpc[w] \in {"check", "load", "done"}
                         /\ seen_epoch[w] = epoch
  BY <1>0, RowQuietWorkers DEF Filling
<1>1. RowTypeOK'
  <2>1. done_count \in 0 .. kComputeWorkers /\ epoch \in Nat BY DEF RowTypeOK
  <2>2. done_count' \in 0 .. kComputeWorkers /\ epoch' \in Nat
    <3> HIDE DEF RowInv
    <3> QED BY <1>0, <2>1
  <2>3. ppc' \in ParserLabels BY <1>0 DEF ParserLabels
  <2> QED BY <1>0, <2>2, <2>3 DEF RowTypeOK
<1>2. (EndInv /\ QuietInv /\ RowRoundInv)'
  BY <1>0, <1>q DEF EndInv, QuietInv, Filling, CaughtUp, RowRoundInv, RowSumming
<1>3. RowCountInv'
  <2>1. CASE ppc = "reset_done"
    <3>1. RowCounters' = {}
      BY <1>0, <1>q, <2>1 DEF RowCounters, RowMayCount, RowSumming
    <3> QED BY <1>0, <2>1, <3>1, FS_EmptySet DEF RowCountInv
  <2>2. CASE ppc = "publish"
    <3>1. /\ Cardinality(RowCounters') <= kComputeWorkers
          /\ Cardinality(RowCounters') \in Nat
      BY WorkersFinite, FewerWorkers DEF RowCounters
    <3> QED BY <1>0, <2>2, <3>1 DEF RowCountInv
  <2> QED BY <1>0, <2>1, <2>2
<1>4. RowJobInv' BY <1>0, <1>q DEF RowJobInv, InRound, RowSumming
<1>5. RowDoneInv'
  <2>1. epoch \in Nat BY DEF RowTypeOK
  <2>2. ppc' = "wait" => \A w \in Workers : wpc'[w] # "count" /\ ~CaughtUp(w)'
    <3> HIDE DEF RowInv, Workers
    <3> QED BY <1>0, <1>q, <2>1 DEF CaughtUp
  <2> QED BY <1>0, <2>2 DEF RowDoneInv, InRound
<1>6. (GatherInv /\ SentInv)' BY <1>0 DEF GatherInv, SentInv, InRound
<1> QED BY <1>1, <1>2, <1>3, <1>4, <1>5, <1>6

\* The parser passes the barrier only when every worker has arrived, unless it
\* is stopping.
LEMMA RowWaits ==
  ASSUME RowInv, WaitAllDone \/ WaitStop
  PROVE  RowInv'
<1> USE ConstantsAssumption DEF flags, inputVars, sumVars, parserVars,
      workerVars, jobVars, RowInv, Workers
<1>0. /\ UNCHANGED <<flags, inputVars, sent, workerVars, jobVars>>
      /\ ppc \in {"wait", "wait_stop"}
      /\ ppc' \in {"wait", "wait_stop", "gather"}
      /\ IF ppc' = "gather"
         THEN /\ gathered' = 0
              /\ checksum' = [w \in Workers |-> {}]
              /\ stop_requested \/ ~(done_count < kComputeWorkers)
         ELSE UNCHANGED sumVars
  BY DEF WaitAllDone, WaitStop, StartGather
<1>1. RowTypeOK'
  <2>1. checksum' \in [Workers -> TileSets] /\ gathered' \in 0 .. kComputeWorkers
    <3>1. checksum \in [Workers -> TileSets] /\ gathered \in 0 .. kComputeWorkers
      BY DEF RowTypeOK
    <3> HIDE DEF RowInv, Workers
    <3> QED BY <1>0, <3>1 DEF TileSets
  <2>2. ppc' \in ParserLabels BY <1>0 DEF ParserLabels
  <2> QED BY <1>0, <2>1, <2>2 DEF RowTypeOK
<1>2. (EndInv /\ RowRoundInv /\ RowCountInv)'
  BY <1>0 DEF EndInv, RowRoundInv, RowSumming, RowCountInv, RowCounters, RowMayCount
<1>3. QuietInv'
  <2>1. CASE ppc' = "gather" /\ ~stop_requested
    <3>1. done_count = kComputeWorkers BY <1>0, <2>1 DEF RowTypeOK
    <3>2. \A w \in Workers : CaughtUp(w) BY <1>0, <2>1, <3>1, RowAllArrived
    <3> QED BY <1>0, <3>2 DEF QuietInv, CaughtUp
  <2>2. CASE ppc' # "gather" \/ stop_requested
    BY <1>0, <2>2 DEF QuietInv, Filling
  <2> QED BY <2>1, <2>2
<1>4. (RowJobInv /\ SentInv)' BY <1>0 DEF RowJobInv, InRound, RowSumming, SentInv
<1>5. RowDoneInv' BY <1>0 DEF RowDoneInv, InRound, CaughtUp
<1>6. GatherInv' BY <1>0 DEF GatherInv
<1> QED BY <1>1, <1>2, <1>3, <1>4, <1>5, <1>6

\* The parser reads partials that no worker writes any more.
LEMMA RowGathers ==
  ASSUME RowInv, Gather
  PROVE  RowInv'
<1> USE ConstantsAssumption DEF flags, inputVars, sumVars, parserVars,
      workerVars, jobVars, RowInv, Workers, Gather
<1>1. RowTypeOK'
  <2>1. gathered \in Workers BY DEF GatherInv, RowTypeOK
  <2>2. gathered' \in 0 .. kComputeWorkers BY <2>1
  <2>3. checksum' \in [Workers -> TileSets] BY <2>1 DEF RowTypeOK
  <2> QED BY <2>2, <2>3 DEF RowTypeOK, ParserLabels
<1>2. (EndInv /\ QuietInv /\ RowRoundInv /\ RowCountInv)'
  BY DEF EndInv, QuietInv, Filling, CaughtUp, RowRoundInv, RowSumming,
     RowCountInv, RowCounters, RowMayCount
<1>3. (RowJobInv /\ RowDoneInv)'
  BY DEF RowJobInv, RowDoneInv, InRound, RowSumming, CaughtUp
<1>4. GatherInv' BY DEF GatherInv, RowTypeOK
<1>5. SentInv' BY DEF SentInv, InRound
<1> QED BY <1>1, <1>2, <1>3, <1>4, <1>5

\* The answer is exact unless the flag is set.
LEMMA RowSends ==
  ASSUME RowInv, SendAnswer
  PROVE  RowInv'
<1> USE ConstantsAssumption DEF flags, inputVars, sumVars, parserVars,
      workerVars, jobVars, RowInv, Workers
<1>1. RowTypeOK'
  <2>1. sent' \in Seq([id : Tiles, parts : [Workers -> TileSets]])
    BY DEF SendAnswer, RowTypeOK
  <2>2. ppc' \in ParserLabels BY DEF SendAnswer, ParserLabels
  <2> QED BY <2>1, <2>2 DEF SendAnswer, RowTypeOK
<1>2. (EndInv /\ QuietInv /\ RowRoundInv /\ RowCountInv)'
  BY DEF SendAnswer, EndInv, QuietInv, Filling, CaughtUp, RowRoundInv,
     RowSumming, RowCountInv, RowCounters, RowMayCount
<1>3. (RowJobInv /\ RowDoneInv /\ GatherInv)'
  BY DEF SendAnswer, RowJobInv, RowDoneInv, InRound, RowSumming, GatherInv
<1>4. SentInv'
  BY SendAnswerSent, RowGatheredExact DEF SendAnswer, RowTypeOK, RowJobInv,
     InRound
<1> QED BY <1>1, <1>2, <1>3, <1>4

\* A send that fails sets the flag; a signal ends every thread at once.
LEMMA RowSendEnds ==
  ASSUME RowInv, SendFails \/ SendKills
  PROVE  RowInv'
<1> USE ConstantsAssumption DEF flags, inputVars, sumVars, parserVars,
      workerVars, jobVars, RowInv, Workers
<1>0. /\ UNCHANGED <<released, inputVars, sumVars, sent, seen_epoch, total_tiles,
                     tile, partial, jobVars>>
      /\ ppc = "send"
      /\ \/ ppc' = "done" /\ stop_requested' = TRUE /\ UNCHANGED wpc
         \/ /\ ppc' = "killed" /\ UNCHANGED stop_requested
            /\ wpc' = [w \in Workers |-> "killed"]
  BY DEF SendFails, SendKills
<1>1. RowTypeOK' BY <1>0 DEF RowTypeOK, ParserLabels, RowLabels
<1>2. (EndInv /\ QuietInv /\ RowRoundInv)'
  BY <1>0 DEF EndInv, QuietInv, Filling, CaughtUp, RowRoundInv, RowSumming, RowTypeOK
<1>3. RowCountInv'
  <2>1. RowCounters' \subseteq RowCounters
    BY <1>0 DEF RowCounters, RowMayCount, RowSumming, RowTypeOK
  <2> QED BY <1>0, <2>1, NoNewRowCounter DEF RowCountInv
<1>4. (RowJobInv /\ RowDoneInv)'
  BY <1>0 DEF RowJobInv, RowDoneInv, InRound, RowSumming, RowTypeOK
<1>5. (GatherInv /\ SentInv)' BY <1>0 DEF GatherInv, SentInv, InRound
<1> QED BY <1>1, <1>2, <1>3, <1>4, <1>5

\* Setting the flag only takes promises away, and nobody counts for the last
\* epoch.
LEMMA RowStops ==
  ASSUME RowInv, RequestStop \/ ReleaseWorkers
  PROVE  RowInv'
<1> USE ConstantsAssumption DEF flags, inputVars, sumVars, parserVars,
      workerVars, jobVars, RowInv, Workers
<1>0. /\ UNCHANGED <<parserVars, workerVars, done_count, partials>>
      /\ \/ stop_requested' = TRUE /\ UNCHANGED <<released, epoch>>
         \/ /\ ppc = "done" /\ stop_requested /\ UNCHANGED stop_requested
            /\ released' = TRUE /\ epoch' = epoch + 1
  BY DEF RequestStop, ReleaseWorkers
<1>1. RowTypeOK'
  <2>1. stop_requested' \in BOOLEAN /\ released' \in BOOLEAN
    BY <1>0, Zenon DEF RowTypeOK
  <2>2. epoch' \in Nat BY <1>0 DEF RowTypeOK
  <2> QED BY <1>0, <2>1, <2>2 DEF RowTypeOK
<1>2. (EndInv /\ QuietInv /\ RowRoundInv)'
  BY <1>0 DEF EndInv, QuietInv, Filling, CaughtUp, RowRoundInv, RowSumming
<1>3. RowCountInv'
  <2>1. RowCounters' \subseteq RowCounters
    BY <1>0 DEF RowCounters, RowMayCount, RowSumming
  <2> QED BY <1>0, <2>1, NoNewRowCounter DEF RowCountInv
<1>4. (RowJobInv /\ RowDoneInv)'
  BY <1>0 DEF RowJobInv, RowDoneInv, InRound, RowSumming
<1>5. (GatherInv /\ SentInv)' BY <1>0 DEF GatherInv, SentInv, InRound
<1> QED BY <1>1, <1>2, <1>3, <1>4, <1>5

\* A worker between rounds.
LEMMA RowPolls ==
  ASSUME RowInv, NEW w \in Workers, WorkerTop(w) \/ WorkerLoadEpoch(w)
  PROVE  RowInv'
<1> USE ConstantsAssumption DEF flags, inputVars, sumVars, parserVars,
      workerVars, jobVars, RowInv, Workers
<1>0. /\ UNCHANGED <<flags, parserVars, jobVars, total_tiles, tile, partial>>
      /\ wpc[w] \in {"check", "load"}
      /\ \/ /\ UNCHANGED seen_epoch
            /\ wpc' = [wpc EXCEPT ![w] = IF stop_requested THEN "done" ELSE "load"]
         \/ /\ seen_epoch' = [seen_epoch EXCEPT ![w] = epoch]
            /\ wpc' = [wpc EXCEPT ![w] = IF epoch = seen_epoch[w] THEN "check"
                                                                  ELSE "recheck"]
  BY DEF WorkerTop, WorkerLoadEpoch
<1>t. /\ wpc \in [Workers -> RowLabels] /\ seen_epoch \in [Workers -> Nat]
      /\ epoch \in Nat
  BY DEF RowTypeOK
<1>1. RowTypeOK'
  <2>1. wpc' \in [Workers -> RowLabels] BY <1>0 DEF RowTypeOK, RowLabels
  <2>2. seen_epoch' \in [Workers -> Nat]
    <3> HIDE DEF RowInv, Workers
    <3> QED BY <1>0, <1>t
  <2> QED BY <1>0, <2>1, <2>2 DEF RowTypeOK
<1>2. EndInv' BY <1>0, <1>t DEF EndInv
<1>q. QuietInv' BY <1>0, <1>t DEF QuietInv, Filling, CaughtUp
<1>r. RowRoundInv' BY <1>0, <1>t DEF RowRoundInv, RowSumming
<1>3. RowCountInv'
  <2>1. RowCounters' \subseteq RowCounters
    BY <1>0 DEF RowCounters, RowMayCount, RowSumming, RowTypeOK
  <2> QED BY <1>0, <2>1, NoNewRowCounter DEF RowCountInv
<1>4. RowJobInv' BY <1>0 DEF RowJobInv, InRound, RowSumming, RowTypeOK
<1>5. RowDoneInv'
  <2>1. \A v \in Workers : wpc'[v] = "count" \/ CaughtUp(v)' =>
                             wpc[v] = "count" \/ CaughtUp(v)
    BY <1>0 DEF CaughtUp, RowTypeOK
  <2> QED BY <1>0, <2>1 DEF RowDoneInv, InRound
<1>6. (GatherInv /\ SentInv)' BY <1>0 DEF GatherInv, SentInv, InRound
<1> QED BY <1>1, <1>2, <1>q, <1>r, <1>3, <1>4, <1>5, <1>6

\* A worker that takes up a round finds the job whole, and starts at the first
\* row of its share with nothing added up.
LEMMA RowTakesUp ==
  ASSUME RowInv, NEW w \in Workers, RowTakeUp(w)
  PROVE  RowInv'
<1> USE ConstantsAssumption DEF flags, inputVars, sumVars, parserVars,
      workerVars, jobVars, RowInv, Workers
<1>b. /\ ppc \in {"top", "done"} \cup InRound
      /\ ~stop_requested => ppc \in {"wait", "wait_stop"}
  BY RowBusyWorker DEF RowTakeUp
<1> DEFINE N == TotalTiles[loaded]
<1>n. ASSUME ~stop_requested
      PROVE  /\ loaded \in Challenges /\ ~dirty /\ N \in Nat
             /\ StartRow(w, N) \in Nat /\ EndRow(w, N) \in Nat
             /\ StartRow(w, N) <= EndRow(w, N)
             /\ wpc' = [wpc EXCEPT ![w] = "row"]
             /\ tile' = [tile EXCEPT ![w] = StartRow(w, N)]
             /\ total_tiles' = [total_tiles EXCEPT ![w] = EndRow(w, N)]
             /\ partial' = [partial EXCEPT ![w] = {}]
  <2>1. loaded \in Challenges /\ ~dirty
    BY <1>b, <1>n DEF RowJobInv, InRound
  <2>2. loaded # 0 /\ N \in Nat BY <2>1, StreamLength DEF Challenges
  <2>3. /\ StartRow(w, N) \in Nat /\ EndRow(w, N) \in Nat
        /\ StartRow(w, N) <= EndRow(w, N)
    BY <2>2, SharesApart
  <2> QED BY <1>n, <2>1, <2>2, <2>3 DEF RowTakeUp
<1> HIDE DEF N
<1>1. RowTypeOK'
  <2>1. CASE stop_requested BY <2>1 DEF RowTakeUp, RowTypeOK, RowLabels
  <2>2. CASE ~stop_requested
    <3>1. wpc' \in [Workers -> RowLabels] BY <1>n, <2>2 DEF RowTypeOK, RowLabels
    <3>2. tile' \in [Workers -> Nat] /\ total_tiles' \in [Workers -> Nat]
      <4>1. tile \in [Workers -> Nat] /\ total_tiles \in [Workers -> Nat]
        BY DEF RowTypeOK
      <4> HIDE DEF RowInv, Workers
      <4> QED BY <1>n, <2>2, <4>1
    <3>3. partial' \in [Workers -> TileSets]
      BY <1>n, <2>2 DEF RowTypeOK, TileSets
    <3> QED BY <3>1, <3>2, <3>3 DEF RowTakeUp, RowTypeOK
  <2> QED BY <2>1, <2>2
<1>2. (EndInv /\ QuietInv /\ RowRoundInv)'
  BY <1>b DEF RowTakeUp, EndInv, QuietInv, Filling, CaughtUp, InRound,
     RowRoundInv, RowSumming, RowTypeOK
<1>3. RowCountInv'
  <2>1. RowCounters' \subseteq RowCounters
    BY DEF RowTakeUp, RowCounters, RowMayCount, RowSumming, RowTypeOK
  <2> QED BY <2>1, NoNewRowCounter DEF RowTakeUp, RowCountInv
<1>4. RowJobInv'
  <2>1. CASE stop_requested
    BY <2>1 DEF RowTakeUp, RowJobInv, InRound, RowSumming, RowTypeOK
  <2>2. CASE ~stop_requested
    <3>1. UNCHANGED <<ppc, loaded, dirty>> BY DEF RowTakeUp
    <3>2. StartRow(w, N) \in StartRow(w, N) .. EndRow(w, N)
          /\ {loaded} \X (StartRow(w, N) .. StartRow(w, N) - 1) = {}
      BY <1>n, <2>2
    <3>3. /\ wpc'[w] = "row" /\ tile'[w] = StartRow(w, N)
          /\ total_tiles'[w] = EndRow(w, N) /\ partial'[w] = {}
      BY <1>n, <2>2 DEF RowTypeOK
    <3>4. \A v \in Workers \ {w} : wpc'[v] = wpc[v] /\ tile'[v] = tile[v]
      BY <1>n, <2>2 DEF RowTypeOK
    <3>5. \A v \in Workers \ {w} : /\ total_tiles'[v] = total_tiles[v]
                                   /\ partial'[v] = partial[v]
      <4>1. /\ total_tiles \in [Workers -> Nat]
            /\ partial \in [Workers -> TileSets]
        BY DEF RowTypeOK
      <4> HIDE DEF RowInv, Workers
      <4> QED BY <1>n, <2>2, <4>1
    <3>6. RowJobInv OBVIOUS
    <3>7. ppc \notin {"reset_done", "publish"} BY <1>b DEF InRound
    <3> HIDE DEF RowInv, Workers
    <3> QED BY <1>n, <2>2, <3>1, <3>2, <3>3, <3>4, <3>5, <3>6, <3>7
            DEF RowJobInv, RowSumming, InRound, N
  <2> QED BY <2>1, <2>2
<1>5. RowDoneInv'
  <2>1. \A v \in Workers : wpc'[v] = "count" \/ CaughtUp(v)' =>
                             wpc[v] = "count" \/ CaughtUp(v) \/ stop_requested
    BY DEF RowTakeUp, CaughtUp, RowTypeOK
  <2> QED BY <2>1 DEF RowTakeUp, RowDoneInv, InRound
<1>6. (GatherInv /\ SentInv)'
  BY <1>b DEF RowTakeUp, GatherInv, SentInv, InRound
<1> QED BY <1>1, <1>2, <1>3, <1>4, <1>5, <1>6

\* Every turn adds the next row of the share, until there is none.
LEMMA RowTurns ==
  ASSUME RowInv, NEW w \in Workers, RowTurn(w)
  PROVE  RowInv'
<1> USE ConstantsAssumption DEF flags, inputVars, sumVars, parserVars,
      workerVars, jobVars, RowInv, Workers
<1>b. /\ ppc \in {"top", "done"} \cup InRound
      /\ ~stop_requested => ppc \in {"wait", "wait_stop"}
  BY RowBusyWorker DEF RowTurn, RowSumming
<1> DEFINE N == TotalTiles[loaded]
<1> DEFINE s == StartRow(w, N)
<1> DEFINE e == EndRow(w, N)
<1>n. /\ loaded \in Challenges /\ ~dirty
      /\ total_tiles[w] = e /\ tile[w] \in s .. e
      /\ partial[w] = {loaded} \X (s .. tile[w] - 1)
  BY DEF RowTurn, RowJobInv, RowSumming
<1>m. s \in Nat /\ e \in Nat
  <2>1. N \in Nat BY <1>n, StreamLength DEF Challenges
  <2> QED BY <2>1, SharesApart
<1> HIDE DEF N, s, e
<1>c. \/ /\ tile[w] = e /\ UNCHANGED <<partial, tile>>
         /\ wpc' = [wpc EXCEPT ![w] = "store"]
      \/ /\ tile[w] < e /\ UNCHANGED wpc
         /\ tile' = [tile EXCEPT ![w] = tile[w] + 1]
         /\ partial' = [partial EXCEPT ![w] = {loaded} \X (s .. tile[w])]
  <2>1. CASE tile[w] < e
    <3>1. partial[w] \cup {<<loaded, tile[w]>>} = {loaded} \X (s .. tile[w])
      BY <1>n, <1>m
    <3> QED BY <1>n, <2>1, <3>1 DEF RowTurn
  <2>2. CASE ~(tile[w] < e) BY <1>n, <1>m, <2>2 DEF RowTurn
  <2> QED BY <2>1, <2>2
<1>1. RowTypeOK'
  <2>1. wpc' \in [Workers -> RowLabels] BY <1>c DEF RowTypeOK, RowLabels
  <2>2. tile' \in [Workers -> Nat]
    <3>1. tile \in [Workers -> Nat] BY DEF RowTypeOK
    <3>2. tile[w] + 1 \in Nat BY <3>1
    <3> QED BY <1>c, <3>1, <3>2
  <2>3. {loaded} \X (s .. tile[w]) \in TileSets
    <3>1. s .. tile[w] \in SUBSET Nat BY <1>n, <1>m
    <3> QED BY <1>n, <3>1 DEF TileSets, Tiles
  <2>4. partial' \in [Workers -> TileSets] BY <1>c, <2>3 DEF RowTypeOK
  <2> QED BY <2>1, <2>2, <2>4 DEF RowTurn, RowTypeOK
<1>2. (EndInv /\ QuietInv /\ RowRoundInv)'
  BY <1>b DEF RowTurn, EndInv, QuietInv, Filling, CaughtUp, InRound,
     RowRoundInv, RowSumming, RowTypeOK
<1>3. RowCountInv'
  <2>1. RowCounters' \subseteq RowCounters
    BY DEF RowTurn, RowCounters, RowMayCount, RowSumming, RowTypeOK
  <2> QED BY <2>1, NoNewRowCounter DEF RowTurn, RowCountInv
<1>4. RowJobInv'
  <2>1. UNCHANGED <<ppc, loaded, dirty, total_tiles>> BY DEF RowTurn
  <2>2. \A v \in Workers \ {w} : /\ wpc'[v] = wpc[v] /\ tile'[v] = tile[v]
                                 /\ partial'[v] = partial[v]
    BY <1>c DEF RowTypeOK
  <2>3. /\ tile'[w] \in s .. e
        /\ partial'[w] = {loaded} \X (s .. tile'[w] - 1)
        /\ wpc'[w] = "store" => tile'[w] = e
    <3>1. CASE tile[w] = e /\ UNCHANGED <<partial, tile>> BY <1>n, <3>1
    <3>2. CASE /\ tile[w] < e /\ UNCHANGED wpc
               /\ tile' = [tile EXCEPT ![w] = tile[w] + 1]
               /\ partial' = [partial EXCEPT ![w] = {loaded} \X (s .. tile[w])]
      <4>1. tile'[w] = tile[w] + 1 /\ partial'[w] = {loaded} \X (s .. tile[w])
        BY <3>2 DEF RowTypeOK
      <4>2. tile'[w] \in s .. e /\ tile'[w] - 1 = tile[w]
        BY <1>n, <1>m, <3>2, <4>1
      <4>3. wpc'[w] = "row" BY <3>2 DEF RowTurn
      <4> QED BY <4>1, <4>2, <4>3
    <3> QED BY <1>c, <3>1, <3>2
  <2>4. ASSUME NEW v \in Workers, RowSumming(v)'
        PROVE  /\ total_tiles'[v] = EndRow(v, TotalTiles[loaded])
               /\ tile'[v] \in StartRow(v, TotalTiles[loaded]) .. EndRow(v, TotalTiles[loaded])
               /\ partial'[v] = {loaded} \X (StartRow(v, TotalTiles[loaded]) .. tile'[v] - 1)
               /\ wpc'[v] = "store" => tile'[v] = EndRow(v, TotalTiles[loaded])
    <3>1. CASE v = w BY <1>n, <2>1, <2>3, <3>1 DEF N, s, e
    <3>2. CASE v # w
      BY <2>1, <2>2, <2>4, <3>2 DEF RowJobInv, RowSumming
    <3> QED BY <3>1, <3>2
  <2>5. ppc \notin {"reset_done", "publish"} BY <1>b DEF InRound
  <2> QED BY <1>n, <2>1, <2>4, <2>5 DEF RowJobInv, InRound
<1>5. RowDoneInv'
  <2>1. \A v \in Workers : wpc'[v] = "count" \/ CaughtUp(v)' =>
                             wpc[v] = "count" \/ CaughtUp(v)
    BY DEF RowTurn, CaughtUp, RowTypeOK
  <2> QED BY <2>1 DEF RowTurn, RowDoneInv, InRound
<1>6. (GatherInv /\ SentInv)'
  BY <1>b DEF RowTurn, GatherInv, SentInv, InRound
<1> QED BY <1>1, <1>2, <1>3, <1>4, <1>5, <1>6

\* What a worker stores is its share.
LEMMA RowStores ==
  ASSUME RowInv, NEW w \in Workers, StorePartial(w)
  PROVE  RowInv'
<1> USE ConstantsAssumption DEF flags, inputVars, sumVars, parserVars,
      workerVars, jobVars, RowInv, Workers, StorePartial
<1>b. /\ ppc \in {"top", "done"} \cup InRound
      /\ ~stop_requested => ppc \in {"wait", "wait_stop"}
  BY RowBusyWorker DEF RowSumming
<1>1. RowTypeOK' BY DEF RowTypeOK, RowLabels
<1>2. (EndInv /\ QuietInv /\ RowRoundInv)'
  BY <1>b DEF EndInv, QuietInv, Filling, CaughtUp, InRound, RowRoundInv,
     RowSumming, RowTypeOK
<1>3. RowCountInv'
  <2>1. RowCounters' \subseteq RowCounters
    BY DEF RowCounters, RowMayCount, RowSumming, RowTypeOK
  <2> QED BY <2>1, NoNewRowCounter DEF RowCountInv
<1>4. RowJobInv' BY <1>b DEF RowJobInv, InRound, RowSumming, RowTypeOK
<1>5. RowDoneInv'
  <2>1. partials'[w] = {loaded} \X Share(w, TotalTiles[loaded])
    BY DEF RowJobInv, RowSumming, RowTypeOK, Share
  <2>2. \A v \in Workers \ {w} : partials'[v] = partials[v] /\ wpc'[v] = wpc[v]
    BY DEF RowTypeOK
  <2> QED BY <2>1, <2>2 DEF RowDoneInv, InRound, CaughtUp
<1>6. (GatherInv /\ SentInv)' BY <1>b DEF GatherInv, SentInv, InRound
<1> QED BY <1>1, <1>2, <1>3, <1>4, <1>5, <1>6

\* A worker counts itself once in a round.
LEMMA RowCounts ==
  ASSUME RowInv, NEW w \in Workers, CountDone(w)
  PROVE  RowInv'
<1> USE ConstantsAssumption DEF flags, inputVars, sumVars, parserVars,
      workerVars, jobVars, RowInv, Workers, CountDone
<1>b. /\ ppc \in {"top", "done"} \cup InRound
      /\ ~stop_requested => ppc \in {"wait", "wait_stop"}
  BY RowBusyWorker
<1>c. RowCounters \in SUBSET Workers /\ w \in RowCounters
  BY DEF RowCounters, RowMayCount
<1>1. RowTypeOK'
  <2>1. Cardinality(RowCounters) \in Nat /\ Cardinality(RowCounters) # 0
    BY <1>c, FewerWorkers
  <2>2. done_count' \in 0 .. kComputeWorkers
    <3>1. /\ done_count \in Nat /\ done_count' = done_count + 1
          /\ done_count + Cardinality(RowCounters) <= kComputeWorkers
      BY DEF RowCountInv, RowTypeOK
    <3> HIDE DEF RowInv
    <3> QED BY <2>1, <3>1
  <2> QED BY <2>2 DEF RowTypeOK, RowLabels
<1>2. (EndInv /\ QuietInv /\ RowRoundInv)'
  BY <1>b DEF EndInv, QuietInv, Filling, CaughtUp, InRound, RowRoundInv,
     RowSumming, RowTypeOK
<1>3. RowCountInv'
  <2>1. RowCounters' \in SUBSET RowCounters /\ w \notin RowCounters'
    BY DEF RowCounters, RowMayCount, RowSumming, RowTypeOK, RowRoundInv, EndInv
  <2>2. /\ Cardinality(RowCounters') < Cardinality(RowCounters)
        /\ Cardinality(RowCounters) \in Nat
        /\ Cardinality(RowCounters') \in Nat
    BY <1>c, <2>1, FewerWorkers
  <2>3. done_count' = done_count + 1 /\ done_count \in Nat BY DEF RowTypeOK
  <2>4. (done_count + Cardinality(RowCounters) <= kComputeWorkers)'
    BY <2>2, <2>3 DEF RowCountInv
  <2> QED BY <1>b, <2>4 DEF RowCountInv, InRound
<1>4. RowJobInv' BY <1>b DEF RowJobInv, InRound, RowSumming, RowTypeOK
<1>5. RowDoneInv'
  <2>1. \A v \in Workers : wpc'[v] = "count" \/ CaughtUp(v)' =>
                             wpc[v] = "count" \/ CaughtUp(v)
    BY DEF CaughtUp, RowTypeOK
  <2> QED BY <2>1 DEF RowDoneInv, InRound
<1>6. (GatherInv /\ SentInv)' BY <1>b DEF GatherInv, SentInv, InRound
<1> QED BY <1>1, <1>2, <1>3, <1>4, <1>5, <1>6

\* What a step of these clients does to the round: an action of it, or nothing.
RowsRound ==
  \/ ParserTop
  \/ ParserIdle
  \/ ParserFeedPart
  \/ FeedLastRow
  \/ ResetDoneCount
  \/ PublishEpoch
  \/ WaitAllDone
  \/ WaitStop
  \/ Gather
  \/ SendAnswer
  \/ SendFails
  \/ SendKills
  \/ \E w \in Workers :
       \/ WorkerTop(w)
       \/ WorkerLoadEpoch(w)
       \/ RowTakeUp(w)
       \/ RowTurn(w)
       \/ StorePartial(w)
       \/ CountDone(w)
  \/ RequestStop
  \/ ReleaseWorkers

\* Every step of an earlier client is one of RowsRound or leaves the round
\* alone.
LEMMA RowSteps ==
  ASSUME EndsInOrder, [RowNext]_clientVars
  PROVE  RowsRound \/ UNCHANGED vars
<1>1. CASE EmptyOrClosed
  BY <1>1 DEF EmptyOrClosed, EndsInOrder, ParserIdle, RowsRound
<1>2. CASE PeerLeaves \/ Main \/ Io \/ Recv
  BY <1>2 DEF PeerLeaves, Main, Connect, SendName, JoinThreads, MainStops,
     MainReleases, JoinWorkers, Io, IoTop, IoReserve, IoStops, IoCloses,
     Recv, RecvPiece, RecvInterrupted, RecvEnds, RowsRound
<1>3. CASE SeeEmpty \/ FeedPart \/ FeedLastRow \/ SendFailsOrKills \/ RowRoundStep
  BY <1>3 DEF SeeEmpty, FeedPart, SendFailsOrKills, RowRoundStep, RowsRound
<1>4. ASSUME NEW w \in Workers, RowWorkerStep(w) PROVE RowsRound
  BY <1>4 DEF RowWorkerStep, RowsRound
<1>5. CASE UNCHANGED clientVars BY <1>5 DEF clientVars
<1> QED BY <1>1, <1>2, <1>3, <1>4, <1>5 DEF RowNext, RowParserStep

\* Flags are set, threads end and main moves on in the same order.
LEMMA RowEndsInOrder == RowSpec => []EndsInOrder
<1>1. ClientInit => EndsInOrder BY DEF ClientInit, Init, EndsInOrder
<1>2. ASSUME EndsInOrder, [RowNext]_clientVars PROVE EndsInOrder'
  <2> USE <1>2 DEF EndsInOrder
  <2>1. CASE PeerLeaves \/ Main \/ Io \/ Recv \/ SeeEmpty \/ EmptyOrClosed
             \/ FeedPart \/ SendFailsOrKills \/ UNCHANGED clientVars
    BY <2>1, EndsInOrderStep DEF ClientNext, ParserStep
  <2>2. CASE FeedLastRow
    BY <2>2 DEF FeedLastRow, Running, flags
  <2>3. CASE RowRoundStep
    BY <2>3 DEF RowRoundStep, ParserTop, ResetDoneCount, PublishEpoch,
       WaitAllDone, StartGather, WaitStop, Gather, SendAnswer, Running,
       shellVars, flags
  <2>4. ASSUME NEW w \in Workers, RowWorkerStep(w) PROVE EndsInOrder'
    BY <2>4 DEF RowWorkerStep, WorkerTop, WorkerLoadEpoch, RowTakeUp, RowTurn,
       StorePartial, CountDone, shellVars, flags, parserVars
  <2> QED BY <2>1, <2>2, <2>3, <2>4 DEF RowNext, RowParserStep
<1> QED BY <1>1, <1>2, PTL DEF RowSpec

\* The invariant of the earlier clients, for any challenges and any number of
\* workers, those the rows do not divide among included.
THEOREM RowInvariant == RowSpec => []RowInv
<1>1. ASSUME RowInv, EndsInOrder, [RowNext]_clientVars PROVE RowInv'
  <2>1. CASE RowsRound
    BY <1>1, <2>1, RowReads, RowFeedsLast, RowPublishes, RowWaits, RowGathers,
       RowSends, RowSendEnds, RowPolls, RowTakesUp, RowTurns, RowStores,
       RowCounts, RowStops DEF RowsRound
  <2>2. CASE UNCHANGED vars
    <3> USE <1>1, <2>2 DEF vars, flags, inputVars, sumVars, parserVars,
        workerVars, jobVars
    <3>1. (RowTypeOK /\ EndInv /\ QuietInv /\ RowRoundInv /\ RowCountInv)'
      BY DEF RowInv, RowTypeOK, EndInv, QuietInv, CaughtUp, RowRoundInv,
         RowSumming, RowCountInv, RowCounters, RowMayCount
    <3>2. (RowJobInv /\ RowDoneInv /\ GatherInv /\ SentInv)'
      BY DEF RowInv, RowJobInv, RowSumming, RowDoneInv, CaughtUp, GatherInv,
         SentInv
    <3> QED BY <3>1, <3>2 DEF RowInv
  <2> QED BY <1>1, <2>1, <2>2, RowSteps
<1> QED BY <1>1, RowInitially, RowEndsInOrder, PTL DEF RowSpec

\* The earlier clients promise what the current one does: a worker without any
\* rows, and rows that do not divide evenly, are no exception.
THEOREM RowsKeepPromise == RowSpec => IsReplies
<1>1. ClientInit => Promise!Init BY DEF ClientInit, Init, Promise!Init
<1>2. ASSUME RowInv, EndsInOrder, [RowNext]_clientVars
      PROVE  [Promise!Next]_(Promise!vars)
  <2>0. RowsRound \/ UNCHANGED vars BY <1>2, RowSteps
  <2>1. CASE UNCHANGED <<loaded, stop_requested, sent>>
    BY <2>1 DEF Promise!vars
  <2>2. CASE SendAnswer
    BY <1>2, <2>2, RowGatheredExact, SendAnswerReplies
       DEF SendAnswer, RowInv, RowTypeOK, RowJobInv, InRound, Promise!Next
  <2>3. CASE FeedLastRow
    <3>1. ~Promise!LastWasWrong
      BY <1>2, <2>3, NoneWrongYet DEF FeedLastRow, RowInv, RowTypeOK
    <3>2. UNCHANGED <<stop_requested, sent>> /\ loaded' = loaded + 1
      BY <2>3 DEF FeedLastRow, flags
    <3> QED BY <3>1, <3>2 DEF Promise!Next, Promise!Arrive
  <2>4. CASE SendFails \/ RequestStop
    BY <2>4 DEF SendFails, RequestStop, inputVars, parserVars, Promise!Next,
       Promise!Stop
  <2>5. CASE RowsRound /\ ~SendAnswer /\ ~FeedLastRow /\ ~SendFails
             /\ ~RequestStop
    BY <2>1, <2>5 DEF RowsRound, ParserTop, ParserIdle, ParserFeedPart,
       ResetDoneCount, PublishEpoch, WaitAllDone, WaitStop, Gather, SendKills,
       WorkerTop, WorkerLoadEpoch, RowTakeUp, RowTurn, StorePartial, CountDone,
       ReleaseWorkers, flags, inputVars, parserVars
  <2>6. CASE UNCHANGED vars
    BY <2>1, <2>6 DEF vars, parserVars, inputVars, flags
  <2> QED BY <2>0, <2>2, <2>3, <2>4, <2>5, <2>6
<1> QED
  BY <1>1, <1>2, RowInvariant, RowEndsInOrder, PTL
     DEF RowSpec, IsReplies, Promise!Spec

=============================================================================
