---------------------------- MODULE ComputeRound ----------------------------
(***************************************************************************)
(* One compute round of the current client (hftclient2026/main.cpp): the   *)
(* parser thread fills the SharedJob, publishes it to the compute workers  *)
(* by bumping its epoch, waits until every worker has counted itself done, *)
(* adds up the partial checksums and sends the answer; the workers claim   *)
(* tiles of the product from a shared counter until none is left.          *)
(*                                                                         *)
(* Abstraction of the data.  A checksum is a sum over the tiles of A*B, so *)
(* a partial checksum is represented by the set of tiles it is the sum of: *)
(* <<c, t>> is tile t of the c-th challenge of the stream, and <<0, t>> is *)
(* a tile computed while the job held parts of two challenges.  An answer  *)
(* is the right one when its partials hold every tile of its challenge     *)
(* exactly once.  Challenges are numbered by their place in the stream.    *)
(* Atomic accesses interleave (the acquire/release pairs on epoch and      *)
(* done_count order the plain accesses); the plain ints of partials, which *)
(* race when the parser gives up waiting, are read and written one at a    *)
(* time, so a racy read returns the old or the new value.                  *)
(***************************************************************************)
EXTENDS Integers, Sequences, FiniteSets

CONSTANTS
  kComputeWorkers,  \* number of compute threads
  TotalTiles        \* TotalTiles[c]: total_tiles of the c-th challenge

ASSUME ConstantsAssumption ==
  /\ kComputeWorkers \in Nat \ {0}
  /\ TotalTiles \in Seq(Nat \ {0})

Workers == 0 .. kComputeWorkers - 1
Challenges == 1 .. Len(TotalTiles)

VARIABLES
  stop_requested,  \* the flag every thread polls
  ppc,             \* where the parser thread is
  loaded,          \* the last challenge parsed completely into job (0: none)
  dirty,           \* job has been written to since that challenge completed
  gathered,        \* next index i of the loop that adds up job.partials[i]
  checksum,        \* the partials that loop has added up
  sent,            \* the answers sent to the server, in order
  epoch, done_count, next_tile, partials,  \* the other fields of SharedJob
  released,        \* main has bumped the epoch for the last time
  wpc,             \* where each worker thread is
  seen_epoch, total_tiles, tile, partial   \* the locals of each worker

flags == <<stop_requested, released>>
inputVars == <<loaded, dirty>>
sumVars == <<gathered, checksum>>
parserVars == <<ppc, inputVars, sumVars, sent>>
workerVars == <<wpc, seen_epoch, total_tiles, tile, partial>>
jobVars == <<epoch, done_count, next_tile, partials>>
vars == <<flags, parserVars, workerVars, jobVars>>

Init ==
  /\ stop_requested = FALSE
  /\ released = FALSE
  /\ ppc = "top"
  /\ loaded = 0
  /\ dirty = FALSE
  /\ gathered = 0
  /\ checksum = [w \in Workers |-> {}]
  /\ sent = <<>>
  /\ epoch = 0
  /\ done_count = 0
  /\ next_tile = 0
  /\ partials = [w \in Workers |-> {}]
  /\ wpc = [w \in Workers |-> "check"]
  /\ seen_epoch = [w \in Workers |-> 0]
  /\ total_tiles = [w \in Workers |-> 0]
  /\ tile = [w \in Workers |-> 0]
  /\ partial = [w \in Workers |-> {}]

-----------------------------------------------------------------------------
(* The parser thread.                                                      *)

\* Mutant: while (true).
ParserTopNoStopCheck ==
  /\ ppc = "top"
  /\ ppc' = "peek"
  /\ UNCHANGED <<flags, inputVars, sumVars, sent, workerVars, jobVars>>

\* while (!stop_requested.load())
ParserTop ==
  /\ ppc = "top"
  /\ ppc' = IF stop_requested THEN "done" ELSE "peek"
  /\ UNCHANGED <<flags, inputVars, sumVars, sent, workerVars, jobVars>>

\* Nothing to read: the loop goes round again, or ends when the ring is
\* closed, which the receiver does only after it has set stop_requested.
ParserIdle ==
  /\ ppc = "peek"
  /\ \/ ppc' = "top"
     \/ stop_requested /\ ppc' = "done"
  /\ UNCHANGED <<flags, inputVars, sumVars, sent, workerVars, jobVars>>

\* The span ends inside a challenge, some of whose numbers are now in job.
ParserFeedPart ==
  /\ ppc = "peek"
  /\ loaded < Len(TotalTiles)
  /\ dirty' = TRUE
  /\ ppc' = "top"
  /\ UNCHANGED <<flags, loaded, sumVars, sent, workerVars, jobVars>>

\* The span holds the last number of the next challenge: job is complete.
ParserComplete ==
  /\ ppc = "peek"
  /\ loaded < Len(TotalTiles)
  /\ loaded' = loaded + 1
  /\ dirty' = FALSE
  /\ ppc' = "reset_tile"
  /\ UNCHANGED <<flags, sumVars, sent, workerVars, jobVars>>

ResetNextTile ==
  /\ ppc = "reset_tile"
  /\ next_tile' = 0
  /\ ppc' = "reset_done"
  /\ UNCHANGED <<flags, inputVars, sumVars, sent, workerVars, epoch,
                 done_count, partials>>

ResetDoneCount ==
  /\ ppc = "reset_done"
  /\ done_count' = 0
  /\ ppc' = "publish"
  /\ UNCHANGED <<flags, inputVars, sumVars, sent, workerVars, epoch,
                 next_tile, partials>>

PublishEpoch ==
  /\ ppc = "publish"
  /\ epoch' = epoch + 1
  /\ ppc' = "wait"
  /\ UNCHANGED <<flags, inputVars, sumVars, sent, workerVars, done_count,
                 next_tile, partials>>

\* int checksum = 0; for (int i = 0; ...
StartGather ==
  /\ ppc' = "gather"
  /\ gathered' = 0
  /\ checksum' = [w \in Workers |-> {}]

\* Mutant: the wait ends when all workers but one have arrived.
WaitAllButOne ==
  /\ ppc = "wait"
  /\ IF done_count < kComputeWorkers - 1
     THEN ppc' = "wait_stop" /\ UNCHANGED sumVars
     ELSE StartGather
  /\ UNCHANGED <<flags, inputVars, sent, workerVars, jobVars>>

\* while (job.done_count.load() < kComputeWorkers)
WaitAllDone ==
  /\ ppc = "wait"
  /\ IF done_count < kComputeWorkers
     THEN ppc' = "wait_stop" /\ UNCHANGED sumVars
     ELSE StartGather
  /\ UNCHANGED <<flags, inputVars, sent, workerVars, jobVars>>

\* Mutant: the wait loop has no break.
WaitStopNoBreak ==
  /\ ppc = "wait_stop"
  /\ ppc' = "wait"
  /\ UNCHANGED <<flags, inputVars, sumVars, sent, workerVars, jobVars>>

\*   if (stop_requested.load()) break;
WaitStop ==
  /\ ppc = "wait_stop"
  /\ IF stop_requested
     THEN StartGather
     ELSE ppc' = "wait" /\ UNCHANGED sumVars
  /\ UNCHANGED <<flags, inputVars, sent, workerVars, jobVars>>

\* checksum += job.partials[i]
Gather ==
  /\ ppc = "gather"
  /\ checksum' = [checksum EXCEPT ![gathered] = partials[gathered]]
  /\ gathered' = gathered + 1
  /\ ppc' = IF gathered' < kComputeWorkers THEN "gather" ELSE "send"
  /\ UNCHANGED <<flags, inputVars, sent, workerVars, jobVars>>

\* sendAll returns true; parser.reset() forgets the completed challenge.
SendAnswer ==
  /\ ppc = "send"
  /\ sent' = Append(sent, [id |-> loaded, parts |-> checksum])
  /\ ppc' = "top"
  /\ UNCHANGED <<flags, inputVars, sumVars, workerVars, jobVars>>

\* sendAll returns false
SendFails ==
  /\ ppc = "send"
  /\ stop_requested' = TRUE
  /\ ppc' = "done"
  /\ UNCHANGED <<released, inputVars, sumVars, sent, workerVars, jobVars>>

\* send() raises SIGPIPE, whose default action ends the process.
SendKills ==
  /\ ppc = "send"
  /\ ppc' = "killed"
  /\ wpc' = [w \in Workers |-> "killed"]
  /\ UNCHANGED <<flags, inputVars, sumVars, sent, seen_epoch, total_tiles,
                 tile, partial, jobVars>>

-----------------------------------------------------------------------------
(* The worker threads.                                                     *)

\* while (!stop_requested.load())
WorkerTop(w) ==
  /\ wpc[w] = "check"
  /\ wpc' = [wpc EXCEPT ![w] = IF stop_requested THEN "done" ELSE "load"]
  /\ UNCHANGED <<flags, parserVars, jobVars, seen_epoch, total_tiles, tile,
                 partial>>

WorkerLoadEpoch(w) ==
  /\ wpc[w] = "load"
  /\ seen_epoch' = [seen_epoch EXCEPT ![w] = epoch]
  /\ wpc' = [wpc EXCEPT ![w] = IF epoch = seen_epoch[w] THEN "check"
                                                        ELSE "recheck"]
  /\ UNCHANGED <<flags, parserVars, jobVars, total_tiles, tile, partial>>

\* The second look at stop_requested, and the prologue of
\* computePartialChecksum, which reads job.N.
WorkerRecheck(w) ==
  /\ wpc[w] = "recheck"
  /\ IF stop_requested
     THEN /\ wpc' = [wpc EXCEPT ![w] = "done"]
          /\ UNCHANGED <<total_tiles, partial>>
     ELSE /\ wpc' = [wpc EXCEPT ![w] = "claim"]
          /\ total_tiles' = [total_tiles EXCEPT ![w] =
                               IF loaded = 0 THEN 0 ELSE TotalTiles[loaded]]
          /\ partial' = [partial EXCEPT ![w] = {}]
  /\ UNCHANGED <<flags, parserVars, jobVars, seen_epoch, tile>>

\* const int tile = job.next_tile.fetch_add(1); if (tile >= total_tiles) break;
ClaimTile(w) ==
  /\ wpc[w] = "claim"
  /\ next_tile' = next_tile + 1
  /\ tile' = [tile EXCEPT ![w] = next_tile]
  /\ wpc' = [wpc EXCEPT ![w] = IF next_tile < total_tiles[w] THEN "tile"
                                                             ELSE "store"]
  /\ UNCHANGED <<flags, parserVars, epoch, done_count, partials, seen_epoch,
                 total_tiles, partial>>

\* The three inner loops over the tile, which read job.A and job.B.
ComputeTile(w) ==
  /\ wpc[w] = "tile"
  /\ partial' = [partial EXCEPT ![w] =
                   @ \cup {<<IF dirty THEN 0 ELSE loaded, tile[w]>>}]
  /\ wpc' = [wpc EXCEPT ![w] = "claim"]
  /\ UNCHANGED <<flags, parserVars, jobVars, seen_epoch, total_tiles, tile>>

\* Mutant: job.partials[worker_id] += partial.
StorePartialAdds(w) ==
  /\ wpc[w] = "store"
  /\ partials' = [partials EXCEPT ![w] = @ \cup partial[w]]
  /\ wpc' = [wpc EXCEPT ![w] = "count"]
  /\ UNCHANGED <<flags, parserVars, epoch, done_count, next_tile, seen_epoch,
                 total_tiles, tile, partial>>

StorePartial(w) ==
  /\ wpc[w] = "store"
  /\ partials' = [partials EXCEPT ![w] = partial[w]]
  /\ wpc' = [wpc EXCEPT ![w] = "count"]
  /\ UNCHANGED <<flags, parserVars, epoch, done_count, next_tile, seen_epoch,
                 total_tiles, tile, partial>>

\* Mutant: a worker that found no tile left does not count itself.
CountDoneIfUseful(w) ==
  /\ wpc[w] = "count"
  /\ done_count' = IF partial[w] = {} THEN done_count ELSE done_count + 1
  /\ wpc' = [wpc EXCEPT ![w] = "check"]
  /\ UNCHANGED <<flags, parserVars, epoch, next_tile, partials, seen_epoch,
                 total_tiles, tile, partial>>

CountDone(w) ==
  /\ wpc[w] = "count"
  /\ done_count' = done_count + 1
  /\ wpc' = [wpc EXCEPT ![w] = "check"]
  /\ UNCHANGED <<flags, parserVars, epoch, next_tile, partials, seen_epoch,
                 total_tiles, tile, partial>>

Worker(w) ==
  \/ WorkerTop(w)
  \/ WorkerLoadEpoch(w)
  \/ WorkerRecheck(w)
  \/ ClaimTile(w)
  \/ ComputeTile(w)
  \/ StorePartial(w)
  \/ CountDone(w)

-----------------------------------------------------------------------------
(* The threads outside the round.                                          *)

\* The receiver thread, or main after the joins, asks every thread to stop.
RequestStop ==
  /\ stop_requested' = TRUE
  /\ UNCHANGED <<released, parserVars, workerVars, jobVars>>

\* main, once it has joined the parser: one last epoch, so that a worker
\* about to load it leaves the loop by its second look at stop_requested.
ReleaseWorkers ==
  /\ ppc = "done"
  /\ stop_requested
  /\ ~released
  /\ released' = TRUE
  /\ epoch' = epoch + 1
  /\ UNCHANGED <<stop_requested, parserVars, workerVars, done_count,
                 next_tile, partials>>

Parser ==
  \/ ParserTop
  \/ ParserIdle
  \/ ParserFeedPart
  \/ ParserComplete
  \/ ResetNextTile
  \/ ResetDoneCount
  \/ PublishEpoch
  \/ WaitAllDone
  \/ WaitStop
  \/ Gather
  \/ SendAnswer
  \/ SendFails
  \/ SendKills

Next ==
  \/ Parser
  \/ \E w \in Workers : Worker(w)
  \/ RequestStop
  \/ ReleaseWorkers

Spec == Init /\ [][Next]_vars

-----------------------------------------------------------------------------
(* Properties.                                                             *)

Tiles == {0} \cup Challenges
TileSets == SUBSET (Tiles \X Nat)

ParserLabels == {"top", "peek", "reset_tile", "reset_done", "publish", "wait",
                 "wait_stop", "gather", "send", "done", "killed"}
WorkerLabels == {"check", "load", "recheck", "claim", "tile", "store",
                 "count", "done", "killed"}

\* Every variable has its type; in particular done_count, which the parser
\* compares with kComputeWorkers, never counts a worker twice in a round.
TypeOK ==
  /\ stop_requested \in BOOLEAN
  /\ released \in BOOLEAN
  /\ ppc \in ParserLabels
  /\ loaded \in Tiles
  /\ dirty \in BOOLEAN
  /\ gathered \in 0 .. kComputeWorkers
  /\ checksum \in [Workers -> TileSets]
  /\ sent \in Seq([id : Tiles, parts : [Workers -> TileSets]])
  /\ epoch \in Nat
  /\ done_count \in 0 .. kComputeWorkers
  /\ next_tile \in Nat
  /\ partials \in [Workers -> TileSets]
  /\ wpc \in [Workers -> WorkerLabels]
  /\ seen_epoch \in [Workers -> Nat]
  /\ total_tiles \in [Workers -> Nat]
  /\ tile \in [Workers -> Nat]
  /\ partial \in [Workers -> TileSets]

\* A partial-by-partial account of challenge c counts each of its tiles
\* exactly once and nothing else.
CoversOnce(parts, c) ==
  /\ UNION {parts[w] : w \in Workers} = {c} \X (0 .. TotalTiles[c] - 1)
  /\ \A v, w \in Workers : v # w => parts[v] \cap parts[w] = {}

Exact(answer) == CoversOnce(answer.parts, answer.id)

\* Every answer carries the whole product of its challenge, except possibly
\* the last one, and that one only once the client is stopping: the wait
\* loop may be left early by its break on stop_requested.
WrongOnlyAtShutdown ==
  \A i \in 1 .. Len(sent) :
    Exact(sent[i]) \/ (i = Len(sent) /\ stop_requested)

\* The i-th answer is that of the i-th challenge of the stream: no challenge
\* is skipped or answered twice by a stale or repeated round.
AnswersInOrder == \A i \in 1 .. Len(sent) : sent[i].id = i

\* The round's answers are the replies the client promises: one for each
\* challenge loaded, in order, the whole product, unless stopping and then the
\* last one.
Promise == INSTANCE Replies WITH
             arrived <- loaded, stopping <- stop_requested,
             replies <- [i \in 1 .. Len(sent) |->
                           [id |-> sent[i].id, whole |-> Exact(sent[i])]]
IsReplies == Promise!Spec

\* No tile is in the sums of two workers, nor added twice by one, although
\* next_tile is reset for every round while the workers keep polling.  (This
\* is also why a set can stand for a sum.)
SumsDisjoint ==
  \A v, w \in Workers :
    v # w => (partial[v] \cup partials[v]) \cap (partial[w] \cup partials[w]) = {}
NoTileTwice ==
  /\ SumsDisjoint
  /\ \A w \in Workers : wpc[w] = "tile" => <<loaded, tile[w]>> \notin partial[w]

\* job.N, job.A and job.B are plain memory: the parser never writes them
\* from the moment a worker has taken up a round until that worker has read
\* its last tile, even when the parser gave up waiting for it.
Reading(w) == wpc[w] \in {"recheck", "claim", "tile"}
JobStableWhileRead ==
  [][(\E w \in Workers : Reading(w)) => UNCHANGED <<loaded, dirty>>]_vars

-----------------------------------------------------------------------------
(***************************************************************************)
(* The inductive invariant behind these properties, one conjunct per idea. *)
(***************************************************************************)

Filling == {"peek", "reset_tile", "reset_done", "publish"}
InRound == {"wait", "wait_stop", "gather", "send"}
Summing(w) == wpc[w] \in {"claim", "tile", "store"}

\* Worker w has finished every round published so far.
CaughtUp(w) ==
  wpc[w] \in {"check", "load", "done"} /\ seen_epoch[w] = epoch

\* Worker w may yet add one to done_count.
MayCount(w) ==
  \/ Summing(w) \/ wpc[w] = "count"
  \/ /\ ~stop_requested
     /\ \/ wpc[w] = "recheck"
        \/ wpc[w] \in {"check", "load"} /\ seen_epoch[w] # epoch

\* What worker w has added up in the current round so far.
Contribution(w) == IF Summing(w) THEN partial[w] ELSE partials[w]

\* Threads end for a reason, and main releases the workers last.
EndInv ==
  /\ ppc = "done" => stop_requested
  /\ released => ppc = "done"
  /\ \A w \in Workers :
       /\ wpc[w] = "done" => stop_requested
       /\ wpc[w] = "killed" <=> ppc = "killed"

\* The parser touches the job only while every worker is between rounds, and
\* gets past the barrier, unless stopping, only when all have arrived.
QuietInv ==
  (ppc \in Filling \/ (ppc \in {"top", "gather", "send"} /\ ~stop_requested))
    => \A w \in Workers : CaughtUp(w)

\* A worker inside a round is in the last one published; main's release is
\* not a round, and comes after the parser has ended.
RoundInv ==
  \A w \in Workers :
    (wpc[w] \in {"recheck", "count"} \/ Summing(w)) /\ ~released
      => seen_epoch[w] = epoch

\* The workers that have counted themselves and those that may yet do so
\* never exceed the number of workers.
Counters == {w \in Workers : MayCount(w)}
CountInv ==
  /\ done_count + Cardinality(Counters) <= kComputeWorkers
  /\ ppc = "publish" => done_count = 0

\* From publication to answer the job is whole; a worker that is adding up
\* tiles does so for that job and has its number of tiles.
JobInv ==
  /\ ppc \in {"reset_tile", "reset_done", "publish"} \cup InRound
       => loaded \in Challenges /\ ~dirty
  /\ ppc \in {"reset_done", "publish"} => next_tile = 0
  /\ \A w \in Workers : Summing(w) =>
       /\ loaded \in Challenges
       /\ ~dirty
       /\ total_tiles[w] = TotalTiles[loaded]
  /\ \A w \in Workers : wpc[w] = "tile" =>
       tile[w] < next_tile /\ tile[w] < total_tiles[w]

\* Every tile in a sum is a tile of some challenge so far, and a tile of the
\* current one only if next_tile has passed it in the current round.
HeldInv ==
  \A w \in Workers : \A x \in partial[w] \cup partials[w] :
    /\ x[1] \in Challenges
    /\ x[2] < TotalTiles[x[1]]
    /\ x[1] <= loaded
    /\ x[1] = loaded => /\ x[2] < next_tile
                        /\ ppc \notin {"reset_tile", "reset_done", "publish"}

\* A tile being computed is in no sum yet, and no two workers compute it.
InFlightInv ==
  \A v, w \in Workers : wpc[w] = "tile" =>
    /\ <<loaded, tile[w]>> \notin partial[v] \cup partials[v]
    /\ (wpc[v] = "tile" /\ v # w) => tile[v] # tile[w]

\* While not stopping, a worker that has taken up the round and has no tile
\* left has seen next_tile run out, its sum holds tiles of this challenge
\* only, and every tile next_tile has passed is in a sum or being computed.
TookUp(w) == Summing(w) \/ wpc[w] = "count" \/ CaughtUp(w)
OutOfTiles(w) == wpc[w] \in {"store", "count"} \/ CaughtUp(w)
CoverInv ==
  (ppc \in InRound /\ ~stop_requested) =>
    /\ \A w \in Workers : TookUp(w) =>
         \A x \in Contribution(w) : x[1] = loaded
    /\ \A w \in Workers :
         OutOfTiles(w) => next_tile >= TotalTiles[loaded]
    /\ \A t \in 0 .. TotalTiles[loaded] - 1 : t < next_tile =>
         \E w \in Workers :
           \/ (TookUp(w) /\ <<loaded, t>> \in Contribution(w))
           \/ (wpc[w] = "tile" /\ tile[w] = t)

\* The partials read so far are those the workers have left.
GatherInv ==
  /\ ppc = "gather" => gathered < kComputeWorkers
  /\ ppc = "send" => gathered = kComputeWorkers
  /\ (ppc \in {"gather", "send"} /\ ~stop_requested) =>
       \A w \in Workers : w < gathered => checksum[w] = partials[w]

\* The answers sent, and when a wrong one may be among them.
SentInv ==
  /\ ppc \in {"top", "peek"} => Len(sent) = loaded
  /\ ppc \in {"reset_tile", "reset_done", "publish"} \cup InRound
       => Len(sent) = loaded - 1
  /\ \A i \in 1 .. Len(sent) :
       /\ i \in Challenges
       /\ sent[i].id = i
       /\ \/ Exact(sent[i])
          \/ /\ i = Len(sent)
             /\ stop_requested
             /\ ppc \in {"top", "done"}

IInv ==
  /\ TypeOK
  /\ EndInv
  /\ QuietInv
  /\ RoundInv
  /\ CountInv
  /\ JobInv
  /\ HeldInv
  /\ InFlightInv
  /\ SumsDisjoint
  /\ CoverInv
  /\ GatherInv
  /\ SentInv

=============================================================================
