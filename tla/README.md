# Verification of the HFT Matrix Challenge

TLA+ models of the programs of this repository, checked with TLC on small
instances and, where it says so, proved with TLAPS for every value of the
constants. Source paths are relative to `src/`.

## 1. Inventory

A server streams challenges (an id, a size N and two N by N matrices, as text)
over TCP; a client parses each, computes a checksum of the product and sends
`challenge_id checksum` back.

| Component | State | Operations | Interacts through |
|---|---|---|---|
| Current client, compute round (`hftclient2026/main.cpp` 51-62, 310-353, 386-406, 434-490) | `SharedJob`: the challenge, `epoch`, `done_count`, `next_tile`, `partials`; each worker's `seen_epoch` | parser fills the job, publishes it, waits, adds up, sends; workers poll, claim tiles, store, count | atomics polled by 8 workers and the parser; `stop_requested` |
| Current client, ring buffer (64-141, 355-384, 408-432) | `buffer_`, `head_`, `tail_`, `closed_` | `reserveWriteSpan`, `commitWrite`, `peekReadSpan`, `consume`, `close` | one receiver and one parser thread, no lock |
| Current client, parser (143-288) | phase, number being read, indexes; the job | `feed`, `reset` | called by the parser thread between two rounds |
| Current client, main (492-593) | threads, `stop_requested`, the socket | connect, name, start, join, last epoch | joins |
| Reference server (`hftserver2026/main.cpp`) | `clients`, `currentChallenge`, `challengeId` | accept, a handler thread per client, broadcaster | `clientsMutex`, `challengeMutex`, sockets |
| Results file and dashboard (`hftserver2026/main.cpp` 81-147, `tools/blast_server.cpp` 112-159, `HFTDashboard/`) | `/tmp/results.json` | read, append, rewrite; read | the file, with no lock between programs |
| Blast server (`tools/blast_server.cpp`) | as the server, and an outbox and sender thread per client | modes, bursts | `qMutex`, `cv` |
| Team client (`hftclient2026/main_team.cpp`) | blocking ring, job queue, workers | write/read, push/pop, close, reconnect | condition variables |
| Earlier clients (`main_v1.cpp`, `main_v2.cpp`, `main_v3.cpp`) | v1: a string of pending bytes; v2, v3: the current client's, without `next_tile` | v1: append, parse from the beginning, answer; v2, v3: rows instead of tiles | as the current client |
| Placeholder client, scripts, CMake files | none worth a model | | |

What is hard here, and what makes each part correct:

* **Compute round.** The barrier is hand-made: the parser resets `next_tile` and
  `done_count` and bumps `epoch`, workers that poll may be anywhere. Right means:
  each answer is the whole product of its own challenge, no tile is missing or
  added twice, the plain memory of the job is not written while it is read, a
  round ends, and everything ends once `stop_requested` is set, in whichever
  place each thread is then.
* **Client as a whole.** Receiver, parser, workers and main stop each other through one
  flag, a closed ring and an epoch. Right means: what was received in full is answered,
  in order, as long as the server is there, and once it is not, every thread ends, also
  one that waits in `recv()`, on an empty or full ring, or for a join.
* **Ring.** `recv()` writes in place and the parser reads in place. Right means:
  the two spans never overlap, the parser sees the bytes received, in order,
  once each, the full ring drains.
* **Parser.** Right means: challenges come out as the server wrote them, each
  with its own last byte and not later; no byte stream makes it store outside
  the arrays; the team client's parser finds the same challenges, and the first client's
  does however `recv()` cuts the stream, but for one kind of cut.
* **Server.** Clients come and go during a broadcast, descriptors are reused,
  handlers run while the challenge is replaced, copied and logged. Right means:
  the log holds, for each challenge in order, answers to it and latencies
  measured from its own start (of the answers that came with their id, that is: the
  servers also take a single integer, for an answer to whatever is current); no handler
  reads another's connection; a slow client delays but does not stop the others.
* **Blast server.** Senders sleep on a condition variable, work outside the mutex
  and outlive their client. Right means: no outbox loses, doubles or reorders a
  challenge, a client that does not read stops nobody, the log is right although
  challenges of a burst never become current.
* **Team client.** Notifications without the mutex, a queue closed from two sides,
  workers that answer on one socket. Right means: answers are whole, one for each
  challenge, no queued job is forgotten, the workers end, and the client connects again
  when its server has gone (which it does not, see the findings).
* **Results file.** Rewritten in place. Right means: nothing logged is lost unless a
  server ends while it writes, and a dashboard never shows what was not so.
* **Checksum, winner.** Right means: the definition of the README, for every
  tiling and distribution; a fastest correct player.

## 2. Modules

| Module | What it models | Checked by | Proved in |
|---|---|---|---|
| `Replies` | abstract: what a client promises a server | refined by `ComputeRound` and `Client` (proved, and run `client`) and by `RowClient` (proved, and run `rows`): `IsReplies` | `ClientProofs` |
| `ComputeRound` | the round, its workers, stop and release | as a part of `Client` | `ClientProofs` |
| `Client` | the whole current client: main, receiver, ring, parser, round | `MCClient`, run `client` | `ClientProofs` |
| `RowClient` | the whole of v2 and v3 | `MCRowClient`, run `rows` | `ClientProofs` |
| `SpscRing` | the ring and the two loops that use it | run `ring` | `SpscRingProofs` |
| `ByteStream` | abstract: a bounded stream of bytes | refined by `SpscRing` and `BlockingRing` (`IsByteStream`) | `SpscRingProofs`, `BlockingRingProofs` |
| `ChallengeParser` | the parser, the answer that resets it, and the servers' serialisation as its input | `MCChallengeParser`, run `parser` | `ChallengeParserProofs` |
| `TeamParser`, `V1Client` | the team client's parser and the first client's loop, as operators | used by `Parsers` | `ChallengeParserProofs` |
| `Parsers` | the three parsers on one stream, which `recv()` cuts anywhere for the first client | `MCChallengeParser`, run `parser` | `ChallengeParserProofs` |
| `Protocol` | the text of challenges, as both servers write it | used by the parsers | |
| `Checksum` | the seven ways to the checksum | `MCLog`, run `log` | `ServerProofs` (last sections) |
| `AnswerText` | what clients send, and what `recv()` and `sscanf()` make of it, as operators | used by both servers | `ServerProofs`, `BlastServerProofs` |
| `Server` | accept loop, handlers, broadcaster | `MCServer`, runs `server`, `server_late` | `ServerProofs` |
| `BlastServer` | the same with outboxes, senders, bursts | `MCBlastServer`, run `blast` | `BlastServerProofs` |
| `LogEntry` | the winner and players of an entry | `MCLog`, run `log` | `ResultsProofs` |
| `Results` | the results file, both servers, a dashboard | `MCLog`, run `log` | `ResultsProofs` |
| `BlockingRing` | the team client's ring and its two threads | runs `blocking_ring`, `ring_wakeup` | `BlockingRingProofs` |
| `TeamClient` | all of its threads and main | `MCTeamClient`, runs `team`, `team_reconnect` | `TeamClientProofs` |

`Client` composes the current client: it EXTENDS `ComputeRound` and adds the threads around
the round. What is a stage of its own is taken there as its own module shows it:
the ring is a bounded stream of pieces (`SpscRing` implements `ByteStream`), the parser says
when a challenge is complete (`AnswersIntact`, `Prompt`), and what the sets of tiles add up
to is `Checksum`. The chain of refinements is `Client` => `ComputeRound` => `Replies`, both
links proved. `Replies` is where client and servers meet: of a client `Server` and `BlastServer`
assume less than it promises (some of the challenges read, each answered at most once, in
their order), so what holds there holds with these clients. `TeamClient` answers out of order,
which `Overtaking` bounds, and sends an answer in pieces; the servers record an answer that
comes with its id only for the current challenge, whatever its place in the stream, and
`recv()` may cut an answer anyway (`Split`). `TeamClient` likewise takes `BlockingRing` for a bounded
sequence of pieces (`IsByteStream`), and the servers' logs end where `LogEntry` and `Results`
begin.

### How state and actions correspond to the code

**ComputeRound.** One variable per atomic or field of `SharedJob`, `stop_requested`,
and program counters `ppc` (parser) and `wpc[w]` (workers), whose labels are the
points between two accesses to shared memory. Each atomic load, store or
`fetch_add` is an action: `ResetNextTile`, `ResetDoneCount`, `PublishEpoch` (441-443),
`WaitAllDone`, `WaitStop` (445-446), `Gather` (one `partials[i]` a step), `SendAnswer`,
`SendFails` (the process goes on to stop), `SendKills` (SIGPIPE, see the findings);
`WorkerTop`, `WorkerLoadEpoch`, `WorkerRecheck`, `ClaimTile`, `ComputeTile`,
`StorePartial`, `CountDone`. Relaxed accesses are interleaved like the others: each
of them is to one atomic whose own order is total, and the plain data is ordered
by the acquire/release pairs on `epoch` and `done_count`. A partial checksum is the
set of the tiles it is the sum of; `NoTileTwice` says why a set is enough. Reading
the job while it holds parts of two challenges yields tile `<<0, t>>`.
`RequestStop` stands for everyone who sets the flag outside the round; it may happen
at any moment. In the code the receiver sets it before it closes the ring, so a
closed ring implies it (`ParserIdle`); in `Client` that is proved (`IsRound`).

**Client.** `Connect` to `JoinWorkers` are main, `IoTop` to `IoCloses` and `RecvPiece`,
`RecvInterrupted`, `RecvEnds` the receiver. The parser finds the ring empty (`SeeEmpty`)
and tests whether it is closed (`EmptyOrClosed`) in two steps, feeds a span that ends within a challenge
(`FeedPart`) or up to its last byte (`FeedRest`), and goes on with the actions of
`ComputeRound`. `ReleaseWorkers` and `RequestStop` of `ComputeRound` are what main and the
receiver do there (`MainStops`, `MainReleases`, `IoStops`). The process may end where
`SendKills` says. The server is the environment: open, or gone at any moment
(`PeerLeaves`) with data still to be received.

**RowClient.** `RowTakeUp` and `RowTurn` replace the three tile actions; `next_tile` is not
there to be reset. The rows of worker w are `StartRow(w, N) .. EndRow(w, N) - 1`.

**Parsers.** `Char` feeds one character to all three. `team` is a record of
`ChallengeStreamParser`'s fields, `v1` what the first client has pending: with every
character `recv()` may return, and then `AnswerAll` is what main does before it calls it
again: `AnswerOne` once for every challenge that pending has room for. What `>>` of an
`istringstream` does is external (`Extract`, `Value`).

**SpscRing.** `head` and `tail` are not reduced, as in the code; byte number p of the
connection is the number p. `recv()` (`RecvByte`) and `feed()` (`FeedByte`) take one
byte a step with the other thread in between; `CommitWrite`, `Consume` publish.

**ChallengeParser.** One action per branch of `processChar`, one operator per case of
`finalizeNumber`. `Answer` is what `parserThread` does with a completed challenge,
`reset()` included.

**Server.** `Accept`/`PushClient` are main, `RecvName`, `RecvAnswer`, `Record`,
`HandlerEnds` a handler, `NewChallenge`, `StartBroadcast`, `Send`, `SendKills`,
`EndBroadcast`, `Snapshot`, `Log` the broadcaster. Sections under `challengeMutex` are
one step. `clientsMutex` is held from `StartBroadcast` to `EndBroadcast`, which is the
guard `bpc # "send"` of `PushClient`. The kernel is external: lowest free descriptor,
a bounded number of unread challenges per connection.

**AnswerText.** What a client has sent and `recv()` has not returned yet is a sequence of
numbers (and the name), each marked with the challenge it belongs to. A client answers with two
(`WithId`, as the clients of this repository do) or with one (`Alone`, as lines 181-182 of the reference
server allow). `recv()` returns any non-empty prefix of it, cut between two numbers or within one
(`Receipts`), and `sscanf()` finds two integers or one in that (`Parsed`): the first two numbers of
several answers run together, an id whose answer comes later, half of a number, the rest of a
name. What a checksum, or a part of a number, amounts to is any of `Numbers`, so that the rest of one
answer may be taken for the id of any challenge. A single integer has id -1, and `Record`
takes it for an answer to what is current by then (`IsCurrent`), with the time taken before.
`explicit` marks what was recorded under an id that its client gave with it. `Numbered`, `Plain` and `Split`
say which clients answer in which form, and of which `recv()` may return part of a message.

**BlastServer.** As `Server`, but the broadcaster fills outboxes (`PushOutbox`, under each
client's `qMutex`) and the senders empty them: `SenderTests` is the predicate of `wait()`
with `qMutex` held until `SenderSleeps`; `SenderSends` is outside the mutex, to whoever owns
the descriptor then. `HandlerEnds`, `HandlerNotifies`, `HandlerCloses` are the three lines
229-231, which take no mutex. `BurstChallenge` and `LogBurst` are a burst's turn.

**BlockingRing.** As `SpscRing`, with copies (`CopyIn`, `CopyOut`) instead of spans and a reader
that sleeps: `TestHead`, `TestClosed`, `Sleep` are apart because the writer notifies (`Notify`,
`NotifyClose`) without the mutex they hold. That a thread may read an old value is part of both
rings: a counter, `stop` and `closed_` only ever move one way, so a load that returns an old value is
that load made earlier, and the steps of the other thread in between are ones this thread does not depend on;
the data of the ring is ordered by the acquire and release of `head_` and `tail_`. There is one place where two
loads of one thread would have to change places: `closed_` is loaded relaxed (106), and `head_`
after it (108). There `Load` takes any value of `head_` since the one that was tested, though the ring
has been closed after it was written. `SpscRing` needs nothing of the kind: its
`closed_` is loaded with acquire, before the ring is looked at again.

**TeamClient.** A challenge arrives in two pieces; `JobQueue`'s calls are one step each, for
its mutex is held throughout. An answer takes `Parts` calls of `send()` (`SendPart`) under
`send_mtx`. `ParserFinish` is `finish()`, which may or may not complete a challenge cut by
the end of the stream. `Main` is the three joins and the test that decides on a reconnect. A ring that ends
with pieces in it (see the findings) is no behaviour of its own here: it ends only while the
client stops, and then what the other threads see of the parser is what they see of one that
has stayed at its loop's test of `stop` and leaves there.

**Results.** `Read`, `Truncate`, `Write` are the end of `logChallengeResult`; a `Write` brings any
further part of the text to the file. `Crash` is any end of a server; the next may be the
other one. What `nlohmann::json` leaves in its target when it throws (all it had parsed) is
external, and makes the difference between the two. `Open`, `ReadMore`, `Load` are a
dashboard's read, in as many `read()`s as it takes.

**LogEntry.** `Visit` is one turn of the loop, in any order of the players; `Finish` the rest.

**Checksum.** One operator per program. `Turns` are the turns of nested loops over blocks. `taker` says
which worker got what: a tile, for the clients with workers, or a cell of the product, for the team
client's OpenMP threads, whose `schedule(static)` deals cells out in ascending chunks (`InChunks`). A worker
reduces its own sum or not, as its program does.

## 3. Runs

| Run | Instance | What it shows |
|---|---|---|
| `client` | 2 workers; challenges of 2 tiles and of 1; a ring of 2 pieces | it implements `ComputeRound` and `Replies`; the job is stable while read; what is received is answered; it ends |
| `rows` | 2 workers; challenges of 3, 1 and 2 rows; a ring of 2 pieces | v2 and v3 implement `Replies`; what is received is answered; they end |
| `ring` | capacity 4, 9 bytes | the ring is a bounded byte stream; no overlap; what is committed is fed |
| `parser` | kMaxMatrixDim 2; all pairs of 12 challenges, with and without noise; all texts of 8 characters over digit 1, minus, space, other | challenges come out of all three parsers intact and at once, but for one cut of the first client's; consistency, bounds and agreement outside the protocol too |
| `server` | 2 connections under one name, the second's answers without ids, or 1 that stays, with answers of both forms received in any pieces; 2 challenges, 1 unread challenge per client; parts of numbers that amount to 1 or 2 | log, descriptors, deliveries; every challenge logged, every connection served |
| `server_late` | 1 connection, answers with ids, received in any pieces; 2 challenges | violated: an answer is logged with the next challenge (finding) |
| `blast` | 2 symmetric clients of which one answers, 2 challenges, the second a burst's; or 1 that stays, with answers of both forms received in any pieces, and 3 challenges; 1 unread challenge per client; parts of numbers that amount to 3 | log, outboxes and no lost wakeup, whose sender sends to whom, names |
| `log` | one stage at a time: N up to 3, tiles of 2, 2 workers, modulus 3; 3 names, one empty, 3 latencies, one negative, right and wrong answers; 4 entries, 2 ends of a server | all programs compute the checksum of the definition, whoever takes which tile or cell; the winner; the history and what is shown of it |
| `blocking_ring` | capacity 3, 7 bytes in pieces of 1 or 2 | a bounded byte stream; the copies stay apart; the reader ends only when it is closed |
| `ring_wakeup` | capacity 3, 2 bytes | violated: a lost notification (finding) |
| `team` | 2 workers, 3 challenges of 2 pieces, a ring of 2, answers in 2 parts | answers whole, once, how far out of order, cut only at the end; queued jobs are taken; once the queue is closed the workers end |
| `team_reconnect` | 2 workers, 1 challenge, a ring of 2, answers in 1 part | violated: no reconnect (finding) |

**Why the bounds are enough.** Two workers are the fewest that can disagree about a
round; with 2 and 1 tiles there are as many tiles as workers and fewer (a worker
finds none, or takes both), and the second round follows another whose
leftovers (counters, partials, epoch) it must survive; more rounds and more tiles are
in `rows` and, for every number, in the proofs. A ring of two pieces holds the end of one
challenge and the beginning of the next, and is full while the parser is in a round. Nine bytes take a ring of four
through two wraps, with every split of a span at its end. Eight characters are the
shortest complete challenge, so any text of that length reaches every phase and the completion.
Two connections are enough for one to get the descriptor of the other while the
first's entry is still in `clients`, two challenges for an answer, a latency or an
entry of the log to be taken for another's. In `server` and `blast` the MC module picks one of two kinds of behaviour
at the start (`pieces`); for both at once the states are too many, and the proofs cover that. One connection is enough for what `recv()` makes
of its messages, which no other client can touch; what a part of a number amounts to is the id of
a challenge that is to come, or that is current by then. In `blast` the second is a burst's, pushed
while the senders still have the first. Two team workers can overtake each other, and be
both asleep, both busy or one of each when a job is queued or the queue closed; three
challenges make one wait in the queue. N of 3 with tiles of 2 has whole and short tiles in
every direction, and uneven rows; 1 leaves a worker without any. Two ends of a server
tear a file that was torn before. Every property of a passing run is
also seen to fail on a plausible fault of the code (`PROJECT.json`, "mutants").

**Bounds named in the models**: `TotalTiles` (its length bounds the rounds), `MaxBytes`,
`AnyLength`, `Conversations`, `Conns`, `MaxChallenges`, `Challenges`, `MaxEntries` and `MaxCrashes`; each
bounds the input only. `Window` is the kernel's buffer; `BurstEvery`, `BurstLength`,
`RingPieces`, `Parts` are sizes of the code made small.

**Deadlock** is checked in none of the runs: the clients end, the rings' threads end, the
characters and the challenges are bounded, a team client may hang (see the findings), and `LogEntry` and `Checksum` compute one result. That nothing stops before it should is what
`ClientEnds`, `ReceivedIsAnswered`, `CommittedIsFed`, `QueueServed`, `WorkersEnd`, `ChallengesLogged` and
`AcceptedIsServed` say.

**Fairness.** `Client`, `RowClient`: weak fairness of main, of the receiver outside `recv()`, of the
parser and of every worker; they spin and yield, and the operating system runs every
thread again and again. A `send()` returns, because both servers read what their clients
answer. `recv()` need not return, unless the server has gone: then strong fairness of
`RecvEnds`, for `EINTR` takes the receiver away from `recv()` and back, and not for ever.
None for a server to leave or to send. `SpscRing`: weak fairness of the parser and of the
receiver outside `recv()`, which need not return; that is why `CommittedIsFed` speaks of
committed bytes. `ChallengeParser`, `Parsers`: none. `Server`: of the broadcaster, of the
clients' reading (`Fairness`; a client that stays reads on: with one that stays and does not
read, `send()` under `clientsMutex` holds everybody up for ever), and strong fairness
of `PushClient`, which waits for a mutex the broadcaster leaves alone for ten seconds
a round. The handlers need none. `BlockingRing`: none for its passing properties,
which are of safety; so are those of `BlastServer`. `TeamClient`: every thread; `recv()` and `send()` only once the server has gone; strong fairness of a worker
that waits for `send_mtx`, which the others release between any two answers.

## 4. Findings

* `ring_wakeup`: `hftclient2026/main_team.cpp:93` notifies without the mutex, the parser may sleep
  through it ("Blocks until data available", line 98).
* `team_reconnect`: `hftclient2026/main_team.cpp:446` promises a "clean reconnect on server disconnect" when
  `stop` is not set. The receiver has always set it (339) before main can join it: `Reconnects` is false. In the
  trace that TLC shows, main returns; it may also wait for ever: for a parser that slept through the notification
  of `close()` (line 68, the same race as above), or for a receiver that spins on a full ring (79) that nobody reads
  any more.
* `server_late`: `hftserver2026/main.cpp:213` takes a message of one integer for an answer to the challenge that is
  current under the lock, though its time was taken before (209) and it may be to an earlier challenge; two lines
  on it says "Only accept answers for the active challenge id" (`OnlyActive`). In the trace `recv()` returns "1 "
  and " 77" of "1 77": the id is taken for the answer, and recorded for challenge 2, which has begun in between, with
  a negative latency. A client that answers without ids, which lines 181-182 allow, needs no such cut.
  `tools/blast_server.cpp:221` does the same. What holds nevertheless is `LogMatches`.

Met while modelling, present in the models, and without a run of their own:

* `hftclient2026/main.cpp:446` leaves the wait when the client stops, and the sum of stale
  partials is sent as an answer (README.md:20-26 says what an answer is). `Replies` has it:
  only while stopping, and only as the last reply.
* The "best-effort" `send()` of `hftserver2026/main.cpp:271` raises SIGPIPE (`SendKills`).
* `hftserver2026/main.cpp:159` takes for a name whatever arrived first; a late handler may get
  the name and an answer (`RecvName`).
* A sender of `tools/blast_server.cpp:174` may use a descriptor that its handler has closed and
  another client has got; that client's answer may become part of its name.
  `StrangersOnlyAfterClose` says that this is the only way.
* `hftclient2026/main_team.cpp:106` loads `closed_` relaxed, so the load of `head_` after it (108) may return what it
  was before the ring was closed, and `read()` returns 0 ("closed and empty", 113) with bytes in the ring: the memory model
  of C++ allows that, ARM may do it, x86 does not. `Load` has it. `RingInv` says that it takes a closed ring, and
  that only a client that is stopping closes it: such a client may drop what is in the ring at the test of `stop` as well.
* A dashboard that reads during the rewrite of `hftserver2026/main.cpp:144` shows an empty history.
  `ShownWasTrue` says that it never shows a wrong one, unless a server ended while it wrote.
* `hftclient2026/main_v1.cpp:46` takes a number cut at the end of a chunk for complete. `V1Agrees`
  says that only the last number of a challenge is ever taken wrongly.

## 5. Proofs

Assumed: only the types of the constants (`ConstantsAssumption` of each module: at least
one worker, at least one tile per challenge, a capacity of at least one,
`kMaxMatrixDim` at least one, finitely many connections, and that the mark for
no connection is not one). `EntryAssumption`, `ChecksumAssumption` and `ConversationsAssumption` are named
below where they are needed.

**ComputeRound** (`ClientProofs`): `Invariant`, `TypeCorrect`, `WrongAnswers`, `InOrder`,
`TilesOnce`, `JobStable`, `KeepsPromise`. None of the properties is inductive: that an answer is whole says
nothing of a round half done. `IInv` adds, in conjuncts of their own:
`QuietInv`, the heart of it: while the parser touches the job (and past the barrier, unless stopping)
every worker has finished every published round. It holds because of `CountInv`: the
workers that have counted themselves and those that still may are never more than there
are workers, so `done_count = kComputeWorkers` leaves none that may (an argument about
cardinalities, in the lemmas before the steps). `RoundInv`: a worker in a round is in
the last one. `JobInv`: it reads the whole job of that round. `HeldInv`, `InFlightInv`, `SumsDisjoint`:
tiles of the current round are in sums only below `next_tile`, and in one place.
`CoverInv`: while not stopping, every tile below `next_tile` is in a sum or being computed, and
a worker that is done has seen `next_tile` run out; so when all are, all tiles are in.
`GatherInv`, `SentInv` carry that to the answer. `KeepsPromise` maps `ParserComplete` to
`Arrive`, `SendAnswer` to `Reply`, what sets the flag to `Stop` and all else to
stuttering; a wrong reply is the last because the parser sees the flag at its top
(`NoneWrongYet`).

**Client** (`ClientProofs`): `ImplementsRound`, `ClientInvariant`, and by them
`ClientKeepsPromise`, `ClientJobStable`, `ClientRoundInvariant`. Every step of the client is one of
the round or leaves it alone. The one step for which that takes an invariant is
`EmptyOrClosed`: the parser leaves on a closed ring, the round only when stopping; and main
releases the workers, which the round allows only when the parser has ended.
`EndsInOrder` gives both. `RingHolds` then needs the refinement (`loaded` and `dirty` belong to
the round), so it is proved last.

**RowClient** (`ClientProofs`): `RowInvariant`, `RowsKeepPromise`. No counter hands out the rows, so
`HeldInv`, `InFlightInv` and `CoverInv` go; the barrier is as before. `RowJobInv`: a worker that is adding up
holds the first rows of its share of the job, up to `tile`. `RowDoneInv`: one that is through with the round
has left its share, all of it. That the shares make up the product is arithmetic: `w * N / K`
grows with w, so two shares have no row in common (`SharesApart`), and row t is in the share of
the quotient of `K * t + K - 1` by N (`SharesCover`), whether or not K divides N, and when some
workers get no row. `RowGatheredExact` puts this and the barrier together. What concerns the answers
is proved once for both (`SendAnswerSent`, `SendAnswerReplies`). `RowInv` is no invariant of the run: all
it promises a reader is in `IsReplies`.

**SpscRing** (`SpscRingProofs`): `RingInvariant`, `Intact`, `NoRace`, `Implements`. `UnreadInv` says that
every byte between `tail` and `head` is in its cell; it survives `RecvByte` because two
positions less than `Capacity` apart have different cells (a lemma on `%`). `WriterInv`
and `ReaderInv` keep the spans where they were computed while the other thread's counter
moves on. `Implements` maps `CommitWrite`, `FeedByte`, `Consume` and `Close` to the
steps of `ByteStream` and all others to stuttering.

**BlockingRing** (`BlockingRingProofs`): `RingInvariant`, `Implements`, for every capacity and every
size of `recv()`. `CopiesInside` is to the two `memcpy()`s what `UnreadInv`, `WriterInv` and
`ReaderInv` are to the spans; the same lemmas on `%` serve both rings. That `read()` returns 0
only when the ring is closed (`EndsWhileStopping`) needs `PlacesInv`: the reader goes on
past `wait()` only with a byte or after `closed`.
`Implements` maps `Publish`, `CopyOut`, `Consume` and `Close`. Both theorems hold of the ring whose notification
can be lost: that breaks `AvailableIsRead`, not safety.

**Server** (`ServerProofs`): `ServerInvariant`, `LogIsRight`, `SentOnce`, for any connections, names, window and
number of challenges, whichever clients answer without ids and wherever `recv()` cuts. `DescriptorsInv` follows a
descriptor from `accept()` to the handler's `close()`. `LogMatches` rests on three invariants. `SentInv`: no message names a
challenge that has not begun, nor one later than the `now` taken with it, whatever pieces of it are returned
(`ReceiptsHeard`) and whatever is made of them (`ParsedUnderstood`): only an id next to its own answer is taken for
that answer's id as its client gave it. So an answer that came with its id and is found current under the mutex was timed in
the same challenge, though `now` was read before it; and any other was timed between its challenge and the current one.
`OwnedInv`: what is current, and the snapshot taken of it, fit the current challenge in this sense (`Fits`).
`CountedInv`: the log is one entry behind the counter until `Log`, so `challengeId - 1`, read
after the mutex is gone, is still the right number. `SentOnce` counts (lemmas on the cardinality of
the positions of an element of a sequence): during a broadcast a client has been sent the current
challenge no more often than the loop has passed an entry with its descriptor (`SendsInv`), and what
the loop has still to pass is the end of `clients` as it is (`TodoInv`), for only main adds to it, and
waits for the same mutex. Before the loop nobody has the challenge.

**TeamClient** (`TeamClientProofs`): `TypeCorrect`, `TeamInvariant`, `AnswersOnce`, `CutAtTheEnd`,
`OvertakingBounded`, for any number of workers, challenges, parts and pieces. `StreamInv`: the
pieces leave the ring in order, `held` is the challenge half taken, and the parser leaves its
loop only when stopping. `WireInv`: whoever has `send_mtx` has sent what is at the end of the
wire, so the parts of an answer follow each other; when the connection breaks in the middle of one,
nothing follows. `QueueInv`: the queue is in the order of the challenges, behind all that has
left it, and a challenge is in one hand only. `Overtaking` counts. It needs that nothing is
lost (`ServedInv`: a challenge pushed is in the queue, in a hand or answered, until the
connection breaks) and that the queue is in order: an earlier challenge without answer is then in
the hand of another worker, and no two are in the same hand.

**BlastServer** (`BlastServerProofs`): `BlastInvariant` (`TypeCorrect`, `NothingLost`,
`NoneLeftAsleep`), `LogCorrect`, `StrangersAfterClose`, for any clients, window, mode and bursts.
`AwakeInv`: between a sender's test of its outbox and its sleep the outbox stays empty, because
the broadcaster fills it under the `qMutex` that the sender holds. `RunInv` is what `OutboxLossless` rests on:
outbox, what the sender holds and what it has sent are consecutive ids that end
at the last id pushed (`Frontier`, which moves as the broadcaster passes a client), for clients
that stay, whose descriptor is still their own (`DescriptorsInv`); `ListsInv` says that the broadcaster
passes each client once. `CountedInv`
and `OwnedInv` are those of `Server`, with the challenges of a burst, which are logged though they
never become current: an answer to one, without an id, may be recorded for the challenge before the burst, but only after
that one's snapshot (`OwnedBy` holds of what is about to be logged, `TimedIn` of what is current). `StrangersInv` and `NameInv` tie what a stranger's sender has sent to the close before it.

**ChallengeParser** (`ChallengeParserProofs`): `ServersConverse`, `ParserInvariant`, `NoOverrun`,
`StreamInvariant`, `AnsweredIntact`, `AtOnce`, for every `kMaxMatrixDim`. `ParserInvariant` and `NoOverrun` hold of
every stream of characters: `CompleteInv` ties the phase to the indexes, without which `InBounds` does not survive
the change from A to B. The others are of the text that a server writes for challenges of any number, sizes
and values (`ConversationsAssumption`: what is received is any text, or what `Conversation` makes of
challenges with sizes between 1 and `kMaxMatrixDim`; beyond, see the hazards).

`ServersConverse` says what such a text is, without the parser: `marks[p]` is how far its first p characters have
got (challenge, number of it, digits of that), white space comes only after the whole of a number
(`MayWrite`), and the mark passes challenge i exactly at `ends[i]`. `Within` says that a piece of text leads from
one mark to another; pieces that fit can be put together (`WritesBoth`), so it is shown of digits
(`DigitsWritten`, the only place where decimal notation matters), of a number, of the numbers of a matrix, of a
challenge (`SerializeWritten`) and then of the whole (`SegmentMarks`, with `Growing` for the positions). The library's
induction theorems cannot be used here; `Induction` and `CountUp` say the same of a set, and that a
recursive function is what its equation says is shown for each (`DigitsDef`, `NumbersIs`, `TextIs`, `MarksAre`).

`StreamInv` ties every field of the parser to the mark: the field and index
are those of the number that the text is in, the value is what its digits amount to, all numbers
before it are in their places (`ProgressInv`), and the parser is complete exactly when the mark
begins a challenge not yet answered (`CompletedInv`). `NumberEnds` is the step that matters:
the last digit has been read, the white space stores the number, and the next number is expected where
`finalizeNumber` now waits for it (`StoreHeader`, `StoreA`, `StoreB`).

**Checksum** (`ServerProofs`): `ChecksumExact`, for every size, modulus, tile size, number of workers and every
distribution of tiles or cells. Assumed (`ChecksumAssumption`): modulus, tile and number of workers are at least one,
cells are reduced. The programs differ in the order of the products, in where they reduce, and in who adds what. A sum over a
finite set does not depend on the order in which it is folded (`SumRemove`), can be split into sums over its
parts (`SumOfSums`), and reducing on the way changes nothing once the end is reduced (`SumOfRemainders`, `SumModIs`,
`SumSubIs`). What is left is that every product is added exactly once: cells in row order and by rows and
columns are the same (`RowOfCell`, `CellsSum`), the rows of the workers are apart and cover all (`RowsApart`,
`RowsCover`), and so are the blocks of nested loops, the last ones short (`TurnsOfRows`, `TermsOfTile`).

**Parsers** (`ChallengeParserProofs`): `TeamParserInvariant`, `TeamParserAgrees`, for every stream, and
`FirstClientAgrees`, for the streams of a server without noise and every way `recv()` can cut them.
The team client's parser grows two sequences and compares their lengths with N * N; the current
client's fills arrays that still hold the last challenge, and compares indexes. `AlikeInv`: the same
phase, number and header, the lengths are the indexes, and the cells so far are equal. `ResetInv`: while
the current client has a complete challenge to answer, the team client has already reset and waits
for the next. `SameJobs` is the property. `finish()` finalises the number that the end has cut: it emits a
job only if that is the last of a challenge (`FinishOnce`), and then all other cells are those of the
text (`FinishCell`, by `StreamInv`).

The first client's `V1Inv` says two things of a stream that no `recv()` has cut within the last number of a challenge.
`Keeps`: the jobs are the first challenges, and pending is all of the text after the last of them, from before the first
digit of the next. `UpToDate`: after the inner loop the last digit of the next challenge has not come. `Keeps` holds of every
character that comes (`KeepsMore`); the work is in what the loop does to it. One extraction from between two numbers finds
white space to the end of pending, or the digits that have come of the next number (`ExtractIs`, by `DigitRun` along
the marks of the text); if characters follow them, they are all its digits (`WholeNumber`). So the numbers of a challenge are
read one after the other (`AllRead`), and a number that has only half come is harmless unless it is the last: then the
end of pending is a cut, and `V1Inv` claims nothing any more. What `consumed` leaves begins before the next challenge
(`ConsumedIs`), and as each turn takes four characters or more, the loop gets to a turn that finds nothing (`AnswerAllIs`).

**Results** (`ResultsProofs`): `ResultsInvariant`, `TornEntries`, `ShownTrue`, for any number of entries
and of ends of a server, and any parts in which the text is written and read. The lemmas say what
`Parsed` makes of a part of a text: the entries of which both pieces are there, one torn entry if
only one is, and that only the whole text parses (`ParsedPart`, `ParsesWhole`); `Text` is
inverted by `Parsed`. `FileInv`: while a server writes, the file is a part of the text of `all`, and
else of some history, whose entries are in order with at most `crashes` torn; the end of a
server within `Write` turns the one into the other and may tear one more (`HistoryPart`, which counts).
`HistoryInv`: as long as no write was cut, `all` is what was logged and one entry more, so
that the last part makes the file the text of the new history. `ShownTrue` needs `TextInv`, which speaks
of the pieces of two moments: each piece the dashboard has read is in its place in the history
as it is or is being written (`Now`, which only grows: `NowGrows`), or is the closing bracket of a history
there has been since the file was opened. A text that parses ends in such a bracket, so it is
that history (`TextShown`).

**LogEntry** (`ResultsProofs`): `Loop`, `Winner`, for every set of names and every order. Assumed
besides (`EntryAssumption`): latencies below `INT_MAX`, and that JSON's null is no name. `LoopInv` ties
`bestLatency` to `winner` and to the players seen; `WinnerIsFastest` alone says nothing before
the end.

**Only model-checked**: liveness (`ReceivedIsAnswered`, `ClientEnds`, `CommittedIsFed`,
`ChallengesLogged`, `AcceptedIsServed`, `QueueServed`, `WorkersEnd`),
which is beyond the prover. Every invariant and action property of the passing runs is stated by a theorem,
and so is every refinement.

## 6. Not modelled, and the plan

Left out on purpose: statistics and benchmark time stamps, socket options, wrong command
lines, numbers beyond `int` (undefined in the parser, and never sent), negative cells
(parsed, and never sent), the pages the dashboards draw, the placeholder client, v1's connecting and end.

To come, in this order:

1. An abstract queue that `TeamClient` implements; an abstract results log for `Results`.
2. Liveness of `BlastServer`, whose state space is too large for it as it stands.
