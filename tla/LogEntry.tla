------------------------------ MODULE LogEntry ------------------------------
(***************************************************************************)
(* The entry that logChallengeResult of both servers writes for a          *)
(* challenge: a loop over an unordered_map, in whichever order that has,   *)
(* chooses the winner; the players are logged after it.  The winner is     *)
(* kept as a name, and the empty name stands for none.                     *)
(*                                                                         *)
(* A latency may be negative: the time of an answer of one integer is      *)
(* taken before the challenge it is counted for begins.                    *)
(***************************************************************************)
EXTENDS Integers

CONSTANTS
  Names,         \* of the clients
  Empty,         \* a name of white space only, and the initial value of winner
  Latencies, Answers, correctAnswer,
  INT_MAX,
  Null           \* of json, which is no name

ASSUME EntryAssumption ==
  /\ Latencies \subseteq Int
  /\ INT_MAX \in Int
  /\ Null \notin Names
  /\ \A l \in Latencies : l < INT_MAX

VARIABLES
  latencies, answers,  \* of those that answered, copied from the challenge
  todo,                \* those the loop has not come to
  winner, bestLatency,
  entry

inputVars == <<latencies, answers>>
entryVars == <<inputVars, todo, winner, bestLatency, entry>>

NoEntry == [logged |-> FALSE]

\* A handler sets both maps together.
EntryInit ==
  /\ \E players \in SUBSET Names :
       /\ latencies \in [players -> Latencies]
       /\ answers \in [players -> Answers]
       /\ todo = players
  /\ winner = Empty
  /\ bestLatency = INT_MAX
  /\ entry = NoEntry

IsCorrect(name) == answers[name] = correctAnswer

\* Mutant: any answer counts.
BeatsIfWrong(name) == latencies[name] < bestLatency

Beats(name) == IsCorrect(name) /\ latencies[name] < bestLatency

\* One turn of the first loop.
Visit(name) ==
  /\ name \in todo
  /\ todo' = todo \ {name}
  /\ IF Beats(name)
     THEN winner' = name /\ bestLatency' = latencies[name]
     ELSE UNCHANGED <<winner, bestLatency>>
  /\ UNCHANGED <<inputVars, entry>>

\* The winner and the players of the entry.
Finish ==
  /\ todo = {} /\ entry = NoEntry
  /\ entry' = [logged |-> TRUE,
               winner |-> IF winner = Empty THEN Null ELSE winner,
               players |-> [name \in DOMAIN latencies |->
                              [latency_ms |-> latencies[name],
                               answer |-> answers[name],
                               correct |-> IsCorrect(name)]]]
  /\ UNCHANGED <<inputVars, todo, winner, bestLatency>>

EntryNext == (\E name \in todo : Visit(name)) \/ Finish

EntrySpec == EntryInit /\ [][EntryNext]_entryVars

-----------------------------------------------------------------------------
(* Properties.                                                             *)

Correct == {name \in DOMAIN latencies : IsCorrect(name)}
Fastest == {name \in Correct : \A other \in Correct : latencies[name] <= latencies[other]}

\* The inductive invariant of the loop: winner is a fastest of the correct players
\* it has come to, or there are none.
LoopInv ==
  /\ DOMAIN latencies \subseteq Names
  /\ latencies \in [DOMAIN latencies -> Latencies]
  /\ todo \subseteq DOMAIN latencies
  /\ LET seen == Correct \ todo IN
       IF seen = {}
       THEN winner = Empty /\ bestLatency = INT_MAX
       ELSE /\ winner \in seen
            /\ bestLatency = latencies[winner]
            /\ \A other \in seen : bestLatency <= latencies[other]
  /\ entry.logged =>
       /\ todo = {}
       /\ entry.winner = IF winner = Empty THEN Null ELSE winner

\* "Determine winner: fastest correct answer": in whatever order the map has its
\* players, the winner is one of the fastest correct ones; it is null only if
\* nobody was correct, or one of the fastest has the empty name.
WinnerIsFastest ==
  entry.logged =>
    IF entry.winner = Null
    THEN Fastest = {} \/ Empty \in Fastest
    ELSE entry.winner \in Fastest

=============================================================================
