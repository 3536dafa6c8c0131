------------------------------- MODULE Results -------------------------------
(***************************************************************************)
(* /tmp/results.json: the end of logChallengeResult in both servers, which *)
(* reads the whole file, appends an entry and writes the whole file again, *)
(* in place; and the dashboards, which read it at any moment.  A server    *)
(* may be ended at any moment, and either of them started after it.        *)
(*                                                                         *)
(* An entry is the number of the call that logged it.  The file is a       *)
(* sequence of pieces, two to an entry and the closing bracket, so that it *)
(* can end between two entries or within one.  An object that was parsed   *)
(* to the end of the file but no further is Torn.                          *)
(***************************************************************************)
EXTENDS Integers, Sequences, FiniteSets

CONSTANTS
  MaxEntries,  \* bound of the entries logged
  MaxCrashes   \* bound of the ends of a server

ASSUME ConstantsAssumption == MaxEntries \in Nat /\ MaxCrashes \in Nat

VARIABLES
  exists, file,   \* /tmp/results.json
  running, pc,    \* the server that runs, and where it is in logChallengeResult
  calls, all,     \* calls so far; the local variable (allResults in the reference)
  crashes,
  rpc, text,      \* the dashboard; what it has read of the file
  shown,          \* what it made of it
  logged, torn,   \* ghosts: the calls that returned; a call was cut while it wrote
  since           \* ghost: Len(logged) when the dashboard opened the file

fileVars == <<exists, file>>
serverVars == <<running, pc, calls, all, crashes, logged, torn>>
readerVars == <<rpc, text, shown, since>>
vars == <<fileVars, serverVars, readerVars>>

Torn == 0
End == <<Torn, 3>>
Pieces == ((0 .. MaxEntries) \X {1, 2}) \cup {End}
Nothing == [ok |-> TRUE, entries |-> <<>>, from |-> 0, to |-> 0]

\* dump()
Text(es) ==
  [i \in 1 .. 2 * Len(es) + 1 |->
     IF i <= 2 * Len(es) THEN <<es[(i + 1) \div 2], 2 - (i % 2)>> ELSE End]

\* The elements parsed before the end of t, which is a file or a part of one.
Parsed(t) ==
  LET n == IF t # <<>> /\ t[Len(t)] = End THEN Len(t) - 1 ELSE Len(t)
  IN [i \in 1 .. (n + 1) \div 2 |-> IF 2 * i <= n THEN t[2 * i][1] ELSE Torn]

\* Mutant: what ends early is taken as well.
ParsesAny(t) == TRUE

Parses(t) == t = Text(Parsed(t))

Init ==
  /\ exists = FALSE
  /\ file = <<>>
  /\ running = "none"
  /\ pc = "idle"
  /\ calls = 0
  /\ all = <<>>
  /\ crashes = 0
  /\ rpc = "idle"
  /\ text = <<>>
  /\ shown = Nothing
  /\ logged = <<>>
  /\ torn = FALSE
  /\ since = 0

-----------------------------------------------------------------------------
(* The servers.                                                            *)

Start ==
  /\ running = "none"
  /\ running' \in {"reference", "blast"}
  /\ UNCHANGED <<pc, calls, all, crashes, logged, torn, fileVars>>

\* SIGPIPE, an interrupt.
Crash ==
  /\ running # "none"
  /\ crashes < MaxCrashes
  /\ crashes' = crashes + 1
  /\ running' = "none"
  /\ torn' = (torn \/ pc = "write")
  /\ pc' = "idle"
  /\ all' = <<>>
  /\ UNCHANGED <<calls, logged, fileVars>>

\* Mutant: the file is not read.
ReadBackNot == <<>>

\* A file that cannot be parsed is an empty history for the reference server;
\* the blast server keeps what had been parsed when json threw.
ReadBack ==
  IF exists /\ (Parses(file) \/ running = "blast") THEN Parsed(file) ELSE <<>>

\* Mutant: the newest entry first.
WithFront(es, e) == <<e>> \o es

With(es, e) == Append(es, e)

Read ==
  /\ running # "none" /\ pc = "idle"
  /\ calls < MaxEntries
  /\ calls' = calls + 1
  /\ all' = With(ReadBack, calls')
  /\ pc' = "open"
  /\ UNCHANGED <<running, crashes, logged, torn, fileVars>>

\* ofstream out(RESULTS_FILE)
Truncate ==
  /\ running # "none" /\ pc = "open"
  /\ exists' = TRUE
  /\ file' = <<>>
  /\ pc' = "write"
  /\ UNCHANGED <<running, calls, all, crashes, logged, torn>>

\* The text goes to the file in parts of any size; with the last the call is over.
Write ==
  /\ running # "none" /\ pc = "write"
  /\ \E n \in Len(file) + 1 .. Len(Text(all)) :
       /\ file' = SubSeq(Text(all), 1, n)
       /\ IF n = Len(Text(all))
          THEN pc' = "idle" /\ all' = <<>> /\ logged' = Append(logged, calls)
          ELSE UNCHANGED <<pc, all, logged>>
  /\ UNCHANGED <<exists, running, calls, crashes, torn>>

Server == (Start \/ Crash \/ Read \/ Truncate \/ Write) /\ UNCHANGED readerVars

-----------------------------------------------------------------------------
(* A dashboard: get_results and update_dashboard.                          *)

\* os.path.exists() and open(), or an empty history.
Open ==
  /\ rpc = "idle"
  /\ since' = Len(logged)
  /\ IF exists
     THEN rpc' = "read" /\ UNCHANGED shown
     ELSE shown' = [Nothing EXCEPT !.from = since', !.to = since'] /\ UNCHANGED rpc
  /\ UNCHANGED text

\* One read() of the file, from where the last one ended.
ReadMore ==
  /\ rpc = "read"
  /\ \E n \in Len(text) + 1 .. Len(file) : text' = text \o SubSeq(file, Len(text) + 1, n)
  /\ UNCHANGED <<rpc, shown, since>>

\* A read() that returns nothing, and json.load(); an exception shows nothing.
Load ==
  /\ rpc = "read"
  /\ Len(file) <= Len(text)
  /\ shown' = [ok |-> Parses(text),
               entries |-> IF Parses(text) THEN Parsed(text) ELSE <<>>,
               from |-> since, to |-> Len(logged)]
  /\ rpc' = "idle"
  /\ text' = <<>>
  /\ UNCHANGED since

Dashboard == (Open \/ ReadMore \/ Load) /\ UNCHANGED <<fileVars, serverVars>>

Next == Server \/ Dashboard

Spec == Init /\ [][Next]_vars

-----------------------------------------------------------------------------
(* Properties.                                                             *)

\* Every variable has its type; the history is never longer than the calls.
Entries == Seq(0 .. MaxEntries)
TypeOK ==
  /\ exists \in BOOLEAN
  /\ file \in Seq(Pieces)
  /\ running \in {"none", "reference", "blast"}
  /\ pc \in {"idle", "open", "write"}
  /\ calls \in 0 .. MaxEntries
  /\ all \in Entries /\ Len(all) <= calls
  /\ crashes \in 0 .. MaxCrashes
  /\ rpc \in {"idle", "read"}
  /\ text \in Seq(Pieces)
  /\ shown \in [ok : BOOLEAN, entries : Entries, from : Nat, to : Nat]
  /\ logged \in Entries
  /\ torn \in BOOLEAN
  /\ since \in Nat

\* Whatever servers have run, and wherever they were ended, the file holds all
\* that was logged whenever none is writing: unless one was ended while it wrote.
HistoryKept == ~torn /\ exists /\ pc # "write" => file = Text(logged)

\* Types, and a history that is kept from one server to the next.
ResultsInv == TypeOK /\ HistoryKept

\* Even then the entries that are left are in order and once each, and each end
\* of a server leaves at most one that is Torn.
AtMostOneTornPerCrash ==
  LET es == Parsed(file)
      ok == {i \in 1 .. Len(es) : es[i] # Torn}
  IN /\ \A i, j \in ok : i < j => es[i] < es[j]
     /\ pc # "write" => Cardinality(DOMAIN es \ ok) <= crashes

\* Though the file is rewritten under its hands, what a dashboard shows is nothing,
\* or the whole history as it was at one moment while it read.
ShownWasTrue ==
  ~torn /\ shown.ok =>
    \E n \in shown.from .. shown.to : shown.entries = SubSeq(logged, 1, n)

=============================================================================
