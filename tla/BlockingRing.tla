---------------------------- MODULE BlockingRing ----------------------------
(***************************************************************************)
(* RingBuffer of the team client (hftclient2026/main_team.cpp) and the two *)
(* threads that use it: ioReceiverThread copies what recv() returned into  *)
(* the ring, parserThread copies it out and sleeps on a condition variable *)
(* while there is nothing.  The writer notifies without holding the mutex: *)
(* a notification that comes after the reader's test and before it sleeps  *)
(* wakes nobody.  (Only the reader ever takes the mutex, which therefore   *)
(* excludes nobody and is left out.)                                       *)
(*                                                                         *)
(* A value that a thread reads may be an old one, as if it had been read   *)
(* earlier; only where a relaxed load of closed_ is followed by a load of  *)
(* head_ does that put the second before the first.                        *)
(*                                                                         *)
(* Byte number p of the connection is the number p; both memcpy()s go byte *)
(* by byte.  head_ and tail_ are unbounded, as in SpscRing.                *)
(***************************************************************************)
EXTENDS Integers, Sequences

CONSTANTS
  kRingBufferCapacity,
  kRecvBufferSize,  \* most bytes recv() returns, and most read() returns
  MaxBytes          \* how many bytes the server sends at most

ASSUME ConstantsAssumption ==
  /\ kRingBufferCapacity \in Nat \ {0}
  /\ kRecvBufferSize \in Nat \ {0}
  /\ MaxBytes \in Nat

VARIABLES
  data, head, tail, closed,   \* the ring; NoByte marks a cell never written
  stop,
  wpc, rest, chunk, copied,   \* receiver: bytes of src left, bytes this turn, bytes copied
  rpc, h, max, got_now,       \* parser: the head it saw, bytes to read, bytes copied
  got                         \* ghost: every byte read, in order

ringVars == <<data, head, tail, closed>>
writerVars == <<wpc, rest, chunk, copied>>
readerVars == <<rpc, h, max, got_now, got>>
vars == <<ringVars, stop, writerVars, readerVars>>

Cells == 0 .. kRingBufferCapacity - 1
Idx(n) == n % kRingBufferCapacity  \* n & kRingBufferMask
NoByte == -1
Least(m, n) == IF m < n THEN m ELSE n

Init ==
  /\ data = [c \in Cells |-> NoByte]
  /\ head = 0
  /\ tail = 0
  /\ closed = FALSE
  /\ stop = FALSE
  /\ wpc = "top"
  /\ rest = 0
  /\ chunk = 0
  /\ copied = 0
  /\ rpc = "top"
  /\ h = 0
  /\ max = 0
  /\ got_now = 0
  /\ got = <<>>

-----------------------------------------------------------------------------
(* ioReceiverThread.                                                       *)

WriterTop ==
  /\ wpc = "top"
  /\ wpc' = IF stop THEN "stop" ELSE "recv"
  /\ UNCHANGED <<ringVars, stop, rest, chunk, copied, readerVars>>

\* recv() returns bytes, or is interrupted, or ends the loop.
Recv ==
  /\ wpc = "recv"
  /\ \/ /\ \E n \in 1 .. Least(kRecvBufferSize, MaxBytes - head) : rest' = n
        /\ wpc' = "space"
     \/ wpc' \in {"top", "stop"} /\ UNCHANGED rest
  /\ UNCHANGED <<ringVars, stop, chunk, copied, readerVars>>

\* write(): the turn of its loop that finds space; one that does not yields.
Space ==
  /\ wpc = "space"
  /\ LET space == kRingBufferCapacity - (head - tail) IN
       /\ space > 0
       /\ chunk' = Least(rest, space)
  /\ copied' = 0
  /\ wpc' = "copy"
  /\ UNCHANGED <<ringVars, stop, rest, readerVars>>

\* Mutant: the second memcpy(), for what does not fit before the end, is missing.
CopyInFirst ==
  /\ wpc = "copy"
  /\ copied < chunk
  /\ data' = IF Idx(head) + copied < kRingBufferCapacity
             THEN [data EXCEPT ![Idx(head + copied)] = head + copied]
             ELSE data
  /\ copied' = copied + 1
  /\ UNCHANGED <<head, tail, closed, stop, wpc, rest, chunk, readerVars>>

CopyIn ==
  /\ wpc = "copy"
  /\ copied < chunk
  /\ data' = [data EXCEPT ![Idx(head + copied)] = head + copied]
  /\ copied' = copied + 1
  /\ UNCHANGED <<head, tail, closed, stop, wpc, rest, chunk, readerVars>>

\* Mutant: all of src is published in the first turn.
PublishAll ==
  /\ wpc = "copy"
  /\ copied = chunk
  /\ head' = head + rest
  /\ rest' = rest - chunk
  /\ wpc' = "notify"
  /\ UNCHANGED <<data, tail, closed, stop, chunk, copied, readerVars>>

Publish ==
  /\ wpc = "copy"
  /\ copied = chunk
  /\ head' = head + chunk
  /\ rest' = rest - chunk
  /\ wpc' = "notify"
  /\ UNCHANGED <<data, tail, closed, stop, chunk, copied, readerVars>>

\* notify_one() and notify_all() wake the reader if it is asleep by now.
WakeReader == rpc' = IF rpc = "asleep" THEN "test" ELSE rpc

Notify ==
  /\ wpc = "notify"
  /\ WakeReader
  /\ wpc' = IF rest > 0 THEN "space" ELSE "top"
  /\ UNCHANGED <<ringVars, stop, rest, chunk, copied, h, max, got_now, got>>

WriterStops ==
  /\ wpc = "stop"
  /\ stop' = TRUE
  /\ wpc' = "close"
  /\ UNCHANGED <<ringVars, rest, chunk, copied, readerVars>>

Close ==
  /\ wpc = "close"
  /\ closed' = TRUE
  /\ wpc' = "notify_close"
  /\ UNCHANGED <<data, head, tail, stop, rest, chunk, copied, readerVars>>

NotifyClose ==
  /\ wpc = "notify_close"
  /\ WakeReader
  /\ wpc' = "done"
  /\ UNCHANGED <<ringVars, stop, rest, chunk, copied, h, max, got_now, got>>

Writer ==
  \/ WriterTop
  \/ Recv
  \/ Space
  \/ CopyIn
  \/ Publish
  \/ Notify
  \/ WriterStops
  \/ Close
  \/ NotifyClose

-----------------------------------------------------------------------------
(* parserThread.                                                           *)

ReaderTop ==
  /\ rpc = "top"
  /\ rpc' = IF stop THEN "done" ELSE "test"
  /\ UNCHANGED <<ringVars, stop, writerVars, h, max, got_now, got>>

\* The predicate of wait(): head_ first, then, if it is equal to tail_, closed_.
TestHead ==
  /\ rpc = "test"
  /\ h' = head
  /\ rpc' = IF head # tail THEN "load" ELSE "test_closed"
  /\ UNCHANGED <<ringVars, stop, writerVars, max, got_now, got>>

TestClosed ==
  /\ rpc = "test_closed"
  /\ rpc' = IF closed THEN "load" ELSE "sleep"
  /\ UNCHANGED <<ringVars, stop, writerVars, h, max, got_now, got>>

Sleep ==
  /\ rpc = "sleep"
  /\ rpc' = "asleep"
  /\ UNCHANGED <<ringVars, stop, writerVars, h, max, got_now, got>>

\* head_ once more: not a value older than the one that was tested, but, as
\* closed_ was read relaxed, not always what it was when closed_ was set.
\* Where it is equal to tail_, read() returns 0 and parserThread ends:
\* "ended"; "done" is the end by stop.
Load ==
  /\ rpc = "load"
  /\ \E seen \in h .. head :
       /\ h' = seen
       /\ max' = Least(kRecvBufferSize, seen - tail)
       /\ rpc' = IF seen = tail THEN "ended" ELSE "copy"
  /\ got_now' = 0
  /\ UNCHANGED <<ringVars, stop, writerVars, got>>

CopyOut ==
  /\ rpc = "copy"
  /\ got_now < max
  /\ got' = Append(got, data[Idx(tail + got_now)])
  /\ got_now' = got_now + 1
  /\ UNCHANGED <<ringVars, stop, writerVars, rpc, h, max>>

\* tail_ moves on; the parser is fed and tests stop.
Consume ==
  /\ rpc = "copy"
  /\ got_now = max
  /\ tail' = tail + max
  /\ rpc' = "top"
  /\ UNCHANGED <<data, head, closed, stop, writerVars, h, max, got_now, got>>

Reader ==
  \/ ReaderTop
  \/ TestHead
  \/ TestClosed
  \/ Sleep
  \/ Load
  \/ CopyOut
  \/ Consume

\* A worker whose send() failed.
WorkerStops ==
  /\ stop' = TRUE
  /\ UNCHANGED <<ringVars, writerVars, readerVars>>

Next == Writer \/ Reader \/ WorkerStops

Spec == Init /\ [][Next]_vars

\* Both threads run again and again; recv() need not return.
FairSpec ==
  /\ Spec
  /\ WF_vars(Reader)
  /\ WF_vars(\/ WriterTop \/ Space \/ CopyIn \/ Publish \/ Notify
             \/ WriterStops \/ Close \/ NotifyClose)

-----------------------------------------------------------------------------
(* Properties.                                                             *)

\* Every variable has its type.
TypeOK ==
  /\ data \in [Cells -> Nat \cup {NoByte}]
  /\ head \in Nat
  /\ tail \in Nat
  /\ closed \in BOOLEAN
  /\ stop \in BOOLEAN
  /\ wpc \in {"top", "recv", "space", "copy", "notify", "stop", "close",
              "notify_close", "done"}
  /\ rest \in 0 .. kRecvBufferSize
  /\ chunk \in 0 .. kRingBufferCapacity
  /\ copied \in 0 .. kRingBufferCapacity
  /\ rpc \in {"top", "test", "test_closed", "sleep", "asleep", "load", "copy",
              "ended", "done"}
  /\ h \in Nat
  /\ max \in 0 .. kRingBufferCapacity
  /\ got_now \in 0 .. kRingBufferCapacity
  /\ got \in Seq(Nat)

\* The bytes between tail and head are in their cells, and each thread copies
\* within what was its own when it looked at the other's counter.
CopiesInside ==
  /\ tail <= head /\ head <= tail + kRingBufferCapacity
  /\ \A p \in tail .. head - 1 : data[Idx(p)] = p
  /\ wpc = "copy" =>
       /\ copied <= chunk /\ chunk <= rest
       /\ head + chunk <= tail + kRingBufferCapacity
       /\ \A k \in 0 .. copied - 1 : data[Idx(head + k)] = head + k
  /\ wpc = "notify" => chunk > 0
  /\ closed <=> wpc \in {"notify_close", "done"}
  /\ rpc = "copy" => got_now <= max /\ tail + max <= head
  /\ Len(got) = tail + (IF rpc = "copy" THEN got_now ELSE 0)

\* The two memcpy()s never touch the same cell, wherever they wrap.
WriterCells == IF wpc = "copy"
               THEN {Idx(head + k) : k \in 0 .. chunk - 1} ELSE {}
ReaderCells == IF rpc = "copy"
               THEN {Idx(tail + k) : k \in 0 .. max - 1} ELSE {}
CopiesApart == WriterCells \cap ReaderCells = {}

\* The parser ends only once the ring is closed, and that only while the client
\* is stopping: what is then left in the ring is lost as it is to a parser that
\* tests stop before.
EndsWhileStopping ==
  /\ rpc = "ended" => closed
  /\ wpc \in {"close", "notify_close", "done"} => stop

\* Where a thread is says what it has found: read() goes on past wait() only
\* when there is a byte or no more to come.
PlacesInv ==
  /\ wpc = "space" => rest > 0
  /\ wpc = "copy" => chunk > 0
  /\ rpc \in {"test_closed", "load"} => tail <= h /\ h <= head
  /\ rpc = "load" => closed \/ tail < h
  /\ rpc = "copy" => max > 0

\* Types, copies that stay apart in the ring, and no end unless it is closed.
RingInv == TypeOK /\ CopiesInside /\ CopiesApart /\ EndsWhileStopping /\ PlacesInv

\* The ring is a bounded byte stream.
Stream == INSTANCE ByteStream WITH
            Capacity <- kRingBufferCapacity,
            written <- head, delivered <- got, freed <- tail
IsByteStream == Stream!Spec

\* "Blocks until data available": bytes in the ring are read, unless the
\* client stops.  A notification that is lost makes this false.
AvailableIsRead ==
  \A p \in 0 .. MaxBytes - 1 : head > p ~> (Len(got) > p \/ stop)

=============================================================================
