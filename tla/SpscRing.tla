------------------------------ MODULE SpscRing ------------------------------
(***************************************************************************)
(* SpscRingBuffer and the two loops that use it (hftclient2026/main.cpp):  *)
(* ioReceiverThread lets recv() write straight into the span it reserved,  *)
(* and parserThread feeds the parser straight from the span it peeked at.  *)
(* Neither takes a lock: what keeps them apart is head_, written by the    *)
(* receiver, and tail_, written by the parser.                             *)
(*                                                                         *)
(* Byte number p of the connection is the number p.  recv() and feed() go  *)
(* through their spans one byte at a time, with the other thread running   *)
(* in between.  Only the receiver closes the ring, so the first test of    *)
(* reserveWriteSpan is always false and is left out.  head_ and tail_ are  *)
(* unbounded: a size_t wraps only after 2^64 bytes.                        *)
(***************************************************************************)
EXTENDS Integers, Sequences

CONSTANTS
  Capacity,  \* buffer_.size(), a power of two, so that head & mask_ is head % Capacity
  MaxBytes   \* how many bytes the peer sends at most

ASSUME ConstantsAssumption ==
  /\ Capacity \in Nat \ {0}
  /\ MaxBytes \in Nat

VARIABLES
  buffer, head, tail, closed,  \* the ring; NoByte marks a cell never written
  stop_requested,
  wpc, span, filled,           \* receiver: where it is, span_out, bytes recv() has put there
  rpc, src, len, fed_now,      \* parser: where it is, its span's first cell and length, bytes fed of it
  fed                          \* ghost: every byte the parser was fed, in order

ringVars == <<buffer, head, tail, closed>>
writerVars == <<wpc, span, filled>>
readerVars == <<rpc, src, len, fed_now, fed>>
vars == <<ringVars, stop_requested, writerVars, readerVars>>

Cells == 0 .. Capacity - 1
Idx(n) == n % Capacity  \* n & mask_
NoByte == -1
Least(m, n) == IF m < n THEN m ELSE n

Init ==
  /\ buffer = [c \in Cells |-> NoByte]
  /\ head = 0
  /\ tail = 0
  /\ closed = FALSE
  /\ stop_requested = FALSE
  /\ wpc = "top"
  /\ span = 0
  /\ filled = 0
  /\ rpc = "top"
  /\ src = 0
  /\ len = 0
  /\ fed_now = 0
  /\ fed = <<>>

-----------------------------------------------------------------------------
(* ioReceiverThread.                                                       *)

WriterTop ==
  /\ wpc = "top"
  /\ wpc' = IF stop_requested THEN "stop" ELSE "reserve"
  /\ UNCHANGED <<ringVars, stop_requested, span, filled, readerVars>>

\* Mutant: the unread bytes are forgotten.
ReserveToTheEnd ==
  /\ wpc = "reserve"
  /\ LET free == Capacity - (head - tail) IN
       IF free = 0
       THEN wpc' = "top" /\ UNCHANGED span
       ELSE wpc' = "recv" /\ span' = Capacity - Idx(head)
  /\ filled' = 0
  /\ UNCHANGED <<ringVars, stop_requested, readerVars>>

\* reserveWriteSpan: up to the end of the buffer, never into unread bytes.
Reserve ==
  /\ wpc = "reserve"
  /\ LET free == Capacity - (head - tail) IN
       IF free = 0
       THEN wpc' = "top" /\ UNCHANGED span
       ELSE wpc' = "recv" /\ span' = Least(free, Capacity - Idx(head))
  /\ filled' = 0
  /\ UNCHANGED <<ringVars, stop_requested, readerVars>>

\* recv() stores one more byte of those it will report.
RecvByte ==
  /\ wpc = "recv"
  /\ filled < span
  /\ head + filled < MaxBytes
  /\ buffer' = [buffer EXCEPT ![Idx(head) + filled] = head + filled]
  /\ filled' = filled + 1
  /\ UNCHANGED <<head, tail, closed, stop_requested, wpc, span, readerVars>>

\* Mutant: commitWrite(span).
CommitSpan ==
  /\ wpc = "recv"
  /\ filled > 0
  /\ head' = head + span
  /\ wpc' = "top"
  /\ UNCHANGED <<buffer, tail, closed, stop_requested, span, filled, readerVars>>

\* n > 0, and commitWrite(n)
CommitWrite ==
  /\ wpc = "recv"
  /\ filled > 0
  /\ head' = head + filled
  /\ wpc' = "top"
  /\ UNCHANGED <<buffer, tail, closed, stop_requested, span, filled, readerVars>>

\* Nothing received: EINTR tries again, end of stream and errors end the loop.
RecvNothing ==
  /\ wpc = "recv"
  /\ filled = 0
  /\ wpc' \in {"top", "stop"}
  /\ UNCHANGED <<ringVars, stop_requested, span, filled, readerVars>>

WriterStops ==
  /\ wpc = "stop"
  /\ stop_requested' = TRUE
  /\ wpc' = "close"
  /\ UNCHANGED <<ringVars, span, filled, readerVars>>

Close ==
  /\ wpc = "close"
  /\ closed' = TRUE
  /\ wpc' = "done"
  /\ UNCHANGED <<buffer, head, tail, stop_requested, span, filled, readerVars>>

Writer ==
  \/ WriterTop
  \/ Reserve
  \/ RecvByte
  \/ CommitWrite
  \/ RecvNothing
  \/ WriterStops
  \/ Close

-----------------------------------------------------------------------------
(* parserThread, the rounds it runs between two spans left out.            *)

ReaderTop ==
  /\ rpc = "top"
  /\ rpc' = IF stop_requested THEN "done" ELSE "peek"
  /\ UNCHANGED <<ringVars, stop_requested, writerVars, src, len, fed_now, fed>>

\* Mutant: the span runs past the end of the buffer.
PeekPastTheEnd ==
  /\ rpc = "peek"
  /\ LET used == head - tail IN
       IF used = 0
       THEN rpc' = "empty" /\ UNCHANGED <<src, len, fed_now>>
       ELSE /\ rpc' = "feed"
            /\ src' = Idx(tail)
            /\ len' = used
            /\ fed_now' = 0
  /\ UNCHANGED <<ringVars, stop_requested, writerVars, fed>>

\* peekReadSpan: the unread bytes up to the end of the buffer.
Peek ==
  /\ rpc = "peek"
  /\ LET used == head - tail IN
       IF used = 0
       THEN rpc' = "empty" /\ UNCHANGED <<src, len, fed_now>>
       ELSE /\ rpc' = "feed"
            /\ src' = Idx(tail)
            /\ len' = Least(used, Capacity - Idx(tail))
            /\ fed_now' = 0
  /\ UNCHANGED <<ringVars, stop_requested, writerVars, fed>>

\* Mutant: an empty ring is taken for a closed one.
EmptyIsClosed ==
  /\ rpc = "empty"
  /\ rpc' = "done"
  /\ UNCHANGED <<ringVars, stop_requested, writerVars, src, len, fed_now, fed>>

\* if (ring.closed()) break;  The ring was empty a moment ago.
EmptyOrClosed ==
  /\ rpc = "empty"
  /\ rpc' = IF closed THEN "done" ELSE "top"
  /\ UNCHANGED <<ringVars, stop_requested, writerVars, src, len, fed_now, fed>>

\* parser.feed() goes on to the next byte of the span.
FeedByte ==
  /\ rpc = "feed"
  /\ fed_now < len
  /\ fed' = Append(fed, buffer[src + fed_now])
  /\ fed_now' = fed_now + 1
  /\ UNCHANGED <<ringVars, stop_requested, writerVars, rpc, src, len>>

\* feed() returns at the end of the span, or before it when a challenge is
\* complete, which is then answered.
Consume ==
  /\ rpc = "feed"
  /\ fed_now > 0
  /\ tail' = tail + fed_now
  /\ rpc' \in {"answer"} \cup (IF fed_now = len THEN {"top"} ELSE {})
  /\ UNCHANGED <<buffer, head, closed, stop_requested, writerVars, src, len,
                 fed_now, fed>>

\* The answer is sent, or sendAll fails.
Answer ==
  /\ rpc = "answer"
  /\ \/ rpc' = "top" /\ UNCHANGED stop_requested
     \/ rpc' = "done" /\ stop_requested' = TRUE
  /\ UNCHANGED <<ringVars, writerVars, src, len, fed_now, fed>>

Reader ==
  \/ ReaderTop
  \/ Peek
  \/ EmptyOrClosed
  \/ FeedByte
  \/ Consume
  \/ Answer

Next == Writer \/ Reader

Spec == Init /\ [][Next]_vars

\* Both threads run again and again, and feed() goes on to the end of its
\* span; recv() need not ever return.
FairSpec ==
  /\ Spec
  /\ WF_vars(Reader)
  /\ WF_vars(WriterTop \/ Reserve \/ CommitWrite \/ WriterStops \/ Close)

-----------------------------------------------------------------------------
(* Properties.                                                             *)

Positions == 0 .. MaxBytes - 1

\* Every variable has its type.
TypeOK ==
  /\ buffer \in [Cells -> Nat \cup {NoByte}]
  /\ head \in Nat
  /\ tail \in Nat
  /\ closed \in BOOLEAN
  /\ stop_requested \in BOOLEAN
  /\ wpc \in {"top", "reserve", "recv", "stop", "close", "done"}
  /\ span \in 0 .. Capacity
  /\ filled \in 0 .. Capacity
  /\ rpc \in {"top", "peek", "empty", "feed", "answer", "done"}
  /\ src \in Cells
  /\ len \in 0 .. Capacity
  /\ fed_now \in 0 .. Capacity
  /\ fed \in Seq(Nat)

\* The parser is fed the bytes of the connection, all of them in order: none
\* is overwritten before it is read, read before it is there, or read twice.
StreamIntact == \A i \in 1 .. Len(fed) : fed[i] = i - 1

\* recv() and feed() never touch the same cell, so the plain accesses to
\* buffer_ do not race.
WriterCells == IF wpc = "recv"
               THEN Idx(head) .. Idx(head) + span - 1 ELSE {}
ReaderCells == IF rpc = "feed" THEN src .. src + len - 1 ELSE {}
SpansApart ==
  /\ WriterCells \cup ReaderCells \subseteq Cells
  /\ WriterCells \cap ReaderCells = {}

\* The ring is a bounded byte stream.
Stream == INSTANCE ByteStream WITH
            written <- head, delivered <- fed, freed <- tail
IsByteStream == Stream!Spec

\* A byte that was committed is fed to the parser, unless the client stops: a
\* ring that is full, or was found empty, holds nobody up for ever.
CommittedIsFed ==
  \A p \in Positions : head > p ~> (Len(fed) > p \/ stop_requested)

-----------------------------------------------------------------------------
(* The inductive invariant.                                                *)

\* Every byte between tail and head is in its cell.
UnreadInv ==
  /\ tail <= head
  /\ head <= tail + Capacity
  /\ \A p \in tail .. head - 1 : buffer[Idx(p)] = p

\* The receiver's span starts at head, is free and does not wrap, and holds
\* what recv() has stored so far.
WriterInv ==
  /\ wpc = "recv" =>
       /\ head + span <= tail + Capacity
       /\ Idx(head) + span <= Capacity
       /\ filled <= span
       /\ \A k \in 0 .. filled - 1 : buffer[Idx(head) + k] = head + k
  /\ wpc \in {"close", "done"} => stop_requested
  /\ closed => wpc = "done"

\* The parser's span starts at tail, is unread and does not wrap.
ReaderInv ==
  /\ rpc = "feed" =>
       /\ src = Idx(tail)
       /\ tail + len <= head
       /\ src + len <= Capacity
       /\ fed_now <= len
  /\ Len(fed) = tail + (IF rpc = "feed" THEN fed_now ELSE 0)

RingInv == TypeOK /\ UnreadInv /\ WriterInv /\ ReaderInv /\ StreamIntact

=============================================================================
