----------------------------- MODULE ByteStream -----------------------------
(***************************************************************************)
(* What the client's ring buffer promises its two threads: a bounded       *)
(* stream of bytes.  Byte number p of the connection is the number p, so   *)
(* "the right byte" can be told from any other.  Nothing is lost, repeated *)
(* or reordered; the writer is never more than Capacity bytes ahead of     *)
(* what the reader has given back; nothing is written once it is closed.   *)
(***************************************************************************)
EXTENDS Integers, Sequences

CONSTANT Capacity

VARIABLES
  written,    \* number of bytes made available to the reader
  delivered,  \* the bytes the reader has looked at, in order
  freed,      \* number of bytes whose room has been given back
  closed

vars == <<written, delivered, freed, closed>>

Init ==
  /\ written = 0
  /\ delivered = <<>>
  /\ freed = 0
  /\ closed = FALSE

Write(n) ==
  /\ ~closed
  /\ written + n - freed <= Capacity
  /\ written' = written + n
  /\ UNCHANGED <<delivered, freed, closed>>

Deliver ==
  /\ Len(delivered) < written
  /\ delivered' = Append(delivered, Len(delivered))
  /\ UNCHANGED <<written, freed, closed>>

Free(n) ==
  /\ freed + n <= Len(delivered)
  /\ freed' = freed + n
  /\ UNCHANGED <<written, delivered, closed>>

Close ==
  /\ closed' = TRUE
  /\ UNCHANGED <<written, delivered, freed>>

Next ==
  \/ \E n \in 1 .. Capacity : Write(n) \/ Free(n)
  \/ Deliver
  \/ Close

Spec == Init /\ [][Next]_vars

=============================================================================
