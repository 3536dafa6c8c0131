--------------------------- MODULE SpscRingProofs ---------------------------
(***************************************************************************)
(* Proofs about SpscRing for any capacity and any number of bytes: the     *)
(* inductive invariant RingInv, that the two threads never touch the same  *)
(* cell, and that the ring implements the byte stream of ByteStream.       *)
(***************************************************************************)
EXTENDS SpscRing, TLAPS

-----------------------------------------------------------------------------
(* Remainders: byte number p is in cell p % Capacity.                      *)

\* A nonzero multiple of n is at least n away from zero.
LEMMA Multiple ==
  ASSUME NEW n \in Nat \ {0}, NEW d \in Int
  PROVE  (d >= 1 => n * d >= n) /\ (d <= -1 => n * d <= -n)
OBVIOUS

\* Division with remainder.
LEMMA DivMod ==
  ASSUME NEW n \in Nat \ {0}, NEW p \in Nat
  PROVE  /\ p = n * (p \div n) + (p % n)
         /\ p % n \in 0 .. n - 1
         /\ p \div n \in Nat
OBVIOUS

\* The remainder is determined by any such equation.
LEMMA Remainder ==
  ASSUME NEW n \in Nat \ {0}, NEW p \in Nat, NEW a \in Int,
         NEW r \in 0 .. n - 1, p = n * a + r
  PROVE  r = p % n
<1>1. /\ p = n * (p \div n) + (p % n)
      /\ p % n \in 0 .. n - 1
      /\ p \div n \in Nat
  BY DivMod
<1> DEFINE d == a - (p \div n)
<1>2. d \in Int BY <1>1
<1>3. n * d = (p % n) - r BY <1>1
<1>4. d = 0 BY <1>1, <1>2, <1>3, Multiple
<1> QED BY <1>1, <1>3, <1>4

\* Two bytes less than n apart are in different cells.
LEMMA Apart ==
  ASSUME NEW n \in Nat \ {0}, NEW p \in Nat, NEW q \in Nat, p < q, q < p + n
  PROVE  p % n # q % n
<1> SUFFICES ASSUME p % n = q % n PROVE FALSE OBVIOUS
<1>1. p = n * (p \div n) + (p % n) /\ p \div n \in Nat BY DivMod
<1>2. q = n * (q \div n) + (q % n) /\ q \div n \in Nat BY DivMod
<1> DEFINE d == (q \div n) - (p \div n)
<1>3. d \in Int BY <1>1, <1>2
<1>4. n * d = q - p BY <1>1, <1>2
<1> HIDE DEF d
<1> QED BY <1>3, <1>4, Multiple

\* Where the ring does not wrap, byte p + k is k cells after byte p.
LEMMA NoWrap ==
  ASSUME NEW n \in Nat \ {0}, NEW p \in Nat, NEW k \in Nat, (p % n) + k < n
  PROVE  (p + k) % n = (p % n) + k
<1>1. /\ p = n * (p \div n) + (p % n)
      /\ p % n \in 0 .. n - 1
      /\ p \div n \in Nat
  BY DivMod
<1>2. p + k = n * (p \div n) + ((p % n) + k) BY <1>1
<1>3. (p % n) + k \in 0 .. n - 1 BY <1>1
<1>4. p + k \in Nat /\ p \div n \in Int BY <1>1
<1> QED BY <1>2, <1>3, <1>4, Remainder

\* Inside a span that does not wrap, byte p + k is k cells after byte p.
LEMMA SameSpan ==
  ASSUME NEW p \in Nat, NEW k \in Nat, Idx(p) + k < Capacity
  PROVE  Idx(p + k) = Idx(p) + k
BY NoWrap, ConstantsAssumption DEF Idx

\* Two bytes less than Capacity apart are in different cells.
LEMMA CellsApart ==
  ASSUME NEW p \in Nat, NEW q \in Nat, p < q, q < p + Capacity
  PROVE  Idx(p) # Idx(q)
BY Apart, ConstantsAssumption DEF Idx

\* A position has a cell.
LEMMA IdxType == ASSUME NEW p \in Nat PROVE Idx(p) \in Cells
BY DivMod, ConstantsAssumption DEF Idx, Cells

-----------------------------------------------------------------------------
(* The invariant.                                                          *)

\* The empty ring satisfies the invariant.
LEMMA InitRingInv == Init => RingInv
<1> SUFFICES ASSUME Init PROVE RingInv OBVIOUS
<1> USE ConstantsAssumption DEF Init
<1>1. TypeOK
  <2>1. buffer \in [Cells -> Nat \cup {NoByte}] OBVIOUS
  <2>2. src \in Cells BY DEF Cells
  <2> QED BY <2>1, <2>2 DEF TypeOK
<1>2. UnreadInv BY DEF UnreadInv
<1> QED BY <1>1, <1>2 DEF RingInv, WriterInv, ReaderInv, StreamIntact

\* recv() stores a byte in a cell that holds no unread byte.
LEMMA RecvByteStep ==
  ASSUME RingInv, RecvByte
  PROVE  RingInv'
<1> USE ConstantsAssumption DEF RingInv, RecvByte, readerVars
<1> DEFINE cell == Idx(head) + filled
<1>1. /\ head \in Nat /\ tail \in Nat /\ filled \in Nat /\ span \in Nat
      /\ head + span <= tail + Capacity
      /\ Idx(head) + span <= Capacity
      /\ filled < span
      /\ Idx(head) \in 0 .. Capacity - 1
  BY IdxType DEF TypeOK, WriterInv, Cells
<1>2. cell \in Cells /\ cell = Idx(head + filled)
  BY <1>1, SameSpan DEF Cells
<1>3. /\ buffer'[cell] = head + filled
      /\ \A c \in Cells : c # cell => buffer'[c] = buffer[c]
  BY <1>2 DEF TypeOK
<1>4. TypeOK'
  <2>1. head + filled \in Nat /\ filled + 1 \in 0 .. Capacity BY <1>1
  <2>2. buffer' \in [Cells -> Nat \cup {NoByte}] BY <2>1 DEF TypeOK
  <2> QED BY <2>1, <2>2 DEF TypeOK
<1>5. UnreadInv'
  <2> SUFFICES ASSUME NEW p \in tail .. head - 1 PROVE buffer'[Idx(p)] = p
    BY DEF UnreadInv
  <2>1. p \in Nat /\ p < head + filled /\ head + filled < p + Capacity
    BY <1>1
  <2>2. Idx(p) # cell /\ Idx(p) \in Cells BY <1>1, <1>2, <2>1, CellsApart, IdxType
  <2> QED BY <1>3, <2>2 DEF UnreadInv
<1>6. WriterInv'
  <2>1. ASSUME NEW k \in 0 .. filled PROVE buffer'[Idx(head) + k] = head + k
    <3>1. CASE k = filled BY <1>3, <3>1
    <3>2. CASE k # filled
      <4>1. k \in 0 .. filled - 1 /\ Idx(head) + k \in Cells /\ Idx(head) + k # cell
        BY <1>1, <3>2 DEF Cells
      <4> QED BY <1>3, <4>1 DEF WriterInv
    <3> QED BY <3>1, <3>2
  <2>2. filled' = filled + 1 /\ filled + 1 <= span BY <1>1
  <2>3. \A k \in 0 .. filled' - 1 : buffer'[Idx(head') + k] = head' + k
    BY <1>1, <2>1, <2>2
  <2> QED BY <1>1, <2>2, <2>3 DEF WriterInv
<1>7. ReaderInv' BY DEF ReaderInv
<1>8. StreamIntact' BY DEF StreamIntact
<1> QED BY <1>4, <1>5, <1>6, <1>7, <1>8

\* Committing makes the bytes recv() stored unread bytes.
LEMMA CommitWriteStep ==
  ASSUME RingInv, CommitWrite
  PROVE  RingInv'
<1> USE ConstantsAssumption DEF RingInv, CommitWrite, readerVars
<1>1. /\ head \in Nat /\ tail \in Nat /\ filled \in Nat /\ span \in Nat
      /\ tail <= head
      /\ head + span <= tail + Capacity
      /\ Idx(head) + span <= Capacity
      /\ filled <= span
      /\ Idx(head) \in 0 .. Capacity - 1
  BY IdxType DEF TypeOK, WriterInv, UnreadInv, Cells
<1>2. TypeOK' BY <1>1 DEF TypeOK
<1>3. UnreadInv'
  <2>1. ASSUME NEW p \in tail .. head + filled - 1 PROVE buffer[Idx(p)] = p
    <3>1. CASE p < head BY <1>1, <3>1 DEF UnreadInv
    <3>2. CASE ~(p < head)
      <4> DEFINE k == p - head
      <4>1. k \in 0 .. filled - 1 /\ p = head + k BY <1>1, <3>2
      <4>2. Idx(head + k) = Idx(head) + k BY <1>1, <4>1, SameSpan
      <4>3. buffer[Idx(head) + k] = head + k BY <4>1 DEF WriterInv
      <4> QED BY <4>1, <4>2, <4>3
    <3> QED BY <3>1, <3>2
  <2> QED BY <1>1, <2>1 DEF UnreadInv
<1>4. WriterInv' BY DEF WriterInv, TypeOK
<1>5. ReaderInv' BY <1>1 DEF ReaderInv, TypeOK
<1>6. StreamIntact' BY DEF StreamIntact
<1> QED BY <1>2, <1>3, <1>4, <1>5, <1>6

\* The byte fed next is the next byte of the connection.
LEMMA NextByte ==
  ASSUME RingInv, FeedByte
  PROVE  fed' = Append(fed, Len(fed)) /\ Len(fed) < head
<1> USE ConstantsAssumption DEF RingInv, FeedByte
<1>1. /\ head \in Nat /\ tail \in Nat /\ fed_now \in Nat /\ len \in Nat
      /\ src = Idx(tail) /\ src \in 0 .. Capacity - 1
      /\ tail + len <= head /\ src + len <= Capacity /\ fed_now < len
      /\ Len(fed) = tail + fed_now
  BY DEF TypeOK, ReaderInv, Cells
<1>2. Idx(tail + fed_now) = src + fed_now BY <1>1, SameSpan
<1>3. tail + fed_now \in tail .. head - 1 BY <1>1
<1>4. buffer[src + fed_now] = tail + fed_now BY <1>2, <1>3 DEF UnreadInv
<1> QED BY <1>1, <1>4

\* Feeding a byte keeps what was fed a prefix of the connection.
LEMMA FeedByteStep ==
  ASSUME RingInv, FeedByte
  PROVE  RingInv'
<1> USE ConstantsAssumption DEF RingInv, FeedByte, ringVars, writerVars
<1>1. fed' = Append(fed, Len(fed)) /\ Len(fed) \in Nat BY NextByte DEF TypeOK
<1>2. fed_now \in Nat /\ fed_now < len /\ len \in 0 .. Capacity
  BY DEF TypeOK
<1>3. TypeOK' BY <1>1, <1>2 DEF TypeOK
<1>4. UnreadInv' /\ WriterInv' BY DEF UnreadInv, WriterInv
<1>5. ReaderInv'
  <2>1. Len(fed') = Len(fed) + 1 BY <1>1 DEF TypeOK
  <2> QED BY <1>2, <2>1 DEF ReaderInv, TypeOK
<1>6. StreamIntact' BY <1>1 DEF StreamIntact, TypeOK
<1> QED BY <1>3, <1>4, <1>5, <1>6

\* The steps that move neither bytes nor head.
LEMMA OtherSteps ==
  ASSUME RingInv,
         \/ WriterTop \/ Reserve \/ RecvNothing \/ WriterStops \/ Close
         \/ ReaderTop \/ Peek \/ EmptyOrClosed \/ Consume \/ Answer
         \/ UNCHANGED vars
  PROVE  RingInv'
<1> USE ConstantsAssumption DEF RingInv, ringVars, writerVars, readerVars
<1>1. CASE WriterTop
  BY <1>1 DEF WriterTop, TypeOK, UnreadInv, WriterInv, ReaderInv, StreamIntact
<1>2. CASE Reserve
  <2>1. /\ head \in Nat /\ tail \in Nat /\ tail <= head
        /\ head <= tail + Capacity
        /\ Idx(head) \in 0 .. Capacity - 1
    BY IdxType DEF TypeOK, UnreadInv, Cells
  <2>2. wpc' = "recv" =>
          /\ span' \in 0 .. Capacity
          /\ head + span' <= tail + Capacity
          /\ Idx(head) + span' <= Capacity
    BY <1>2, <2>1 DEF Reserve, Least
  <2>3. TypeOK' BY <1>2, <2>1, <2>2 DEF Reserve, TypeOK
  <2>4. UnreadInv' /\ ReaderInv' /\ StreamIntact'
    BY <1>2 DEF Reserve, UnreadInv, ReaderInv, StreamIntact
  <2>5. wpc' \in {"top", "recv"} /\ filled' = 0 /\ UNCHANGED <<ringVars>>
    BY <1>2 DEF Reserve
  <2>6. ~closed BY <1>2 DEF Reserve, WriterInv
  <2>7. WriterInv'
    <3>1. CASE wpc' = "recv"
      BY <2>2, <2>5, <2>6, <3>1 DEF WriterInv
    <3>2. CASE wpc' = "top"
      BY <2>5, <2>6, <3>2 DEF WriterInv
    <3> QED BY <2>5, <3>1, <3>2
  <2> QED BY <2>3, <2>4, <2>7
<1>3. CASE RecvNothing
  BY <1>3 DEF RecvNothing, TypeOK, UnreadInv, WriterInv, ReaderInv, StreamIntact
<1>4. CASE WriterStops
  BY <1>4 DEF WriterStops, TypeOK, UnreadInv, WriterInv, ReaderInv, StreamIntact
<1>5. CASE Close
  BY <1>5 DEF Close, TypeOK, UnreadInv, WriterInv, ReaderInv, StreamIntact
<1>6. CASE ReaderTop
  BY <1>6 DEF ReaderTop, TypeOK, UnreadInv, WriterInv, ReaderInv, StreamIntact
<1>7. CASE Peek
  <2>1. /\ head \in Nat /\ tail \in Nat /\ tail <= head
        /\ head <= tail + Capacity
        /\ Idx(tail) \in 0 .. Capacity - 1
    BY IdxType DEF TypeOK, UnreadInv, Cells
  <2>2. rpc' = "feed" =>
          /\ src' = Idx(tail) /\ fed_now' = 0
          /\ len' \in 0 .. Capacity
          /\ tail + len' <= head
          /\ Idx(tail) + len' <= Capacity
    BY <1>7, <2>1 DEF Peek, Least
  <2>3. TypeOK' BY <1>7, <2>1, <2>2 DEF Peek, TypeOK, Cells
  <2>4. UnreadInv' /\ WriterInv' /\ StreamIntact'
    BY <1>7 DEF Peek, UnreadInv, WriterInv, StreamIntact
  <2>5. ReaderInv' BY <1>7, <2>1, <2>2 DEF Peek, ReaderInv, TypeOK
  <2> QED BY <2>3, <2>4, <2>5
<1>8. CASE EmptyOrClosed
  BY <1>8 DEF EmptyOrClosed, TypeOK, UnreadInv, WriterInv, ReaderInv, StreamIntact
<1>9. CASE Consume
  <2>1. /\ head \in Nat /\ tail \in Nat /\ fed_now \in Nat /\ len \in Nat
        /\ tail <= head /\ head <= tail + Capacity
        /\ tail + len <= head /\ fed_now <= len
        /\ rpc = "feed" /\ tail' = tail + fed_now /\ rpc' \in {"answer", "top"}
    BY <1>9 DEF Consume, TypeOK, UnreadInv, ReaderInv
  <2>2. TypeOK' BY <1>9, <2>1 DEF Consume, TypeOK
  <2>3. UnreadInv' BY <1>9, <2>1 DEF Consume, UnreadInv
  <2>4. WriterInv' BY <1>9, <2>1 DEF Consume, WriterInv, TypeOK
  <2>5. ReaderInv' BY <1>9, <2>1 DEF Consume, ReaderInv
  <2>6. StreamIntact' BY <1>9 DEF Consume, StreamIntact
  <2> QED BY <2>2, <2>3, <2>4, <2>5, <2>6
<1>10. CASE Answer
  BY <1>10 DEF Answer, TypeOK, UnreadInv, WriterInv, ReaderInv, StreamIntact
<1>11. CASE UNCHANGED vars
  BY <1>11 DEF vars, TypeOK, UnreadInv, WriterInv, ReaderInv, StreamIntact
<1> QED
  BY <1>1, <1>2, <1>3, <1>4, <1>5, <1>6, <1>7, <1>8, <1>9, <1>10, <1>11

\* RingInv holds in every reachable state.
THEOREM RingInvariant == Spec => []RingInv
<1>1. RingInv /\ [Next]_vars => RingInv'
  BY RecvByteStep, CommitWriteStep, FeedByteStep, OtherSteps
     DEF Next, Writer, Reader
<1> QED BY InitRingInv, <1>1, PTL DEF Spec

-----------------------------------------------------------------------------
(* The theorems.                                                           *)

\* The parser is fed the bytes of the connection, in order, none twice.
THEOREM Intact == Spec => []StreamIntact
<1>1. RingInv => StreamIntact BY DEF RingInv
<1> QED BY <1>1, RingInvariant, PTL

\* recv() and feed() never touch the same cell.
THEOREM NoRace == Spec => []SpansApart
<1>1. RingInv => SpansApart
  <2> SUFFICES ASSUME RingInv PROVE SpansApart OBVIOUS
  <2> USE ConstantsAssumption DEF RingInv
  <2>1. head \in Nat /\ tail \in Nat /\ span \in Nat /\ len \in Nat /\ src \in Cells
    BY DEF TypeOK
  <2>2. Idx(head) \in Cells BY <2>1, IdxType
  <2>3. WriterCells \cup ReaderCells \subseteq Cells
    BY <2>1, <2>2 DEF WriterCells, ReaderCells, WriterInv, ReaderInv, Cells
  <2>4. ASSUME NEW c \in WriterCells, c \in ReaderCells PROVE FALSE
    <3>1. wpc = "recv" /\ rpc = "feed" BY <2>4 DEF WriterCells, ReaderCells
    <3> DEFINE i == c - Idx(head)
               j == c - src
    <3>2. c \in Nat /\ Idx(head) \in Nat /\ src \in Nat
      BY <2>2, <2>1, <2>3, <2>4 DEF Cells
    <3>3. i \in 0 .. span - 1 /\ j \in 0 .. len - 1
      BY <2>1, <2>4, <3>1, <3>2 DEF WriterCells, ReaderCells
    <3>4. Idx(head + i) = c /\ Idx(tail + j) = c
      <4>1. i \in Nat /\ j \in Nat BY <2>1, <3>3
      <4>2. Idx(head) + i = c /\ src + j = c /\ c < Capacity
        BY <2>3, <2>4, <3>2 DEF Cells
      <4>3. src = Idx(tail) BY <3>1 DEF ReaderInv
      <4> QED BY <2>1, <4>1, <4>2, <4>3, SameSpan
    <3>5. tail + j < head + i /\ head + i < tail + j + Capacity
      BY <2>1, <3>1, <3>3 DEF WriterInv, ReaderInv
    <3> QED BY <2>1, <3>3, <3>4, <3>5, CellsApart
  <2> QED BY <2>3, <2>4 DEF SpansApart
<1> QED BY <1>1, RingInvariant, PTL

\* The ring and its two threads implement the bounded byte stream.
THEOREM Implements == Spec => IsByteStream
<1>1. Init => Stream!Init BY DEF Init, Stream!Init
<1>2. RingInv /\ [Next]_vars => [Stream!Next]_Stream!vars
  <2> SUFFICES ASSUME RingInv, [Next]_vars
               PROVE  Stream!Next \/ UNCHANGED Stream!vars
    OBVIOUS
  <2> USE ConstantsAssumption DEF RingInv, ringVars, writerVars, readerVars
  <2>1. CASE CommitWrite
    <3>1. filled \in 1 .. Capacity BY <2>1 DEF CommitWrite, TypeOK
    <3>2. ~closed /\ head + filled - tail <= Capacity
      BY <2>1 DEF CommitWrite, WriterInv, TypeOK
    <3>3. Stream!Write(filled) BY <2>1, <3>2 DEF CommitWrite, Stream!Write
    <3> QED BY <3>1, <3>3 DEF Stream!Next
  <2>2. CASE FeedByte
    <3>1. Stream!Deliver BY <2>2, NextByte DEF FeedByte, Stream!Deliver
    <3> QED BY <3>1 DEF Stream!Next
  <2>3. CASE Consume
    <3>1. fed_now \in 1 .. Capacity BY <2>3 DEF Consume, TypeOK
    <3>2. tail + fed_now <= Len(fed) BY <2>3 DEF Consume, ReaderInv, TypeOK
    <3>3. Stream!Free(fed_now) BY <2>3, <3>2 DEF Consume, Stream!Free
    <3> QED BY <3>1, <3>3 DEF Stream!Next
  <2>4. CASE Close
    <3>1. Stream!Close BY <2>4 DEF Close, Stream!Close
    <3> QED BY <3>1 DEF Stream!Next
  <2>5. CASE \/ WriterTop \/ Reserve \/ RecvByte \/ RecvNothing \/ WriterStops
             \/ ReaderTop \/ Peek \/ EmptyOrClosed \/ Answer \/ UNCHANGED vars
    BY <2>5 DEF WriterTop, Reserve, RecvByte, RecvNothing, WriterStops,
       ReaderTop, Peek, EmptyOrClosed, Answer, vars, Stream!vars
  <2> QED BY <2>1, <2>2, <2>3, <2>4, <2>5 DEF Next, Writer, Reader
<1> QED BY <1>1, <1>2, RingInvariant, PTL DEF Spec, IsByteStream, Stream!Spec

=============================================================================
