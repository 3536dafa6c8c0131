------------------------- MODULE BlockingRingProofs -------------------------
(***************************************************************************)
(* Proofs about BlockingRing for any capacity, any size of recv() and any  *)
(* number of bytes: its invariant RingInv, and that it implements the      *)
(* byte stream of ByteStream.                                              *)
(***************************************************************************)
EXTENDS BlockingRing, TLAPS

-----------------------------------------------------------------------------
(* Remainders: byte number p is in cell p % kRingBufferCapacity.           *)

\* Division with remainder.
LEMMA DivMod ==
  ASSUME NEW n \in Nat \ {0}, NEW p \in Nat
  PROVE  /\ p = n * (p \div n) + (p % n)
         /\ p % n \in 0 .. n - 1
         /\ p \div n \in Nat
OBVIOUS

\* Two bytes less than n apart are in different cells.
LEMMA Apart ==
  ASSUME NEW n \in Nat \ {0}, NEW p \in Nat, NEW q \in Nat, p < q, q < p + n
  PROVE  p % n # q % n
<1> SUFFICES ASSUME p % n = q % n PROVE FALSE OBVIOUS
<1>1. p = n * (p \div n) + (p % n) /\ p \div n \in Nat BY DivMod
<1>2. q = n * (q \div n) + (q % n) /\ q \div n \in Nat BY DivMod
<1> DEFINE d == (q \div n) - (p \div n)
<1>3. d \in Int BY <1>1, <1>2
<1>4. n * d = q - p BY <1>1, <1>2
<1> HIDE DEF d
<1>5. (d >= 1 => n * d >= n) /\ (d <= -1 => n * d <= -n) BY <1>3
<1> QED BY <1>3, <1>4, <1>5

\* Two bytes less than kRingBufferCapacity apart are in different cells.
LEMMA CellsApart ==
  ASSUME NEW p \in Nat, NEW q \in Nat, p < q, q < p + kRingBufferCapacity
  PROVE  Idx(p) # Idx(q)
BY Apart, ConstantsAssumption DEF Idx

\* A position has a cell.
LEMMA IdxType == ASSUME NEW p \in Nat PROVE Idx(p) \in Cells
BY DivMod, ConstantsAssumption DEF Idx, Cells

\* What is inductive: RingInv without CopiesApart, which follows.
IInv == TypeOK /\ CopiesInside /\ EndsWhileStopping /\ PlacesInv

\* The bytes being copied in are between head and tail + kRingBufferCapacity,
\* those being copied out between tail and head.
LEMMA CopiesAreApart == IInv => CopiesApart
<1> SUFFICES ASSUME IInv, NEW c \in WriterCells, c \in ReaderCells PROVE FALSE
  BY DEF CopiesApart
<1> USE ConstantsAssumption DEF IInv
<1>1. wpc = "copy" /\ rpc = "copy" BY DEF WriterCells, ReaderCells
<1>2. PICK k \in 0 .. chunk - 1 : c = Idx(head + k) BY <1>1 DEF WriterCells
<1>3. PICK j \in 0 .. max - 1 : c = Idx(tail + j) BY <1>1 DEF ReaderCells
<1>4. /\ head \in Nat /\ tail \in Nat /\ chunk \in Nat /\ max \in Nat
      /\ tail + max <= head /\ head + chunk <= tail + kRingBufferCapacity
  BY <1>1 DEF TypeOK, CopiesInside
<1>5. tail + j \in Nat /\ head + k \in Nat /\ tail + j < head + k
      /\ head + k < tail + j + kRingBufferCapacity
  BY <1>4
<1> QED BY <1>2, <1>3, <1>5, CellsApart

\* The empty ring satisfies the invariant.
LEMMA InitIInv == Init => IInv
<1> SUFFICES ASSUME Init PROVE IInv OBVIOUS
<1> USE ConstantsAssumption DEF Init
<1>1. TypeOK
  <2>1. data \in [Cells -> Nat \cup {NoByte}] OBVIOUS
  <2>2. closed \in BOOLEAN /\ stop \in BOOLEAN BY Zenon
  <2>3. /\ head \in Nat /\ tail \in Nat /\ h \in Nat /\ rest \in 0 .. kRecvBufferSize
        /\ chunk \in 0 .. kRingBufferCapacity /\ copied \in 0 .. kRingBufferCapacity
        /\ max \in 0 .. kRingBufferCapacity /\ got_now \in 0 .. kRingBufferCapacity
    OBVIOUS
  <2>4. got \in Seq(Nat) OBVIOUS
  <2> QED BY <2>1, <2>2, <2>3, <2>4, Zenon DEF TypeOK
<1> QED BY <1>1 DEF IInv, CopiesInside, EndsWhileStopping, PlacesInv

\* memcpy() stores a byte in a cell that holds no unread byte, nor one that
\* it has stored.
LEMMA CopyInStep ==
  ASSUME IInv, CopyIn
  PROVE  IInv'
<1> USE ConstantsAssumption DEF IInv, CopyIn, readerVars
<1> DEFINE cell == Idx(head + copied)
<1>1. /\ head \in Nat /\ tail \in Nat /\ copied \in Nat /\ chunk \in Nat
      /\ chunk <= kRingBufferCapacity
      /\ tail <= head /\ head + chunk <= tail + kRingBufferCapacity
      /\ copied < chunk
  BY DEF TypeOK, CopiesInside
<1>2. cell \in Cells /\ head + copied \in Nat BY <1>1, IdxType
<1>3. /\ data'[cell] = head + copied
      /\ \A c \in Cells : c # cell => data'[c] = data[c]
  BY <1>2 DEF TypeOK
<1>4. TypeOK'
  <2>1. data' \in [Cells -> Nat \cup {NoByte}] BY <1>2 DEF TypeOK
  <2>2. copied' \in 0 .. kRingBufferCapacity BY <1>1
  <2> QED BY <2>1, <2>2 DEF TypeOK
<1>5. ASSUME NEW p \in Nat, tail <= p, p < head + copied
      PROVE  data'[Idx(p)] = data[Idx(p)]
  <2>1. Idx(p) # cell BY <1>1, <1>2, <1>5, CellsApart
  <2> QED BY <1>3, <1>5, <2>1, IdxType
<1>6. \A p \in tail .. head - 1 : data'[Idx(p)] = p
  BY <1>1, <1>5 DEF CopiesInside
<1>7. \A k \in 0 .. copied : data'[Idx(head + k)] = head + k
  <2> TAKE k \in 0 .. copied
  <2>1. CASE k = copied BY <1>3, <2>1
  <2>2. CASE k # copied
    <3>1. k \in 0 .. copied - 1 /\ head + k \in Nat /\ tail <= head + k
          /\ head + k < head + copied
      BY <1>1, <2>2
    <3>2. data[Idx(head + k)] = head + k BY <3>1 DEF CopiesInside
    <3> QED BY <1>5, <3>1, <3>2
  <2> QED BY <2>1, <2>2
<1>8. CopiesInside'
  <2>1. copied' = copied + 1 /\ copied' <= chunk /\ copied' - 1 = copied BY <1>1
  <2> QED BY <1>6, <1>7, <2>1 DEF CopiesInside
<1>9. EndsWhileStopping' BY DEF EndsWhileStopping
<1>10. PlacesInv' BY DEF PlacesInv
<1> QED BY <1>4, <1>8, <1>9, <1>10

\* Publishing makes the bytes copied in unread bytes.
LEMMA PublishStep ==
  ASSUME IInv, Publish
  PROVE  IInv'
<1> USE ConstantsAssumption DEF IInv, Publish, readerVars
<1>1. /\ head \in Nat /\ tail \in Nat /\ chunk \in Nat /\ rest \in 0 .. kRecvBufferSize
      /\ kRecvBufferSize \in Nat /\ chunk <= rest /\ chunk > 0
      /\ tail <= head /\ head + chunk <= tail + kRingBufferCapacity
      /\ ~closed
  BY DEF TypeOK, CopiesInside, PlacesInv
<1>2. TypeOK' BY <1>1 DEF TypeOK
<1>3. ASSUME NEW p \in tail .. head + chunk - 1 PROVE data[Idx(p)] = p
  <2>1. CASE p < head BY <1>1, <2>1 DEF CopiesInside
  <2>2. CASE ~(p < head)
    <3> DEFINE k == p - head
    <3>1. k \in 0 .. copied - 1 /\ p = head + k BY <1>1, <2>2
    <3> HIDE DEF k
    <3> QED BY <3>1 DEF CopiesInside
  <2> QED BY <2>1, <2>2
<1>4. CopiesInside'
  <2>1. \A p \in tail .. head' - 1 : data'[Idx(p)] = p
    <3>1. data' = data /\ head' = head + chunk OBVIOUS
    <3> TAKE p \in tail .. head' - 1
    <3>2. p \in tail .. head + chunk - 1 BY <1>1, <3>1
    <3>3. data[Idx(p)] = p BY <1>3, <3>2, Zenon
    <3> QED BY <3>1, <3>3, Zenon
  <2>2. rpc = "copy" => got_now <= max /\ tail + max <= head'
    BY <1>1 DEF CopiesInside, TypeOK
  <2> QED BY <1>1, <2>1, <2>2 DEF CopiesInside
<1>5. EndsWhileStopping' BY <1>1 DEF EndsWhileStopping
<1>6. PlacesInv'
  <2>1. h \in Nat /\ (h <= head => h <= head + chunk) BY <1>1 DEF TypeOK
  <2> QED BY <1>1, <2>1 DEF PlacesInv
<1> QED BY <1>2, <1>4, <1>5, <1>6

\* The byte copied out next is the next byte of the connection.
LEMMA NextByte ==
  ASSUME IInv, CopyOut
  PROVE  got' = Append(got, Len(got)) /\ Len(got) < head
<1> USE ConstantsAssumption DEF IInv, CopyOut
<1>1. /\ head \in Nat /\ tail \in Nat /\ got_now \in Nat /\ max \in Nat
      /\ tail + max <= head /\ got_now < max
      /\ Len(got) = tail + got_now
  BY DEF TypeOK, CopiesInside
<1>2. tail + got_now \in tail .. head - 1 BY <1>1
<1> QED BY <1>1, <1>2 DEF CopiesInside

\* Copying a byte out.
LEMMA CopyOutStep ==
  ASSUME IInv, CopyOut
  PROVE  IInv'
<1> USE ConstantsAssumption DEF IInv, CopyOut, ringVars, writerVars
<1>1. got' = Append(got, Len(got)) /\ Len(got) \in Nat /\ got \in Seq(Nat)
  BY NextByte DEF TypeOK
<1>2. got_now \in Nat /\ got_now < max /\ max \in 0 .. kRingBufferCapacity BY DEF TypeOK
<1>3. got' \in Seq(Nat) /\ Len(got') = Len(got) + 1 BY <1>1
<1>4. TypeOK' BY <1>2, <1>3 DEF TypeOK
<1>5. CopiesInside'
  <2>1. Len(got') = tail + (got_now + 1) /\ tail \in Nat
    BY <1>2, <1>3 DEF CopiesInside, TypeOK
  <2> QED BY <1>2, <2>1 DEF CopiesInside
<1>6. EndsWhileStopping' BY DEF EndsWhileStopping
<1>7. PlacesInv' BY DEF PlacesInv
<1> QED BY <1>4, <1>5, <1>6, <1>7

\* The other steps of the receiver.
LEMMA WriterSteps ==
  ASSUME IInv,
         \/ WriterTop \/ Recv \/ Space \/ Notify \/ WriterStops \/ Close
         \/ NotifyClose
  PROVE  IInv'
<1> USE ConstantsAssumption DEF IInv, ringVars, writerVars, readerVars
<1>1. CASE WriterTop
  BY <1>1 DEF WriterTop, TypeOK, CopiesInside, EndsWhileStopping, PlacesInv
<1>2. CASE Recv
  <2>1. /\ wpc = "recv" /\ wpc' \in {"space", "top", "stop"}
        /\ UNCHANGED <<ringVars, stop, chunk, copied, readerVars>>
    BY <1>2 DEF Recv
  <2>2. rest' \in 0 .. kRecvBufferSize /\ (wpc' = "space" => rest' > 0)
    BY <1>2 DEF Recv, Least, TypeOK
  <2>3. TypeOK' BY <2>1, <2>2 DEF TypeOK
  <2>4. CopiesInside' BY <2>1 DEF CopiesInside
  <2>5. EndsWhileStopping' /\ PlacesInv' BY <2>1, <2>2 DEF EndsWhileStopping, PlacesInv
  <2> QED BY <2>3, <2>4, <2>5
<1>3. CASE Space
  <2>1. /\ head \in Nat /\ tail \in Nat /\ tail <= head
        /\ rest \in 0 .. kRecvBufferSize /\ rest > 0
    BY <1>3 DEF Space, TypeOK, CopiesInside, PlacesInv
  <2>2. /\ chunk' \in 1 .. kRingBufferCapacity /\ chunk' <= rest
        /\ head + chunk' <= tail + kRingBufferCapacity
    BY <1>3, <2>1 DEF Space, Least
  <2>3. TypeOK' BY <1>3, <2>2 DEF Space, TypeOK
  <2>4. CopiesInside' BY <1>3, <2>2 DEF Space, CopiesInside
  <2>5. EndsWhileStopping' /\ PlacesInv' BY <1>3, <2>2 DEF Space, EndsWhileStopping, PlacesInv
  <2> QED BY <2>3, <2>4, <2>5
<1>4. CASE Notify
  BY <1>4 DEF Notify, WakeReader, TypeOK, CopiesInside, EndsWhileStopping, PlacesInv
<1>5. CASE WriterStops
  BY <1>5 DEF WriterStops, TypeOK, CopiesInside, EndsWhileStopping, PlacesInv
<1>6. CASE Close
  BY <1>6 DEF Close, TypeOK, CopiesInside, EndsWhileStopping, PlacesInv
<1>7. CASE NotifyClose
  BY <1>7 DEF NotifyClose, WakeReader, TypeOK, CopiesInside, EndsWhileStopping, PlacesInv
<1> QED BY <1>1, <1>2, <1>3, <1>4, <1>5, <1>6, <1>7

\* The other steps of the parser, and a worker that stops the client.
LEMMA ReaderSteps ==
  ASSUME IInv,
         \/ ReaderTop \/ TestHead \/ TestClosed \/ Sleep \/ Load \/ Consume
         \/ WorkerStops \/ UNCHANGED vars
  PROVE  IInv'
<1> USE ConstantsAssumption DEF IInv, ringVars, writerVars, readerVars
<1>1. CASE ReaderTop
  BY <1>1 DEF ReaderTop, TypeOK, CopiesInside, EndsWhileStopping, PlacesInv
<1>2. CASE TestHead
  BY <1>2 DEF TestHead, TypeOK, CopiesInside, EndsWhileStopping, PlacesInv
<1>3. CASE TestClosed
  BY <1>3 DEF TestClosed, TypeOK, CopiesInside, EndsWhileStopping, PlacesInv
<1>4. CASE Sleep
  BY <1>4 DEF Sleep, TypeOK, CopiesInside, EndsWhileStopping, PlacesInv
<1>5. CASE Load
  <2>1. PICK seen \in h .. head :
          /\ h' = seen
          /\ max' = Least(kRecvBufferSize, seen - tail)
          /\ rpc' = IF seen = tail THEN "ended" ELSE "copy"
    BY <1>5 DEF Load
  <2>2. /\ rpc = "load" /\ got_now' = 0
        /\ UNCHANGED <<ringVars, stop, writerVars, got>>
    BY <1>5 DEF Load
  <2>3. /\ head \in Nat /\ tail \in Nat /\ h \in Nat /\ tail <= h /\ h <= head
        /\ head <= tail + kRingBufferCapacity /\ Len(got) = tail
        /\ (closed \/ tail < h)
    BY <2>2 DEF TypeOK, CopiesInside, PlacesInv
  <2>4. seen \in Nat /\ tail <= seen /\ seen <= head BY <2>3
  <2>5. /\ max' \in 0 .. kRingBufferCapacity /\ tail + max' <= head
        /\ (seen # tail => max' > 0)
    BY <2>1, <2>3, <2>4 DEF Least
  <2>6. TypeOK' BY <2>1, <2>2, <2>4, <2>5 DEF TypeOK
  <2>7. CopiesInside' BY <2>1, <2>2, <2>3, <2>5 DEF CopiesInside
  <2>8. EndsWhileStopping'
    <3>1. rpc' = "ended" => closed BY <2>1, <2>3, <2>4
    <3> QED BY <2>2, <3>1 DEF EndsWhileStopping
  <2>9. PlacesInv' BY <2>1, <2>2, <2>5 DEF PlacesInv
  <2> QED BY <2>6, <2>7, <2>8, <2>9
<1>6. CASE Consume
  <2>1. /\ head \in Nat /\ tail \in Nat /\ max \in Nat /\ head <= tail + kRingBufferCapacity
        /\ tail + max <= head /\ Len(got) = tail + max
    BY <1>6 DEF Consume, TypeOK, CopiesInside
  <2>2. TypeOK' BY <1>6, <2>1 DEF Consume, TypeOK
  <2>3. CopiesInside'
    <3>1. \A p \in tail' .. head' - 1 : data'[Idx(p)] = p
      BY <1>6, <2>1 DEF Consume, CopiesInside
    <3>2. wpc = "copy" => head + chunk <= tail' + kRingBufferCapacity
      BY <1>6, <2>1 DEF Consume, CopiesInside, TypeOK
    <3> QED BY <1>6, <2>1, <3>1, <3>2 DEF Consume, CopiesInside
  <2>4. EndsWhileStopping' /\ PlacesInv'
    BY <1>6 DEF Consume, EndsWhileStopping, PlacesInv
  <2> QED BY <2>2, <2>3, <2>4
<1>7. CASE WorkerStops
  BY <1>7 DEF WorkerStops, TypeOK, CopiesInside, EndsWhileStopping, PlacesInv
<1>8. CASE UNCHANGED vars
  BY <1>8 DEF vars, TypeOK, CopiesInside, EndsWhileStopping, PlacesInv
<1> QED BY <1>1, <1>2, <1>3, <1>4, <1>5, <1>6, <1>7, <1>8

\* IInv holds in every reachable state.
LEMMA Inductive == Spec => []IInv
<1>1. IInv /\ [Next]_vars => IInv'
  BY CopyInStep, PublishStep, CopyOutStep, WriterSteps, ReaderSteps
     DEF Next, Writer, Reader
<1> QED BY InitIInv, <1>1, PTL DEF Spec

-----------------------------------------------------------------------------
(* The theorems.                                                           *)

\* The copies of write() and read() never meet, the ring holds the bytes that
\* were not read, and read() ends the parser only once the ring is closed by a
\* client that is stopping.
THEOREM RingInvariant == Spec => []RingInv
<1>1. IInv => RingInv BY CopiesAreApart DEF IInv, RingInv
<1> QED BY <1>1, Inductive, PTL

\* The team client's ring and its two threads implement the bounded byte
\* stream, lost notifications or not.
THEOREM Implements == Spec => IsByteStream
<1>1. Init => Stream!Init BY DEF Init, Stream!Init
<1>2. IInv /\ [Next]_vars => [Stream!Next]_Stream!vars
  <2> SUFFICES ASSUME IInv, [Next]_vars
               PROVE  Stream!Next \/ UNCHANGED Stream!vars
    OBVIOUS
  <2> USE ConstantsAssumption DEF IInv, ringVars, writerVars, readerVars
  <2>1. CASE Publish
    <3>1. chunk \in 1 .. kRingBufferCapacity BY <2>1 DEF Publish, TypeOK, PlacesInv
    <3>2. ~closed /\ head + chunk - tail <= kRingBufferCapacity
      BY <2>1 DEF Publish, CopiesInside, TypeOK
    <3>3. Stream!Write(chunk) BY <2>1, <3>2 DEF Publish, Stream!Write
    <3> QED BY <3>1, <3>3 DEF Stream!Next
  <2>2. CASE CopyOut
    <3>1. Stream!Deliver BY <2>2, NextByte DEF CopyOut, Stream!Deliver
    <3> QED BY <3>1 DEF Stream!Next
  <2>3. CASE Consume
    <3>1. max \in 1 .. kRingBufferCapacity BY <2>3 DEF Consume, TypeOK, PlacesInv
    <3>2. tail + max <= Len(got) BY <2>3 DEF Consume, CopiesInside, TypeOK
    <3>3. Stream!Free(max) BY <2>3, <3>2 DEF Consume, Stream!Free
    <3> QED BY <3>1, <3>3 DEF Stream!Next
  <2>4. CASE Close
    <3>1. Stream!Close BY <2>4 DEF Close, Stream!Close
    <3> QED BY <3>1 DEF Stream!Next
  <2>5. CASE \/ WriterTop \/ Recv \/ Space \/ CopyIn \/ Notify \/ WriterStops
             \/ NotifyClose \/ ReaderTop \/ TestHead \/ TestClosed \/ Sleep \/ Load
             \/ WorkerStops \/ UNCHANGED vars
    BY <2>5 DEF WriterTop, Recv, Space, CopyIn, Notify, WriterStops, NotifyClose,
       ReaderTop, TestHead, TestClosed, Sleep, Load, WorkerStops, vars, Stream!vars
  <2> QED BY <2>1, <2>2, <2>3, <2>4, <2>5 DEF Next, Writer, Reader
<1> QED BY <1>1, <1>2, Inductive, PTL DEF Spec, IsByteStream, Stream!Spec

=============================================================================
