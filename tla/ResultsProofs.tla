---------------------------- MODULE ResultsProofs ----------------------------
(***************************************************************************)
(* Proofs about what logChallengeResult does, for any number of entries    *)
(* and of ends of a server (Results): the history that the file holds,     *)
(* what a torn one may have lost, and what a dashboard shows.  And about   *)
(* the entry that it adds, for any names, latencies and answers            *)
(* (LogEntry): its winner.                                                 *)
(*                                                                         *)
(* The invariant of the file: while none writes it is a prefix of the text *)
(* of a history (FileInv); while one writes, of the text of all, which is  *)
(* what was logged and one more as long as none was torn (HistoryInv).     *)
(* What a dashboard has read is pieces of that text, or closing brackets   *)
(* of histories it has been since the dashboard opened it (TextInv).       *)
(***************************************************************************)
EXTENDS Results, LogEntry, SequenceTheorems, FiniteSetTheorems, TLAPS

-----------------------------------------------------------------------------
(* Texts of histories, and their parts.                                    *)

Calls == 0 .. MaxEntries
Part(es, n) == SubSeq(Text(es), 1, n)

LEMMA Halves ==
  ASSUME NEW i \in Nat
  PROVE  /\ (2 * i + 1) \div 2 = i /\ (2 * i) % 2 = 0
         /\ i \div 2 \in Nat /\ i % 2 \in {0, 1} /\ i = 2 * (i \div 2) + (i % 2)
OBVIOUS

LEMMA TextPieces ==
  ASSUME NEW es \in Seq(Calls)
  PROVE  /\ Text(es) \in Seq(Pieces) /\ Len(es) \in Nat
         /\ Len(Text(es)) = 2 * Len(es) + 1
         /\ Text(es)[2 * Len(es) + 1] = End
         /\ \A i \in 1 .. 2 * Len(es) :
              Text(es)[i] = <<es[(i + 1) \div 2], 2 - (i % 2)>> /\ Text(es)[i] # End
         /\ \A k \in 1 .. Len(es) : Text(es)[2 * k][1] = es[k]
<1>1. PICK n \in Nat : n = Len(es) BY LenProperties
<1>2. ASSUME NEW i \in 1 .. 2 * n
      PROVE  /\ (i + 1) \div 2 \in 1 .. n /\ 2 - (i % 2) \in {1, 2}
             /\ es[(i + 1) \div 2] \in Calls
  <2>1. (i + 1) \div 2 \in 1 .. n /\ 2 - (i % 2) \in {1, 2} BY Halves
  <2> QED BY <1>1, <2>1, ElementOfSeq
<1>3. Text(es) = [i \in 1 .. 2 * n + 1 |->
                    IF i <= 2 * n THEN <<es[(i + 1) \div 2], 2 - (i % 2)>> ELSE End]
  BY <1>1 DEF Text
<1>4. ASSUME NEW i \in 1 .. 2 * n + 1 PROVE Text(es)[i] \in Pieces
  <2>1. CASE i <= 2 * n
    <3>1. i \in 1 .. 2 * n BY <2>1
    <3>2. PICK a \in Calls, b \in {1, 2} : a = es[(i + 1) \div 2] /\ b = 2 - (i % 2)
      BY <1>2, <3>1
    <3>3. Text(es)[i] = <<a, b>> BY <1>3, <2>1, <3>2
    <3>4. <<a, b>> \in Calls \X {1, 2} OBVIOUS
    <3> QED BY <3>3, <3>4 DEF Pieces, Calls
  <2>2. CASE ~(i <= 2 * n) BY <1>3, <2>2 DEF Pieces
  <2> QED BY <2>1, <2>2
<1>5. Text(es) \in [1 .. 2 * n + 1 -> Pieces] BY <1>3, <1>4
<1>6. Text(es) \in Seq(Pieces) /\ Len(Text(es)) = 2 * n + 1
  BY <1>5, SeqDef, LenProperties
<1>7. Text(es)[2 * n + 1] = End BY <1>3
<1>8. ASSUME NEW i \in 1 .. 2 * n
      PROVE  Text(es)[i] = <<es[(i + 1) \div 2], 2 - (i % 2)>> /\ Text(es)[i] # End
  <2>1. PICK b \in {1, 2} : b = 2 - (i % 2) BY <1>2
  <2>2. PICK a : a = es[(i + 1) \div 2] OBVIOUS
  <2>3. Text(es)[i] = <<a, b>> BY <1>3, <2>1, <2>2
  <2>4. <<a, b>> # <<Torn, 3>> OBVIOUS
  <2> QED BY <2>1, <2>2, <2>3, <2>4 DEF End
<1>9. ASSUME NEW k \in 1 .. n PROVE Text(es)[2 * k][1] = es[k]
  <2>1. 2 * k \in 1 .. 2 * n /\ (2 * k + 1) \div 2 = k BY Halves
  <2>2. PICK i \in 1 .. 2 * n : i = 2 * k BY <2>1
  <2>3. Text(es)[i] = <<es[(i + 1) \div 2], 2 - (i % 2)>> BY <1>8
  <2>4. Text(es)[i][1] = es[(i + 1) \div 2] BY <2>3
  <2> QED BY <2>1, <2>2, <2>4
<1> QED BY <1>1, <1>6, <1>7, <1>8, <1>9

LEMMA PartPieces ==
  ASSUME NEW es \in Seq(Calls), NEW n \in 0 .. 2 * Len(es) + 1
  PROVE  /\ Part(es, n) \in Seq(Pieces) /\ Len(Part(es, n)) = n
         /\ \A i \in 1 .. n : Part(es, n)[i] = Text(es)[i]
         /\ n = 2 * Len(es) + 1 => Part(es, n) = Text(es)
<1>1. /\ Text(es) \in Seq(Pieces) /\ Len(es) \in Nat
      /\ Len(Text(es)) = 2 * Len(es) + 1
  BY TextPieces
<1>2. \A i \in 1 .. n : Text(es)[i] \in Pieces BY <1>1, ElementOfSeq
<1>3. n \in Nat BY <1>1
<1>4. Part(es, n) \in Seq(Pieces) /\ Len(Part(es, n)) = n
      /\ \A i \in 1 .. n : Part(es, n)[i] = Text(es)[i]
  BY <1>2, <1>3, SubSeqProperties DEF Part
<1>5. n = 2 * Len(es) + 1 => Part(es, n) = Text(es)
  BY <1>1, SubSeqFull DEF Part
<1> QED BY <1>4, <1>5

LEMMA FunctionSeq ==
  ASSUME NEW S, NEW n \in Nat, NEW s \in [1 .. n -> S]
  PROVE  s \in Seq(S)
BY SeqDef

\* What is parsed of any pieces is calls.
LEMMA ParsedCalls ==
  ASSUME NEW t \in Seq(Pieces)
  PROVE  Parsed(t) \in Seq(Calls)
<1>1. PICK n \in Nat : Len(t) = n BY LenProperties
<1>2. PICK m \in Nat : m = IF t # <<>> /\ t[Len(t)] = End THEN n - 1 ELSE n
  <2>1. t # <<>> => n # 0 BY <1>1, EmptySeq
  <2>2. CASE t # <<>> /\ t[Len(t)] = End BY <2>1, <2>2
  <2>3. CASE ~(t # <<>> /\ t[Len(t)] = End) BY <2>3
  <2> QED BY <2>2, <2>3
<1>3. PICK h \in Nat : h = (m + 1) \div 2 BY Halves
<1>4. Parsed(t) = [i \in 1 .. h |-> IF 2 * i <= m THEN t[2 * i][1] ELSE Torn]
  BY <1>1, <1>2, <1>3 DEF Parsed
<1>5. Torn \in Calls BY ConstantsAssumption DEF Torn, Calls
<1>6. ASSUME NEW i \in 1 .. h, 2 * i <= m PROVE t[2 * i][1] \in Calls
  <2>1. 2 * i \in 1 .. n BY <1>2, <1>6
  <2>2. t[2 * i] \in Pieces BY <1>1, <2>1, ElementOfSeq
  <2>3. CASE t[2 * i] \in Calls \X {1, 2} BY <2>3
  <2>4. CASE t[2 * i] = End BY <1>5, <2>4 DEF End
  <2> QED BY <2>2, <2>3, <2>4 DEF Pieces, Calls
<1>7. Parsed(t) \in [1 .. h -> Calls] BY <1>4, <1>5, <1>6
<1> QED BY <1>7, FunctionSeq

\* What is parsed of a part of a text: the entries of which both pieces are
\* there, and one that is torn if there is only one piece of it.
LEMMA ParsedPart ==
  ASSUME NEW es \in Seq(Calls), NEW n \in 0 .. 2 * Len(es) + 1
  PROVE  /\ Parsed(Part(es, n)) \in Seq(Calls)
         /\ Len(Parsed(Part(es, n))) = IF n > 2 * Len(es) THEN Len(es)
                                       ELSE (n + 1) \div 2
         /\ Len(Parsed(Part(es, n))) <= Len(es)
         /\ \A i \in 1 .. Len(Parsed(Part(es, n))) :
              Parsed(Part(es, n))[i] = IF 2 * i <= n THEN es[i] ELSE Torn
         /\ n > 2 * Len(es) => Parsed(Part(es, n)) = es
<1>1. PICK len \in Nat : len = Len(es) BY LenProperties
<1>2. PICK t : t = Part(es, n) OBVIOUS
<1>3. /\ t \in Seq(Pieces) /\ Len(t) = n /\ n \in Nat
      /\ \A i \in 1 .. n : t[i] = Text(es)[i]
  BY <1>1, <1>2, PartPieces
<1>4. PICK m \in Nat : m = IF n > 2 * len THEN 2 * len ELSE n BY <1>3
<1>5. (IF t # <<>> /\ t[Len(t)] = End THEN Len(t) - 1 ELSE Len(t)) = m
  <2>1. CASE n > 2 * len
    <3>1. n = 2 * len + 1 /\ m = n - 1 BY <1>1, <1>4, <2>1
    <3>2. t[Len(t)] = End BY <1>1, <1>3, <3>1, TextPieces
    <3>3. t # <<>> BY <1>3, <3>1, EmptySeq
    <3> QED BY <1>3, <3>1, <3>2, <3>3
  <2>2. CASE n <= 2 * len /\ n > 0
    <3>1. n \in 1 .. 2 * len BY <1>3, <2>2
    <3>2. n \in 1 .. 2 * Len(es) BY <1>1, <3>1
    <3>3. Text(es)[n] # End BY <3>2, TextPieces
    <3>4. t[Len(t)] # End BY <1>3, <2>2, <3>3
    <3> QED BY <1>3, <1>4, <2>2, <3>4
  <2>3. CASE n = 0
    <3>1. t = <<>> BY <1>3, <2>3, EmptySeq
    <3> QED BY <1>3, <1>4, <2>3, <3>1
  <2> QED BY <1>3, <2>1, <2>2, <2>3
<1>6. PICK h \in Nat : h = (m + 1) \div 2 /\ m \in {2 * h, 2 * h - 1} /\ h <= len
  <2>1. (m + 1) \div 2 \in Nat /\ m \in {2 * ((m + 1) \div 2), 2 * ((m + 1) \div 2) - 1}
    BY <1>4, Halves
  <2>2. m <= 2 * len BY <1>3, <1>4
  <2> QED BY <2>1, <2>2
<1>7. Parsed(t) = [i \in 1 .. h |-> IF 2 * i <= m THEN t[2 * i][1] ELSE Torn]
  BY <1>5, <1>6 DEF Parsed
<1>8. ASSUME NEW i \in 1 .. h
      PROVE  /\ 2 * i <= m <=> 2 * i <= n
             /\ 2 * i <= n => t[2 * i][1] = es[i]
             /\ es[i] \in Calls
  <2>1. i \in 1 .. len BY <1>6
  <2>2. es[i] \in Calls BY <1>1, <2>1, ElementOfSeq
  <2>3. 2 * i <= m <=> 2 * i <= n BY <1>3, <1>4, <2>1
  <2>4. ASSUME 2 * i <= n PROVE t[2 * i][1] = es[i]
    <3>1. 2 * i \in 1 .. n BY <1>3, <2>1, <2>4
    <3>2. t[2 * i] = Text(es)[2 * i] BY <1>3, <3>1
    <3> QED BY <1>1, <2>1, <3>2, TextPieces
  <2> QED BY <2>2, <2>3, <2>4
<1>9. Torn \in Calls BY ConstantsAssumption DEF Torn, Calls
<1>10. Parsed(t) \in [1 .. h -> Calls] BY <1>7, <1>8, <1>9
<1>11. Parsed(t) \in Seq(Calls) /\ Len(Parsed(t)) = h
  BY <1>10, SeqDef, LenProperties
<1>12. \A i \in 1 .. h : Parsed(t)[i] = IF 2 * i <= n THEN es[i] ELSE Torn
  BY <1>7, <1>8
<1>13. h = IF n > 2 * len THEN len ELSE (n + 1) \div 2
  <2>1. CASE n > 2 * len BY <1>4, <1>6, <2>1
  <2>2. CASE ~(n > 2 * len) BY <1>4, <1>6, <2>2
  <2> QED BY <2>1, <2>2
<1>14. ASSUME n > 2 * len PROVE Parsed(t) = es
  <2>1. h = len /\ \A i \in 1 .. len : 2 * i <= n BY <1>3, <1>13, <1>14
  <2>2. \A i \in 1 .. len : Parsed(t)[i] = es[i] BY <1>12, <2>1
  <2> QED BY <1>1, <1>11, <2>1, <2>2, SeqEqual
<1> QED BY <1>1, <1>2, <1>6, <1>11, <1>12, <1>13, <1>14

\* A whole text is parsed for what was written, and nothing else parses.
LEMMA ParsesWhole ==
  ASSUME NEW es \in Seq(Calls), NEW n \in 0 .. 2 * Len(es) + 1
  PROVE  /\ Parses(Part(es, n)) <=> n = 2 * Len(es) + 1
         /\ Parsed(Text(es)) = es /\ Parses(Text(es))
<1>1. PICK len \in Nat : len = Len(es) BY LenProperties
<1>2. Parsed(Text(es)) = es
  <2>1. 2 * len + 1 \in 0 .. 2 * Len(es) + 1 BY <1>1
  <2> QED BY <1>1, <2>1, ParsedPart, PartPieces
<1>3. n = 2 * len + 1 => Part(es, n) = Text(es) BY <1>1, PartPieces
<1>4. ASSUME n <= 2 * len PROVE ~Parses(Part(es, n))
  <2> SUFFICES ASSUME Part(es, n) = Text(Parsed(Part(es, n))) PROVE FALSE BY DEF Parses
  <2>1. PICK q \in Seq(Calls) : q = Parsed(Part(es, n)) BY ParsedPart
  <2>2. /\ Len(Part(es, n)) = 2 * Len(q) + 1 /\ Len(q) \in Nat
        /\ Part(es, n)[2 * Len(q) + 1] = End
    BY <2>1, TextPieces
  <2>3. n = 2 * Len(q) + 1 /\ Part(es, n)[n] = Text(es)[n]
    BY <2>2, PartPieces
  <2>4. Text(es)[n] # End
    <3>1. n \in 1 .. 2 * Len(es) BY <1>1, <1>4, <2>2, <2>3
    <3> QED BY <3>1, TextPieces
  <2> QED BY <2>2, <2>3, <2>4
<1> QED BY <1>1, <1>2, <1>3, <1>4 DEF Parses

-----------------------------------------------------------------------------
(* Histories: in order, with few torn entries.                             *)

InOrder(es) ==
  \A i, j \in 1 .. Len(es) :
    i < j /\ es[i] # Torn /\ es[j] # Torn => es[i] < es[j]
TornAt(es) == {i \in 1 .. Len(es) : es[i] = Torn}

\* Of calls up to top, with at most k torn.
History(es, top, k) ==
  /\ es \in Seq(0 .. top)
  /\ Len(es) <= top
  /\ InOrder(es)
  /\ Cardinality(TornAt(es)) <= k

LEMMA TornFinite ==
  ASSUME NEW S, NEW es \in Seq(S)
  PROVE  IsFiniteSet(TornAt(es)) /\ Cardinality(TornAt(es)) \in Nat
<1>1. Len(es) \in Nat BY LenProperties
<1>2. IsFiniteSet(1 .. Len(es)) BY <1>1, FS_Interval
<1>3. TornAt(es) \in SUBSET (1 .. Len(es)) BY DEF TornAt
<1> QED BY <1>2, <1>3, FS_Subset, FS_CardinalityType

LEMMA HistoryMore ==
  ASSUME NEW top \in Nat, NEW k \in Nat, NEW es, History(es, top, k),
         NEW top2 \in Nat, NEW k2 \in Nat, top <= top2, k <= k2
  PROVE  History(es, top2, k2)
<1>1. es \in Seq(0 .. top) /\ Len(es) <= top BY DEF History
<1>2. 0 .. top \subseteq 0 .. top2 OBVIOUS
<1>3. es \in Seq(0 .. top2) BY <1>1, <1>2, SeqMonotonic
<1>4. Len(es) \in Nat /\ Cardinality(TornAt(es)) \in Nat BY <1>1, LenProperties, TornFinite
<1> QED BY <1>3, <1>4 DEF History

LEMMA HistoryEmpty ==
  ASSUME NEW top \in Nat, NEW k \in Nat
  PROVE  History(<<>>, top, k)
<1>1. PICK es : es = <<>> OBVIOUS
<1>2. es \in Seq(0 .. top) /\ Len(es) = 0 BY <1>1, EmptySeq
<1>3. TornAt(es) = {} BY <1>2 DEF TornAt
<1>4. Cardinality(TornAt(es)) = 0 BY <1>3, FS_EmptySet
<1> QED BY <1>1, <1>2, <1>4 DEF History, InOrder

\* The next call's entry at the end.
LEMMA HistoryAppend ==
  ASSUME NEW top \in Nat, NEW k \in Nat, NEW es, History(es, top, k)
  PROVE  History(Append(es, top + 1), top + 1, k)
<1>1. PICK t : t = Append(es, top + 1) OBVIOUS
<1>2. es \in Seq(0 .. top + 1)
  BY HistoryMore DEF History
<1>3. PICK n \in Nat : n = Len(es) BY <1>2, LenProperties
<1>4. /\ t \in Seq(0 .. top + 1) /\ Len(t) = n + 1 /\ t[n + 1] = top + 1
      /\ \A i \in 1 .. n : t[i] = es[i]
  BY <1>1, <1>2, <1>3, AppendProperties
<1>5. \A i \in 1 .. n : es[i] \in 0 .. top BY <1>3, ElementOfSeq DEF History
<1>6. InOrder(t)
  <2> SUFFICES ASSUME NEW i \in 1 .. n + 1, NEW j \in 1 .. n + 1, i < j,
                      t[i] # Torn, t[j] # Torn
               PROVE  t[i] < t[j]
    BY <1>4 DEF InOrder
  <2>1. i \in 1 .. n OBVIOUS
  <2>2. CASE j \in 1 .. n BY <1>3, <1>4, <2>1, <2>2 DEF History, InOrder
  <2>3. CASE j = n + 1
    <3>1. t[j] = top + 1 BY <1>4, <2>3
    <3>2. t[i] \in 0 .. top BY <1>4, <1>5, <2>1
    <3> QED BY <3>1, <3>2
  <2> QED BY <2>2, <2>3
<1>7. TornAt(t) = TornAt(es)
  <2>1. t[n + 1] # Torn BY <1>4 DEF Torn
  <2> QED BY <1>3, <1>4, <2>1 DEF TornAt
<1>8. n <= top BY <1>3 DEF History
<1> QED BY <1>1, <1>4, <1>6, <1>7, <1>8 DEF History

\* What is parsed of a part of a history: at most one more entry is torn.
LEMMA HistoryPart ==
  ASSUME NEW top \in Calls, NEW k \in Nat, NEW es, History(es, top, k),
         NEW n \in 0 .. 2 * Len(es) + 1
  PROVE  /\ History(Parsed(Part(es, n)), top, k + 1)
         /\ es \in Seq(Calls)
<1>0. top \in Nat /\ top <= MaxEntries BY ConstantsAssumption DEF Calls
<1>1. es \in Seq(Calls)
  <2>1. es \in Seq(0 .. top) BY DEF History
  <2>2. 0 .. top \subseteq Calls BY <1>0, ConstantsAssumption DEF Calls
  <2> QED BY <2>1, <2>2, SeqMonotonic
<1>2. PICK len \in Nat : len = Len(es) /\ len <= top
  BY <1>1, LenProperties DEF History
<1>3. PICK q \in Seq(Calls) : q = Parsed(Part(es, n)) BY <1>1, ParsedPart
<1>4. PICK h \in Nat :
        /\ h = Len(q) /\ h <= len
        /\ h = IF n > 2 * len THEN len ELSE (n + 1) \div 2
        /\ \A i \in 1 .. h : q[i] = IF 2 * i <= n THEN es[i] ELSE Torn
  <2>1. Len(q) \in Nat BY LenProperties
  <2>2. /\ Len(q) <= len
        /\ Len(q) = IF n > 2 * len THEN len ELSE (n + 1) \div 2
        /\ \A i \in 1 .. Len(q) : q[i] = IF 2 * i <= n THEN es[i] ELSE Torn
    BY <1>1, <1>2, <1>3, ParsedPart
  <2> QED BY <2>1, <2>2
<1>5. \A i \in 1 .. h : es[i] \in 0 .. top
  <2>1. es \in Seq(0 .. top) BY DEF History
  <2>2. \A i \in 1 .. h : i \in 1 .. Len(es) BY <1>2, <1>4
  <2> QED BY <2>1, <2>2, ElementOfSeq
<1>6. q \in Seq(0 .. top)
  <2>1. ASSUME NEW i \in 1 .. h PROVE q[i] \in 0 .. top
    <3>1. q[i] = es[i] \/ q[i] = Torn BY <1>4
    <3>2. es[i] \in 0 .. top BY <1>5
    <3>3. Torn \in 0 .. top BY <1>0 DEF Torn
    <3> QED BY <3>1, <3>2, <3>3, Zenon
  <2>2. q \in [1 .. h -> Calls] BY <1>4, LenProperties
  <2>3. q \in [1 .. h -> 0 .. top] BY <2>1, <2>2
  <2> QED BY <2>3, FunctionSeq
<1>7. InOrder(q)
  <2> SUFFICES ASSUME NEW i \in 1 .. h, NEW j \in 1 .. h, i < j, q[i] # Torn, q[j] # Torn
               PROVE  q[i] < q[j]
    BY <1>4 DEF InOrder
  <2>1. q[i] = es[i] /\ q[j] = es[j] BY <1>4
  <2>2. i \in 1 .. Len(es) /\ j \in 1 .. Len(es) BY <1>2, <1>4
  <2> QED BY <2>1, <2>2 DEF History, InOrder
<1>8. Cardinality(TornAt(q)) <= k + 1
  <2>1. ASSUME NEW i \in TornAt(q) PROVE i \in TornAt(es) \cup {h}
    <3>1. i \in 1 .. h /\ q[i] = Torn BY <1>4 DEF TornAt
    <3>2. CASE 2 * i <= n BY <1>2, <1>4, <3>1, <3>2 DEF TornAt
    <3>3. CASE 2 * i > n
      <4>0. n \in Nat /\ i <= len BY <1>2, <1>4, <3>1
      <4>1. h = (n + 1) \div 2 /\ n \in Nat BY <1>4, <3>1, <3>3, <4>0
      <4>2. 2 * h <= n + 1 BY <4>1, Halves
      <4> QED BY <3>1, <3>3, <4>1, <4>2
    <3> QED BY <1>2, <3>1, <3>2, <3>3
  <2>2. IsFiniteSet(TornAt(es)) /\ Cardinality(TornAt(es)) \in Nat BY <1>1, TornFinite
  <2>3. /\ IsFiniteSet(TornAt(es) \cup {h})
        /\ Cardinality(TornAt(es) \cup {h}) <= Cardinality(TornAt(es)) + 1
    <3>1. CASE h \in TornAt(es)
      <4>1. TornAt(es) \cup {h} = TornAt(es) BY <3>1
      <4>2. /\ IsFiniteSet(TornAt(es) \cup {h})
            /\ Cardinality(TornAt(es) \cup {h}) = Cardinality(TornAt(es))
        BY <2>2, <4>1, Zenon
      <4> QED BY <2>2, <4>2
    <3>2. CASE h \notin TornAt(es)
      <4>1. /\ IsFiniteSet(TornAt(es) \cup {h})
            /\ Cardinality(TornAt(es) \cup {h}) = Cardinality(TornAt(es)) + 1
        BY <2>2, <3>2, FS_AddElement
      <4> QED BY <2>2, <4>1
    <3> QED BY <3>1, <3>2
  <2>4. Cardinality(TornAt(q)) <= Cardinality(TornAt(es) \cup {h})
    <3>1. TornAt(q) \in SUBSET (TornAt(es) \cup {h}) BY <2>1
    <3> QED BY <2>3, <3>1, FS_Subset
  <2>5. Cardinality(TornAt(q)) \in Nat /\ Cardinality(TornAt(es) \cup {h}) \in Nat
    BY <2>3, TornFinite, FS_CardinalityType
  <2>6. Cardinality(TornAt(es)) <= k BY DEF History
  <2> QED BY <2>2, <2>3, <2>4, <2>5, <2>6
<1>9. h <= top BY <1>0, <1>2, <1>4
<1> QED BY <1>1, <1>3, <1>4, <1>6, <1>7, <1>8, <1>9 DEF History

-----------------------------------------------------------------------------
(* The file.                                                               *)

\* The shape of the state, without the flags, what was shown and the sequences of
\* which more is said below.
ShapeInv ==
  /\ running \in {"none", "reference", "blast"}
  /\ pc \in {"idle", "open", "write"}
  /\ calls \in Calls
  /\ crashes \in 0 .. MaxCrashes
  /\ rpc \in {"idle", "read"}
  /\ logged \in Seq(Calls)
  /\ since \in Nat

FlagsInv == exists \in BOOLEAN /\ torn \in BOOLEAN

LEMMA ShapeStep ==
  ASSUME ShapeInv, [Next]_vars
  PROVE  ShapeInv'
<1> USE ConstantsAssumption DEF ShapeInv, fileVars, serverVars, readerVars
<1>1. CASE Start /\ UNCHANGED readerVars BY <1>1 DEF Start
<1>2. CASE Crash /\ UNCHANGED readerVars BY <1>2 DEF Crash
<1>3. CASE Read /\ UNCHANGED readerVars
  <2>1. calls' = calls + 1 /\ calls < MaxEntries /\ pc' = "open"
        /\ UNCHANGED <<running, crashes, logged, rpc, since>>
    BY <1>3 DEF Read
  <2> QED BY <2>1 DEF Calls
<1>4. CASE Truncate /\ UNCHANGED readerVars BY <1>4 DEF Truncate
<1>5. CASE Write /\ UNCHANGED readerVars
  <2>1. /\ pc' \in {"write", "idle"} /\ pc = "write"
        /\ logged' = logged \/ logged' = Append(logged, calls)
        /\ UNCHANGED <<running, calls, crashes, rpc, since>>
    BY <1>5 DEF Write
  <2>2. logged' \in Seq(Calls) BY <2>1, AppendProperties
  <2> QED BY <2>1, <2>2
<1>6. CASE Dashboard
  <2>1. UNCHANGED <<running, pc, calls, crashes, logged>> BY <1>6 DEF Dashboard
  <2>2. rpc' \in {"idle", "read"} BY <1>6 DEF Dashboard, Open, ReadMore, Load
  <2>3. since' = since \/ since' = Len(logged)
    BY <1>6 DEF Dashboard, Open, ReadMore, Load
  <2>4. Len(logged) \in Nat BY LenProperties
  <2> QED BY <2>1, <2>2, <2>3, <2>4
<1>7. CASE UNCHANGED vars BY <1>7 DEF vars
<1> QED BY <1>1, <1>2, <1>3, <1>4, <1>5, <1>6, <1>7 DEF Next, Server

LEMMA Shape == Spec => [](ShapeInv /\ FlagsInv)
<1>1. Init => ShapeInv /\ FlagsInv
  <2> SUFFICES ASSUME Init PROVE ShapeInv /\ FlagsInv OBVIOUS
  <2>1. logged \in Seq(Calls) BY EmptySeq DEF Init
  <2>2. ShapeInv BY <2>1, ConstantsAssumption DEF Init, ShapeInv, Calls
  <2>3. FlagsInv BY Zenon DEF Init, FlagsInv
  <2> QED BY <2>2, <2>3
<1>2. FlagsInv /\ [Next]_vars => FlagsInv'
  <2> SUFFICES ASSUME FlagsInv, [Next]_vars PROVE FlagsInv' OBVIOUS
  <2>1. exists' = exists \/ exists' = TRUE
    BY Zenon DEF Next, Server, Dashboard, Start, Crash, Read, Truncate, Write, vars,
       fileVars, serverVars
  <2>2. torn' = torn \/ torn' = (torn \/ pc = "write")
    BY Zenon DEF Next, Server, Dashboard, Start, Crash, Read, Truncate, Write, vars,
       fileVars, serverVars
  <2> QED BY <2>1, <2>2, Zenon DEF FlagsInv
<1> QED BY <1>1, <1>2, ShapeStep, PTL DEF Spec

\* While none writes, the file is a part of the text of a history, whatever has
\* been ended; while one writes, of what it adds to; and no history has more torn
\* entries than servers were ended.
FileInv ==
  /\ pc = "idle" => all = <<>>
  /\ pc # "idle" => History(all, calls, crashes)
  /\ pc = "write" => \E n \in 0 .. 2 * Len(all) : file = Part(all, n)
  /\ pc # "write" =>
       /\ \E es \in Seq(Calls) : \E n \in 0 .. 2 * Len(es) + 1 : file = Part(es, n)
       /\ History(Parsed(file), calls, crashes)

\* The empty file is a part of any text.
LEMMA PartEmpty ==
  ASSUME NEW es \in Seq(Calls)
  PROVE  Part(es, 0) = <<>> /\ 0 \in 0 .. 2 * Len(es) + 1
<1>1. Len(es) \in Nat BY LenProperties
<1>2. 0 \in 0 .. 2 * Len(es) + 1 BY <1>1
<1>3. Part(es, 0) \in Seq(Pieces) /\ Len(Part(es, 0)) = 0 BY <1>2, PartPieces
<1> QED BY <1>2, <1>3, EmptySeq

LEMMA HistoryType ==
  ASSUME ShapeInv, NEW es, History(es, calls, crashes)
  PROVE  es \in Seq(Calls) /\ Len(es) \in Nat /\ Len(es) <= calls
<1>1. calls \in Nat /\ calls <= MaxEntries BY ConstantsAssumption DEF ShapeInv, Calls
<1>2. es \in Seq(0 .. calls) /\ Len(es) <= calls BY DEF History
<1>3. 0 .. calls \subseteq Calls BY <1>1, ConstantsAssumption DEF Calls
<1> QED BY <1>2, <1>3, SeqMonotonic, LenProperties

LEMMA FileInit == Init => FileInv
<1> SUFFICES ASSUME Init PROVE FileInv OBVIOUS
<1>1. pc = "idle" /\ all = <<>> /\ file = <<>> /\ calls = 0 /\ crashes = 0 BY DEF Init
<1>2. PICK e \in Seq(Calls) : e = <<>> BY EmptySeq
<1>3. file = Part(e, 0) /\ 0 \in 0 .. 2 * Len(e) + 1 BY <1>1, <1>2, PartEmpty
<1>4. History(Parsed(file), calls, crashes)
  <2>1. Len(e) = 0 BY <1>2, EmptySeq
  <2>2. Parsed(file) \in Seq(Calls) /\ Len(Parsed(file)) <= 0
    BY <1>3, <2>1, ParsedPart
  <2>3. Parsed(file) = <<>> BY <2>2, LenProperties, EmptySeq
  <2> QED BY <1>1, <2>3, HistoryEmpty
<1> QED BY <1>1, <1>2, <1>3, <1>4 DEF FileInv

\* The end of a server: one more entry may be torn.
LEMMA FileCrash ==
  ASSUME ShapeInv, FileInv, Crash
  PROVE  FileInv'
<1>1. /\ all' = <<>> /\ pc' = "idle" /\ crashes' = crashes + 1
      /\ UNCHANGED <<file, calls>>
  BY DEF Crash, fileVars
<1>2. calls \in Nat /\ calls \in Calls /\ crashes \in Nat
  BY ConstantsAssumption DEF ShapeInv, Calls
<1>3. CASE pc = "write"
  <2>1. History(all, calls, crashes) BY <1>3 DEF FileInv
  <2>2. PICK n \in 0 .. 2 * Len(all) + 1 : file = Part(all, n)
    BY <2>1, <1>3, HistoryType DEF FileInv
  <2>3. History(Parsed(file), calls, crashes + 1) /\ all \in Seq(Calls)
    BY <1>2, <2>1, <2>2, HistoryPart
  <2>4. all \in Seq(Calls) /\ n \in 0 .. 2 * Len(all) + 1 BY <2>2, <2>3
  <2> QED BY <1>1, <2>2, <2>3, <2>4, Zenon DEF FileInv
<1>4. CASE pc # "write"
  <2>1. History(Parsed(file), calls, crashes) BY <1>4 DEF FileInv
  <2>2. History(Parsed(file), calls, crashes + 1) BY <1>2, <2>1, HistoryMore
  <2> QED BY <1>1, <1>4, <2>2 DEF FileInv
<1> QED BY <1>3, <1>4

\* A call reads the history back, whole, in part or not at all, and adds to it.
LEMMA FileRead ==
  ASSUME ShapeInv, FileInv, Read
  PROVE  FileInv'
<1>1. /\ pc = "idle" /\ pc' = "open" /\ calls' = calls + 1
      /\ all' = Append(ReadBack, calls + 1)
      /\ UNCHANGED <<file, crashes>>
  BY DEF Read, With, fileVars
<1>2. calls \in Nat /\ crashes \in Nat BY ConstantsAssumption DEF ShapeInv, Calls
<1>3. History(Parsed(file), calls, crashes) BY <1>1 DEF FileInv
<1>4. History(ReadBack, calls, crashes) BY <1>2, <1>3, HistoryEmpty, Zenon DEF ReadBack
<1>5. History(all', calls', crashes') BY <1>1, <1>2, <1>4, HistoryAppend
<1>6. History(Parsed(file), calls + 1, crashes) BY <1>2, <1>3, HistoryMore
<1> QED BY <1>1, <1>5, <1>6 DEF FileInv

LEMMA FileTruncate ==
  ASSUME ShapeInv, FileInv, Truncate
  PROVE  FileInv'
<1>1. /\ pc = "open" /\ pc' = "write" /\ file' = <<>> /\ UNCHANGED <<all, calls, crashes>>
  BY DEF Truncate
<1>2. all \in Seq(Calls) /\ History(all, calls, crashes) BY <1>1, HistoryType DEF FileInv
<1>3. file' = Part(all, 0) /\ 0 \in 0 .. 2 * Len(all)
  BY <1>1, <1>2, PartEmpty, LenProperties
<1> QED BY <1>1, <1>2, <1>3 DEF FileInv

\* With the last part of the text the file holds all.
LEMMA WriteParts ==
  ASSUME ShapeInv, FileInv, Write
  PROVE  \E n \in 1 .. 2 * Len(all) + 1 :
           /\ pc = "write" /\ all \in Seq(Calls) /\ Len(all) \in Nat
           /\ History(all, calls, crashes)
           /\ file' = Part(all, n) /\ UNCHANGED <<exists, calls, crashes, torn>>
           /\ IF n = 2 * Len(all) + 1
              THEN pc' = "idle" /\ all' = <<>> /\ logged' = Append(logged, calls)
              ELSE UNCHANGED <<pc, all, logged>>
<1>1. pc = "write" BY DEF Write
<1>2. History(all, calls, crashes) BY <1>1 DEF FileInv
<1>3. all \in Seq(Calls) /\ Len(all) \in Nat BY <1>2, HistoryType
<1>4. Len(Text(all)) = 2 * Len(all) + 1 BY <1>3, TextPieces
<1>5. PICK k \in 0 .. 2 * Len(all) + 1 : file = Part(all, k) BY <1>1, <1>3 DEF FileInv
<1>6. Len(file) = k BY <1>3, <1>5, PartPieces
<1>7. PICK n \in k + 1 .. 2 * Len(all) + 1 :
        /\ file' = SubSeq(Text(all), 1, n)
        /\ IF n = 2 * Len(all) + 1
           THEN pc' = "idle" /\ all' = <<>> /\ logged' = Append(logged, calls)
           ELSE UNCHANGED <<pc, all, logged>>
  BY <1>4, <1>6 DEF Write
<1>8. n \in 1 .. 2 * Len(all) + 1 BY <1>3, <1>5, <1>7
<1>9. UNCHANGED <<exists, calls, crashes, torn>> BY DEF Write
<1> QED BY <1>1, <1>2, <1>3, <1>7, <1>8, <1>9 DEF Part

LEMMA FileWrite ==
  ASSUME ShapeInv, FileInv, Write
  PROVE  FileInv'
<1>1. PICK n \in 1 .. 2 * Len(all) + 1 :
        /\ pc = "write" /\ all \in Seq(Calls) /\ Len(all) \in Nat
        /\ History(all, calls, crashes)
        /\ file' = Part(all, n) /\ UNCHANGED <<exists, calls, crashes, torn>>
        /\ IF n = 2 * Len(all) + 1
           THEN pc' = "idle" /\ all' = <<>> /\ logged' = Append(logged, calls)
           ELSE UNCHANGED <<pc, all, logged>>
  BY WriteParts
<1>2. n \in 0 .. 2 * Len(all) + 1 BY <1>1
<1>3. CASE n = 2 * Len(all) + 1
  <2>1. pc' = "idle" /\ all' = <<>> BY <1>1, <1>3
  <2>2. Parsed(file') = all BY <1>1, <1>2, <1>3, PartPieces, ParsesWhole
  <2>3. History(Parsed(file'), calls', crashes') BY <1>1, <2>2
  <2> QED BY <1>1, <1>2, <2>1, <2>3 DEF FileInv
<1>4. CASE n # 2 * Len(all) + 1
  <2>1. n \in 0 .. 2 * Len(all) BY <1>1, <1>4
  <2> QED BY <1>1, <1>4, <2>1 DEF FileInv
<1> QED BY <1>3, <1>4

LEMMA File == Spec => []FileInv
<1>1. ASSUME ShapeInv, FileInv, [Next]_vars PROVE FileInv'
  <2>1. CASE Server
    <3>1. CASE Start
      <4>1. UNCHANGED <<pc, all, file, calls, crashes>> BY <3>1 DEF Start, fileVars
      <4> QED BY <1>1, <4>1 DEF FileInv
    <3> QED BY <1>1, <2>1, <3>1, FileCrash, FileRead, FileTruncate, FileWrite DEF Server
  <2>2. CASE Dashboard \/ UNCHANGED vars
    <3>1. UNCHANGED <<pc, all, file, calls, crashes>>
      BY <2>2 DEF Dashboard, vars, fileVars, serverVars
    <3> QED BY <1>1, <3>1 DEF FileInv
  <2> QED BY <1>1, <2>1, <2>2 DEF Next
<1> QED BY <1>1, FileInit, Shape, PTL DEF Spec

\* Whenever it is looked at, what is left of the history is in order, and while none
\* writes no more of its entries are torn than servers were ended.
THEOREM TornEntries == Spec => []AtMostOneTornPerCrash
<1>1. ASSUME ShapeInv, FileInv PROVE AtMostOneTornPerCrash
  <2>1. /\ InOrder(Parsed(file)) /\ Parsed(file) \in Seq(Calls)
        /\ pc # "write" => Cardinality(TornAt(Parsed(file))) <= crashes
    <3>1. CASE pc = "write"
      <4>1. History(all, calls, crashes) BY <1>1, <3>1 DEF FileInv
      <4>2. PICK n \in 0 .. 2 * Len(all) + 1 : file = Part(all, n)
        BY <1>1, <3>1, <4>1, HistoryType DEF FileInv
      <4>3. calls \in Calls /\ crashes \in Nat BY <1>1, ConstantsAssumption DEF ShapeInv
      <4>4. History(Parsed(file), calls, crashes + 1) /\ all \in Seq(Calls)
        BY <4>1, <4>2, <4>3, HistoryPart
      <4>5. Parsed(file) \in Seq(Calls) BY <4>2, <4>4, ParsedPart
      <4> QED BY <3>1, <4>4, <4>5 DEF History
    <3>2. CASE pc # "write"
      <4>1. History(Parsed(file), calls, crashes) BY <1>1, <3>2 DEF FileInv
      <4> QED BY <1>1, <3>2, <4>1, HistoryType DEF History
    <3> QED BY <3>1, <3>2
  <2> DEFINE es == Parsed(file)
             ok == {i \in 1 .. Len(es) : es[i] # Torn}
  <2>2. \A i, j \in ok : i < j => es[i] < es[j] BY <2>1 DEF InOrder
  <2>3. DOMAIN es \ ok = TornAt(es)
    <3>1. DOMAIN es = 1 .. Len(es) BY <2>1, LenProperties
    <3> QED BY <3>1 DEF TornAt
  <2> QED BY <2>1, <2>2, <2>3 DEF AtMostOneTornPerCrash
<1> QED BY <1>1, Shape, File, PTL

-----------------------------------------------------------------------------
(* The history, as long as no call was cut while it wrote.                 *)

\* The file has what was logged, and a call adds its own entry to that.
HistoryInv ==
  /\ ~exists => file = <<>> /\ logged = <<>> /\ pc # "write"
  /\ ~torn =>
       /\ exists /\ pc # "write" => file = Text(logged)
       /\ pc # "idle" => all = Append(logged, calls)

LEMMA HistoryStep ==
  ASSUME ShapeInv, FileInv, HistoryInv, [Next]_vars
  PROVE  HistoryInv'
<1>1. CASE Start /\ UNCHANGED readerVars
  <2>1. UNCHANGED <<exists, file, logged, pc, torn, all, calls>> BY <1>1 DEF Start, fileVars
  <2> QED BY <2>1, Zenon DEF HistoryInv
<1>2. CASE Crash /\ UNCHANGED readerVars
  <2>1. /\ pc' = "idle" /\ UNCHANGED <<exists, file, logged>>
        /\ ~torn' => ~torn /\ pc # "write"
    BY <1>2, Zenon DEF Crash, fileVars
  <2> QED BY <2>1, Zenon DEF HistoryInv
<1>3. CASE Read /\ UNCHANGED readerVars
  <2>1. /\ pc = "idle" /\ pc' = "open" /\ all' = Append(ReadBack, calls')
        /\ UNCHANGED <<exists, file, logged, torn>>
    BY <1>3 DEF Read, With, fileVars
  <2>2. ASSUME ~torn PROVE ReadBack = logged
    <3>1. pc # "write" BY <2>1
    <3>2. CASE exists
      <4>1. file = Text(logged) BY <2>2, <3>1, <3>2, Zenon DEF HistoryInv
      <4>2. logged \in Seq(Calls) /\ Len(logged) \in Nat BY LenProperties DEF ShapeInv
      <4>3. 0 \in 0 .. 2 * Len(logged) + 1 BY <4>2
      <4>4. Parsed(file) = logged /\ Parses(file) BY <4>1, <4>2, <4>3, ParsesWhole
      <4> QED BY <3>2, <4>4, Zenon DEF ReadBack
    <3>3. CASE ~exists BY <3>3, Zenon DEF ReadBack, HistoryInv
    <3> QED BY <3>2, <3>3, Zenon
  <2>3. pc' # "write" /\ pc # "write" BY <2>1
  <2> QED BY <2>1, <2>2, <2>3, Zenon DEF HistoryInv
<1>4. CASE Truncate /\ UNCHANGED readerVars
  <2>1. /\ pc = "open" /\ pc' = "write" /\ exists' = TRUE
        /\ UNCHANGED <<all, calls, logged, torn>>
    BY <1>4 DEF Truncate
  <2>2. pc # "idle" BY <2>1
  <2> QED BY <2>1, <2>2, Zenon DEF HistoryInv
<1>5. CASE Write /\ UNCHANGED readerVars
  <2>1. PICK n \in 1 .. 2 * Len(all) + 1 :
          /\ pc = "write" /\ all \in Seq(Calls) /\ Len(all) \in Nat
          /\ file' = Part(all, n) /\ UNCHANGED <<exists, calls, crashes, torn>>
          /\ IF n = 2 * Len(all) + 1
             THEN pc' = "idle" /\ all' = <<>> /\ logged' = Append(logged, calls)
             ELSE UNCHANGED <<pc, all, logged>>
    BY <1>5, WriteParts
  <2>2. exists /\ exists' BY <2>1, Zenon DEF HistoryInv
  <2>3. CASE n = 2 * Len(all) + 1
    <3>1. pc' = "idle" /\ logged' = Append(logged, calls) BY <2>1, <2>3
    <3>2. file' = Text(all)
      <4>1. n \in 0 .. 2 * Len(all) + 1 BY <2>1
      <4> QED BY <2>1, <2>3, <4>1, PartPieces
    <3>3. pc # "idle" BY <2>1
    <3>4. ~torn' => file' = Text(logged') BY <2>1, <3>1, <3>2, <3>3, Zenon DEF HistoryInv
    <3> QED BY <2>2, <3>1, <3>4, Zenon DEF HistoryInv
  <2>4. CASE n # 2 * Len(all) + 1
    <3>1. UNCHANGED <<pc, all, logged, torn, calls>> /\ pc = "write" BY <2>1, <2>4
    <3> QED BY <2>2, <3>1, Zenon DEF HistoryInv
  <2> QED BY <2>3, <2>4
<1>6. CASE Dashboard \/ UNCHANGED vars
  <2>1. UNCHANGED <<exists, file, logged, pc, torn, all, calls>>
    BY <1>6 DEF Dashboard, vars, fileVars, serverVars
  <2> QED BY <2>1, Zenon DEF HistoryInv
<1> QED BY <1>1, <1>2, <1>3, <1>4, <1>5, <1>6 DEF Next, Server

LEMMA HistoryInvariant == Spec => []HistoryInv
<1>1. Init => HistoryInv BY Zenon DEF Init, HistoryInv
<1> QED BY <1>1, HistoryStep, Shape, File, PTL DEF Spec

-----------------------------------------------------------------------------
(* The dashboard.                                                          *)

\* The history as it is, or will be when the call that writes has written.
Now == IF pc = "write" THEN all ELSE logged

\* A piece that was read is in its place in that history, or is the end of one
\* that the dashboard found when it opened the file, or later.
ReadRight(i) ==
  \/ i <= 2 * Len(Now) /\ text[i] = Text(Now)[i]
  \/ text[i] = End /\ \E k \in since .. Len(logged) : i = 2 * k + 1

TextInv ==
  /\ text \in Seq(Pieces)
  /\ rpc = "idle" => text = <<>>
  /\ rpc = "read" => exists
  /\ ~torn /\ rpc = "read" =>
       since <= Len(logged) /\ \A i \in 1 .. Len(text) : ReadRight(i)

\* What the history is does not change but by growing.
LEMMA NowGrows ==
  ASSUME ShapeInv, FileInv, HistoryInv, [Next]_vars, ~torn'
  PROVE  /\ ~torn
         /\ logged' = logged \/ logged' = Append(logged, calls)
         /\ Now \in Seq(Calls) /\ Now' \in Seq(Calls)
         /\ Now' = Now \/ Now' = Append(Now, calls)
         /\ calls \in Calls
<1>0. calls \in Calls /\ logged \in Seq(Calls) BY DEF ShapeInv
<1>1. pc = "write" => all = Append(logged, calls) /\ all \in Seq(Calls)
  <2> SUFFICES ASSUME pc = "write" PROVE all = Append(logged, calls) /\ all \in Seq(Calls)
    OBVIOUS
  <2>1. ~torn
    BY Zenon DEF Next, Server, Dashboard, Start, Crash, Read, Truncate, Write, vars,
       fileVars, serverVars
  <2>2. pc # "idle" OBVIOUS
  <2>3. all = Append(logged, calls) BY <2>1, <2>2, Zenon DEF HistoryInv
  <2> QED BY <1>0, <2>3, AppendProperties
<1>2. Now \in Seq(Calls) BY <1>0, <1>1 DEF Now
<1>3. ~torn
  BY Zenon DEF Next, Server, Dashboard, Start, Crash, Read, Truncate, Write, vars,
     fileVars, serverVars
<1>4. CASE Write /\ UNCHANGED readerVars
  <2>1. /\ pc = "write"
        /\ \/ pc' = "idle" /\ all' = <<>> /\ logged' = Append(logged, calls)
           \/ UNCHANGED <<pc, all, logged>>
    BY <1>4 DEF Write
  <2>2. Now' = Now BY <1>1, <2>1 DEF Now
  <2> QED BY <1>0, <1>2, <1>3, <2>1, <2>2
<1>5. CASE Truncate /\ UNCHANGED readerVars
  <2>1. pc = "open" /\ pc' = "write" /\ all' = all /\ logged' = logged
    BY <1>5 DEF Truncate
  <2>2. pc # "idle" BY <2>1
  <2>3. all = Append(logged, calls) BY <1>3, <2>2, Zenon DEF HistoryInv
  <2>4. Now = logged /\ Now' = Append(logged, calls) BY <2>1, <2>3 DEF Now
  <2> QED BY <1>0, <1>2, <1>3, <2>1, <2>4, AppendProperties
<1>6. CASE Crash /\ UNCHANGED readerVars
  <2>1. pc # "write" BY <1>6, Zenon DEF Crash
  <2>2. pc' = "idle" /\ logged' = logged BY <1>6 DEF Crash
  <2>3. Now' = Now BY <2>1, <2>2 DEF Now
  <2> QED BY <1>0, <1>2, <1>3, <2>2, <2>3
<1>7. CASE (Start \/ Read) /\ UNCHANGED readerVars
  <2>1. /\ logged' = logged
        /\ \/ pc' = pc /\ all' = all
           \/ pc = "idle" /\ pc' = "open"
    BY <1>7 DEF Start, Read
  <2>2. Now' = Now BY <2>1 DEF Now
  <2> QED BY <1>0, <1>2, <1>3, <2>1, <2>2
<1>8. CASE Dashboard \/ UNCHANGED vars
  <2>1. UNCHANGED <<pc, all, logged>> BY <1>8 DEF Dashboard, vars, serverVars
  <2>2. Now' = Now BY <2>1 DEF Now
  <2> QED BY <1>0, <1>2, <1>3, <2>1, <2>2
<1> QED BY <1>4, <1>5, <1>6, <1>7, <1>8 DEF Next, Server

\* So what was read right stays so.
LEMMA ReadRightKept ==
  ASSUME ShapeInv, FileInv, HistoryInv, [Next]_vars, ~torn',
         UNCHANGED since, since <= Len(logged),
         NEW i \in 1 .. Len(text), Len(text) \in Nat, ReadRight(i),
         text'[i] = text[i]
  PROVE  since <= Len(logged') /\ ReadRight(i)'
<1>1. /\ logged' = logged \/ logged' = Append(logged, calls)
      /\ Now \in Seq(Calls) /\ Now' \in Seq(Calls)
      /\ Now' = Now \/ Now' = Append(Now, calls)
      /\ calls \in Calls
  BY NowGrows
<1>2. PICK n \in Nat, m \in Nat :
        /\ n = Len(logged) /\ m = Len(logged') /\ n <= m
  <2>1. logged \in Seq(Calls) /\ Len(logged) \in Nat BY LenProperties DEF ShapeInv
  <2>2. Len(logged') = Len(logged) \/ Len(logged') = Len(logged) + 1
    BY <1>1, <2>1, AppendProperties
  <2> QED BY <2>1, <2>2
<1>3. since <= Len(logged')
  <2>1. since \in Nat BY DEF ShapeInv
  <2> QED BY <1>2, <2>1
<1>4. ASSUME i <= 2 * Len(Now), text[i] = Text(Now)[i] PROVE ReadRight(i)'
  <2>1. CASE Now' = Now BY <1>4, <2>1 DEF ReadRight
  <2>2. CASE Now' = Append(Now, calls) /\ calls \in Calls
    <3>1. PICK L \in Seq(Calls), M \in Seq(Calls), l \in Nat :
            /\ L = Now /\ M = Now' /\ l = Len(L) /\ Len(M) = l + 1
            /\ \A j \in 1 .. l : M[j] = L[j]
      <4>1. Len(Now) \in Nat BY <1>1, LenProperties
      <4>2. Len(Now') = Len(Now) + 1 /\ \A j \in 1 .. Len(Now) : Now'[j] = Now[j]
        BY <1>1, <2>2, AppendProperties
      <4> QED BY <1>1, <4>1, <4>2
    <3>2. i \in 1 .. 2 * l /\ i \in 1 .. 2 * (l + 1) BY <1>4, <3>1
    <3>3. (i + 1) \div 2 \in 1 .. l BY <3>2, Halves
    <3>4. Text(M)[i] = Text(L)[i]
      <4>1. i \in 1 .. 2 * Len(L) /\ i \in 1 .. 2 * Len(M) BY <3>1, <3>2
      <4>2. Text(L)[i] = <<L[(i + 1) \div 2], 2 - (i % 2)>> BY <4>1, TextPieces
      <4>3. Text(M)[i] = <<M[(i + 1) \div 2], 2 - (i % 2)>> BY <4>1, TextPieces
      <4>4. M[(i + 1) \div 2] = L[(i + 1) \div 2] BY <3>1, <3>3
      <4> QED BY <4>2, <4>3, <4>4
    <3>5. i <= 2 * Len(Now') /\ text'[i] = Text(Now')[i]
      BY <1>4, <3>1, <3>2, <3>4
    <3> QED BY <3>5 DEF ReadRight
  <2> QED BY <1>1, <2>1, <2>2
<1>5. ASSUME text[i] = End, NEW k \in since .. Len(logged), i = 2 * k + 1
      PROVE  ReadRight(i)'
  <2>1. since \in Nat BY DEF ShapeInv
  <2>2. k \in since' .. Len(logged') BY <1>2, <2>1
  <2> QED BY <1>5, <2>2 DEF ReadRight
<1> QED BY <1>3, <1>4, <1>5 DEF ReadRight

\* A read() takes what is in the file, which is right.
LEMMA FileRight ==
  ASSUME ShapeInv, FileInv, HistoryInv, TextInv, ReadMore, ~torn,
         UNCHANGED <<file, pc, all, logged>>,
         NEW i \in Len(text) + 1 .. Len(file), text'[i] = file[i]
  PROVE  ReadRight(i)'
<1>0. rpc = "read" /\ since' = since BY DEF ReadMore
<1>1. exists /\ since <= Len(logged) BY <1>0, Zenon DEF TextInv
<1>2. text \in Seq(Pieces) /\ Len(text) \in Nat BY LenProperties DEF TextInv
<1>3. Now' = Now BY DEF Now
<1>4. CASE pc = "write"
  <2>1. History(all, calls, crashes) BY <1>4 DEF FileInv
  <2>2. all \in Seq(Calls) /\ Len(all) \in Nat BY <2>1, HistoryType
  <2>3. PICK n \in 0 .. 2 * Len(all) : file = Part(all, n) BY <1>4 DEF FileInv
  <2>4. Len(file) = n /\ \A j \in 1 .. n : file[j] = Text(all)[j]
    <3>1. n \in 0 .. 2 * Len(all) + 1 BY <2>2, <2>3
    <3> QED BY <2>2, <2>3, <3>1, PartPieces
  <2>5. i \in 1 .. n BY <1>2, <2>4
  <2>6. i <= 2 * Len(all) BY <2>2, <2>5
  <2> QED BY <1>3, <1>4, <2>4, <2>5, <2>6 DEF ReadRight, Now
<1>5. CASE pc # "write"
  <2>1. logged \in Seq(Calls) /\ Len(logged) \in Nat BY LenProperties DEF ShapeInv
  <2>2. file = Text(logged) BY <1>1, <1>5, Zenon DEF HistoryInv
  <2>3. Len(file) = 2 * Len(logged) + 1 BY <2>1, <2>2, TextPieces
  <2>4. CASE i <= 2 * Len(logged) BY <1>3, <1>5, <2>2, <2>4 DEF ReadRight, Now
  <2>5. CASE i = 2 * Len(logged) + 1
    <3>1. text'[i] = End BY <2>1, <2>2, <2>5, TextPieces
    <3>2. since \in Nat BY DEF ShapeInv
    <3>3. Len(logged) \in since' .. Len(logged') BY <1>0, <1>1, <2>1, <3>2
    <3> QED BY <2>5, <3>1, <3>3 DEF ReadRight
  <2>6. i <= 2 * Len(logged) \/ i = 2 * Len(logged) + 1 BY <1>2, <2>1, <2>3
  <2> QED BY <2>4, <2>5, <2>6, Zenon
<1> QED BY <1>4, <1>5

\* A text that parses, of pieces that were right, is of the history as it was at the
\* end that was read.
LEMMA TextShown ==
  ASSUME ShapeInv, FileInv, HistoryInv, TextInv, ~torn, rpc = "read", Parses(text),
         Now \in Seq(Calls),
         logged \in Seq(Calls), Now = logged \/ Now = Append(logged, calls)
  PROVE  \E k \in since .. Len(logged) : Parsed(text) = SubSeq(logged, 1, k)
<1>1. text \in Seq(Pieces) /\ \A i \in 1 .. Len(text) : ReadRight(i) BY DEF TextInv
<1>2. calls \in Calls /\ since \in Nat BY DEF ShapeInv
<1>3. PICK q : q = Parsed(text) OBVIOUS
<1>4. PICK n \in Nat : Len(text) = n BY <1>1, LenProperties
<1>8. text = Text(q) BY <1>3 DEF Parses
<1>9. q \in Seq(Calls) BY <1>1, <1>3, ParsedCalls
<1>10. PICK l \in Nat :
         /\ Len(q) = l /\ n = 2 * l + 1 /\ text[n] = End
         /\ \A i \in 1 .. 2 * l : text[i] = Text(q)[i] /\ text[i] # End
  <2>1. /\ Len(q) \in Nat /\ Len(text) = 2 * Len(q) + 1 /\ text[2 * Len(q) + 1] = End
        /\ \A i \in 1 .. 2 * Len(q) : text[i] # End
    BY <1>8, <1>9, TextPieces
  <2> QED BY <1>4, <1>8, <2>1
<1>11. PICK g \in Nat : g = Len(logged) BY LenProperties
\* The last piece is the end of a history of l entries.
<1>12. l \in since .. g
  <2>1. ReadRight(n) BY <1>1, <1>4, <1>10
  <2>2. ~(n <= 2 * Len(Now) /\ text[n] = Text(Now)[n])
    <3> SUFFICES ASSUME n <= 2 * Len(Now), text[n] = Text(Now)[n] PROVE FALSE OBVIOUS
    <3>1. n \in 1 .. 2 * Len(Now) BY <1>10, LenProperties
    <3> QED BY <1>10, <3>1, TextPieces
  <2>3. PICK k \in since .. Len(logged) : n = 2 * k + 1 BY <2>1, <2>2 DEF ReadRight
  <2>4. k = l BY <1>2, <1>10, <1>11, <2>3
  <2> QED BY <1>11, <2>3, <2>4
\* The others are those of the history.
<1>13. ASSUME NEW i \in 1 .. l PROVE q[i] = logged[i]
  <2>1. 2 * i \in 1 .. 2 * l /\ 2 * i \in 1 .. n BY <1>10
  <2>2. text[2 * i] # End /\ ReadRight(2 * i) BY <1>1, <1>4, <1>10, <2>1
  <2>3. 2 * i <= 2 * Len(Now) /\ text[2 * i] = Text(Now)[2 * i] BY <2>2 DEF ReadRight
  <2>4. i \in 1 .. Len(Now) BY <2>3, LenProperties
  <2>5. text[2 * i][1] = Now[i] BY <2>3, <2>4, TextPieces
  <2>6. text[2 * i][1] = q[i] BY <1>8, <1>9, <1>10, TextPieces
  <2>7. i \in 1 .. g BY <1>2, <1>12
  <2>8. Now[i] = logged[i] BY <1>2, <1>11, <2>7, AppendProperties
  <2> QED BY <2>5, <2>6, <2>8
<1>14. q = SubSeq(logged, 1, l)
  <2>1. l <= g BY <1>2, <1>12
  <2>2. \A i \in 1 .. l : logged[i] \in Calls BY <1>11, <2>1, ElementOfSeq
  <2>3. /\ SubSeq(logged, 1, l) \in Seq(Calls) /\ Len(SubSeq(logged, 1, l)) = l
        /\ \A i \in 1 .. l : SubSeq(logged, 1, l)[i] = logged[i]
    BY <2>2, SubSeqProperties
  <2> QED BY <1>9, <1>10, <1>13, <2>3, SeqEqual
<1> QED BY <1>3, <1>11, <1>12, <1>14

\* A file is pieces, whatever was ended while it wrote it.
LEMMA FilePieces ==
  ASSUME ShapeInv, FileInv
  PROVE  file \in Seq(Pieces)
<1>1. CASE pc = "write"
  <2>1. History(all, calls, crashes) BY <1>1 DEF FileInv
  <2>2. all \in Seq(Calls) /\ Len(all) \in Nat BY <2>1, HistoryType
  <2>3. PICK n \in 0 .. 2 * Len(all) + 1 : file = Part(all, n) BY <1>1, <2>2 DEF FileInv
  <2> QED BY <2>2, <2>3, PartPieces
<1>2. CASE pc # "write"
  <2>1. PICK es \in Seq(Calls) : \E n \in 0 .. 2 * Len(es) + 1 : file = Part(es, n)
    BY <1>2 DEF FileInv
  <2> QED BY <2>1, PartPieces
<1> QED BY <1>1, <1>2

LEMMA TextReadMore ==
  ASSUME ShapeInv, FileInv, HistoryInv, TextInv, ReadMore,
         UNCHANGED <<fileVars, serverVars>>
  PROVE  TextInv'
<1>1. /\ rpc = "read" /\ rpc' = "read" /\ since' = since
      /\ UNCHANGED <<exists, file, pc, all, calls, logged, torn>>
  BY DEF ReadMore, fileVars, serverVars
<1>2. PICK T \in Seq(Pieces), F \in Seq(Pieces), t \in Nat, f \in Nat :
        T = text /\ F = file /\ t = Len(T) /\ f = Len(F)
  <2>1. text \in Seq(Pieces) /\ file \in Seq(Pieces) BY FilePieces DEF TextInv
  <2> QED BY <2>1, LenProperties
<1>3. PICK n \in t + 1 .. f : text' = T \o SubSeq(F, t + 1, n) BY <1>2 DEF ReadMore
<1>4. PICK G : G = SubSeq(F, t + 1, n) OBVIOUS
<1>5. /\ G \in Seq(Pieces) /\ Len(G) = n - t
      /\ \A j \in 1 .. n - t : G[j] = F[t + j]
  <2>1. \A i \in t + 1 .. n : F[i] \in Pieces BY <1>2, <1>3, ElementOfSeq
  <2>2. t + 1 \in Int /\ n \in Int OBVIOUS
  <2>3. /\ G \in Seq(Pieces)
        /\ Len(G) = IF t + 1 <= n THEN n - (t + 1) + 1 ELSE 0
        /\ \A j \in 1 .. n - (t + 1) + 1 : G[j] = F[t + 1 + j - 1]
    BY <1>4, <2>1, <2>2, SubSeqProperties
  <2>4. n - (t + 1) + 1 = n - t /\ t + 1 <= n OBVIOUS
  <2>5. ASSUME NEW j \in 1 .. n - t PROVE G[j] = F[t + j]
    <3>1. j \in 1 .. n - (t + 1) + 1 /\ t + 1 + j - 1 = t + j OBVIOUS
    <3> QED BY <2>3, <3>1
  <2> QED BY <2>3, <2>4, <2>5
<1>6. /\ text' \in Seq(Pieces) /\ Len(text') = n
      /\ \A i \in 1 .. t : text'[i] = T[i]
      /\ \A i \in t + 1 .. n : text'[i] = F[i]
  <2>1. /\ T \o G \in Seq(Pieces) /\ Len(T \o G) = n
        /\ \A i \in 1 .. n : (T \o G)[i] = IF i <= t THEN T[i] ELSE G[i - t]
    <3>1. t + (n - t) = n OBVIOUS
    <3> QED BY <1>2, <1>5, <3>1, ConcatProperties
  <2>2. ASSUME NEW i \in t + 1 .. n PROVE (T \o G)[i] = F[i]
    <3>1. i - t \in 1 .. n - t /\ t + (i - t) = i /\ i \in 1 .. n /\ ~(i <= t) OBVIOUS
    <3> QED BY <1>5, <2>1, <3>1
  <2>3. ASSUME NEW i \in 1 .. t PROVE (T \o G)[i] = T[i]
    <3>1. i \in 1 .. n /\ i <= t OBVIOUS
    <3> QED BY <2>1, <3>1
  <2>4. text' = T \o G BY <1>3, <1>4
  <2> QED BY <2>1, <2>2, <2>3, <2>4
<1>7. ASSUME ~torn
      PROVE  since' <= Len(logged') /\ \A i \in 1 .. n : ReadRight(i)'
  <2>1. since <= Len(logged) /\ \A i \in 1 .. Len(text) : ReadRight(i)
    BY <1>1, <1>7, Zenon DEF TextInv
  <2>2. ASSUME NEW i \in 1 .. t PROVE ReadRight(i)'
    <3>1. i \in 1 .. Len(text) /\ text'[i] = text[i] /\ ReadRight(i)
      BY <1>2, <1>6, <2>1
    <3>2. Now' = Now BY <1>1 DEF Now
    <3> QED BY <1>1, <3>1, <3>2 DEF ReadRight
  <2>3. ASSUME NEW i \in t + 1 .. n PROVE ReadRight(i)'
    <3>1. i \in t + 1 .. f OBVIOUS
    <3>2. text'[i] = F[i] BY <1>6
    <3>3. i \in Len(text) + 1 .. Len(file) /\ text'[i] = file[i] BY <1>2, <3>1, <3>2
    <3> QED BY <1>1, <1>7, <3>3, FileRight
  <2>4. \A i \in 1 .. n : i \in 1 .. t \/ i \in t + 1 .. n OBVIOUS
  <2> QED BY <1>1, <2>1, <2>2, <2>3, <2>4
<1>8. exists' BY <1>1, Zenon DEF TextInv
<1>9. rpc' # "idle" BY <1>1
<1>10. ~torn' /\ rpc' = "read" =>
        since' <= Len(logged') /\ \A i \in 1 .. Len(text') : ReadRight(i)'
  <2>1. ASSUME ~torn
        PROVE  since' <= Len(logged') /\ \A i \in 1 .. Len(text') : ReadRight(i)'
    BY <1>6, <1>7, <2>1
  <2> QED BY <1>1, <2>1, Zenon
<1> QED BY <1>6, <1>8, <1>9, <1>10, Zenon DEF TextInv

\* The servers' steps, and the dashboard's that read nothing.
LEMMA TextStep ==
  ASSUME ShapeInv, FileInv, HistoryInv, TextInv, [Next]_vars
  PROVE  TextInv'
<1>1. CASE Server \/ UNCHANGED vars
  <2>1. UNCHANGED <<rpc, text, since>> BY <1>1 DEF Server, vars, readerVars
  <2>2. exists => exists'
    BY <1>1, Zenon DEF Server, Start, Crash, Read, Truncate, Write, vars, fileVars
  <2>3. ASSUME ~torn', rpc = "read"
        PROVE  since' <= Len(logged') /\ \A i \in 1 .. Len(text') : ReadRight(i)'
    <3>1. ~torn BY <2>3, NowGrows
    <3>2. since <= Len(logged) /\ \A i \in 1 .. Len(text) : ReadRight(i)
      BY <2>3, <3>1, Zenon DEF TextInv
    <3>3. text \in Seq(Pieces) BY DEF TextInv
    <3>4. Len(text) \in Nat BY <3>3, LenProperties
    <3>5. \A i \in 1 .. Len(text) : ReadRight(i)'
      BY <2>1, <2>3, <3>2, <3>4, ReadRightKept
    <3>6. since' <= Len(logged')
      <4>1. logged \in Seq(Calls) /\ calls \in Calls /\ since \in Nat BY DEF ShapeInv
      <4>2. logged' = logged \/ logged' = Append(logged, calls) BY <2>3, NowGrows
      <4>3. Len(logged) \in Nat BY <4>1, LenProperties
      <4>4. Len(logged') = Len(logged) \/ Len(logged') = Len(logged) + 1
        BY <4>1, <4>2, AppendProperties
      <4> QED BY <2>1, <3>2, <4>1, <4>3, <4>4
    <3> QED BY <2>1, <3>5, <3>6
  <2>4. /\ text' \in Seq(Pieces)
        /\ rpc' = "idle" => text' = <<>>
        /\ rpc' = "read" => exists'
    BY <2>1, <2>2, Zenon DEF TextInv
  <2> QED BY <2>1, <2>3, <2>4, Zenon DEF TextInv
<1>2. CASE Open /\ UNCHANGED <<fileVars, serverVars>>
  <2>1. /\ rpc = "idle" /\ since' = Len(logged) /\ text' = text
        /\ UNCHANGED <<exists, logged, torn>>
    BY <1>2 DEF Open, fileVars, serverVars
  <2>2. text' = <<>> /\ text' \in Seq(Pieces) BY <2>1, Zenon DEF TextInv
  <2>3. rpc' = "read" => exists' BY <1>2, <2>1 DEF Open
  <2>4. Len(logged) \in Nat BY LenProperties DEF ShapeInv
  <2>5. Len(text') = 0 BY <2>2, EmptySeq
  <2>6. since' <= Len(logged') /\ \A i \in 1 .. Len(text') : ReadRight(i)'
    BY <2>1, <2>4, <2>5
  <2> QED BY <2>2, <2>3, <2>6, Zenon DEF TextInv
<1>3. CASE ReadMore /\ UNCHANGED <<fileVars, serverVars>> BY <1>3, TextReadMore
<1>4. CASE Load /\ UNCHANGED <<fileVars, serverVars>>
  <2>1. rpc' = "idle" /\ text' = <<>> BY <1>4 DEF Load
  <2>2. rpc' # "read" /\ text' \in Seq(Pieces) BY <2>1, EmptySeq
  <2> QED BY <2>1, <2>2, Zenon DEF TextInv
<1> QED BY <1>1, <1>2, <1>3, <1>4 DEF Next, Dashboard

LEMMA Reads == Spec => []TextInv
<1>1. Init => TextInv
  <2> SUFFICES ASSUME Init PROVE TextInv OBVIOUS
  <2>1. rpc = "idle" /\ text = <<>> BY DEF Init
  <2>2. rpc # "read" /\ text \in Seq(Pieces) BY <2>1, EmptySeq
  <2> QED BY <2>1, <2>2, Zenon DEF TextInv
<1> QED BY <1>1, TextStep, Shape, File, HistoryInvariant, PTL DEF Spec

-----------------------------------------------------------------------------
(* What is shown.                                                          *)

ShownType == shown \in [ok : BOOLEAN, entries : Seq(Calls), from : Nat, to : Nat]

\* What it was shown of is not longer than the history, which only grows.
ShownInv == ShownWasTrue /\ (~torn => shown.to <= Len(logged))

\* The first entries of a history are kept.
LEMMA PrefixKept ==
  ASSUME NEW s \in Seq(Calls), NEW c \in Calls, NEW n \in Nat, n <= Len(s)
  PROVE  SubSeq(Append(s, c), 1, n) = SubSeq(s, 1, n)
<1>1. PICK t \in Seq(Calls) : t = Append(s, c) BY AppendProperties
<1>2. \A i \in 1 .. n : t[i] = s[i] /\ s[i] \in Calls
  <2>1. \A i \in 1 .. n : i \in 1 .. Len(s) BY LenProperties
  <2> QED BY <1>1, <2>1, AppendProperties, ElementOfSeq
<1>3. 1 \in Int /\ n \in Int OBVIOUS
<1>4. /\ SubSeq(s, 1, n) \in Seq(Calls)
      /\ Len(SubSeq(s, 1, n)) = IF 1 <= n THEN n - 1 + 1 ELSE 0
      /\ \A i \in 1 .. n - 1 + 1 : SubSeq(s, 1, n)[i] = s[1 + i - 1]
  BY <1>2, <1>3, SubSeqProperties
<1>5. /\ SubSeq(t, 1, n) \in Seq(Calls)
      /\ Len(SubSeq(t, 1, n)) = IF 1 <= n THEN n - 1 + 1 ELSE 0
      /\ \A i \in 1 .. n - 1 + 1 : SubSeq(t, 1, n)[i] = t[1 + i - 1]
  BY <1>2, <1>3, SubSeqProperties
<1>6. Len(SubSeq(s, 1, n)) = n
  BY <1>4
<1>7. \A i \in 1 .. n : SubSeq(t, 1, n)[i] = SubSeq(s, 1, n)[i]
  BY <1>2, <1>4, <1>5
<1> QED BY <1>1, <1>4, <1>5, <1>6, <1>7, SeqEqual

LEMMA ShownTypeStep ==
  ASSUME ShapeInv, TextInv, ShownType, [Next]_vars
  PROVE  ShownType'
<1>0. Len(logged) \in Nat BY LenProperties DEF ShapeInv
<1>1. <<>> \in Seq(Calls) BY EmptySeq
<1>2. CASE Open /\ UNCHANGED <<fileVars, serverVars>>
  <2>1. CASE shown' = shown BY <2>1 DEF ShownType
  <2>2. CASE shown' = [Nothing EXCEPT !.from = since', !.to = since']
    <3>1. since' \in Nat BY <1>0, <1>2 DEF Open
    <3>2. shown' = [ok |-> TRUE, entries |-> <<>>, from |-> since', to |-> since']
      BY <2>2 DEF Nothing
    <3> QED BY <1>1, <3>1, <3>2, Zenon DEF ShownType
  <2> QED BY <1>2, <2>1, <2>2 DEF Open
<1>3. CASE Load /\ UNCHANGED <<fileVars, serverVars>>
  <2>1. PICK ok \in BOOLEAN : ok = Parses(text) BY Zenon DEF Parses
  <2>2. PICK es \in Seq(Calls) : es = IF Parses(text) THEN Parsed(text) ELSE <<>>
    <3>1. Parsed(text) \in Seq(Calls) BY ParsedCalls DEF TextInv
    <3> QED BY <1>1, <3>1, Zenon
  <2>3. shown' = [ok |-> ok, entries |-> es, from |-> since, to |-> Len(logged)]
    BY <1>3, <2>1, <2>2, Zenon DEF Load
  <2>4. since \in Nat BY DEF ShapeInv
  <2> QED BY <1>0, <2>3, <2>4, Zenon DEF ShownType
<1>4. CASE Server \/ (ReadMore /\ UNCHANGED <<fileVars, serverVars>>) \/ UNCHANGED vars
  <2>1. shown' = shown BY <1>4 DEF Server, ReadMore, vars, readerVars
  <2> QED BY <2>1 DEF ShownType
<1> QED BY <1>2, <1>3, <1>4 DEF Next, Dashboard

LEMMA ShownTyped == Spec => []ShownType
<1>1. Init => ShownType
  <2> SUFFICES ASSUME Init PROVE ShownType OBVIOUS
  <2>1. <<>> \in Seq(Calls) /\ 0 \in Nat BY EmptySeq
  <2>2. shown = [ok |-> TRUE, entries |-> <<>>, from |-> 0, to |-> 0] BY DEF Init, Nothing
  <2> QED BY <2>1, <2>2, Zenon DEF ShownType
<1> QED BY <1>1, ShownTypeStep, Shape, Reads, PTL DEF Spec

LEMMA ShownStep ==
  ASSUME ShapeInv, FileInv, HistoryInv, TextInv, ShownType, ShownInv, [Next]_vars
  PROVE  ShownInv'
<1> SUFFICES ASSUME ~torn'
             PROVE  /\ shown'.to <= Len(logged')
                    /\ shown'.ok => \E n \in shown'.from .. shown'.to :
                                      shown'.entries = SubSeq(logged', 1, n)
  BY Zenon DEF ShownInv, ShownWasTrue
<1>1. /\ ~torn /\ calls \in Calls
      /\ logged' = logged \/ logged' = Append(logged, calls)
      /\ Now \in Seq(Calls)
  BY NowGrows
<1>2. /\ logged \in Seq(Calls) /\ Len(logged) \in Nat
      /\ since \in Nat
  BY LenProperties DEF ShapeInv
<1>3. shown.to <= Len(logged) BY <1>1, Zenon DEF ShownInv
<1>4. ASSUME shown' = shown
      PROVE  /\ shown'.to <= Len(logged')
             /\ shown'.ok => \E n \in shown'.from .. shown'.to :
                               shown'.entries = SubSeq(logged', 1, n)
  <2>1. shown.from \in Nat /\ shown.to \in Nat BY DEF ShownType
  <2>2. PICK to \in Nat : to = shown.to /\ to <= Len(logged) BY <1>3, <2>1
  <2>3. Len(logged') \in {Len(logged), Len(logged) + 1}
    BY <1>1, <1>2, AppendProperties
  <2>4. shown'.to <= Len(logged') BY <1>2, <1>4, <2>2, <2>3
  <2>5. ASSUME shown.ok
        PROVE  \E n \in shown.from .. shown.to : shown.entries = SubSeq(logged', 1, n)
    <3>1. PICK n \in shown.from .. shown.to : shown.entries = SubSeq(logged, 1, n)
      BY <1>1, <2>5, Zenon DEF ShownInv, ShownWasTrue
    <3>2. n \in Nat /\ n <= Len(logged) BY <2>1, <2>2, <3>1
    <3>3. CASE logged' = logged BY <3>1, <3>3
    <3>4. CASE logged' = Append(logged, calls)
      <4>1. SubSeq(logged', 1, n) = SubSeq(logged, 1, n)
        BY <1>1, <1>2, <3>2, <3>4, PrefixKept
      <4> QED BY <3>1, <4>1
    <3> QED BY <1>1, <3>3, <3>4
  <2> QED BY <1>4, <2>4, <2>5, Zenon
<1>5. CASE Server \/ (ReadMore /\ UNCHANGED <<fileVars, serverVars>>) \/ UNCHANGED vars
  <2>1. shown' = shown BY <1>5 DEF Server, ReadMore, vars, readerVars
  <2> QED BY <1>4, <2>1
<1>6. CASE Open /\ UNCHANGED <<fileVars, serverVars>>
  <2>1. CASE shown' = shown BY <1>4, <2>1
  <2>2. CASE ~exists /\ shown' = [Nothing EXCEPT !.from = since', !.to = since']
    <3>1. logged = <<>> BY <2>2, Zenon DEF HistoryInv
    <3>2. logged' = <<>> /\ since' = Len(logged) BY <1>6, <3>1 DEF Open, serverVars
    <3>3. shown'.from = 0 /\ shown'.to = 0 /\ shown'.entries = <<>>
      <4>1. since' = 0 BY <3>1, <3>2, EmptySeq
      <4> QED BY <2>2, <4>1 DEF Nothing
    <3>4. Len(logged') = 0 BY <3>2, EmptySeq
    <3>5. SubSeq(logged', 1, 0) = <<>> BY SubSeqEmpty
    <3>6. 0 \in shown'.from .. shown'.to /\ shown'.to <= Len(logged') BY <3>3, <3>4
    <3> QED BY <3>3, <3>5, <3>6, Zenon
  <2>3. \/ shown' = shown
        \/ ~exists /\ shown' = [Nothing EXCEPT !.from = since', !.to = since']
    BY <1>6, Zenon DEF Open
  <2> QED BY <2>1, <2>2, <2>3, Zenon
<1>7. CASE Load /\ UNCHANGED <<fileVars, serverVars>>
  <2>1. /\ rpc = "read" /\ logged' = logged /\ pc' = pc
        /\ shown' = [ok |-> Parses(text),
                     entries |-> IF Parses(text) THEN Parsed(text) ELSE <<>>,
                     from |-> since, to |-> Len(logged)]
    BY <1>7 DEF Load, serverVars
  <2>2. shown'.ok = Parses(text) BY <2>1, Zenon
  <2>3. shown'.from = since /\ shown'.to = Len(logged)
        /\ shown'.entries = IF Parses(text) THEN Parsed(text) ELSE <<>>
    BY <2>1, Zenon
  <2>4. shown'.to <= Len(logged') BY <1>2, <2>1, <2>3
  <2>5. ASSUME shown'.ok
        PROVE  \E n \in shown'.from .. shown'.to : shown'.entries = SubSeq(logged', 1, n)
    <3>1. Parses(text) BY <2>2, <2>5, Zenon
    <3>2. Now = logged \/ Now = Append(logged, calls)
      <4>1. CASE pc = "write"
        <5>1. pc # "idle" BY <4>1
        <5>2. all = Append(logged, calls) BY <1>1, <5>1, Zenon DEF HistoryInv
        <5> QED BY <4>1, <5>2 DEF Now
      <4>2. CASE pc # "write" BY <4>2 DEF Now
      <4> QED BY <4>1, <4>2
    <3>3. PICK k \in since .. Len(logged) : Parsed(text) = SubSeq(logged, 1, k)
      BY <1>1, <1>2, <2>1, <3>1, <3>2, TextShown
    <3> QED BY <2>1, <2>3, <3>1, <3>3, Zenon
  <2> QED BY <2>4, <2>5, Zenon
<1> QED BY <1>5, <1>6, <1>7 DEF Next, Dashboard

\* What a dashboard shows is nothing, or the whole history as it was at one moment
\* while it read, however the server's parts and its own fall together.
THEOREM ShownTrue == Spec => []ShownWasTrue
<1>1. Init => ShownInv
  <2> SUFFICES ASSUME Init PROVE ShownInv OBVIOUS
  <2>1. logged = <<>> /\ shown = Nothing BY DEF Init
  <2>2. shown.from = 0 /\ shown.to = 0 /\ shown.entries = <<>> BY <2>1 DEF Nothing
  <2>3. SubSeq(logged, 1, 0) = <<>> BY SubSeqEmpty
  <2>4. Len(logged) = 0 BY <2>1, EmptySeq
  <2>5. 0 \in shown.from .. shown.to /\ shown.to <= Len(logged) BY <2>2, <2>4
  <2> QED BY <2>2, <2>3, <2>5, Zenon DEF ShownInv, ShownWasTrue
<1>2. Spec => []ShownInv
  BY <1>1, ShownStep, Shape, File, HistoryInvariant, Reads, ShownTyped, PTL DEF Spec
<1>3. ShownInv => ShownWasTrue BY Zenon DEF ShownInv
<1> QED BY <1>2, <1>3, PTL

\* The history is kept from one server to the next, and every variable has its type.
THEOREM ResultsInvariant == Spec => []ResultsInv
<1>1. ASSUME ShapeInv, FlagsInv, FileInv, TextInv, ShownType PROVE TypeOK
  <2>1. exists \in BOOLEAN /\ torn \in BOOLEAN BY <1>1, Zenon DEF FlagsInv
  <2>2. /\ running \in {"none", "reference", "blast"}
        /\ pc \in {"idle", "open", "write"}
        /\ calls \in 0 .. MaxEntries
        /\ crashes \in 0 .. MaxCrashes
        /\ rpc \in {"idle", "read"}
        /\ logged \in Entries
        /\ since \in Nat
    BY <1>1 DEF ShapeInv, Entries, Calls
  <2>3. file \in Seq(Pieces) BY <1>1, FilePieces
  <2>4. all \in Entries /\ Len(all) <= calls
    <3>1. CASE pc = "idle"
      <4>1. all = <<>> BY <1>1, <3>1 DEF FileInv
      <4>2. all \in Seq(Calls) /\ Len(all) = 0 BY <4>1, EmptySeq
      <4>3. calls \in Nat BY <1>1, ConstantsAssumption DEF ShapeInv, Calls
      <4> QED BY <4>2, <4>3 DEF Entries, Calls
    <3>2. CASE pc # "idle"
      <4>1. History(all, calls, crashes) BY <1>1, <3>2 DEF FileInv
      <4> QED BY <1>1, <4>1, HistoryType DEF Entries, Calls
    <3> QED BY <3>1, <3>2
  <2>5. text \in Seq(Pieces) BY <1>1, Zenon DEF TextInv
  <2>6. shown \in [ok : BOOLEAN, entries : Entries, from : Nat, to : Nat]
    BY <1>1 DEF ShownType, Entries, Calls
  <2> QED BY <2>1, <2>2, <2>3, <2>4, <2>5, <2>6, Zenon DEF TypeOK
<1>2. HistoryInv => HistoryKept BY Zenon DEF HistoryInv, HistoryKept
<1>3. TypeOK /\ HistoryKept => ResultsInv BY Zenon DEF ResultsInv
<1> QED BY <1>1, <1>2, <1>3, Shape, File, HistoryInvariant, Reads, ShownTyped, PTL

-----------------------------------------------------------------------------
(* The winner of an entry.                                                 *)

\* The loop starts with nobody seen.
LEMMA LoopInit == EntryInit => LoopInv
<1> SUFFICES ASSUME EntryInit PROVE LoopInv
  OBVIOUS
<1>1. PICK players \in SUBSET Names :
        /\ latencies \in [players -> Latencies]
        /\ todo = players
  BY DEF EntryInit
<1>2. DOMAIN latencies = players
  BY <1>1
<1>3. Correct \ todo = {}
  BY <1>1, <1>2 DEF Correct
<1> QED
  BY <1>1, <1>2, <1>3 DEF EntryInit, LoopInv, NoEntry

\* The player that is visited joins those seen: if it beats the winner it is
\* the new one, and if it does not it is wrong or not faster.
LEMMA LoopVisit ==
  ASSUME LoopInv, NEW name \in todo, Visit(name)
  PROVE  LoopInv'
<1> DEFINE seen == Correct \ todo
<1>1. /\ latencies' = latencies /\ answers' = answers /\ entry' = entry
      /\ todo' = todo \ {name}
      /\ name \in DOMAIN latencies
  BY DEF Visit, LoopInv, inputVars
<1>2. Correct' = Correct
  BY <1>1 DEF Correct, IsCorrect
<1>3. /\ DOMAIN latencies' \subseteq Names
      /\ latencies' \in [DOMAIN latencies' -> Latencies]
      /\ todo' \subseteq DOMAIN latencies'
  BY <1>1 DEF LoopInv
<1>4. ~entry.logged
  BY DEF LoopInv
<1>5. \A n \in DOMAIN latencies : latencies[n] \in Int /\ latencies[n] < INT_MAX
  BY EntryAssumption DEF LoopInv
<1>6. CASE IsCorrect(name)
  <2>1. seen' = seen \cup {name}
    BY <1>1, <1>2, <1>6 DEF Correct
  <2>2. /\ seen \subseteq DOMAIN latencies
        /\ seen = {} => bestLatency = INT_MAX
        /\ seen # {} => /\ winner \in seen /\ bestLatency = latencies[winner]
                        /\ \A other \in seen : bestLatency <= latencies[other]
    BY DEF LoopInv, Correct
  <2>3. CASE latencies[name] < bestLatency
    <3>1. winner' = name /\ bestLatency' = latencies[name]
      BY <1>6, <2>3 DEF Visit, Beats
    <3>2. \A other \in seen' : bestLatency' <= latencies'[other]
      BY <1>1, <1>5, <2>1, <2>2, <2>3, <3>1
    <3> QED
      BY <1>1, <1>3, <1>4, <2>1, <3>1, <3>2 DEF LoopInv
  <2>4. CASE ~(latencies[name] < bestLatency)
    <3>1. winner' = winner /\ bestLatency' = bestLatency
      BY <2>4 DEF Visit, Beats
    <3>2. seen # {}
      BY <1>1, <1>5, <2>2, <2>4
    <3>3. \A other \in seen' : bestLatency' <= latencies'[other]
      BY <1>1, <1>5, <2>1, <2>2, <2>4, <3>1, <3>2
    <3> QED
      BY <1>1, <1>3, <1>4, <2>1, <2>2, <3>1, <3>2, <3>3 DEF LoopInv
  <2> QED
    BY <2>3, <2>4
<1>7. CASE ~IsCorrect(name)
  <2>1. winner' = winner /\ bestLatency' = bestLatency
    BY <1>7 DEF Visit, Beats
  <2>2. seen' = seen
    BY <1>1, <1>2, <1>7 DEF Correct
  <2> QED
    BY <1>1, <1>3, <1>4, <2>1, <2>2 DEF LoopInv, Correct
<1> QED
  BY <1>6, <1>7

LEMMA LoopFinish ==
  ASSUME LoopInv, Finish
  PROVE  LoopInv'
<1>1. Correct' = Correct
  BY DEF Finish, Correct, IsCorrect, inputVars
<1>2. entry'.winner = IF winner' = Empty THEN Null ELSE winner'
  BY DEF Finish
<1> QED
  BY <1>1, <1>2 DEF LoopInv, Finish, inputVars

\* The winner kept by the loop is a fastest of the correct players it has come to.
THEOREM Loop == EntrySpec => []LoopInv
<1>1. LoopInv /\ [EntryNext]_entryVars => LoopInv'
  <2> SUFFICES ASSUME LoopInv, [EntryNext]_entryVars PROVE LoopInv'
    OBVIOUS
  <2>1. CASE \E name \in todo : Visit(name)
    BY <2>1, LoopVisit
  <2>2. CASE Finish
    BY <2>2, LoopFinish
  <2>3. CASE UNCHANGED entryVars
    BY <2>3 DEF entryVars, inputVars, LoopInv, Correct, IsCorrect
  <2> QED
    BY <2>1, <2>2, <2>3 DEF EntryNext
<1> QED
  BY LoopInit, <1>1, PTL DEF EntrySpec

\* "Determine winner: fastest correct answer", for every set of players and
\* every order of the map.
THEOREM Winner == EntrySpec => []WinnerIsFastest
<1>1. LoopInv => WinnerIsFastest
  <2> SUFFICES ASSUME LoopInv, entry.logged PROVE WinnerIsFastest
    BY DEF WinnerIsFastest
  <2>1. todo = {} /\ entry.winner = IF winner = Empty THEN Null ELSE winner
    BY DEF LoopInv
  <2>2. Correct \ todo = Correct
    BY <2>1
  <2>3. CASE Correct = {}
    BY <2>1, <2>2, <2>3 DEF LoopInv, WinnerIsFastest, Fastest
  <2>4. CASE Correct # {}
    <3>1. winner \in Fastest
      BY <2>2, <2>4 DEF LoopInv, Fastest
    <3>2. winner # Null
      BY <3>1, EntryAssumption DEF LoopInv, Fastest, Correct
    <3> QED
      BY <2>1, <3>1, <3>2 DEF WinnerIsFastest
  <2> QED
    BY <2>3, <2>4
<1> QED
  BY <1>1, Loop, PTL

=============================================================================
