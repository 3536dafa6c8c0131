----------------------- MODULE ChallengeParserProofs -----------------------
(***************************************************************************)
(* What a server writes: the text that Conversation makes of challenges is *)
(* one in which every character is a step to the next mark, and the marks  *)
(* come to the end of a challenge where ends says.  A text is written in   *)
(* pieces (digits, numbers, matrices, challenges), and pieces that fit can *)
(* be put together (WritesBoth).                                           *)
(*                                                                         *)
(* What holds of any bytes: every cell is stored inside job.A and job.B.   *)
(* ParserInv is inductive: the index of the matrix being filled is below   *)
(* N * N, and N is at most kMaxMatrixDim.                                  *)
(*                                                                         *)
(* What holds of the bytes that a server writes: what has been stored is   *)
(* how far the text has got (StreamInv), so each challenge is answered     *)
(* whole and at its last number.                                           *)
(*                                                                         *)
(* What holds of any bytes again: the team client's parser, which keeps    *)
(* sequences where the current one keeps arrays and indexes, is in the     *)
(* same state (SimInv), so it makes the same jobs.                         *)
(*                                                                         *)
(* What holds of the bytes that a server writes, the first client: what it *)
(* has not answered is in pending, whole, until a recv() ends within the   *)
(* last number of a challenge; and its inner loop leaves nothing there     *)
(* that has come to its last digit (V1Inv).                                *)
(***************************************************************************)
EXTENDS Parsers, SequenceTheorems, WellFoundedInduction, TLAPS

-----------------------------------------------------------------------------
(* Induction, and what recursive functions are.                            *)

\* Induction over the numbers.
LEMMA Induction ==
  ASSUME NEW S \in SUBSET Nat,
         \A n \in Nat : (\A m \in 0 .. n - 1 : m \in S) => n \in S
  PROVE  S = Nat
<1> DEFINE T == Nat \ S
<1> SUFFICES ASSUME T # {} PROVE FALSE OBVIOUS
<1>1. PICK x \in T : \A y \in T : ~(<<y, x>> \in OpToRel(<, Nat))
  <2>1. T \subseteq Nat OBVIOUS
  <2> HIDE DEF T
  <2> QED BY <2>1, NatLessThanWellFounded, WFMin
<1>2. \A y \in T : ~(y < x) BY <1>1 DEF OpToRel
<1>3. \A m \in 0 .. x - 1 : m \in S BY <1>2
<1> QED BY <1>3

\* From 0 to n, one by one.
LEMMA CountUp ==
  ASSUME NEW n \in Nat, NEW S, 0 \in S, \A k \in 1 .. n : k - 1 \in S => k \in S
  PROVE  0 .. n \subseteq S
<1> DEFINE Q == {k \in Nat : k <= n => k \in S}
<1>1. ASSUME NEW k \in Nat, \A m \in 0 .. k - 1 : m \in Q PROVE k \in Q
  <2>1. CASE k = 0 BY <2>1
  <2>2. CASE k # 0
    <3>1. k - 1 \in 0 .. k - 1 BY <2>2
    <3>2. k - 1 \in Q BY <1>1, <3>1
    <3> QED BY <2>2, <3>2
  <2> QED BY <2>1, <2>2
<1>2. Q \in SUBSET Nat OBVIOUS
<1> HIDE DEF Q
<1>3. Q = Nat BY <1>1, <1>2, Induction
<1> QED BY <1>3 DEF Q

\* f is a, and then what g makes of f so far and the number of the turn.
IsLoop(f, n, a, g, T) ==
  /\ f \in [0 .. n -> T]
  /\ f[0] = a
  /\ \A k \in 1 .. n : f[k] = g[<<k, f[k - 1]>>]

LEMMA LoopExists ==
  ASSUME NEW n \in Nat, NEW T, NEW a \in T, NEW g \in [(1 .. n) \X T -> T]
  PROVE  \E f : IsLoop(f, n, a, g, T)
<1> DEFINE S == {k \in 0 .. n : \E f : IsLoop(f, k, a, g, T)}
<1>1. 0 \in S
  <2> DEFINE f == [k \in 0 .. 0 |-> a]
  <2>1. IsLoop(f, 0, a, g, T) BY DEF IsLoop
  <2> QED BY <2>1
<1>2. ASSUME NEW k \in 1 .. n, k - 1 \in S PROVE k \in S
  <2>1. PICK f : IsLoop(f, k - 1, a, g, T) BY <1>2
  <2> DEFINE h == [m \in 0 .. k |-> IF m = k THEN g[<<k, f[k - 1]>>] ELSE f[m]]
  <2>2. f \in [0 .. k - 1 -> T] /\ f[0] = a
        /\ \A m \in 1 .. k - 1 : f[m] = g[<<m, f[m - 1]>>]
    BY <2>1 DEF IsLoop
  <2>3. f[k - 1] \in T BY <2>2
  <2>4. g[<<k, f[k - 1]>>] \in T BY <2>3
  <2>5. h \in [0 .. k -> T] BY <2>2, <2>4
  <2>6. h[0] = a
    <3>1. 0 \in 0 .. k /\ 0 # k OBVIOUS
    <3> QED BY <2>2, <3>1
  <2>7. ASSUME NEW m \in 1 .. k PROVE h[m] = g[<<m, h[m - 1]>>]
    <3>1. m - 1 \in 0 .. k /\ m - 1 # k /\ m \in 0 .. k OBVIOUS
    <3>2. h[m - 1] = f[m - 1] BY <3>1
    <3>3. CASE m = k
      <4>1. h[m] = g[<<k, f[k - 1]>>] BY <3>1, <3>3
      <4> HIDE DEF h
      <4> QED BY <3>2, <3>3, <4>1
    <3>4. CASE m # k
      <4>1. m \in 1 .. k - 1 BY <3>4
      <4>2. h[m] = f[m] BY <3>1, <3>4
      <4> QED BY <2>2, <3>2, <4>1, <4>2
    <3> QED BY <3>3, <3>4
  <2> HIDE DEF h
  <2>8. IsLoop(h, k, a, g, T) BY <2>5, <2>6, <2>7 DEF IsLoop
  <2> QED BY <2>8
<1> HIDE DEF S
<1>3. 0 .. n \subseteq S BY <1>1, <1>2, CountUp
<1> QED BY <1>3 DEF S

-----------------------------------------------------------------------------
(* Digits.                                                                 *)

AreDigits(f, n) ==
  /\ f \in [0 .. n -> Seq(Digit)]
  /\ \A m \in 0 .. n : f[m] = IF m < 10 THEN <<m>> ELSE Append(f[m \div 10], m % 10)

LEMMA Tenth ==
  ASSUME NEW n \in Nat
  PROVE  /\ n \div 10 \in 0 .. n
         /\ n >= 10 => n \div 10 \in 0 .. n - 1
         /\ n % 10 \in Digit
         /\ n = 10 * (n \div 10) + (n % 10)
BY DEF Digit

LEMMA DigitsAgree ==
  ASSUME NEW f, NEW n \in Nat, AreDigits(f, n), NEW g, NEW m \in Nat, AreDigits(g, m)
  PROVE  \A k \in Nat : k <= n /\ k <= m => f[k] = g[k]
<1> DEFINE S == {k \in Nat : k <= n /\ k <= m => f[k] = g[k]}
<1>1. ASSUME NEW k \in Nat, \A l \in 0 .. k - 1 : l \in S PROVE k \in S
  <2> SUFFICES ASSUME k <= n, k <= m PROVE f[k] = g[k] OBVIOUS
  <2>1. /\ f[k] = IF k < 10 THEN <<k>> ELSE Append(f[k \div 10], k % 10)
        /\ g[k] = IF k < 10 THEN <<k>> ELSE Append(g[k \div 10], k % 10)
    <3>1. k \in 0 .. n /\ k \in 0 .. m OBVIOUS
    <3> QED BY <3>1, Zenon DEF AreDigits
  <2>2. CASE k < 10 BY <2>1, <2>2
  <2>3. CASE k >= 10
    <3>1. k \div 10 \in 0 .. k - 1 BY <2>3, Tenth
    <3>2. PICK t \in 0 .. k - 1 : t = k \div 10 BY <3>1
    <3>3. t \in S /\ t <= n /\ t <= m BY <1>1, <3>2
    <3>4. f[t] = g[t] BY <3>3
    <3> HIDE DEF S
    <3> QED BY <2>1, <2>3, <3>2, <3>4
  <2> QED BY <2>2, <2>3
<1>2. S \in SUBSET Nat OBVIOUS
<1> HIDE DEF S
<1>3. S = Nat BY <1>1, <1>2, Induction
<1> QED BY <1>3 DEF S

LEMMA DigitsUpTo ==
  ASSUME NEW n \in Nat
  PROVE  \E f : AreDigits(f, n)
<1> DEFINE S == {k \in Nat : \E f : AreDigits(f, k)}
<1>1. ASSUME NEW k \in Nat, \A l \in 0 .. k - 1 : l \in S PROVE k \in S
  <2> DEFINE of(l) == CHOOSE f : AreDigits(f, l)
             h == [m \in 0 .. k |-> IF m < k THEN of(k - 1)[m]
                                    ELSE IF m < 10 THEN <<m>>
                                    ELSE Append(of(k - 1)[m \div 10], m % 10)]
  <2>1. ASSUME k > 0 PROVE AreDigits(of(k - 1), k - 1)
    <3>1. k - 1 \in S BY <1>1, <2>1
    <3>2. \E f : AreDigits(f, k - 1) BY <3>1
    <3> QED BY <3>2
  <2> HIDE DEF of
  <2>2. ASSUME NEW m \in 0 .. k
        PROVE  /\ h[m] \in Seq(Digit)
               /\ h[m] = IF m < 10 THEN <<m>> ELSE Append(h[m \div 10], m % 10)
    <3>1. CASE m < k
      <4>1. AreDigits(of(k - 1), k - 1) /\ m \in 0 .. k - 1 BY <2>1, <3>1
      <4>2. PICK f : f = of(k - 1) OBVIOUS
      <4>3. /\ f[m] \in Seq(Digit)
            /\ f[m] = IF m < 10 THEN <<m>> ELSE Append(f[m \div 10], m % 10)
        BY <4>1, <4>2 DEF AreDigits
      <4>4. PICK t \in 0 .. m : t = m \div 10 BY Tenth
      <4>5. h[t] = f[t] /\ h[m] = f[m] BY <3>1, <4>2, <4>4
      <4> HIDE DEF h
      <4> QED BY <4>3, <4>4, <4>5
    <3>2. CASE m = k /\ m < 10
      <4>1. h[m] = <<m>> BY <3>2
      <4>2. m \in Digit BY <3>2 DEF Digit
      <4> HIDE DEF h
      <4> QED BY <3>2, <4>1, <4>2
    <3>3. CASE m = k /\ m >= 10
      <4>1. PICK t \in 0 .. k - 1 : t = m \div 10 BY <3>3, Tenth
      <4>2. AreDigits(of(k - 1), k - 1) BY <2>1, <3>3
      <4>3. PICK f : f = of(k - 1) OBVIOUS
      <4>4. f[t] \in Seq(Digit) BY <4>1, <4>2, <4>3 DEF AreDigits
      <4>5. h[t] = f[t] /\ h[m] = Append(f[t], m % 10) BY <3>3, <4>1, <4>3
      <4>6. m % 10 \in Digit BY Tenth
      <4>7. Append(f[t], m % 10) \in Seq(Digit) BY <4>4, <4>6, AppendProperties
      <4> HIDE DEF h
      <4> QED BY <3>3, <4>1, <4>5, <4>7
    <3> QED BY <3>1, <3>2, <3>3
  <2>3. h = [m \in 0 .. k |-> h[m]] OBVIOUS
  <2> HIDE DEF h
  <2>4. AreDigits(h, k) BY <2>2, <2>3 DEF AreDigits
  <2> QED BY <2>4
<1>2. S \in SUBSET Nat OBVIOUS
<1> HIDE DEF S
<1>3. S = Nat BY <1>1, <1>2, Induction
<1> QED BY <1>3 DEF S

\* What Digits is, for every number.
LEMMA DigitsDef ==
  ASSUME NEW n \in Nat
  PROVE  /\ Digits[n] \in Seq(Digit)
         /\ Digits[n] = IF n < 10 THEN <<n>> ELSE Append(Digits[n \div 10], n % 10)
<1> DEFINE of(l) == CHOOSE f : AreDigits(f, l)
           D == [l \in Nat |-> of(l)[l]]
           Is(f) == f = [l \in Nat |-> IF l < 10 THEN <<l>> ELSE Append(f[l \div 10], l % 10)]
<1>1. ASSUME NEW l \in Nat PROVE AreDigits(of(l), l)
  <2>1. \E f : AreDigits(f, l) BY DigitsUpTo
  <2> QED BY <2>1
<1> HIDE DEF of
<1>2. ASSUME NEW l \in Nat
      PROVE  /\ D[l] \in Seq(Digit)
             /\ D[l] = IF l < 10 THEN <<l>> ELSE Append(D[l \div 10], l % 10)
  <2>1. PICK f : f = of(l) /\ AreDigits(f, l) BY <1>1
  <2>2. PICK t \in 0 .. l : t = l \div 10 BY Tenth
  <2>3. /\ f[l] \in Seq(Digit)
        /\ f[l] = IF l < 10 THEN <<l>> ELSE Append(f[t], l % 10)
    <3>1. l \in 0 .. l OBVIOUS
    <3>2. f \in [0 .. l -> Seq(Digit)] BY <2>1 DEF AreDigits
    <3>3. f[l] = IF l < 10 THEN <<l>> ELSE Append(f[l \div 10], l % 10)
      BY <2>1, <3>1, Zenon DEF AreDigits
    <3> QED BY <2>2, <3>1, <3>2, <3>3
  <2>4. PICK e : e = of(t) /\ AreDigits(e, t) BY <1>1
  <2>5. f[t] = e[t] BY <2>1, <2>4, DigitsAgree
  <2>6. D[l] = f[l] /\ D[t] = e[t] BY <2>1, <2>4
  <2> HIDE DEF D
  <2> QED BY <2>2, <2>3, <2>5, <2>6
<1>3. D = [l \in Nat |-> D[l]] OBVIOUS
<1> HIDE DEF D
<1>4. Is(D) BY <1>2, <1>3
<1>5. Digits = CHOOSE f : Is(f) BY DEF Digits
<1>6. Is(Digits)
  <2> HIDE DEF Is
  <2> QED BY <1>4, <1>5
<1>7. ASSUME NEW l \in Nat
      PROVE  Digits[l] = IF l < 10 THEN <<l>> ELSE Append(Digits[l \div 10], l % 10)
  <2> DEFINE r == [k \in Nat |-> IF k < 10 THEN <<k>> ELSE Append(Digits[k \div 10], k % 10)]
  <2>1. Digits = r BY <1>6
  <2>2. r[l] = IF l < 10 THEN <<l>> ELSE Append(Digits[l \div 10], l % 10) OBVIOUS
  <2> HIDE DEF r
  <2> QED BY <2>1, <2>2
<1> DEFINE S == {l \in Nat : Digits[l] \in Seq(Digit)}
<1>8. ASSUME NEW k \in Nat, \A l \in 0 .. k - 1 : l \in S PROVE k \in S
  <2>1. CASE k < 10
    <3>1. k \in Digit BY <2>1 DEF Digit
    <3>2. Digits[k] = IF k < 10 THEN <<k>> ELSE Append(Digits[k \div 10], k % 10) BY <1>7
    <3>3. <<k>> \in Seq(Digit) BY <3>1
    <3> QED BY <2>1, <3>2, <3>3
  <2>2. CASE k >= 10
    <3>1. PICK t \in 0 .. k - 1 : t = k \div 10 BY <2>2, Tenth
    <3>2. Digits[t] \in Seq(Digit) /\ k % 10 \in Digit BY <1>8, <3>1, Tenth
    <3>3. Append(Digits[t], k % 10) \in Seq(Digit) BY <3>2, AppendProperties
    <3>4. Digits[k] = IF k < 10 THEN <<k>> ELSE Append(Digits[k \div 10], k % 10) BY <1>7
    <3>5. ~(k < 10) BY <2>2
    <3>6. Digits[k] = Append(Digits[t], k % 10) BY <3>1, <3>4, <3>5
    <3> QED BY <3>3, <3>6
  <2> QED BY <2>1, <2>2
<1>9. S \in SUBSET Nat OBVIOUS
<1>10. S = Nat
  <2> HIDE DEF S
  <2> QED BY <1>8, <1>9, Induction
<1> QED BY <1>7, <1>10

-----------------------------------------------------------------------------
(* Writing.                                                                *)

AllMarks == [challenge : Nat, number : Nat, begun : BOOLEAN, value : Nat]

\* ms are the marks of the text t of the challenges chs, from m to l; all but l are
\* within challenge i.
Writes(ms, chs, i, m, t, l) ==
  /\ ms \in [0 .. Len(t) -> AllMarks]
  /\ ms[0] = m
  /\ ms[Len(t)] = l
  /\ \A p \in 0 .. Len(t) - 1 :
       /\ ms[p].challenge = i
       /\ MayWrite(chs, ms[p], t[p + 1])
       /\ ms[p + 1] = After(chs, ms[p], t[p + 1])

Within(chs, i, m, t, l) == t \in Seq(Chars) /\ \E ms : Writes(ms, chs, i, m, t, l)

LEMMA WritesNothing ==
  ASSUME NEW chs, NEW i, NEW m \in AllMarks
  PROVE  Within(chs, i, m, <<>>, m)
<1> DEFINE ms == [p \in 0 .. 0 |-> m]
<1>1. Len(<<>>) = 0 /\ <<>> \in Seq(Chars) OBVIOUS
<1>2. Writes(ms, chs, i, m, <<>>, m) BY <1>1 DEF Writes
<1> QED BY <1>1, <1>2 DEF Within

LEMMA WritesOne ==
  ASSUME NEW chs, NEW i, NEW m \in AllMarks, NEW l \in AllMarks, NEW c \in Chars,
         m.challenge = i, MayWrite(chs, m, c), l = After(chs, m, c)
  PROVE  Within(chs, i, m, <<c>>, l)
<1> DEFINE t == <<c>>
           ms == [p \in 0 .. 1 |-> IF p = 0 THEN m ELSE l]
<1>1. Len(t) = 1 /\ t \in Seq(Chars) /\ t[1] = c OBVIOUS
<1>2. ms \in [0 .. 1 -> AllMarks] /\ ms[0] = m /\ ms[1] = l OBVIOUS
<1> HIDE DEF t, ms
<1>3. ASSUME NEW p \in 0 .. 0
      PROVE  /\ ms[p].challenge = i
             /\ MayWrite(chs, ms[p], t[p + 1])
             /\ ms[p + 1] = After(chs, ms[p], t[p + 1])
  <2>1. p = 0 /\ p + 1 = 1 OBVIOUS
  <2> QED BY <1>1, <1>2, <2>1
<1>4. Writes(ms, chs, i, m, t, l) BY <1>1, <1>2, <1>3 DEF Writes
<1> QED BY <1>1, <1>4 DEF Within, t

LEMMA WritesBoth ==
  ASSUME NEW chs, NEW i, NEW m, NEW s, NEW k, Within(chs, i, m, s, k),
         NEW t, NEW l, Within(chs, i, k, t, l)
  PROVE  Within(chs, i, m, s \o t, l)
<1>1. s \in Seq(Chars) /\ t \in Seq(Chars) BY DEF Within
<1>2. PICK a \in Nat, b \in Nat : a = Len(s) /\ b = Len(t) BY <1>1, LenProperties
<1>3. /\ s \o t \in Seq(Chars) /\ Len(s \o t) = a + b
      /\ \A p \in 1 .. a + b : (s \o t)[p] = IF p <= a THEN s[p] ELSE t[p - a]
  BY <1>1, <1>2, ConcatProperties
<1>4. PICK f : Writes(f, chs, i, m, s, k) BY DEF Within
<1>5. PICK g : Writes(g, chs, i, k, t, l) BY DEF Within
<1> DEFINE h == [p \in 0 .. a + b |-> IF p <= a THEN f[p] ELSE g[p - a]]
<1>6. /\ f \in [0 .. a -> AllMarks] /\ f[0] = m /\ f[a] = k
      /\ g \in [0 .. b -> AllMarks] /\ g[0] = k /\ g[b] = l
  BY <1>2, <1>4, <1>5 DEF Writes
<1>7. h \in [0 .. a + b -> AllMarks]
  <2>1. ASSUME NEW p \in 0 .. a + b PROVE h[p] \in AllMarks
    <3>1. CASE p <= a BY <1>6, <3>1
    <3>2. CASE p > a
      <4>1. p - a \in 0 .. b BY <3>2
      <4> QED BY <1>6, <3>2, <4>1
    <3> QED BY <3>1, <3>2
  <2> QED BY <2>1
<1>8. h[0] = m /\ h[a + b] = l
  <2>1. h[0] = m BY <1>6
  <2>2. h[a + b] = l
    <3>1. CASE b = 0 BY <1>6, <3>1
    <3>2. CASE b > 0
      <4>1. a + b \in 0 .. a + b /\ ~(a + b <= a) /\ a + b - a = b BY <3>2
      <4> QED BY <1>6, <4>1
    <3> QED BY <3>1, <3>2
  <2> QED BY <2>1, <2>2
<1>9. ASSUME NEW p \in 0 .. a + b - 1
      PROVE  /\ h[p].challenge = i
             /\ MayWrite(chs, h[p], (s \o t)[p + 1])
             /\ h[p + 1] = After(chs, h[p], (s \o t)[p + 1])
  <2>1. p \in 0 .. a + b /\ p + 1 \in 0 .. a + b /\ p + 1 \in 1 .. a + b OBVIOUS
  <2>2. CASE p < a
    <3>1. p \in 0 .. a - 1 /\ p <= a /\ p + 1 <= a BY <2>2
    <3>2. (s \o t)[p + 1] = s[p + 1] BY <1>3, <2>1, <3>1
    <3>3. h[p] = f[p] /\ h[p + 1] = f[p + 1] BY <2>1, <3>1
    <3>4. /\ f[p].challenge = i /\ MayWrite(chs, f[p], s[p + 1])
          /\ f[p + 1] = After(chs, f[p], s[p + 1])
      BY <1>2, <1>4, <3>1 DEF Writes
    <3> HIDE DEF h
    <3> QED BY <3>2, <3>3, <3>4
  <2>3. CASE p >= a
    <3>1. PICK q \in 0 .. b - 1 : q = p - a
      <4>1. p - a \in 0 .. b - 1 BY <2>3
      <4> QED BY <4>1
    <3>2. (s \o t)[p + 1] = t[q + 1]
      <4>1. ~(p + 1 <= a) /\ (p + 1) - a = q + 1 BY <2>3, <3>1
      <4>2. PICK d \in 1 .. a + b : d = p + 1 BY <2>1
      <4>3. (s \o t)[d] = t[d - a] /\ d - a = q + 1 BY <1>3, <4>1, <4>2
      <4> QED BY <4>2, <4>3
    <3>3. h[p] = g[q]
      <4>1. CASE p = a
        <5>1. h[p] = f[p] BY <2>1, <4>1
        <5>2. q = 0 BY <3>1, <4>1
        <5> HIDE DEF h
        <5> QED BY <1>6, <4>1, <5>1, <5>2
      <4>2. CASE p > a BY <2>1, <3>1, <4>2
      <4> QED BY <2>3, <4>1, <4>2
    <3>4. h[p + 1] = g[q + 1]
      <4>1. ~(p + 1 <= a) /\ (p + 1) - a = q + 1 BY <2>3, <3>1
      <4>2. h[p + 1] = g[(p + 1) - a] BY <2>1, <4>1
      <4> HIDE DEF h
      <4> QED BY <4>1, <4>2
    <3>5. /\ g[q].challenge = i /\ MayWrite(chs, g[q], t[q + 1])
          /\ g[q + 1] = After(chs, g[q], t[q + 1])
      BY <1>2, <1>5, <3>1 DEF Writes
    <3> HIDE DEF h
    <3> QED BY <3>2, <3>3, <3>4, <3>5
  <2>4. p < a \/ p >= a OBVIOUS
  <2> HIDE DEF h
  <2> QED BY <2>2, <2>3, <2>4
<1> HIDE DEF h
<1>10. Writes(h, chs, i, m, s \o t, l) BY <1>3, <1>7, <1>8, <1>9 DEF Writes
<1> QED BY <1>3, <1>10 DEF Within

\* Number k of challenge i: before its first digit, and when they amount to v.
Unbegun(i, k) == [challenge |-> i, number |-> k, begun |-> FALSE, value |-> 0]
Begun(i, k, v) == [challenge |-> i, number |-> k, begun |-> TRUE, value |-> v]

LEMMA DigitsWritten ==
  ASSUME NEW chs, NEW i \in Nat, i <= Len(chs), Len(chs) \in Nat, NEW k \in Nat,
         NEW n \in Nat
  PROVE  Within(chs, i, Unbegun(i, k), Digits[n], Begun(i, k, n))
<1> DEFINE S == {v \in Nat : Within(chs, i, Unbegun(i, k), Digits[v], Begun(i, k, v))}
<1>1. /\ Unbegun(i, k) \in AllMarks
      /\ \A v \in Nat : Begun(i, k, v) \in AllMarks
  BY DEF AllMarks, Unbegun, Begun
<1>2. ASSUME NEW v \in Nat, \A u \in 0 .. v - 1 : u \in S PROVE v \in S
  <2>1. Digits[v] = IF v < 10 THEN <<v>> ELSE Append(Digits[v \div 10], v % 10) BY DigitsDef
  <2>2. CASE v < 10
    <3>1. v \in Digit /\ v \in Chars BY <2>2 DEF Digit, Chars
    <3>2. MayWrite(chs, Unbegun(i, k), v)
      <4>1. Unbegun(i, k).challenge = i BY DEF Unbegun
      <4> QED BY <3>1, <4>1 DEF MayWrite
    <3>3. Begun(i, k, v) = After(chs, Unbegun(i, k), v)
      <4>1. 10 * 0 + v = v OBVIOUS
      <4> QED BY <3>1, <4>1 DEF After, Begun, Unbegun
    <3>4. Unbegun(i, k).challenge = i BY DEF Unbegun
    <3>5. Within(chs, i, Unbegun(i, k), <<v>>, Begun(i, k, v))
      BY <1>1, <3>1, <3>2, <3>3, <3>4, WritesOne
    <3> QED BY <2>1, <2>2, <3>5
  <2>3. CASE v >= 10
    <3>1. PICK u \in 0 .. v - 1, c \in Digit : u = v \div 10 /\ c = v % 10 /\ v = 10 * u + c
      BY <2>3, Tenth
    <3>2. u \in Nat /\ Within(chs, i, Unbegun(i, k), Digits[u], Begun(i, k, u))
      BY <1>2
    <3>3. c \in Chars BY DEF Chars
    <3>4. MayWrite(chs, Begun(i, k, u), c) BY DEF MayWrite, Begun
    <3>5. Begun(i, k, v) = After(chs, Begun(i, k, u), c)
      BY <3>1 DEF After, Begun
    <3>6. Begun(i, k, u).challenge = i BY DEF Begun
    <3>7. Within(chs, i, Begun(i, k, u), <<c>>, Begun(i, k, v))
      BY <1>1, <3>2, <3>3, <3>4, <3>5, <3>6, WritesOne
    <3>8. Within(chs, i, Unbegun(i, k), Digits[u] \o <<c>>, Begun(i, k, v))
      BY <3>2, <3>7, WritesBoth
    <3>9. Digits[u] \o <<c>> = Append(Digits[u], c) BY <3>2, DigitsDef, AppendIsConcat
    <3>10. ~(v < 10) BY <2>3
    <3>11. Digits[v] = Append(Digits[u], c) BY <2>1, <3>1, <3>10
    <3> QED BY <3>8, <3>9, <3>11
  <2> QED BY <2>2, <2>3
<1>3. S \in SUBSET Nat OBVIOUS
<1> HIDE DEF S
<1>4. S = Nat BY <1>2, <1>3, Induction
<1> QED BY <1>4 DEF S

\* Where number k of challenge i is to be written, or the next challenge.
At(chs, i, k) == IF k <= NumberCount(chs[i]) THEN Unbegun(i, k) ELSE Beginning(i + 1)

LEMMA NumberWritten ==
  ASSUME NEW chs, NEW i \in Nat, i <= Len(chs), Len(chs) \in Nat,
         NumberCount(chs[i]) \in Nat, NEW k \in Nat, k <= NumberCount(chs[i]),
         NumberOf(chs[i], k) \in Nat
  PROVE  Within(chs, i, At(chs, i, k), Append(Digits[NumberOf(chs[i], k)], Space),
                At(chs, i, k + 1))
<1>1. PICK v \in Nat : v = NumberOf(chs[i], k) OBVIOUS
<1>2. Within(chs, i, Unbegun(i, k), Digits[v], Begun(i, k, v)) BY DigitsWritten
<1>3. Space \in Chars BY DEF Chars
<1>4. MayWrite(chs, Begun(i, k, v), Space) BY <1>1 DEF MayWrite, Begun
<1>5. At(chs, i, k + 1) = After(chs, Begun(i, k, v), Space)
  <2>1. Space \notin Digit BY DEF Space, Digit
  <2>2. k < NumberCount(chs[i]) <=> k + 1 <= NumberCount(chs[i]) OBVIOUS
  <2>3. CASE k < NumberCount(chs[i])
    BY <2>1, <2>2, <2>3 DEF After, Begun, At, Unbegun
  <2>4. CASE ~(k < NumberCount(chs[i]))
    BY <2>1, <2>2, <2>4 DEF After, Begun, At, Unbegun
  <2> QED BY <2>3, <2>4
<1>6. Begun(i, k, v) \in AllMarks /\ At(chs, i, k + 1) \in AllMarks
  BY DEF AllMarks, Begun, At, Unbegun, Beginning
<1>7. Begun(i, k, v).challenge = i BY DEF Begun
<1>8. Within(chs, i, Begun(i, k, v), <<Space>>, At(chs, i, k + 1))
  BY <1>3, <1>4, <1>5, <1>6, <1>7, WritesOne
<1>9. Within(chs, i, Unbegun(i, k), Digits[v] \o <<Space>>, At(chs, i, k + 1))
  BY <1>2, <1>8, WritesBoth
<1>10. Digits[v] \o <<Space>> = Append(Digits[v], Space)
  <2>1. Digits[v] \in Seq(Chars) BY <1>2 DEF Within
  <2> QED BY <1>3, <2>1, AppendIsConcat
<1>11. At(chs, i, k) = Unbegun(i, k) BY DEF At
<1> QED BY <1>1, <1>9, <1>10, <1>11

\* f[k] is the text of the first k numbers of ns.
NumbersText(f, ns) ==
  /\ f \in [0 .. Len(ns) -> Seq(Chars)]
  /\ f[0] = <<>>
  /\ \A k \in 1 .. Len(ns) : f[k] = f[k - 1] \o Append(Digits[ns[k]], Space)
  /\ Numbers(ns) = f[Len(ns)]

LEMMA DigitChars ==
  ASSUME NEW v \in Nat
  PROVE  /\ Append(Digits[v], Space) \in Seq(Chars)
         /\ Len(Append(Digits[v], Space)) >= 1
<1>1. Digits[v] \in Seq(Digit) BY DigitsDef
<1>2. Digit \subseteq Chars /\ Space \in Chars BY DEF Chars
<1>3. Digits[v] \in Seq(Chars) BY <1>1, <1>2, SeqMonotonic
<1> QED BY <1>2, <1>3, AppendProperties, LenProperties

\* A loop whose steps stay within T stays within T.
LEMMA LoopTyped ==
  ASSUME NEW n \in Nat, NEW T, NEW r, r = [k \in 0 .. n |-> r[k]], r[0] \in T,
         \A k \in 1 .. n : r[k - 1] \in T => r[k] \in T
  PROVE  r \in [0 .. n -> T]
<1> DEFINE S == {k \in 0 .. n : r[k] \in T}
<1>1. 0 \in S OBVIOUS
<1>2. ASSUME NEW k \in 1 .. n, k - 1 \in S PROVE k \in S BY <1>2
<1>3. 0 .. n \subseteq S
  <2> HIDE DEF S
  <2> QED BY <1>1, <1>2, CountUp
<1>4. \A k \in 0 .. n : r[k] \in T BY <1>3
<1> QED BY <1>4

LEMMA NumbersIs ==
  ASSUME NEW ns, Len(ns) \in Nat, \A k \in 1 .. Len(ns) : ns[k] \in Nat
  PROVE  \E f : NumbersText(f, ns)
<1> DEFINE n == Len(ns)
           word(k) == Append(Digits[ns[k]], Space)
           g == [x \in (1 .. n) \X Seq(Chars) |-> x[2] \o word(x[1])]
           Is(f) == f = [k \in 0 .. n |-> IF k = 0 THEN <<>> ELSE f[k - 1] \o word(k)]
           text == CHOOSE f : Is(f)
<1>1. Numbers(ns) = text[n] BY DEF Numbers
<1>2. \A k \in 1 .. n : word(k) \in Seq(Chars) BY DigitChars
<1> HIDE DEF word
<1>3. g \in [(1 .. n) \X Seq(Chars) -> Seq(Chars)]
  <2>1. ASSUME NEW x \in (1 .. n) \X Seq(Chars) PROVE x[2] \o word(x[1]) \in Seq(Chars)
    <3>1. x[2] \in Seq(Chars) /\ word(x[1]) \in Seq(Chars) BY <1>2
    <3> QED BY <3>1, ConcatProperties
  <2> QED BY <2>1
<1>4. n \in Nat /\ <<>> \in Seq(Chars) OBVIOUS
<1>5. \E f : IsLoop(f, n, <<>>, g, Seq(Chars))
  <2> HIDE DEF g, n
  <2> QED BY <1>3, <1>4, LoopExists
<1>6. PICK f : IsLoop(f, n, <<>>, g, Seq(Chars)) BY <1>5
<1>7. Is(f)
  <2>1. f \in [0 .. n -> Seq(Chars)] /\ f[0] = <<>> BY <1>6 DEF IsLoop
  <2>2. ASSUME NEW k \in 1 .. n PROVE f[k] = f[k - 1] \o word(k)
    <3>1. k - 1 \in 0 .. n BY <1>4
    <3>2. f[k - 1] \in Seq(Chars) BY <2>1, <3>1
    <3>3. f[k] = g[<<k, f[k - 1]>>] BY <1>6 DEF IsLoop
    <3> HIDE DEF n
    <3>4. PICK e \in Seq(Chars) : e = f[k - 1] BY <3>2
    <3>5. g[<<k, e>>] = e \o word(k)
      <4>1. <<k, e>> \in (1 .. n) \X Seq(Chars) OBVIOUS
      <4>2. <<k, e>>[1] = k /\ <<k, e>>[2] = e OBVIOUS
      <4> QED BY <4>1, <4>2, Zenon
    <3> HIDE DEF g
    <3> QED BY <3>3, <3>4, <3>5
  <2>3. ASSUME NEW k \in 0 .. n
        PROVE  f[k] = IF k = 0 THEN <<>> ELSE f[k - 1] \o word(k)
    <3> HIDE DEF n
    <3>1. CASE k = 0 BY <2>1, <3>1
    <3>2. CASE k # 0
      <4>1. k \in 1 .. n BY <1>4, <3>2
      <4> QED BY <2>2, <3>2, <4>1
    <3> QED BY <3>1, <3>2
  <2> HIDE DEF n
  <2> QED BY <2>1, <2>3
<1>8. Is(text)
  <2> HIDE DEF Is
  <2> QED BY <1>7
<1> HIDE DEF text, n
<1>9. text[0] = <<>>
  <2> DEFINE r == [l \in 0 .. n |-> IF l = 0 THEN <<>> ELSE text[l - 1] \o word(l)]
  <2>1. text = r BY <1>8
  <2>2. 0 \in 0 .. n BY <1>4
  <2>3. r[0] = IF 0 = 0 THEN <<>> ELSE text[0 - 1] \o word(0)
    BY <2>2, Zenon
  <2> HIDE DEF r
  <2> QED BY <2>1, <2>3
<1>10. ASSUME NEW k \in 1 .. n PROVE text[k] = text[k - 1] \o word(k)
  <2> DEFINE r == [l \in 0 .. n |-> IF l = 0 THEN <<>> ELSE text[l - 1] \o word(l)]
  <2>1. text = r BY <1>8
  <2>2. k \in 0 .. n /\ k # 0 BY <1>4
  <2>3. r[k] = IF k = 0 THEN <<>> ELSE text[k - 1] \o word(k) BY <2>2, Zenon
  <2> HIDE DEF r
  <2> QED BY <2>1, <2>2, <2>3
<1>11. ASSUME NEW k \in 1 .. n, text[k - 1] \in Seq(Chars) PROVE text[k] \in Seq(Chars)
  <2>1. word(k) \in Seq(Chars) BY <1>2
  <2>2. text[k - 1] \o word(k) \in Seq(Chars) BY <1>11, <2>1, ConcatProperties
  <2>3. text[k] = text[k - 1] \o word(k) BY <1>10
  <2> QED BY <2>2, <2>3, Zenon
<1>12. text = [k \in 0 .. n |-> text[k]]
  <2> DEFINE r == [l \in 0 .. n |-> IF l = 0 THEN <<>> ELSE text[l - 1] \o word(l)]
  <2>1. text = r BY <1>8
  <2>2. r = [k \in 0 .. n |-> r[k]] OBVIOUS
  <2> HIDE DEF r
  <2> QED BY <2>1, <2>2, Zenon
<1>13. text \in [0 .. n -> Seq(Chars)]
  <2>1. text[0] \in Seq(Chars) BY <1>4, <1>9, Zenon
  <2>2. ASSUME NEW T, T = Seq(Chars) PROVE text \in [0 .. n -> T]
    BY <1>4, <1>11, <1>12, <2>1, <2>2, LoopTyped
  <2> QED BY <2>2
<1>14. NumbersText(text, ns)
  BY <1>1, <1>9, <1>10, <1>13 DEF NumbersText, n, word
<1> QED BY <1>14

LEMMA NumbersWritten ==
  ASSUME NEW chs, NEW i \in Nat, i <= Len(chs), Len(chs) \in Nat,
         NumberCount(chs[i]) \in Nat, NEW ns, Len(ns) \in Nat, NEW b \in Nat,
         b + Len(ns) <= NumberCount(chs[i]),
         \A k \in 1 .. Len(ns) : ns[k] \in Nat /\ ns[k] = NumberOf(chs[i], b + k)
  PROVE  Within(chs, i, At(chs, i, b + 1), Numbers(ns), At(chs, i, b + Len(ns) + 1))
<1>1. PICK f : NumbersText(f, ns) BY NumbersIs
<1>2. PICK n \in Nat : n = Len(ns) OBVIOUS
<1> DEFINE S == {k \in 0 .. n : Within(chs, i, At(chs, i, b + 1), f[k], At(chs, i, b + k + 1))}
<1>3. 0 \in S
  <2>1. At(chs, i, b + 1) \in AllMarks BY DEF At, AllMarks, Unbegun, Beginning
  <2>2. f[0] = <<>> BY <1>1 DEF NumbersText
  <2>3. b + 0 + 1 = b + 1 OBVIOUS
  <2> QED BY <2>1, <2>2, <2>3, WritesNothing
<1>4. ASSUME NEW k \in 1 .. n, k - 1 \in S PROVE k \in S
  <2>1. PICK m \in Nat : m = b + k OBVIOUS
  <2>2. m <= NumberCount(chs[i]) /\ NumberOf(chs[i], m) = ns[k] /\ ns[k] \in Nat
    BY <1>2, <2>1
  <2>3. Within(chs, i, At(chs, i, m), Append(Digits[ns[k]], Space), At(chs, i, m + 1))
    BY <2>2, NumberWritten
  <2>4. b + (k - 1) + 1 = m /\ b + k + 1 = m + 1 BY <2>1
  <2>5. Within(chs, i, At(chs, i, b + 1), f[k - 1], At(chs, i, m)) BY <1>4, <2>4
  <2>6. f[k] = f[k - 1] \o Append(Digits[ns[k]], Space) BY <1>1, <1>2 DEF NumbersText
  <2>7. Within(chs, i, At(chs, i, b + 1), f[k], At(chs, i, m + 1))
    BY <2>3, <2>5, <2>6, WritesBoth
  <2>8. Within(chs, i, At(chs, i, b + 1), f[k], At(chs, i, b + k + 1)) BY <2>4, <2>7, Zenon
  <2>9. k \in 0 .. n OBVIOUS
  <2> QED BY <2>8, <2>9, Zenon
<1> HIDE DEF S
<1>5. 0 .. n \subseteq S BY <1>3, <1>4, CountUp
<1>6. n \in S BY <1>5
<1>7. Numbers(ns) = f[n] BY <1>1, <1>2 DEF NumbersText
<1> QED BY <1>2, <1>6, <1>7 DEF S

\* White space after white space changes nothing.
LEMMA SpaceWritten ==
  ASSUME NEW chs, NEW i \in Nat, NEW k \in Nat
  PROVE  Within(chs, i, Unbegun(i, k), <<Space>>, Unbegun(i, k))
<1>1. Space \in Chars /\ Unbegun(i, k) \in AllMarks BY DEF Chars, AllMarks, Unbegun
<1>2. Space \notin Digit BY DEF Space, Digit
<1>3. MayWrite(chs, Unbegun(i, k), Space) BY DEF MayWrite, Unbegun
<1>4. Unbegun(i, k) = After(chs, Unbegun(i, k), Space) BY <1>2 DEF After, Unbegun
<1>5. Unbegun(i, k).challenge = i BY DEF Unbegun
<1> QED BY <1>1, <1>3, <1>4, <1>5, WritesOne

\* All but the last white space of what Serialize writes.
LessLastSpace(ch) ==
  Numbers(<<ch.cid, ch.size>>) \o Numbers(ch.cellsA) \o <<Space>> \o Numbers(ch.cellsB)

LEMMA SerializeWritten ==
  ASSUME NEW chs, Len(chs) \in Nat, NEW i \in Nat, i <= Len(chs), NEW dim \in Nat,
         IsChallenge(chs[i], dim)
  PROVE  /\ Serialize(chs[i]) = LessLastSpace(chs[i]) \o <<Space>>
         /\ Within(chs, i, Beginning(i), LessLastSpace(chs[i]), Beginning(i + 1))
         /\ Len(LessLastSpace(chs[i])) \in Nat \ {0}
<1> DEFINE ch == chs[i]
<1>1. PICK c \in Nat : c = ch.size * ch.size /\ c >= 1
  <2>1. PICK z \in Nat : z = ch.size /\ z >= 1 BY DEF IsChallenge
  <2>2. z * z \in Nat /\ z * z >= 1 BY <2>1
  <2> QED BY <2>1, <2>2
<1>2. NumberCount(ch) = 2 + 2 * c BY <1>1 DEF NumberCount
<1> DEFINE ns == <<ch.cid, ch.size>>
<1>3. /\ ch.cid \in Nat /\ ch.size \in Nat
      /\ ch.cellsA \in [1 .. c -> Nat] /\ ch.cellsB \in [1 .. c -> Nat]
  BY <1>1 DEF IsChallenge
<1>4. ch.cellsA \in Seq(Nat) /\ ch.cellsB \in Seq(Nat)
  <2>1. Seq(Nat) = UNION {[1 .. n -> Nat] : n \in Nat} BY SeqDef
  <2>2. [1 .. c -> Nat] \subseteq Seq(Nat) BY <1>1, <2>1, Zenon
  <2> QED BY <1>3, <2>2, Zenon
<1>5. Len(ch.cellsA) = c /\ Len(ch.cellsB) = c
  <2>1. /\ DOMAIN ch.cellsA = 1 .. Len(ch.cellsA) /\ Len(ch.cellsA) \in Nat
        /\ DOMAIN ch.cellsB = 1 .. Len(ch.cellsB) /\ Len(ch.cellsB) \in Nat
    BY <1>4, LenProperties
  <2>2. DOMAIN ch.cellsA = 1 .. c /\ DOMAIN ch.cellsB = 1 .. c BY <1>3
  <2>3. \A d \in Nat, e \in Nat : 1 .. d = 1 .. e => d = e OBVIOUS
  <2> QED BY <2>1, <2>2, <2>3
<1>6. Within(chs, i, At(chs, i, 1), Numbers(ns), At(chs, i, 3))
  <2>1. Len(ns) = 2 /\ ns[1] = ch.cid /\ ns[2] = ch.size OBVIOUS
  <2>2. NumberOf(ch, 1) = ch.cid /\ NumberOf(ch, 2) = ch.size BY DEF NumberOf
  <2>3. ASSUME NEW k \in 1 .. Len(ns) PROVE ns[k] \in Nat /\ ns[k] = NumberOf(ch, 0 + k)
    <3>1. k = 1 \/ k = 2 BY <2>1
    <3>2. CASE k = 1
      <4>1. 0 + k = 1 BY <3>2
      <4> HIDE DEF ns
      <4> QED BY <1>3, <2>1, <2>2, <3>2, <4>1
    <3>3. CASE k = 2
      <4>1. 0 + k = 2 BY <3>3
      <4> HIDE DEF ns
      <4> QED BY <1>3, <2>1, <2>2, <3>3, <4>1
    <3> QED BY <3>1, <3>2, <3>3
  <2> HIDE DEF ns
  <2>4. 0 + Len(ns) <= NumberCount(chs[i]) /\ NumberCount(chs[i]) \in Nat BY <1>1, <1>2, <2>1
  <2>5. Within(chs, i, At(chs, i, 0 + 1), Numbers(ns), At(chs, i, 0 + Len(ns) + 1))
    <3>1. 0 \in Nat /\ Len(ns) \in Nat BY <2>1
    <3> QED BY <2>3, <2>4, <3>1, NumbersWritten
  <2>6. 0 + 1 = 1 /\ 0 + Len(ns) + 1 = 3 BY <2>1
  <2> QED BY <2>5, <2>6
<1>7. Within(chs, i, At(chs, i, 3), Numbers(ch.cellsA), At(chs, i, 3 + c))
  <2>1. ASSUME NEW k \in 1 .. Len(ch.cellsA)
        PROVE  ch.cellsA[k] \in Nat /\ ch.cellsA[k] = NumberOf(ch, 2 + k)
    <3>1. k \in 1 .. c /\ 2 + k \in 3 .. 2 + c /\ 2 + k # 1 /\ 2 + k # 2 /\ (2 + k) - 2 = k
      BY <1>5
    <3>2. NumberOf(ch, 2 + k) = ch.cellsA[(2 + k) - 2]
      BY <1>1, <3>1 DEF NumberOf
    <3> QED BY <1>3, <3>1, <3>2
  <2>2. /\ 2 + Len(ch.cellsA) <= NumberCount(chs[i]) /\ NumberCount(chs[i]) \in Nat
        /\ 2 \in Nat /\ Len(ch.cellsA) \in Nat
    <3>1. 2 + c <= 2 + 2 * c /\ 2 + 2 * c \in Nat /\ 2 \in Nat OBVIOUS
    <3> QED BY <1>1, <1>2, <1>5, <3>1, Zenon
  <2>3. Within(chs, i, At(chs, i, 2 + 1), Numbers(ch.cellsA), At(chs, i, 2 + Len(ch.cellsA) + 1))
    BY <2>1, <2>2, NumbersWritten
  <2>4. 2 + 1 = 3 /\ 2 + Len(ch.cellsA) + 1 = 3 + c BY <1>5
  <2> QED BY <2>3, <2>4
<1>8. Within(chs, i, At(chs, i, 3 + c), <<Space>>, At(chs, i, 3 + c))
  <2>1. 3 + c \in Nat /\ 3 + c <= NumberCount(ch) BY <1>1, <1>2
  <2>2. At(chs, i, 3 + c) = Unbegun(i, 3 + c) BY <2>1 DEF At
  <2> QED BY <2>1, <2>2, SpaceWritten
<1>9. Within(chs, i, At(chs, i, 3 + c), Numbers(ch.cellsB), Beginning(i + 1))
  <2>1. ASSUME NEW k \in 1 .. Len(ch.cellsB)
        PROVE  ch.cellsB[k] \in Nat /\ ch.cellsB[k] = NumberOf(ch, (2 + c) + k)
    <3>1. PICK m \in Nat : m = (2 + c) + k BY <1>5
    <3>2. k \in 1 .. c /\ m \notin 3 .. 2 + c /\ m # 1 /\ m # 2 /\ (m - 2) - c = k
      BY <1>5, <3>1
    <3>3. NumberOf(ch, m) = ch.cellsB[(m - 2) - c]
      BY <1>1, <3>2 DEF NumberOf
    <3> QED BY <1>3, <3>1, <3>2, <3>3
  <2>2. /\ (2 + c) + Len(ch.cellsB) <= NumberCount(chs[i]) /\ NumberCount(chs[i]) \in Nat
        /\ 2 + c \in Nat /\ Len(ch.cellsB) \in Nat
    <3>1. (2 + c) + c <= 2 + 2 * c /\ 2 + 2 * c \in Nat /\ 2 + c \in Nat OBVIOUS
    <3> QED BY <1>1, <1>2, <1>5, <3>1, Zenon
  <2>3. Within(chs, i, At(chs, i, (2 + c) + 1), Numbers(ch.cellsB),
               At(chs, i, (2 + c) + Len(ch.cellsB) + 1))
    BY <2>1, <2>2, NumbersWritten
  <2>4. PICK m \in Nat : m = (2 + c) + Len(ch.cellsB) + 1 /\ ~(m <= NumberCount(ch))
    BY <1>2, <1>5
  <2>5. (2 + c) + 1 = 3 + c OBVIOUS
  <2>6. At(chs, i, m) = Beginning(i + 1) BY <2>4 DEF At
  <2> QED BY <2>3, <2>4, <2>5, <2>6
<1>10. At(chs, i, 1) = Beginning(i)
  <2>1. 1 <= NumberCount(ch) BY <1>1, <1>2
  <2> QED BY <2>1 DEF At, Unbegun, Beginning
<1>11. Within(chs, i, Beginning(i), LessLastSpace(ch), Beginning(i + 1))
  <2> DEFINE s == Numbers(ns) \o Numbers(ch.cellsA)
             t == s \o <<Space>>
  <2>1. Within(chs, i, Beginning(i), s, At(chs, i, 3 + c))
    BY <1>6, <1>7, <1>10, WritesBoth
  <2>2. Within(chs, i, Beginning(i), t, At(chs, i, 3 + c))
    <3> HIDE DEF s
    <3> QED BY <1>8, <2>1, WritesBoth
  <2>3. Within(chs, i, Beginning(i), t \o Numbers(ch.cellsB), Beginning(i + 1))
    <3> HIDE DEF t
    <3> QED BY <1>9, <2>2, WritesBoth
  <2> QED BY <2>3 DEF LessLastSpace
<1>12. Serialize(ch) = LessLastSpace(ch) \o <<Space>>
  <2>1. Numbers(ns) \in Seq(Chars) /\ Numbers(ch.cellsA) \in Seq(Chars)
        /\ Numbers(ch.cellsB) \in Seq(Chars) /\ <<Space>> \in Seq(Chars)
    BY <1>6, <1>7, <1>8, <1>9 DEF Within
  <2> QED BY DEF Serialize, LessLastSpace
<1>13. Len(LessLastSpace(ch)) \in Nat \ {0}
  <2>1. Len(LessLastSpace(ch)) \in Nat BY <1>11, LenProperties DEF Within
  <2>2. ASSUME Len(LessLastSpace(ch)) = 0 PROVE FALSE
    <3>1. PICK ms : Writes(ms, chs, i, Beginning(i), LessLastSpace(ch), Beginning(i + 1))
      BY <1>11 DEF Within
    <3>2. Beginning(i) = Beginning(i + 1) BY <2>2, <3>1 DEF Writes
    <3>3. Beginning(i).challenge = i /\ Beginning(i + 1).challenge = i + 1 BY DEF Beginning
    <3> QED BY <3>2, <3>3
  <2> QED BY <2>1, <2>2
<1> QED BY <1>11, <1>12, <1>13

-----------------------------------------------------------------------------
(* Conversations.                                                          *)

Line(noise) == IF noise THEN <<Other, Other, Space>> ELSE <<>>

\* r[k] is the text of the first k challenges.
Texts(r, chs, noise) ==
  /\ r \in [0 .. Len(chs) -> Seq(Chars)]
  /\ r[0] = <<>>
  /\ \A k \in 1 .. Len(chs) : r[k] = (r[k - 1] \o Line(noise)) \o Serialize(chs[k])

\* ms are the marks of the text t.
Marks(ms, chs, t) ==
  /\ ms \in [0 .. Len(t) -> AllMarks]
  /\ ms[0] = Beginning(1)
  /\ \A p \in 1 .. Len(t) : ms[p] = After(chs, ms[p - 1], t[p])

LEMMA TextIs ==
  ASSUME NEW chs, Len(chs) \in Nat, NEW noise \in BOOLEAN, Line(noise) \in Seq(Chars),
         \A k \in 1 .. Len(chs) : Serialize(chs[k]) \in Seq(Chars)
  PROVE  Texts(CHOOSE f : f = [k \in 0 .. Len(chs) |->
                 IF k = 0 THEN <<>> ELSE (f[k - 1] \o Line(noise)) \o Serialize(chs[k])],
               chs, noise)
<1> DEFINE n == Len(chs)
           word(k) == Serialize(chs[k])
           li == Line(noise)
           g == [x \in (1 .. n) \X Seq(Chars) |-> (x[2] \o li) \o word(x[1])]
           Is(f) == f = [k \in 0 .. n |-> IF k = 0 THEN <<>> ELSE (f[k - 1] \o li) \o word(k)]
           text == CHOOSE f : Is(f)
<1>1. /\ \A k \in 1 .. n : word(k) \in Seq(Chars)
      /\ li \in Seq(Chars)
  OBVIOUS
<1> HIDE DEF word, li
<1>2. text = CHOOSE f : f = [k \in 0 .. Len(chs) |->
                 IF k = 0 THEN <<>> ELSE (f[k - 1] \o Line(noise)) \o Serialize(chs[k])]
  BY DEF word, li
<1>3. g \in [(1 .. n) \X Seq(Chars) -> Seq(Chars)]
  <2>1. ASSUME NEW x \in (1 .. n) \X Seq(Chars)
        PROVE  (x[2] \o li) \o word(x[1]) \in Seq(Chars)
    <3>1. x[2] \in Seq(Chars) /\ word(x[1]) \in Seq(Chars) BY <1>1
    <3>2. x[2] \o li \in Seq(Chars) BY <1>1, <3>1, ConcatProperties
    <3> QED BY <3>1, <3>2, ConcatProperties
  <2> QED BY <2>1
<1>4. n \in Nat /\ <<>> \in Seq(Chars) OBVIOUS
<1>5. \E f : IsLoop(f, n, <<>>, g, Seq(Chars))
  <2> HIDE DEF g, n
  <2> QED BY <1>3, <1>4, LoopExists
<1>6. PICK f : IsLoop(f, n, <<>>, g, Seq(Chars)) BY <1>5
<1>7. Is(f)
  <2>1. f \in [0 .. n -> Seq(Chars)] /\ f[0] = <<>> BY <1>6 DEF IsLoop
  <2>2. ASSUME NEW k \in 1 .. n PROVE f[k] = (f[k - 1] \o li) \o word(k)
    <3>1. k - 1 \in 0 .. n BY <1>4
    <3>2. f[k - 1] \in Seq(Chars) BY <2>1, <3>1
    <3>3. f[k] = g[<<k, f[k - 1]>>] BY <1>6 DEF IsLoop
    <3> HIDE DEF n
    <3>4. PICK e \in Seq(Chars) : e = f[k - 1] BY <3>2
    <3>5. g[<<k, e>>] = (e \o li) \o word(k)
      <4>1. <<k, e>> \in (1 .. n) \X Seq(Chars) OBVIOUS
      <4>2. <<k, e>>[1] = k /\ <<k, e>>[2] = e OBVIOUS
      <4> QED BY <4>1, <4>2, Zenon
    <3> HIDE DEF g
    <3> QED BY <3>3, <3>4, <3>5
  <2>3. ASSUME NEW k \in 0 .. n
        PROVE  f[k] = IF k = 0 THEN <<>> ELSE (f[k - 1] \o li) \o word(k)
    <3> HIDE DEF n
    <3>1. CASE k = 0 BY <2>1, <3>1
    <3>2. CASE k # 0
      <4>1. k \in 1 .. n BY <1>4, <3>2
      <4> QED BY <2>2, <3>2, <4>1
    <3> QED BY <3>1, <3>2
  <2> HIDE DEF n
  <2> QED BY <2>1, <2>3
<1>8. Is(text)
  <2> HIDE DEF Is
  <2> QED BY <1>7
<1> HIDE DEF text, n
<1> DEFINE r == [l \in 0 .. n |-> IF l = 0 THEN <<>> ELSE (text[l - 1] \o li) \o word(l)]
<1>9. text = r BY <1>8
<1>10. text[0] = <<>>
  <2>1. 0 \in 0 .. n BY <1>4
  <2>2. r[0] = IF 0 = 0 THEN <<>> ELSE (text[0 - 1] \o li) \o word(0)
    BY <2>1, Zenon
  <2> HIDE DEF r
  <2> QED BY <1>9, <2>2
<1>11. ASSUME NEW k \in 1 .. n PROVE text[k] = (text[k - 1] \o li) \o word(k)
  <2>1. k \in 0 .. n /\ k # 0 BY <1>4
  <2>2. r[k] = IF k = 0 THEN <<>> ELSE (text[k - 1] \o li) \o word(k) BY <2>1, Zenon
  <2> HIDE DEF r
  <2> QED BY <1>9, <2>1, <2>2
<1>12. ASSUME NEW k \in 1 .. n, text[k - 1] \in Seq(Chars) PROVE text[k] \in Seq(Chars)
  <2>1. word(k) \in Seq(Chars) BY <1>1
  <2>2. text[k - 1] \o li \in Seq(Chars) BY <1>1, <1>12, ConcatProperties
  <2>3. (text[k - 1] \o li) \o word(k) \in Seq(Chars) BY <2>1, <2>2, ConcatProperties
  <2>4. text[k] = (text[k - 1] \o li) \o word(k) BY <1>11
  <2> QED BY <2>3, <2>4, Zenon
<1>13. text = [k \in 0 .. n |-> text[k]]
  <2>1. r = [k \in 0 .. n |-> r[k]] OBVIOUS
  <2> HIDE DEF r
  <2> QED BY <1>9, <2>1, Zenon
<1>14. text \in [0 .. n -> Seq(Chars)]
  <2>1. text[0] \in Seq(Chars) BY <1>4, <1>10, Zenon
  <2>2. ASSUME NEW T, T = Seq(Chars) PROVE text \in [0 .. n -> T]
    BY <1>4, <1>12, <1>13, <2>1, <2>2, LoopTyped
  <2> QED BY <2>2
<1>15. Texts(text, chs, noise)
  <2>1. \A k \in 1 .. n : text[k] = (text[k - 1] \o Line(noise)) \o Serialize(chs[k])
    BY <1>11 DEF li, word
  <2> QED BY <1>10, <1>14, <2>1, Zenon DEF Texts, n
<1> QED BY <1>2, <1>15, Zenon

LEMMA AfterTyped ==
  ASSUME NEW chs, NEW m \in AllMarks, NEW c \in Chars
  PROVE  After(chs, m, c) \in AllMarks
<1>1. PICK i \in Nat, k \in Nat, b \in BOOLEAN, v \in Nat :
        m = [challenge |-> i, number |-> k, begun |-> b, value |-> v]
  BY DEF AllMarks
<1>2. CASE c \in Digit
  <2>1. 10 * v + c \in Nat BY <1>2 DEF Digit
  <2> QED BY <1>1, <1>2, <2>1 DEF After, AllMarks
<1>3. CASE c \notin Digit
  <2>1. CASE c # Space \/ ~b BY <1>1, <1>3, <2>1 DEF After
  <2>2. CASE ~(c # Space \/ ~b) /\ k < NumberCount(chs[i])
    <3>1. After(chs, m, c) = [challenge |-> i, number |-> k + 1, begun |-> FALSE, value |-> 0]
      BY <1>1, <1>3, <2>2 DEF After
    <3> QED BY <3>1 DEF AllMarks
  <2>3. CASE ~(c # Space \/ ~b) /\ ~(k < NumberCount(chs[i]))
    <3>1. After(chs, m, c) = Beginning(i + 1)
      BY <1>1, <1>3, <2>3 DEF After
    <3> QED BY <3>1 DEF AllMarks, Beginning
  <2> QED BY <2>1, <2>2, <2>3
<1> QED BY <1>2, <1>3

LEMMA MarksAre ==
  ASSUME NEW chs, NEW t \in Seq(Chars)
  PROVE  Marks(CHOOSE f : f = [p \in 0 .. Len(t) |->
                 IF p = 0 THEN Beginning(1) ELSE After(chs, f[p - 1], t[p])],
               chs, t)
<1> DEFINE n == Len(t)
           a == Beginning(1)
           step(m, p) == After(chs, m, t[p])
           g == [x \in (1 .. n) \X AllMarks |-> step(x[2], x[1])]
           Is(f) == f = [p \in 0 .. n |-> IF p = 0 THEN a ELSE step(f[p - 1], p)]
           ms == CHOOSE f : Is(f)
<1>1. n \in Nat /\ \A p \in 1 .. n : t[p] \in Chars BY LenProperties, ElementOfSeq
<1>2. \A m \in AllMarks, p \in 1 .. n : step(m, p) \in AllMarks BY <1>1, AfterTyped
<1>3. a \in AllMarks BY DEF AllMarks, Beginning
<1>4. ms = CHOOSE f : f = [p \in 0 .. Len(t) |->
                 IF p = 0 THEN Beginning(1) ELSE After(chs, f[p - 1], t[p])]
  OBVIOUS
<1> HIDE DEF n, a, step
<1>5. g \in [(1 .. n) \X AllMarks -> AllMarks] BY <1>2
<1>6. \E f : IsLoop(f, n, a, g, AllMarks)
  <2> HIDE DEF g
  <2> QED BY <1>1, <1>3, <1>5, LoopExists
<1>7. PICK f : IsLoop(f, n, a, g, AllMarks) BY <1>6
<1>8. Is(f)
  <2>1. f \in [0 .. n -> AllMarks] /\ f[0] = a BY <1>7 DEF IsLoop
  <2>2. ASSUME NEW k \in 1 .. n PROVE f[k] = step(f[k - 1], k)
    <3>1. k - 1 \in 0 .. n BY <1>1
    <3>2. f[k - 1] \in AllMarks BY <2>1, <3>1
    <3>3. f[k] = g[<<k, f[k - 1]>>] BY <1>7 DEF IsLoop
    <3>4. PICK e \in AllMarks : e = f[k - 1] BY <3>2
    <3>5. g[<<k, e>>] = step(e, k)
      <4>1. <<k, e>> \in (1 .. n) \X AllMarks OBVIOUS
      <4>2. <<k, e>>[1] = k /\ <<k, e>>[2] = e OBVIOUS
      <4> QED BY <4>1, <4>2, Zenon
    <3> HIDE DEF g
    <3> QED BY <3>3, <3>4, <3>5
  <2>3. ASSUME NEW k \in 0 .. n
        PROVE  f[k] = IF k = 0 THEN a ELSE step(f[k - 1], k)
    <3>1. CASE k = 0 BY <2>1, <3>1
    <3>2. CASE k # 0
      <4>1. k \in 1 .. n BY <1>1, <3>2
      <4> QED BY <2>2, <3>2, <4>1
    <3> QED BY <3>1, <3>2
  <2> QED BY <2>1, <2>3
<1>9. Is(ms)
  <2> HIDE DEF Is
  <2> QED BY <1>8
<1> HIDE DEF ms
<1> DEFINE r == [l \in 0 .. n |-> IF l = 0 THEN a ELSE step(ms[l - 1], l)]
<1>10. ms = r BY <1>9
<1>11. ms[0] = a
  <2>1. r[0] = a BY <1>1
  <2> HIDE DEF r
  <2> QED BY <1>10, <2>1
<1>12. ASSUME NEW k \in 1 .. n PROVE ms[k] = step(ms[k - 1], k)
  <2>1. k \in 0 .. n /\ k # 0 BY <1>1
  <2>2. r[k] = step(ms[k - 1], k) BY <2>1
  <2> HIDE DEF r
  <2> QED BY <1>10, <2>2
<1>13. ms = [k \in 0 .. n |-> ms[k]]
  <2>1. r = [k \in 0 .. n |-> r[k]] OBVIOUS
  <2> HIDE DEF r
  <2> QED BY <1>10, <2>1, Zenon
<1>14. ms \in [0 .. n -> AllMarks]
  <2>1. ms[0] \in AllMarks BY <1>3, <1>11
  <2>2. \A k \in 1 .. n : ms[k - 1] \in AllMarks => ms[k] \in AllMarks BY <1>2, <1>12
  <2> QED BY <1>1, <1>13, <2>1, <2>2, LoopTyped
<1>15. Marks(ms, chs, t)
  <2>1. \A p \in 1 .. n : ms[p] = After(chs, ms[p - 1], t[p]) BY <1>12 DEF step
  <2> QED BY <1>11, <1>14, <2>1, Zenon DEF Marks, n, a
<1> QED BY <1>15, <1>4, Zenon

LEMMA LineWritten ==
  ASSUME NEW chs, NEW i \in Nat, NEW noise \in BOOLEAN
  PROVE  Within(chs, i, Beginning(i), Line(noise), Beginning(i))
<1>1. Beginning(i) = Unbegun(i, 1) /\ Beginning(i) \in AllMarks
  BY DEF Beginning, Unbegun, AllMarks
<1>2. CASE noise = FALSE
  <2>1. Line(noise) = <<>> BY <1>2 DEF Line
  <2>2. Within(chs, i, Beginning(i), <<>>, Beginning(i)) BY <1>1, WritesNothing
  <2> QED BY <2>1, <2>2
<1>3. CASE noise = TRUE
  <2> DEFINE t == <<Other, Other, Space>>
             b == Beginning(i)
             ms == [p \in 0 .. 3 |-> b]
  <2>1. Len(t) = 3 /\ t[1] = Other /\ t[2] = Other /\ t[3] = Space OBVIOUS
  <2>2. t \in Seq(Chars)
    <3>1. Other \in Chars /\ Space \in Chars BY DEF Chars
    <3> QED BY <3>1
  <2>3. \A p \in 0 .. 3 : ms[p] = b OBVIOUS
  <2>4. ms \in [0 .. 3 -> AllMarks] BY <1>1
  <2>5. Other \notin Digit /\ Space \notin Digit BY DEF Other, Space, Digit
  <2>6. ASSUME NEW c, c = Other \/ c = Space
        PROVE  b.challenge = i /\ MayWrite(chs, b, c) /\ b = After(chs, b, c)
    <3>1. b.challenge = i /\ b.number = 1 /\ b.begun = FALSE BY DEF Beginning
    <3> HIDE DEF b
    <3>2. MayWrite(chs, b, c) BY <2>6, <3>1 DEF MayWrite
    <3>3. c \notin Digit BY <2>5, <2>6
    <3>4. b = After(chs, b, c) BY <3>1, <3>3, Zenon DEF After
    <3> QED BY <3>1, <3>2, <3>4
  <2>7. ASSUME NEW p \in 0 .. 2
        PROVE  /\ ms[p].challenge = i
               /\ MayWrite(chs, ms[p], t[p + 1])
               /\ ms[p + 1] = After(chs, ms[p], t[p + 1])
    <3>1. p \in 0 .. 3 /\ p + 1 \in 0 .. 3 OBVIOUS
    <3>2. ms[p] = b /\ ms[p + 1] = b BY <2>3, <3>1
    <3>3. t[p + 1] = Other \/ t[p + 1] = Space
      <4>1. p = 0 \/ p = 1 \/ p = 2 OBVIOUS
      <4> HIDE DEF t
      <4> QED BY <2>1, <4>1
    <3> HIDE DEF ms, b, t
    <3> QED BY <2>6, <3>2, <3>3
  <2>8. ms[0] = b /\ ms[3] = b BY <2>3
  <2> HIDE DEF ms, b, t
  <2>9. Writes(ms, chs, i, b, t, b)
    <3>1. 3 - 1 = 2 OBVIOUS
    <3> QED BY <2>1, <2>4, <2>7, <2>8, <3>1 DEF Writes
  <2>10. Within(chs, i, b, t, b) BY <2>2, <2>9 DEF Within
  <2> QED BY <1>3, <2>10 DEF Line, b, t
<1> QED BY <1>2, <1>3

\* What is written for challenge i: h, up to the white space that ends its last
\* number, and one more white space.
Segment(chs, i, noise, h) ==
  /\ Within(chs, i, Beginning(i), h, Beginning(i + 1))
  /\ Within(chs, i + 1, Beginning(i + 1), <<Space>>, Beginning(i + 1))
  /\ Len(h) \in Nat \ {0}
  /\ \A s \in Seq(Chars) :
       (s \o Line(noise)) \o Serialize(chs[i]) = (s \o h) \o <<Space>>

LEMMA SegmentOf ==
  ASSUME NEW chs, Len(chs) \in Nat, NEW i \in Nat, i <= Len(chs), NEW dim \in Nat,
         IsChallenge(chs[i], dim), NEW noise \in BOOLEAN
  PROVE  /\ \E h : Segment(chs, i, noise, h)
         /\ Line(noise) \in Seq(Chars)
         /\ Serialize(chs[i]) \in Seq(Chars)
<1> DEFINE li == Line(noise)
           t == LessLastSpace(chs[i])
           h == li \o t
<1>1. /\ Serialize(chs[i]) = t \o <<Space>>
      /\ Within(chs, i, Beginning(i), t, Beginning(i + 1))
      /\ Len(t) \in Nat \ {0}
  BY SerializeWritten
<1>2. Within(chs, i, Beginning(i), li, Beginning(i)) BY LineWritten
<1> HIDE DEF li, t
<1>3. li \in Seq(Chars) /\ t \in Seq(Chars) /\ <<Space>> \in Seq(Chars)
  BY <1>1, <1>2 DEF Within, Chars
<1>4. Within(chs, i, Beginning(i), h, Beginning(i + 1)) BY <1>1, <1>2, WritesBoth
<1>5. Within(chs, i + 1, Beginning(i + 1), <<Space>>, Beginning(i + 1))
  <2>1. Beginning(i + 1) = Unbegun(i + 1, 1) BY DEF Beginning, Unbegun
  <2> QED BY <2>1, SpaceWritten
<1>6. Len(h) \in Nat \ {0}
  <2>1. Len(h) = Len(li) + Len(t) /\ Len(li) \in Nat
    BY <1>3, ConcatProperties, LenProperties
  <2> QED BY <1>1, <2>1
<1>7. ASSUME NEW s \in Seq(Chars)
      PROVE  (s \o li) \o Serialize(chs[i]) = (s \o h) \o <<Space>>
  <2>1. s \o li \in Seq(Chars) BY <1>3, ConcatProperties
  <2>2. (s \o li) \o (t \o <<Space>>) = ((s \o li) \o t) \o <<Space>>
    BY <1>3, <2>1, ConcatAssociative
  <2>3. (s \o li) \o t = s \o (li \o t)
    <3>1. PICK x \in Seq(Chars), y \in Seq(Chars) : x = li /\ y = t BY <1>3
    <3>2. (s \o x) \o y = s \o (x \o y) BY ConcatAssociative
    <3> QED BY <3>1, <3>2
  <2> QED BY <1>1, <2>2, <2>3
<1>8. Segment(chs, i, noise, h) BY <1>4, <1>5, <1>6, <1>7 DEF Segment, li
<1>9. Serialize(chs[i]) \in Seq(Chars) BY <1>1, <1>3, ConcatProperties
<1> QED BY <1>3, <1>8, <1>9 DEF li

\* The text t is part of the whole, after its first o characters.
IsPiece(whole, o, t) == \A q \in 1 .. Len(t) : whole[o + q] = t[q]

\* The marks ms of the whole are within challenge i from position o on, up to
\* position o + n, where they are l.
Follows(ms, chs, whole, i, o, n, l) ==
  /\ ms[o + n] = l
  /\ \A q \in 0 .. n - 1 :
       ms[o + q].challenge = i /\ MayWrite(chs, ms[o + q], whole[(o + q) + 1])

\* From position o on, the marks of the whole are those that the piece t of it has.
LEMMA Along ==
  ASSUME NEW chs, NEW whole \in Seq(Chars), NEW ms, Marks(ms, chs, whole),
         NEW o \in Nat, NEW t, NEW i, NEW m, NEW l, Within(chs, i, m, t, l),
         o + Len(t) <= Len(whole), ms[o] = m,
         IsPiece(whole, o, t)
  PROVE  Follows(ms, chs, whole, i, o, Len(t), l)
<1>1. PICK f : Writes(f, chs, i, m, t, l) BY DEF Within
<1>2. PICK n \in Nat, w \in Nat : n = Len(t) /\ w = Len(whole)
  BY LenProperties DEF Within
<1>3. /\ f[0] = m /\ f[n] = l
      /\ \A p \in 0 .. n - 1 :
           /\ f[p].challenge = i
           /\ MayWrite(chs, f[p], t[p + 1])
           /\ f[p + 1] = After(chs, f[p], t[p + 1])
  BY <1>1, <1>2 DEF Writes
<1>4. \A p \in 1 .. w : ms[p] = After(chs, ms[p - 1], whole[p]) BY <1>2 DEF Marks
<1> DEFINE S == {q \in 0 .. n : ms[o + q] = f[q]}
<1>5. 0 \in S
  <2>1. o + 0 = o /\ 0 \in 0 .. n OBVIOUS
  <2> QED BY <1>3, <2>1
<1>6. ASSUME NEW q \in 1 .. n, q - 1 \in S PROVE q \in S
  <2>1. PICK u \in 0 .. n - 1 : u = q - 1 /\ u + 1 = q
    <3>1. q - 1 \in 0 .. n - 1 /\ (q - 1) + 1 = q OBVIOUS
    <3> QED BY <3>1
  <2>2. PICK p \in 1 .. w : p = o + q /\ p - 1 = o + u
    <3>1. o + q \in 1 .. w /\ (o + q) - 1 = o + u BY <1>2, <2>1
    <3> QED BY <3>1
  <2>3. ms[p - 1] = f[u] BY <1>6, <2>1, <2>2
  <2>4. whole[p] = t[q] BY <1>2, <2>2 DEF IsPiece
  <2>5. ms[p] = After(chs, f[u], t[q]) BY <1>4, <2>3, <2>4
  <2>6. f[q] = After(chs, f[u], t[q]) BY <1>3, <2>1
  <2> QED BY <2>2, <2>5, <2>6
<1>7. 0 .. n \subseteq S
  <2> HIDE DEF S
  <2> QED BY <1>5, <1>6, CountUp
<1>8. \A q \in 0 .. n : ms[o + q] = f[q] BY <1>7
<1>9. ASSUME NEW q \in 0 .. n - 1
      PROVE  ms[o + q].challenge = i /\ MayWrite(chs, ms[o + q], whole[(o + q) + 1])
  <2>1. q \in 0 .. n /\ q + 1 \in 1 .. n /\ (o + q) + 1 = o + (q + 1) OBVIOUS
  <2>2. whole[o + (q + 1)] = t[q + 1] BY <1>2, <2>1 DEF IsPiece
  <2>3. ms[o + q] = f[q] BY <1>8, <2>1
  <2> QED BY <1>3, <2>1, <2>2, <2>3
<1>10. ms[o + n] = l BY <1>3, <1>8
<1> QED BY <1>2, <1>9, <1>10 DEF Follows

\* Lengths that grow by two at least.
LEMMA Growing ==
  ASSUME NEW n \in Nat, NEW ls \in [0 .. n -> Nat], ls[0] = 0,
         \A k \in 1 .. n : ls[k] >= ls[k - 1] + 2
  PROVE  /\ \A i \in 0 .. n, j \in 0 .. n : i <= j => ls[i] <= ls[j]
         /\ \A i \in 0 .. n, j \in 0 .. n : i < j => ls[i] + 2 <= ls[j]
         /\ \A p \in 0 .. ls[n] - 1 : \E k \in 1 .. n : ls[k - 1] <= p /\ p < ls[k]
<1> DEFINE S == {j \in 0 .. n :
                   /\ \A i \in 0 .. j : ls[i] <= ls[j]
                   /\ \A i \in 0 .. j - 1 : ls[i] + 2 <= ls[j]
                   /\ \A p \in 0 .. ls[j] - 1 : \E k \in 1 .. j : ls[k - 1] <= p /\ p < ls[k]}
<1>1. 0 \in S OBVIOUS
<1>2. ASSUME NEW j \in 1 .. n, j - 1 \in S PROVE j \in S
  <2>1. PICK u \in 0 .. n : u = j - 1
    <3>1. j - 1 \in 0 .. n OBVIOUS
    <3> QED BY <3>1
  <2>2. /\ \A i \in 0 .. u : ls[i] <= ls[u]
        /\ \A p \in 0 .. ls[u] - 1 : \E k \in 1 .. u : ls[k - 1] <= p /\ p < ls[k]
    BY <1>2, <2>1
  <2>3. ls[j] >= ls[u] + 2 /\ ls[j] \in Nat /\ ls[u] \in Nat BY <2>1
  <2>4. ASSUME NEW i \in 0 .. j - 1 PROVE ls[i] + 2 <= ls[j]
    <3>1. i \in 0 .. u /\ i \in 0 .. n BY <2>1
    <3>2. ls[i] <= ls[u] /\ ls[i] \in Nat BY <2>2, <3>1
    <3> QED BY <2>3, <3>2
  <2>5. ASSUME NEW i \in 0 .. j PROVE ls[i] <= ls[j]
    <3>1. CASE i = j BY <2>3, <3>1
    <3>2. CASE i # j
      <4>1. i \in 0 .. j - 1 /\ i \in 0 .. n BY <3>2
      <4>2. ls[i] \in Nat BY <4>1
      <4> QED BY <2>3, <2>4, <4>1, <4>2
    <3> QED BY <3>1, <3>2
  <2>6. ASSUME NEW p \in 0 .. ls[j] - 1
        PROVE  \E k \in 1 .. j : ls[k - 1] <= p /\ p < ls[k]
    <3>1. CASE p < ls[u]
      <4>1. p \in 0 .. ls[u] - 1 BY <2>3, <3>1
      <4>2. PICK k \in 1 .. u : ls[k - 1] <= p /\ p < ls[k] BY <2>2, <4>1
      <4>3. k \in 1 .. j BY <2>1
      <4> QED BY <4>2, <4>3
    <3>2. CASE p >= ls[u]
      <4>1. j \in 1 .. j /\ ls[j - 1] <= p /\ p < ls[j] BY <2>1, <2>3, <3>2
      <4> QED BY <4>1
    <3> QED BY <2>3, <3>1, <3>2
  <2> QED BY <2>4, <2>5, <2>6
<1>3. 0 .. n \subseteq S
  <2> HIDE DEF S
  <2> QED BY <1>1, <1>2, CountUp
<1>4. ASSUME NEW i \in 0 .. n, NEW j \in 0 .. n, i <= j PROVE ls[i] <= ls[j]
  <2>1. j \in S /\ i \in 0 .. j BY <1>3, <1>4
  <2> QED BY <2>1
<1>5. ASSUME NEW i \in 0 .. n, NEW j \in 0 .. n, i < j PROVE ls[i] + 2 <= ls[j]
  <2>1. j \in S
    <3> HIDE DEF S
    <3> QED BY <1>3
  <2>2. i \in 0 .. j - 1 BY <1>5
  <2> QED BY <2>1, <2>2
<1>6. ASSUME NEW p \in 0 .. ls[n] - 1 PROVE \E k \in 1 .. n : ls[k - 1] <= p /\ p < ls[k]
  <2>1. n \in S BY <1>3
  <2> QED BY <2>1
<1> HIDE DEF S
<1> QED BY <1>4, <1>5, <1>6

LEMMA ConversationParts ==
  ASSUME NEW chs, Len(chs) \in Nat, NEW noise \in BOOLEAN, Line(noise) \in Seq(Chars),
         \A k \in 1 .. Len(chs) : Serialize(chs[k]) \in Seq(Chars)
  PROVE  \E r, ms :
           /\ Texts(r, chs, noise)
           /\ Marks(ms, chs, r[Len(chs)])
           /\ Conversation(chs, noise) =
                [text |-> r[Len(chs)], challenges |-> chs,
                 ends |-> [k \in 1 .. Len(chs) |-> Len(r[k]) - 1], marks |-> ms]
<1> DEFINE r == CHOOSE f : f = [k \in 0 .. Len(chs) |->
                 IF k = 0 THEN <<>> ELSE (f[k - 1] \o Line(noise)) \o Serialize(chs[k])]
           t == r[Len(chs)]
           ms == CHOOSE f : f = [p \in 0 .. Len(t) |->
                   IF p = 0 THEN Beginning(1) ELSE After(chs, f[p - 1], t[p])]
<1>1. Texts(r, chs, noise) BY TextIs
<1>2. Conversation(chs, noise) =
        [text |-> t, challenges |-> chs,
         ends |-> [k \in 1 .. Len(chs) |-> Len(r[k]) - 1], marks |-> ms]
  BY Zenon DEF Conversation, Line
<1> HIDE DEF r
<1>3. t \in Seq(Chars) BY <1>1 DEF Texts
<1> HIDE DEF t
<1>4. Marks(ms, chs, t) BY <1>3, MarksAre
<1> HIDE DEF ms
<1> QED BY <1>1, <1>2, <1>4 DEF t

LEMMA ThreePieces ==
  ASSUME NEW s \in Seq(Chars), NEW h \in Seq(Chars), NEW a \in Nat, NEW b \in Nat,
         a = Len(s), b = Len(h), NEW u, u = (s \o h) \o <<Space>>
  PROVE  /\ Len(u) = (a + b) + 1
         /\ \A q \in 1 .. a : u[q] = s[q]
         /\ \A q \in 1 .. b : u[a + q] = h[q]
         /\ u[(a + b) + 1] = Space
<1>1. PICK v \in Seq(Chars) :
        /\ v = s \o h
        /\ Len(v) = a + b
        /\ \A i \in 1 .. a + b : v[i] = IF i <= a THEN s[i] ELSE h[i - a]
  <2>1. /\ s \o h \in Seq(Chars)
        /\ Len(s \o h) = Len(s) + Len(h)
        /\ \A i \in 1 .. Len(s) + Len(h) :
             (s \o h)[i] = IF i <= Len(s) THEN s[i] ELSE h[i - Len(s)]
    BY ConcatProperties, Zenon
  <2> QED BY <2>1, Zenon
<1>2. PICK w \in Seq(Chars) : w = <<Space>> /\ Len(w) = 1 /\ w[1] = Space
  <2>1. Space \in Chars BY DEF Chars
  <2>2. <<Space>> \in Seq(Chars) BY <2>1
  <2>3. Len(<<Space>>) = 1 /\ <<Space>>[1] = Space OBVIOUS
  <2> QED BY <2>2, <2>3, Zenon
<1>3. u = v \o w BY <1>1, <1>2
<1>4. /\ Len(u) = (a + b) + 1
      /\ \A i \in 1 .. (a + b) + 1 : u[i] = IF i <= a + b THEN v[i] ELSE w[i - (a + b)]
  <2>1. /\ Len(v \o w) = Len(v) + Len(w)
        /\ \A i \in 1 .. Len(v) + Len(w) :
             (v \o w)[i] = IF i <= Len(v) THEN v[i] ELSE w[i - Len(v)]
    BY ConcatProperties, Zenon
  <2> QED BY <1>1, <1>2, <1>3, <2>1, Zenon
<1>5. ASSUME NEW q \in 1 .. a PROVE u[q] = s[q]
  <2>1. q \in 1 .. (a + b) + 1 /\ q \in 1 .. a + b /\ q <= a + b /\ q <= a OBVIOUS
  <2>2. u[q] = v[q] BY <1>4, <2>1
  <2>3. v[q] = s[q] BY <1>1, <2>1
  <2> QED BY <2>2, <2>3
<1>6. ASSUME NEW q \in 1 .. b PROVE u[a + q] = h[q]
  <2>1. PICK i \in 1 .. a + b : i = a + q /\ ~(i <= a) /\ i - a = q
    <3>1. a + q \in 1 .. a + b /\ ~(a + q <= a) /\ (a + q) - a = q OBVIOUS
    <3> QED BY <3>1
  <2>2. i \in 1 .. (a + b) + 1 /\ i <= a + b OBVIOUS
  <2>3. u[i] = v[i] BY <1>4, <2>2
  <2>4. v[i] = h[q] BY <1>1, <2>1
  <2> QED BY <2>1, <2>3, <2>4
<1>7. u[(a + b) + 1] = Space
  <2>1. PICK i \in 1 .. (a + b) + 1 : i = (a + b) + 1 /\ ~(i <= a + b) /\ i - (a + b) = 1
    <3>1. (a + b) + 1 \in 1 .. (a + b) + 1 /\ ~((a + b) + 1 <= a + b)
          /\ ((a + b) + 1) - (a + b) = 1
      OBVIOUS
    <3> QED BY <3>1
  <2>2. u[i] = w[1] BY <1>4, <2>1
  <2> QED BY <1>2, <2>1, <2>2
<1> QED BY <1>4, <1>5, <1>6, <1>7

\* The marks of the whole over challenge k, which it carries from o to e.
Carries(ms, chs, whole, k, o, e) ==
  /\ ms[e] = Beginning(k + 1)
  /\ \A p \in o .. e - 1 :
       /\ MayWrite(chs, ms[p], whole[p + 1])
       /\ ms[p].challenge = IF p < e - 1 THEN k ELSE k + 1

\* Challenge k, written from position o of the whole on.
LEMMA SegmentMarks ==
  ASSUME NEW chs, NEW noise, NEW k \in Nat, NEW h, Segment(chs, k, noise, h),
         NEW whole \in Seq(Chars), NEW ms, Marks(ms, chs, whole),
         NEW o \in Nat, NEW b \in Nat, b = Len(h), (o + b) + 1 <= Len(whole),
         IsPiece(whole, o, h),
         whole[(o + b) + 1] = Space,
         ms[o] = Beginning(k)
  PROVE  Carries(ms, chs, whole, k, o, (o + b) + 1)
<1>1. PICK w \in Nat : w = Len(whole) BY LenProperties
<1>2. /\ Within(chs, k, Beginning(k), h, Beginning(k + 1))
      /\ Within(chs, k + 1, Beginning(k + 1), <<Space>>, Beginning(k + 1))
  BY DEF Segment
<1>3. /\ ms[o + b] = Beginning(k + 1)
      /\ \A q \in 0 .. b - 1 :
           ms[o + q].challenge = k /\ MayWrite(chs, ms[o + q], whole[(o + q) + 1])
  <2>1. o + Len(h) <= Len(whole) BY <1>1
  <2>2. Follows(ms, chs, whole, k, o, Len(h), Beginning(k + 1)) BY <1>2, <2>1, Along
  <2> QED BY <2>2 DEF Follows
<1>4. PICK e \in Nat : e = o + b OBVIOUS
<1>5. /\ ms[e + 1] = Beginning(k + 1)
      /\ ms[e].challenge = k + 1
      /\ MayWrite(chs, ms[e], whole[e + 1])
  <2>1. Len(<<Space>>) = 1 /\ <<Space>>[1] = Space OBVIOUS
  <2>2. PICK t : t = <<Space>> /\ Len(t) = 1 /\ t[1] = Space BY <2>1
  <2>3. IsPiece(whole, e, t)
    <3>1. whole[e + 1] = t[1] BY <1>4, <2>2
    <3> QED BY <2>2, <3>1 DEF IsPiece
  <2>4. e + Len(t) <= Len(whole) /\ Within(chs, k + 1, Beginning(k + 1), t, Beginning(k + 1))
        /\ ms[e] = Beginning(k + 1)
    BY <1>1, <1>2, <1>3, <1>4, <2>2
  <2>5. /\ ms[e + 1] = Beginning(k + 1)
        /\ \A q \in 0 .. 0 :
             ms[e + q].challenge = k + 1 /\ MayWrite(chs, ms[e + q], whole[(e + q) + 1])
    <3>1. Follows(ms, chs, whole, k + 1, e, Len(t), Beginning(k + 1))
      BY <2>3, <2>4, Along
    <3>2. 1 - 1 = 0 OBVIOUS
    <3> QED BY <2>2, <3>1, <3>2 DEF Follows
  <2>6. e + 0 = e OBVIOUS
  <2> QED BY <2>5, <2>6
<1>6. ASSUME NEW p \in o .. o + b
      PROVE  /\ MayWrite(chs, ms[p], whole[p + 1])
             /\ ms[p].challenge = IF p < o + b THEN k ELSE k + 1
  <2>1. CASE p < e
    <3>1. PICK q \in 0 .. b - 1 : p = o + q
      <4>1. p - o \in 0 .. b - 1 /\ p = o + (p - o) BY <1>4, <2>1
      <4> QED BY <4>1
    <3> QED BY <1>3, <1>4, <2>1, <3>1
  <2>2. CASE ~(p < e)
    <3>1. p = e BY <1>4, <2>2
    <3> QED BY <1>4, <1>5, <3>1
  <2> QED BY <2>1, <2>2
<1>7. ((o + b) + 1) - 1 = o + b OBVIOUS
<1> QED BY <1>4, <1>5, <1>6, <1>7 DEF Carries

\* The text of the first challenges is the beginning of the whole.
LEMMA Prefixes ==
  ASSUME NEW n \in Nat, NEW r, NEW ls \in [0 .. n -> Nat],
         \A i \in 0 .. n, j \in 0 .. n : i <= j => ls[i] <= ls[j],
         \A k \in 1 .. n : \A q \in 1 .. ls[k - 1] : r[k][q] = r[k - 1][q],
         NEW k \in 0 .. n, NEW q \in 1 .. ls[k]
  PROVE  r[n][q] = r[k][q]
<1> DEFINE S == {j \in 0 .. n : k <= j => r[j][q] = r[k][q]}
<1>1. 0 \in S
  <2>1. CASE k = 0 BY <2>1
  <2>2. CASE k # 0
    <3>1. ~(k <= 0) /\ 0 \in 0 .. n BY <2>2
    <3> QED BY <3>1
  <2> QED BY <2>1, <2>2
<1>2. ASSUME NEW j \in 1 .. n, j - 1 \in S PROVE j \in S
  <2>1. PICK u \in 0 .. n : u = j - 1
    <3>1. j - 1 \in 0 .. n OBVIOUS
    <3> QED BY <3>1
  <2>2. CASE k <= u
    <3>1. r[u][q] = r[k][q] BY <1>2, <2>1, <2>2
    <3>2. ls[k] <= ls[u] /\ ls[k] \in Nat /\ ls[u] \in Nat BY <2>1, <2>2
    <3>3. q \in 1 .. ls[u] BY <3>2
    <3>4. r[j][q] = r[u][q] BY <2>1, <3>3
    <3> QED BY <3>1, <3>4
  <2>3. CASE k > u
    <3>1. k = j \/ ~(k <= j) BY <2>1, <2>3
    <3> QED BY <3>1
  <2> QED BY <2>1, <2>2, <2>3
<1>3. 0 .. n \subseteq S
  <2> HIDE DEF S
  <2> QED BY <1>1, <1>2, CountUp
<1>4. n \in S
  <2> HIDE DEF S
  <2> QED BY <1>3
<1> QED BY <1>4

\* r[k] is r[k - 1], then h, then one white space.
Extends(chs, noise, r, k, h) ==
  /\ Segment(chs, k, noise, h)
  /\ h \in Seq(Chars)
  /\ Len(r[k]) = (Len(r[k - 1]) + Len(h)) + 1
  /\ \A q \in 1 .. Len(r[k - 1]) : r[k][q] = r[k - 1][q]
  /\ \A q \in 1 .. Len(h) : r[k][Len(r[k - 1]) + q] = h[q]
  /\ r[k][(Len(r[k - 1]) + Len(h)) + 1] = Space

LEMMA TextExtends ==
  ASSUME NEW chs, Len(chs) \in Nat, NEW dim \in Nat, NEW noise \in BOOLEAN, NEW r,
         Texts(r, chs, noise), NEW k \in 1 .. Len(chs), IsChallenge(chs[k], dim)
  PROVE  \E h : Extends(chs, noise, r, k, h)
<1>1. k \in Nat /\ k <= Len(chs) /\ k - 1 \in 0 .. Len(chs) OBVIOUS
<1>2. PICK h : Segment(chs, k, noise, h) BY <1>1, SegmentOf
<1>3. PICK s \in Seq(Chars) : s = r[k - 1] BY <1>1 DEF Texts
<1>4. h \in Seq(Chars) BY <1>2 DEF Segment, Within
<1>5. PICK u : u = (s \o h) \o <<Space>> OBVIOUS
<1>6. r[k] = u
  <2>1. r[k] = (s \o Line(noise)) \o Serialize(chs[k]) BY <1>3 DEF Texts
  <2>2. (s \o Line(noise)) \o Serialize(chs[k]) = (s \o h) \o <<Space>>
    BY <1>2 DEF Segment
  <2> QED BY <1>5, <2>1, <2>2
<1>7. PICK a \in Nat, b \in Nat : a = Len(s) /\ b = Len(h) BY <1>4, LenProperties
<1>8. /\ Len(u) = (a + b) + 1
      /\ \A q \in 1 .. a : u[q] = s[q]
      /\ \A q \in 1 .. b : u[a + q] = h[q]
      /\ u[(a + b) + 1] = Space
  BY <1>4, <1>5, <1>7, ThreePieces
<1>9. Extends(chs, noise, r, k, h)
  BY <1>2, <1>3, <1>4, <1>6, <1>7, <1>8, Zenon DEF Extends
<1> QED BY <1>9

LEMMA ExtendsCarries ==
  ASSUME NEW chs, NEW noise, NEW r, NEW k \in Nat, NEW h, Extends(chs, noise, r, k, h),
         NEW whole \in Seq(Chars), NEW ms, Marks(ms, chs, whole),
         NEW o \in Nat, NEW e \in Nat, o = Len(r[k - 1]), e = Len(r[k]),
         e <= Len(whole), \A q \in 1 .. e : whole[q] = r[k][q],
         ms[o] = Beginning(k)
  PROVE  Carries(ms, chs, whole, k, o, e)
<1>1. PICK b \in Nat : b = Len(h) BY LenProperties DEF Extends
<1>2. /\ Segment(chs, k, noise, h)
      /\ e = (o + b) + 1
      /\ \A q \in 1 .. b : r[k][o + q] = h[q]
      /\ r[k][(o + b) + 1] = Space
  BY <1>1 DEF Extends
<1>3. IsPiece(whole, o, h)
  <2>1. ASSUME NEW q \in 1 .. b PROVE whole[o + q] = h[q]
    <3>1. o + q \in 1 .. e BY <1>2
    <3> QED BY <1>2, <3>1
  <2> QED BY <1>1, <2>1 DEF IsPiece
<1>4. whole[(o + b) + 1] = Space
  <2>1. (o + b) + 1 \in 1 .. e BY <1>2
  <2> QED BY <1>2, <2>1
<1>5. (o + b) + 1 <= Len(whole) BY <1>2
<1> QED BY <1>1, <1>2, <1>3, <1>4, <1>5, SegmentMarks

\* What Conversation writes for challenges that fit is a conversation: what the
\* other theorems ask of the text a client receives.
THEOREM ServersConverse ==
  ASSUME NEW chs, Len(chs) \in Nat, NEW dim \in Nat, NEW noise \in BOOLEAN,
         \A k \in 1 .. Len(chs) : IsChallenge(chs[k], dim)
  PROVE  /\ Conversation(chs, noise).text \in Seq(Chars)
         /\ IsConversation(Conversation(chs, noise), dim)
<1>1. PICK n \in Nat : n = Len(chs) OBVIOUS
<1>2. ASSUME NEW k \in 1 .. n PROVE Serialize(chs[k]) \in Seq(Chars)
  BY <1>1, SegmentOf
<1>3. Line(noise) \in Seq(Chars)
  <2>1. Within(chs, 1, Beginning(1), Line(noise), Beginning(1)) BY LineWritten
  <2> QED BY <2>1 DEF Within
<1>4. PICK r, ms :
        /\ Texts(r, chs, noise)
        /\ Marks(ms, chs, r[Len(chs)])
        /\ Conversation(chs, noise) =
             [text |-> r[Len(chs)], challenges |-> chs,
              ends |-> [k \in 1 .. Len(chs) |-> Len(r[k]) - 1], marks |-> ms]
  BY <1>1, <1>2, <1>3, ConversationParts
<1>5. r \in [0 .. n -> Seq(Chars)] /\ r[0] = <<>> BY <1>1, <1>4 DEF Texts
<1>6. PICK whole \in Seq(Chars) : whole = r[n] BY <1>5
<1>7. PICK ls \in [0 .. n -> Nat] : \A k \in 0 .. n : ls[k] = Len(r[k])
  <2> DEFINE ls == [k \in 0 .. n |-> Len(r[k])]
  <2>1. \A k \in 0 .. n : Len(r[k]) \in Nat BY <1>5, LenProperties
  <2>2. ls \in [0 .. n -> Nat] BY <2>1
  <2> QED BY <2>2
<1>8. PICK w \in Nat : w = ls[n] /\ w = Len(whole) BY <1>6, <1>7
<1>9. ls[0] = 0
  <2>1. ls[0] = Len(<<>>) BY <1>5, <1>7
  <2> QED BY <2>1
<1>10. ASSUME NEW k \in 1 .. n PROVE \E h : Extends(chs, noise, r, k, h)
  BY <1>1, <1>4, TextExtends
<1>11. ASSUME NEW k \in 1 .. n
       PROVE  /\ ls[k] >= ls[k - 1] + 2
              /\ \A q \in 1 .. ls[k - 1] : r[k][q] = r[k - 1][q]
  <2>1. PICK h : Extends(chs, noise, r, k, h) BY <1>10
  <2>2. PICK u \in 0 .. n : u = k - 1
    <3>1. k - 1 \in 0 .. n OBVIOUS
    <3> QED BY <3>1
  <2>3. ls[k] = Len(r[k]) /\ ls[u] = Len(r[u]) /\ ls[k] \in Nat /\ ls[u] \in Nat
    <3>1. k \in 0 .. n OBVIOUS
    <3> QED BY <1>7, <3>1
  <2>4. PICK b \in Nat : b = Len(h) /\ b >= 1 BY <2>1 DEF Extends, Segment
  <2>5. ls[k] = (ls[u] + b) + 1 BY <2>1, <2>2, <2>3, <2>4 DEF Extends
  <2>6. \A q \in 1 .. ls[u] : r[k][q] = r[u][q] BY <2>1, <2>2, <2>3 DEF Extends
  <2> QED BY <2>2, <2>3, <2>4, <2>5, <2>6
<1>12. /\ \A i \in 0 .. n, j \in 0 .. n : i <= j => ls[i] <= ls[j]
       /\ \A i \in 0 .. n, j \in 0 .. n : i < j => ls[i] + 2 <= ls[j]
       /\ \A p \in 0 .. w - 1 : \E k \in 1 .. n : ls[k - 1] <= p /\ p < ls[k]
  <2>1. \A k \in 1 .. n : ls[k] >= ls[k - 1] + 2 BY <1>11
  <2> QED BY <1>8, <1>9, <2>1, Growing
<1>13. ASSUME NEW k \in 0 .. n, NEW q \in 1 .. ls[k] PROVE whole[q] = r[k][q]
  <2>1. \A i \in 1 .. n : \A q_1 \in 1 .. ls[i - 1] : r[i][q_1] = r[i - 1][q_1] BY <1>11
  <2>2. \A i \in 0 .. n, j \in 0 .. n : i <= j => ls[i] <= ls[j] BY <1>12
  <2> QED BY <1>6, <2>1, <2>2, Prefixes
<1>14. Marks(ms, chs, whole) BY <1>1, <1>4, <1>6
<1>15. ms[0] = Beginning(1) BY <1>14 DEF Marks
<1>16. ASSUME NEW k \in 1 .. n, ms[ls[k - 1]] = Beginning(k)
       PROVE  Carries(ms, chs, whole, k, ls[k - 1], ls[k])
  <2>1. PICK h : Extends(chs, noise, r, k, h) BY <1>10
  <2>2. k \in 0 .. n /\ k - 1 \in 0 .. n /\ n \in 0 .. n /\ k <= n OBVIOUS
  <2>3. PICK o \in Nat, e \in Nat : o = ls[k - 1] /\ e = ls[k] BY <2>2
  <2>4. o = Len(r[k - 1]) /\ e = Len(r[k]) BY <1>7, <2>2, <2>3
  <2>5. e <= Len(whole) BY <1>8, <1>12, <2>2, <2>3
  <2>6. \A q \in 1 .. e : whole[q] = r[k][q] BY <1>13, <2>2, <2>3
  <2>7. k \in Nat /\ ms[o] = Beginning(k) BY <1>16, <2>3
  <2>8. Carries(ms, chs, whole, k, o, e)
    BY <1>14, <2>1, <2>4, <2>5, <2>6, <2>7, ExtendsCarries
  <2> QED BY <2>3, <2>8
<1> DEFINE S == {k \in 0 .. n : ms[ls[k]] = Beginning(k + 1)}
<1>17. 0 \in S
  <2>1. 0 + 1 = 1 /\ 0 \in 0 .. n OBVIOUS
  <2> QED BY <1>9, <1>15, <2>1
<1>18. ASSUME NEW k \in 1 .. n, k - 1 \in S PROVE k \in S
  <2>1. (k - 1) + 1 = k /\ k \in 0 .. n OBVIOUS
  <2>2. ms[ls[k - 1]] = Beginning(k) BY <1>18, <2>1
  <2>3. ms[ls[k]] = Beginning(k + 1) BY <1>16, <2>2 DEF Carries
  <2> QED BY <2>1, <2>3
<1>19. 0 .. n \subseteq S
  <2> HIDE DEF S
  <2> QED BY <1>17, <1>18, CountUp
<1>20. ASSUME NEW k \in 0 .. n PROVE ms[ls[k]] = Beginning(k + 1) BY <1>19
<1> HIDE DEF S
<1>21. ASSUME NEW p \in 0 .. w - 1
       PROVE  \E k \in 1 .. n :
                /\ ls[k - 1] <= p /\ p < ls[k]
                /\ MayWrite(chs, ms[p], whole[p + 1])
                /\ ms[p].challenge = IF p < ls[k] - 1 THEN k ELSE k + 1
  <2>1. PICK k \in 1 .. n : ls[k - 1] <= p /\ p < ls[k] BY <1>12
  <2>2. k \in 0 .. n /\ k - 1 \in 0 .. n /\ (k - 1) + 1 = k OBVIOUS
  <2>3. ms[ls[k - 1]] = Beginning(k)
    <3>1. PICK u \in 0 .. n : u = k - 1 BY <2>2
    <3>2. ms[ls[u]] = Beginning(u + 1) BY <1>20
    <3> QED BY <2>2, <3>1, <3>2
  <2>4. Carries(ms, chs, whole, k, ls[k - 1], ls[k]) BY <1>16, <2>3
  <2>5. p \in ls[k - 1] .. ls[k] - 1
    <3>1. ls[k - 1] \in Nat /\ ls[k] \in Nat BY <2>2
    <3> QED BY <2>1, <3>1
  <2> QED BY <2>1, <2>4, <2>5 DEF Carries
<1>22. ASSUME NEW p \in 0 .. w - 1
       PROVE  /\ MayWrite(chs, ms[p], whole[p + 1])
              /\ ms[p + 1] = After(chs, ms[p], whole[p + 1])
  <2>1. MayWrite(chs, ms[p], whole[p + 1]) BY <1>21
  <2>2. PICK q \in 1 .. w : q = p + 1 /\ q - 1 = p
    <3>1. p + 1 \in 1 .. w /\ (p + 1) - 1 = p OBVIOUS
    <3> QED BY <3>1
  <2>3. ms[q] = After(chs, ms[q - 1], whole[q]) BY <1>8, <1>14 DEF Marks
  <2> QED BY <2>1, <2>2, <2>3
<1>23. ASSUME NEW i \in 1 .. n, NEW p \in 0 .. w
       PROVE  p >= ls[i] - 1 <=> ms[p].challenge > i
  <2>1. i \in 0 .. n /\ ls[i] \in Nat OBVIOUS
  <2>2. CASE p = w
    <3>1. n \in 0 .. n /\ i <= n OBVIOUS
    <3>2. ms[p] = Beginning(n + 1) BY <1>8, <1>20, <2>2, <3>1
    <3>3. ms[p].challenge = n + 1 BY <3>2 DEF Beginning
    <3>4. ls[i] <= w BY <1>8, <1>12, <2>1, <3>1
    <3> QED BY <2>1, <2>2, <3>3, <3>4
  <2>3. CASE p # w
    <3>1. p \in 0 .. w - 1 BY <2>3
    <3>2. PICK k \in 1 .. n :
            /\ ls[k - 1] <= p /\ p < ls[k]
            /\ ms[p].challenge = IF p < ls[k] - 1 THEN k ELSE k + 1
      BY <1>21, <3>1
    <3>3. PICK u \in 0 .. n : u = k - 1
      <4>1. k - 1 \in 0 .. n OBVIOUS
      <4> QED BY <4>1
    <3>4. k \in 0 .. n /\ ls[k] \in Nat /\ ls[u] \in Nat OBVIOUS
    <3>5. CASE p < ls[k] - 1
      <4>1. ms[p].challenge = k BY <3>2, <3>5
      <4>2. CASE k > i
        <5>1. ls[i] <= ls[u] BY <1>12, <2>1, <3>3, <4>2
        <5> QED BY <2>1, <3>2, <3>3, <3>4, <4>1, <4>2, <5>1
      <4>3. CASE ~(k > i)
        <5>1. ls[k] <= ls[i] BY <1>12, <2>1, <3>4, <4>3
        <5> QED BY <2>1, <3>4, <3>5, <4>1, <4>3, <5>1
      <4> QED BY <4>2, <4>3
    <3>6. CASE ~(p < ls[k] - 1)
      <4>1. ms[p].challenge = k + 1 BY <3>2, <3>6
      <4>2. CASE k >= i
        <5>1. ls[i] <= ls[k] BY <1>12, <2>1, <3>4, <4>2
        <5> QED BY <2>1, <3>4, <3>6, <4>1, <4>2, <5>1
      <4>3. CASE ~(k >= i)
        <5>1. ls[k] + 2 <= ls[i] BY <1>12, <2>1, <3>4, <4>3
        <5>2. p < ls[k] /\ k + 1 <= i
          <6>1. p < ls[k] BY <3>2
          <6>2. k + 1 <= i BY <4>3
          <6> QED BY <6>1, <6>2
        <5>3. ~(p >= ls[i] - 1) BY <2>1, <3>4, <5>1, <5>2
        <5>4. ~(k + 1 > i) BY <5>2
        <5> QED BY <4>1, <5>3, <5>4
      <4> QED BY <4>2, <4>3
    <3> QED BY <3>5, <3>6
  <2> QED BY <2>2, <2>3
<1> DEFINE conv == Conversation(chs, noise)
<1>24. /\ conv.text = whole
       /\ conv.challenges = chs
       /\ \A k \in 1 .. n : conv.ends[k] = ls[k] - 1
       /\ conv.marks = ms
  <2>1. conv = [text |-> whole, challenges |-> chs,
                ends |-> [k \in 1 .. n |-> Len(r[k]) - 1], marks |-> ms]
    BY <1>1, <1>4, <1>6
  <2> HIDE DEF conv
  <2>2. \A k \in 1 .. n : Len(r[k]) = ls[k] BY <1>7
  <2> QED BY <2>1, <2>2
<1> HIDE DEF conv
<1>25. IsConversation(conv, dim)
  <2>1. \A i \in 1 .. n, p \in 0 .. w : p >= conv.ends[i] <=> conv.marks[p].challenge > i
    BY <1>23, <1>24
  <2>2. \A p \in 0 .. w - 1 :
          /\ MayWrite(conv.challenges, conv.marks[p], conv.text[p + 1])
          /\ conv.marks[p + 1] = After(conv.challenges, conv.marks[p], conv.text[p + 1])
    BY <1>22, <1>24
  <2>3. conv.marks[0] = Beginning(1) BY <1>15, <1>24
  <2>4. Len(conv.challenges) = n /\ Len(conv.text) = w BY <1>1, <1>8, <1>24
  <2>5. \A i \in 1 .. n : IsChallenge(conv.challenges[i], dim) BY <1>1, <1>24
  <2>6. ASSUME NEW i \in 1 .. n PROVE conv.ends[i] \in 1 .. w
    <3>1. PICK u \in 0 .. n : u = i - 1 /\ i \in 0 .. n /\ n \in 0 .. n
      <4>1. i - 1 \in 0 .. n /\ i \in 0 .. n /\ n \in 0 .. n OBVIOUS
      <4> QED BY <4>1
    <3>2. ls[u] + 2 <= ls[i] /\ ls[i] <= ls[n] BY <1>12, <3>1
    <3>3. ls[i] \in Nat /\ ls[u] \in Nat BY <3>1
    <3> QED BY <1>8, <1>24, <3>2, <3>3
  <2> QED BY <2>1, <2>2, <2>3, <2>4, <2>5, <2>6, Zenon DEF IsConversation
<1> QED BY <1>24, <1>25 DEF conv

\* Any text is one of characters, and that of challenges is a conversation.
LEMMA Sendable ==
  ASSUME NEW conv \in Conversations
  PROVE  /\ conv.text \in Seq(Chars)
         /\ conv.challenges # <<>> => IsConversation(conv, kMaxMatrixDim)
<1>1. CASE conv.challenges = <<>> BY <1>1, ConversationsAssumption
<1>2. CASE conv.challenges # <<>>
  <2>1. PICK noise \in BOOLEAN : conv = Conversation(conv.challenges, noise)
    BY <1>2, ConversationsAssumption
  <2>2. /\ Len(conv.challenges) \in Nat /\ kMaxMatrixDim \in Nat
        /\ \A k \in 1 .. Len(conv.challenges) : IsChallenge(conv.challenges[k], kMaxMatrixDim)
    BY <1>2, ConversationsAssumption, ConstantsAssumption
  <2>3. PICK u : u = Conversation(conv.challenges, noise) BY <2>1
  <2>4. u.text \in Seq(Chars) /\ IsConversation(u, kMaxMatrixDim)
    BY <2>2, <2>3, ServersConverse
  <2> QED BY <2>1, <2>3, <2>4
<1> QED BY <1>1, <1>2

-----------------------------------------------------------------------------
(* Any bytes.                                                              *)

\* A matrix of an accepted size fits the arrays.
LEMMA Fits ==
  ASSUME NEW n \in 0 .. kMaxMatrixDim
  PROVE  /\ n * n \in Nat
         /\ n * n <= kMaxMatrixDim * kMaxMatrixDim
         /\ n > 0 => n * n > 0
<1> DEFINE m == kMaxMatrixDim
<1>1. m \in Nat /\ n \in Nat /\ n <= m BY ConstantsAssumption
<1>2. n * n \in Nat BY <1>1
<1> HIDE DEF m
<1>3. n * n <= n * m BY <1>1
<1>4. n * m <= m * m BY <1>1
<1>5. n * m \in Nat /\ m * m \in Nat BY <1>1
<1>6. n > 0 => n * n > 0 BY <1>1
<1>7. n * n <= m * m BY <1>2, <1>3, <1>4, <1>5
<1> QED BY <1>2, <1>6, <1>7 DEF m

\* The parser begins with nothing stored.
LEMMA Initial == Init => ParserInv
<1> SUFFICES ASSUME Init PROVE ParserInv OBVIOUS
<1> USE ConstantsAssumption DEF Init
<1>1. TypeOK
  <2>1. sent.text \in Seq(Chars) BY Sendable
  <2>2. pos \in 0 .. Len(sent.text) BY <2>1
  <2>3. challenge_id \in Int /\ N \in Int /\ current_value \in Nat
        /\ a_index \in Nat /\ b_index \in Nat /\ sign \in {-1, 1}
    OBVIOUS
  <2>4. A \in [Cells -> Int] /\ B \in [Cells -> Int] OBVIOUS
  <2>5. completed \in BOOLEAN /\ in_number \in BOOLEAN /\ phase \in Phases
    BY DEF Phases
  <2> HIDE DEF Init
  <2> QED BY <2>1, <2>2, <2>3, <2>4, <2>5 DEF TypeOK
<1>2. InBounds
  <2>1. N = 0 /\ 0 \in 0 .. kMaxMatrixDim OBVIOUS
  <2> QED BY <2>1, Fits DEF InBounds, totalCells, kMaxCells
<1>3. CompleteInv BY DEF CompleteInv
<1> QED BY <1>1, <1>2, <1>3 DEF ParserInv

\* Where feed() stands after one more character.
LEMMA FeedPos ==
  ASSUME TypeOK, NEW c \in Chars, Feed(c)
  PROVE  /\ sent'.text \in Seq(Chars)
         /\ pos' \in 0 .. Len(sent'.text)
BY DEF TypeOK, Feed

\* After reset() the parser waits for a challenge id, whatever N is left.
LEMMA ResetStep ==
  ASSUME InBounds, ParserReset, UNCHANGED jobVars
  PROVE  InBounds' /\ CompleteInv'
<1>1. N' = N /\ phase' = "ChallengeId" /\ ~completed'
  BY DEF ParserReset, jobVars
<1>2. totalCells' = totalCells /\ kMaxCells' = kMaxCells
  BY <1>1 DEF totalCells, kMaxCells
<1>3. InBounds' BY <1>1, <1>2 DEF InBounds
<1>4. CompleteInv' BY <1>1 DEF CompleteInv
<1> QED BY <1>3, <1>4

\* A digit, a sign and what is no part of a number store nothing.
LEMMA CharStep ==
  ASSUME ParserInv, NEW c \in Chars, DigitChar(c) \/ MinusChar(c) \/ OtherChar(c)
  PROVE  ParserInv'
<1> USE DEF ParserInv
<1>1. Feed(c) BY DEF DigitChar, MinusChar, OtherChar
<1>2. /\ UNCHANGED jobVars /\ ~completed
      /\ completed' \in BOOLEAN /\ ~completed'
  <2>1. CASE DigitChar(c) BY <2>1, <1>1 DEF DigitChar, Feed, TypeOK
  <2>2. CASE MinusChar(c) BY <2>2, <1>1 DEF MinusChar, Feed, TypeOK
  <2>3. CASE OtherChar(c)
    BY <2>3, <1>1 DEF OtherChar, Feed, ParserReset, TypeOK
  <2> QED BY <2>1, <2>2, <2>3
<1>3. \/ UNCHANGED <<phase, a_index, b_index>>
      \/ phase' = "ChallengeId" /\ a_index' = 0 /\ b_index' = 0
  BY DEF DigitChar, MinusChar, OtherChar, ParserReset
<1>4. in_number' \in BOOLEAN /\ sign' \in {-1, 1} /\ current_value' \in Nat
  <2>1. CASE DigitChar(c)
    BY <2>1 DEF DigitChar, TypeOK, Digit
  <2>2. CASE MinusChar(c) BY <2>2 DEF MinusChar
  <2>3. CASE OtherChar(c) BY <2>3 DEF OtherChar, ParserReset, NumberEnded
  <2> QED BY <2>1, <2>2, <2>3
<1>5. TypeOK'
  <2>1. sent'.text \in Seq(Chars) /\ pos' \in 0 .. Len(sent'.text)
    BY <1>1, FeedPos
  <2>2. /\ phase' \in Phases /\ a_index' \in Nat /\ b_index' \in Nat
        /\ completed' \in BOOLEAN
    BY <1>2, <1>3 DEF TypeOK, Phases
  <2> QED BY <1>2, <1>4, <2>1, <2>2 DEF TypeOK, jobVars
<1>6. totalCells' = totalCells /\ kMaxCells' = kMaxCells /\ N' = N
  BY <1>2 DEF totalCells, kMaxCells, jobVars
<1>7. InBounds' BY <1>2, <1>3, <1>6 DEF InBounds
<1>8. CompleteInv' BY <1>2, <1>3, <1>6 DEF CompleteInv
<1> QED BY <1>5, <1>7, <1>8

\* Storing the number that has ended keeps the indexes in bounds.
LEMMA FinalizeStep ==
  ASSUME ParserInv, ~completed, NEW value \in Int,
         \/ FinalizeId(value) \/ FinalizeN(value)
         \/ FinalizeA(value) \/ FinalizeB(value)
  PROVE  /\ phase' \in Phases
         /\ in_number' = FALSE /\ sign' = 1 /\ current_value' = 0
         /\ a_index' \in Nat /\ b_index' \in Nat /\ completed' \in BOOLEAN
         /\ challenge_id' \in Int /\ N' \in Int
         /\ A' \in [Cells -> Int] /\ B' \in [Cells -> Int]
         /\ InBounds' /\ CompleteInv'
<1> USE DEF ParserInv, TypeOK, Phases
<1>0. N \in 0 .. kMaxMatrixDim BY DEF InBounds
<1>1. CASE FinalizeId(value)
  BY <1>1 DEF FinalizeId, NumberEnded, InBounds, CompleteInv, totalCells
<1>2. CASE FinalizeN(value)
  <2>1. CASE value <= 0 \/ value > kMaxMatrixDim
    <3>1. ParserReset /\ UNCHANGED jobVars BY <1>2, <2>1 DEF FinalizeN
    <3>2. InBounds' /\ CompleteInv' BY <3>1, ResetStep
    <3> QED BY <3>1, <3>2 DEF ParserReset, NumberEnded, jobVars
  <2>2. CASE ~(value <= 0 \/ value > kMaxMatrixDim)
    <3>1. value \in 0 .. kMaxMatrixDim /\ value > 0
      BY <2>2, ConstantsAssumption
    <3>2. /\ N' = value /\ phase' = "A" /\ a_index' = 0 /\ b_index' = 0
          /\ NumberEnded /\ UNCHANGED <<completed, challenge_id, A, B>>
      BY <1>2, <2>2 DEF FinalizeN
    <3>3. /\ totalCells' \in Nat
          /\ totalCells' <= kMaxCells'
          /\ totalCells' > 0
      BY <3>1, <3>2, Fits DEF totalCells, kMaxCells
    <3>4. InBounds' BY <3>1, <3>2, <3>3 DEF InBounds
    <3>5. CompleteInv' BY <3>1, <3>2 DEF CompleteInv, NumberEnded
    <3> QED BY <3>2, <3>4, <3>5 DEF NumberEnded
  <2> QED BY <2>1, <2>2
<1>3. CASE FinalizeA(value)
  <2>1. phase = "A" /\ a_index < totalCells /\ b_index = 0 /\ N > 0
    BY <1>3 DEF FinalizeA, InBounds, CompleteInv
  <2>2. totalCells \in Nat /\ totalCells <= kMaxCells /\ totalCells > 0
    BY <1>0, <2>1, Fits DEF totalCells, kMaxCells
  <2>3. /\ A' = [A EXCEPT ![a_index] = value] /\ a_index' = a_index + 1
        /\ phase' = IF a_index' = totalCells THEN "B" ELSE "A"
        /\ NumberEnded /\ UNCHANGED <<b_index, completed, challenge_id, N, B>>
    BY <1>3, <2>1 DEF FinalizeA
  <2>4. totalCells' = totalCells /\ kMaxCells' = kMaxCells
    BY <2>3 DEF totalCells, kMaxCells
  <2>5. A' \in [Cells -> Int] BY <2>3
  <2>6. InBounds' BY <1>0, <2>1, <2>2, <2>3, <2>4 DEF InBounds
  <2>7. CompleteInv' BY <2>1, <2>2, <2>3, <2>4 DEF CompleteInv, NumberEnded
  <2> QED BY <2>3, <2>5, <2>6, <2>7 DEF NumberEnded
<1>4. CASE FinalizeB(value)
  <2>1. phase = "B" /\ b_index < totalCells /\ a_index = totalCells /\ N > 0
    BY <1>4 DEF FinalizeB, InBounds, CompleteInv
  <2>2. totalCells \in Nat /\ totalCells <= kMaxCells
    BY <1>0, Fits DEF totalCells, kMaxCells
  <2>3. /\ B' = [B EXCEPT ![b_index] = value] /\ b_index' = b_index + 1
        /\ completed' \in BOOLEAN /\ (completed' <=> b_index' = totalCells)
        /\ NumberEnded /\ UNCHANGED <<phase, a_index, challenge_id, N, A>>
    BY <1>4, <2>1 DEF FinalizeB
  <2>4. totalCells' = totalCells /\ kMaxCells' = kMaxCells
    BY <2>3 DEF totalCells, kMaxCells
  <2>5. B' \in [Cells -> Int] BY <2>3
  <2>6. InBounds' BY <1>0, <2>1, <2>2, <2>3, <2>4 DEF InBounds
  <2>7. CompleteInv' BY <2>1, <2>2, <2>3, <2>4 DEF CompleteInv, NumberEnded
  <2> QED BY <2>3, <2>5, <2>6, <2>7 DEF NumberEnded
<1> QED BY <1>1, <1>2, <1>3, <1>4

\* White space ends a number, or nothing.
LEMMA SpaceStep ==
  ASSUME ParserInv, NEW c \in Chars, SpaceChar(c)
  PROVE  ParserInv'
<1> USE DEF ParserInv
<1>1. Feed(c) /\ ~completed BY DEF SpaceChar, Feed
<1>2. CASE in_number
  <2> DEFINE value == sign * current_value
  <2>1. value \in Int BY DEF TypeOK
  <2>2. \/ FinalizeId(value) \/ FinalizeN(value)
        \/ FinalizeA(value) \/ FinalizeB(value)
    BY <1>2 DEF SpaceChar
  <2>3. ParserInv OBVIOUS
  <2>4. TypeOK OBVIOUS
  <2> HIDE DEF value, ParserInv
  <2>5. /\ phase' \in Phases
        /\ in_number' = FALSE /\ sign' = 1 /\ current_value' = 0
        /\ a_index' \in Nat /\ b_index' \in Nat /\ completed' \in BOOLEAN
        /\ challenge_id' \in Int /\ N' \in Int
        /\ A' \in [Cells -> Int] /\ B' \in [Cells -> Int]
        /\ InBounds' /\ CompleteInv'
    BY <1>1, <2>1, <2>2, <2>3, FinalizeStep
  <2>6. sent'.text \in Seq(Chars) /\ pos' \in 0 .. Len(sent'.text)
    BY <1>1, <2>4, FeedPos
  <2>7. TypeOK' BY <2>5, <2>6 DEF TypeOK
  <2> QED BY <2>5, <2>7 DEF ParserInv
<1>3. CASE ~in_number
  <2>1. UNCHANGED <<parserVars, jobVars>> BY <1>3 DEF SpaceChar
  <2>2. TypeOK' BY <1>1, <2>1, FeedPos DEF TypeOK, parserVars, jobVars
  <2>3. InBounds' /\ CompleteInv'
    BY <2>1 DEF InBounds, CompleteInv, parserVars, jobVars, totalCells, kMaxCells
  <2> QED BY <2>2, <2>3
<1> QED BY <1>2, <1>3

\* Once the challenge is answered the parser begins again.
LEMMA AnswerStep ==
  ASSUME ParserInv, Answer
  PROVE  ParserInv'
<1> USE DEF ParserInv, Answer, ParserReset, NumberEnded, jobVars
<1>1. TypeOK' BY DEF TypeOK, Phases
<1>2. InBounds' BY DEF InBounds, totalCells, kMaxCells
<1>3. CompleteInv' BY DEF CompleteInv
<1> QED BY <1>1, <1>2, <1>3

\* On every stream the fields of the parser have their types, a challenge is
\* complete exactly when its last cell is stored, and the indexes are in
\* bounds.
THEOREM ParserInvariant == Spec => []ParserInv
<1>1. ParserInv /\ [Next]_vars => ParserInv'
  <2> SUFFICES ASSUME ParserInv, [Next]_vars PROVE ParserInv' OBVIOUS
  <2>1. CASE Next BY <2>1, CharStep, SpaceStep, AnswerStep DEF Next
  <2>2. CASE UNCHANGED vars
    BY <2>2 DEF vars, parserVars, jobVars, ParserInv, TypeOK, InBounds,
                CompleteInv, totalCells, kMaxCells
  <2> QED BY <2>1, <2>2
<1> QED BY <1>1, Initial, PTL DEF Spec

\* No byte stream makes the parser store a cell outside job.A and job.B.
THEOREM NoOverrun == Spec => []InBounds
<1>1. ParserInv => InBounds BY DEF ParserInv
<1> QED BY <1>1, ParserInvariant, PTL

-----------------------------------------------------------------------------
(* What the parser has stored is what the text has got to.                 *)

Mark == sent.marks[pos]
Current == sent.challenges[Mark.challenge]

\* A mark counts whole challenges and whole numbers; nothing follows the last.
MarkInv ==
  /\ Mark \in [challenge : 1 .. Len(sent.challenges) + 1, number : Nat \ {0},
               begun : BOOLEAN, value : Nat]
  /\ ~Mark.begun => Mark.value = 0
  /\ Mark.challenge > Len(sent.challenges) => Mark.number = 1 /\ ~Mark.begun

\* The fields hold the numbers of ch before number k.
Holds(ch, k) ==
  \/ phase = "ChallengeId" /\ k = 1
  \/ phase = "N" /\ k = 2 /\ challenge_id = ch.cid
  \/ /\ phase = "A" /\ k = 3 + a_index
     /\ challenge_id = ch.cid /\ N = ch.size
     /\ \A c \in 0 .. a_index - 1 : A[c] = ch.cellsA[c + 1]
  \/ /\ phase = "B" /\ k = 3 + totalCells + b_index
     /\ challenge_id = ch.cid /\ N = ch.size
     /\ \A c \in 0 .. totalCells - 1 : A[c] = ch.cellsA[c + 1]
     /\ \A c \in 0 .. b_index - 1 : B[c] = ch.cellsB[c + 1]

ProgressInv == ~completed =>
  /\ Mark.challenge = Len(answered) + 1
  /\ sign = 1 /\ in_number = Mark.begun /\ current_value = Mark.value
  /\ Holds(Current, Mark.number)

CompletedInv == completed =>
  /\ Mark = Beginning(Len(answered) + 2)
  /\ SameChallenge(Job, sent.challenges[Len(answered) + 1])

\* The jobs a parser can complete.
Matrices == UNION {[0 .. n * n - 1 -> Int] : n \in 0 .. kMaxMatrixDim}
Jobs == [challenge_id : Int, N : Int, A : Matrices, B : Matrices]

StreamInv ==
  /\ sent \in Conversations
  /\ answered \in Seq(Jobs)
  /\ FromServer => MarkInv /\ ProgressInv /\ CompletedInv /\ AnswersIntact

-----------------------------------------------------------------------------
(* The text.                                                               *)

\* The numbers of a challenge in the order in which they are written.
LEMMA NumbersInOrder ==
  ASSUME NEW ch, IsChallenge(ch, kMaxMatrixDim)
  PROVE  /\ ch.size * ch.size \in Nat /\ ch.size * ch.size > 0
         /\ NumberCount(ch) = 2 + 2 * (ch.size * ch.size)
         /\ NumberOf(ch, 1) = ch.cid
         /\ NumberOf(ch, 2) = ch.size
         /\ \A c \in 0 .. ch.size * ch.size - 1 :
              /\ NumberOf(ch, 3 + c) = ch.cellsA[c + 1]
              /\ NumberOf(ch, 3 + ch.size * ch.size + c) = ch.cellsB[c + 1]
<1> DEFINE cells == ch.size * ch.size
<1>1. cells \in Nat /\ cells > 0
  BY Fits, ConstantsAssumption DEF IsChallenge
<1>2. NumberCount(ch) = 2 + 2 * cells BY DEF NumberCount
<1>3. /\ NumberOf(ch, 1) = ch.cid /\ NumberOf(ch, 2) = ch.size
      /\ \A k \in 3 .. 2 + cells : NumberOf(ch, k) = ch.cellsA[k - 2]
      /\ \A k : ~(k = 1) /\ ~(k = 2) /\ ~(k \in 3 .. 2 + cells) =>
               NumberOf(ch, k) = ch.cellsB[k - 2 - cells]
  <2> HIDE DEF cells
  <2>1. \A k : NumberOf(ch, k) =
                CASE k = 1 -> ch.cid
                  [] k = 2 -> ch.size
                  [] k \in 3 .. 2 + cells -> ch.cellsA[k - 2]
                  [] OTHER -> ch.cellsB[k - 2 - cells]
    BY DEF NumberOf, cells
  <2> QED BY <1>1, <2>1
<1> HIDE DEF cells
<1>4. ASSUME NEW c \in 0 .. cells - 1
      PROVE  /\ NumberOf(ch, 3 + c) = ch.cellsA[c + 1]
             /\ NumberOf(ch, 3 + cells + c) = ch.cellsB[c + 1]
  <2>1. /\ 3 + c \in 3 .. 2 + cells /\ 3 + c - 2 = c + 1
        /\ 3 + cells + c \notin 3 .. 2 + cells
        /\ 3 + cells + c # 1 /\ 3 + cells + c # 2
        /\ 3 + cells + c - 2 - cells = c + 1
    BY <1>1
  <2> QED BY <1>1, <1>3, <2>1
<1> QED BY <1>1, <1>2, <1>3, <1>4 DEF cells

\* What a server sends is a conversation.
LEMMA Sent ==
  ASSUME StreamInv, FromServer
  PROVE  /\ IsConversation(sent, kMaxMatrixDim)
         /\ MarkInv /\ ProgressInv /\ CompletedInv /\ AnswersIntact
         /\ Len(answered) \in Nat
         /\ Len(sent.challenges) \in Nat
<1>1. IsConversation(sent, kMaxMatrixDim) BY Sendable DEF StreamInv, FromServer
<1> QED BY <1>1 DEF StreamInv, IsConversation

\* With one more character the text gets further by that character.
LEMMA MarkStep ==
  ASSUME TypeOK, StreamInv, FromServer, NEW c \in Chars, Feed(c)
  PROVE  /\ MayWrite(sent.challenges, Mark, c)
         /\ Mark' = After(sent.challenges, Mark, c)
         /\ MarkInv'
<1>1. IsConversation(sent, kMaxMatrixDim) /\ MarkInv BY Sent
<1>2. /\ pos \in 0 .. Len(sent.text) - 1 /\ c = sent.text[pos + 1]
      /\ pos' = pos + 1 /\ sent' = sent
  BY DEF Feed, TypeOK
<1>3. /\ MayWrite(sent.challenges, Mark, c)
      /\ Mark' = After(sent.challenges, Mark, c)
  BY <1>1, <1>2 DEF IsConversation, Mark
<1> DEFINE chs == sent.challenges
           count == NumberCount(chs[Mark.challenge])
<1>4. Len(chs) \in Nat BY Sent
<1>5. /\ Mark \in [challenge : 1 .. Len(chs) + 1, number : Nat \ {0},
                   begun : BOOLEAN, value : Nat]
      /\ ~Mark.begun => Mark.value = 0
      /\ Mark.challenge > Len(chs) => Mark.number = 1 /\ ~Mark.begun
  BY <1>1 DEF MarkInv
<1>6. /\ Mark' \in [challenge : 1 .. Len(chs) + 1, number : Nat \ {0},
                    begun : BOOLEAN, value : Nat]
      /\ ~Mark'.begun => Mark'.value = 0
      /\ Mark'.challenge > Len(chs) => Mark'.number = 1 /\ ~Mark'.begun
  <2>1. CASE c \in Digit
    <3>1. Mark.challenge <= Len(chs)
      BY <1>3, <2>1 DEF MayWrite, Digit, Space, Other
    <3>2. Mark' = [Mark EXCEPT !.begun = TRUE, !.value = 10 * Mark.value + c]
      BY <1>3, <2>1 DEF After
    <3>3. Mark' = [challenge |-> Mark.challenge, number |-> Mark.number,
                   begun |-> TRUE, value |-> 10 * Mark.value + c]
      BY <1>5, <3>2
    <3>4. 10 * Mark.value + c \in Nat BY <1>5, <2>1 DEF Digit
    <3> QED BY <1>4, <1>5, <3>1, <3>3, <3>4
  <2>2. CASE c \notin Digit /\ (c # Space \/ ~Mark.begun)
    <3>1. Mark' = Mark BY <1>3, <2>2 DEF After
    <3> QED BY <1>5, <3>1
  <2>3. CASE c \notin Digit /\ ~(c # Space \/ ~Mark.begun) /\ Mark.number < count
    <3>1. Mark' = [Mark EXCEPT !.number = Mark.number + 1, !.begun = FALSE, !.value = 0]
      BY <1>3, <2>3 DEF After
    <3>2. Mark' = [challenge |-> Mark.challenge, number |-> Mark.number + 1,
                   begun |-> FALSE, value |-> 0]
      BY <1>5, <3>1
    <3>3. Mark.challenge <= Len(chs) BY <1>4, <1>5, <2>3
    <3> QED BY <1>4, <1>5, <3>2, <3>3
  <2>4. CASE c \notin Digit /\ ~(c # Space \/ ~Mark.begun) /\ ~(Mark.number < count)
    <3>1. Mark' = Beginning(Mark.challenge + 1) BY <1>3, <2>4 DEF After
    <3> HIDE DEF count
    <3> QED BY <1>4, <1>5, <2>4, <3>1 DEF Beginning
  <2> QED BY <2>1, <2>2, <2>3, <2>4
<1>7. MarkInv' BY <1>2, <1>6 DEF MarkInv
<1> QED BY <1>3, <1>7

\* When the white space after a number is fed, the number read is the one the
\* text has come to.
LEMMA NumberEnds ==
  ASSUME ParserInv, StreamInv, FromServer, Feed(Space), in_number
  PROVE  /\ IsChallenge(Current, kMaxMatrixDim)
         /\ Mark.number \in Nat
         /\ sign * current_value = NumberOf(Current, Mark.number)
         /\ Mark.challenge = Len(answered) + 1
         /\ Holds(Current, Mark.number)
         /\ Mark.number < NumberCount(Current) => Current' = Current
         /\ IF Mark.number < NumberCount(Current)
            THEN Mark' = [challenge |-> Mark.challenge, number |-> Mark.number + 1,
                          begun |-> FALSE, value |-> 0]
            ELSE Mark' = Beginning(Mark.challenge + 1)
<1> DEFINE chs == sent.challenges
<1>1. IsConversation(sent, kMaxMatrixDim) /\ MarkInv /\ ProgressInv BY Sent
<1>2. ~completed /\ sent' = sent BY DEF Feed
<1>3. /\ Mark.challenge = Len(answered) + 1 /\ sign = 1 /\ Mark.begun
      /\ current_value = Mark.value
      /\ Holds(Current, Mark.number)
  BY <1>1, <1>2 DEF ProgressInv
<1>4. /\ Mark \in [challenge : 1 .. Len(chs) + 1, number : Nat \ {0},
                   begun : BOOLEAN, value : Nat]
      /\ Mark.challenge <= Len(chs)
  BY <1>1, <1>3, Sent DEF MarkInv
<1>5. IsChallenge(Current, kMaxMatrixDim)
  BY <1>1, <1>4, Sent DEF IsConversation, Current
<1>6. Space \in Chars /\ Space \notin Digit /\ Space # Other
  BY DEF Space, Chars, Digit, Other
<1>7. MayWrite(chs, Mark, Space) /\ Mark' = After(chs, Mark, Space)
  BY <1>6, MarkStep DEF ParserInv
<1>8. Mark.value = NumberOf(Current, Mark.number)
  BY <1>3, <1>6, <1>7 DEF MayWrite, Current
<1>9. sign * current_value = Mark.value BY <1>3, <1>4
<1>10. CASE Mark.number < NumberCount(Current)
  <2>1. Mark' = [Mark EXCEPT !.number = Mark.number + 1, !.begun = FALSE, !.value = 0]
    BY <1>3, <1>6, <1>7, <1>10 DEF After, Current
  <2>2. Mark' = [challenge |-> Mark.challenge, number |-> Mark.number + 1,
                 begun |-> FALSE, value |-> 0]
    BY <1>4, <2>1
  <2>3. Current' = Current BY <1>2, <2>2 DEF Current
  <2> QED BY <1>3, <1>4, <1>5, <1>8, <1>9, <1>10, <2>2, <2>3
<1>11. CASE ~(Mark.number < NumberCount(Current))
  <2>1. Mark' = Beginning(Mark.challenge + 1)
    BY <1>3, <1>6, <1>7, <1>11 DEF After, Current
  <2> QED BY <1>3, <1>4, <1>5, <1>8, <1>9, <1>11, <2>1
<1> QED BY <1>10, <1>11

-----------------------------------------------------------------------------
(* The parser keeps up with the text.                                      *)

\* Characters that end no number: those of a number are counted in it, and
\* the parser resets only where it has stored nothing.
LEMMA ReadStep ==
  ASSUME ParserInv, StreamInv, FromServer, NEW c \in Chars,
         \/ DigitChar(c) \/ MinusChar(c) \/ OtherChar(c)
         \/ SpaceChar(c) /\ ~in_number
  PROVE  ProgressInv' /\ CompletedInv'
<1>1. Feed(c) BY DEF DigitChar, MinusChar, OtherChar, SpaceChar
<1>2. ~completed /\ sent' = sent /\ answered' = answered BY <1>1 DEF Feed
<1>3. /\ MayWrite(sent.challenges, Mark, c)
      /\ Mark' = After(sent.challenges, Mark, c)
  BY <1>1, MarkStep DEF ParserInv
<1>4. /\ Mark \in [challenge : 1 .. Len(sent.challenges) + 1,
                   number : Nat \ {0}, begun : BOOLEAN, value : Nat]
      /\ ~Mark.begun => Mark.value = 0
  BY Sent DEF MarkInv
<1>5. /\ Mark.challenge = Len(answered) + 1
      /\ sign = 1 /\ in_number = Mark.begun /\ current_value = Mark.value
      /\ Holds(Current, Mark.number)
  BY <1>2, Sent DEF ProgressInv
<1>6. CASE DigitChar(c)
  <2>1. c \in Digit /\ UNCHANGED <<phase, a_index, b_index, completed, jobVars>>
    BY <1>6 DEF DigitChar
  <2>2. Mark' = [Mark EXCEPT !.begun = TRUE, !.value = 10 * Mark.value + c]
    BY <1>3, <2>1 DEF After
  <2>3. Mark' = [challenge |-> Mark.challenge, number |-> Mark.number,
                 begun |-> TRUE, value |-> 10 * Mark.value + c]
    BY <1>4, <2>2
  <2>4. Current' = Current BY <1>2, <2>3 DEF Current
  <2>5. Holds(Current, Mark.number)'
    BY <1>5, <2>1, <2>3, <2>4 DEF Holds, jobVars, totalCells
  <2>6. sign' = 1 /\ in_number' = TRUE
    BY <1>5, <1>6 DEF DigitChar
  <2>7. current_value' = 10 * Mark.value + c
    <3>1. current_value' = (IF in_number THEN current_value ELSE 0) * 10 + c
      BY <1>6 DEF DigitChar
    <3>2. (IF in_number THEN current_value ELSE 0) = Mark.value
      <4>1. CASE in_number BY <1>5, <4>1
      <4>2. CASE ~in_number
        <5>1. ~Mark.begun BY <1>5, <4>2
        <5> QED BY <1>4, <4>2, <5>1
      <4> QED BY <4>1, <4>2
    <3>3. Mark.value \in Nat /\ c \in Nat BY <1>4, <2>1 DEF Digit
    <3> QED BY <3>1, <3>2, <3>3
  <2> QED BY <1>2, <1>5, <2>1, <2>3, <2>5, <2>6, <2>7 DEF ProgressInv, CompletedInv
<1>7. CASE MinusChar(c)
  <2>1. c = Minus BY <1>7 DEF MinusChar
  <2> QED BY <1>3, <2>1 DEF MayWrite, Minus, Space, Other, Digit
<1>8. CASE OtherChar(c)
  <2>1. c = Other \/ (c = Minus /\ in_number) BY <1>8 DEF OtherChar
  <2>2. c \notin Digit /\ c # Space BY <2>1 DEF Other, Minus, Space, Digit
  <2>3. Mark.number = 1 /\ ~Mark.begun BY <1>3, <2>2 DEF MayWrite
  <2>4. Mark' = Mark BY <1>3, <2>2 DEF After
  <2>5. ParserReset BY <1>8 DEF OtherChar
  <2> QED BY <1>2, <1>4, <1>5, <2>3, <2>4, <2>5
          DEF ProgressInv, CompletedInv, ParserReset, NumberEnded, Holds
<1>9. CASE SpaceChar(c) /\ ~in_number
  <2>1. c = Space /\ UNCHANGED <<parserVars, jobVars>> BY <1>9 DEF SpaceChar
  <2>2. c \notin Digit BY <2>1 DEF Space, Digit
  <2>3. Mark' = Mark BY <1>3, <1>5, <1>9, <2>2 DEF After
  <2>4. Current' = Current BY <1>2, <2>3 DEF Current
  <2> QED BY <1>2, <1>5, <2>1, <2>3, <2>4
          DEF ProgressInv, CompletedInv, Holds, parserVars, jobVars, totalCells
<1> QED BY <1>6, <1>7, <1>8, <1>9

\* A number that is not the last of its challenge: the fields hold one more.
LEMMA OneMore ==
  ASSUME ParserInv, StreamInv, FromServer, Feed(Space), in_number,
         NumberEnded, ~completed', Mark.number < NumberCount(Current),
         Holds(Current, Mark.number)'
  PROVE  ProgressInv' /\ CompletedInv'
<1>1. answered' = answered BY DEF Feed
<1>2. /\ Mark.challenge = Len(answered) + 1
      /\ Mark' = [challenge |-> Mark.challenge, number |-> Mark.number + 1,
                  begun |-> FALSE, value |-> 0]
  BY NumberEnds
<1> QED BY <1>1, <1>2 DEF ProgressInv, CompletedInv, NumberEnded

\* The id and the size.
LEMMA StoreHeader ==
  ASSUME ParserInv, StreamInv, FromServer, Feed(Space), in_number,
         FinalizeId(sign * current_value) \/ FinalizeN(sign * current_value)
  PROVE  ProgressInv' /\ CompletedInv'
<1> DEFINE value == sign * current_value
           ch == Current
<1>1. /\ IsChallenge(ch, kMaxMatrixDim) /\ value = NumberOf(ch, Mark.number)
      /\ Holds(ch, Mark.number)
      /\ Mark.number < NumberCount(ch) =>
           /\ Current' = ch
           /\ Mark' = [challenge |-> Mark.challenge, number |-> Mark.number + 1,
                       begun |-> FALSE, value |-> 0]
  BY NumberEnds
<1>2. ~completed BY DEF Feed
<1>3. /\ ch.size * ch.size \in Nat /\ ch.size * ch.size > 0
      /\ NumberCount(ch) = 2 + 2 * (ch.size * ch.size)
      /\ NumberOf(ch, 1) = ch.cid /\ NumberOf(ch, 2) = ch.size
  BY <1>1, NumbersInOrder
<1>4. 1 < NumberCount(ch) /\ 2 < NumberCount(ch)
  <2> DEFINE cells == ch.size * ch.size
  <2> HIDE DEF cells, ch
  <2>1. cells \in Nat /\ cells > 0 /\ NumberCount(ch) = 2 + 2 * cells
    BY <1>3 DEF cells
  <2> QED BY <2>1
<1> HIDE DEF value, ch
<1>5. CASE FinalizeId(value)
  <2>1. phase = "ChallengeId" /\ phase' = "N" /\ challenge_id' = value
        /\ NumberEnded /\ completed' = completed
    BY <1>5 DEF FinalizeId
  <2>2. Mark.number = 1 BY <1>1, <2>1 DEF Holds
  <2>3. Holds(Current, Mark.number)'
    BY <1>1, <1>3, <1>4, <2>1, <2>2 DEF Holds
  <2>4. Mark.number < NumberCount(Current) BY <1>4, <2>2 DEF ch
  <2> QED BY <1>2, <2>1, <2>3, <2>4, OneMore
<1>6. CASE FinalizeN(value)
  <2>1. phase = "N" BY <1>6 DEF FinalizeN
  <2>2. Mark.number = 2 /\ challenge_id = ch.cid BY <1>1, <2>1 DEF Holds
  <2>3. value = ch.size /\ ch.size \in 1 .. kMaxMatrixDim
    BY <1>1, <1>3, <2>2 DEF IsChallenge
  <2>4. ~(value <= 0 \/ value > kMaxMatrixDim) BY <2>3, ConstantsAssumption
  <2>5. /\ NumberEnded /\ N' = value /\ a_index' = 0 /\ b_index' = 0
        /\ phase' = "A" /\ UNCHANGED <<completed, challenge_id, A, B>>
    BY <1>6, <2>4 DEF FinalizeN
  <2>6. Holds(Current, Mark.number)'
    BY <1>1, <1>4, <2>2, <2>3, <2>5 DEF Holds
  <2>7. Mark.number < NumberCount(Current) BY <1>4, <2>2 DEF ch
  <2> QED BY <1>2, <2>5, <2>6, <2>7, OneMore
<1> QED BY <1>5, <1>6 DEF value

\* A cell of A; with the last one, the parser goes on to B.
LEMMA StoreA ==
  ASSUME ParserInv, StreamInv, FromServer, Feed(Space), in_number,
         FinalizeA(sign * current_value)
  PROVE  ProgressInv' /\ CompletedInv'
<1> DEFINE value == sign * current_value
           ch == Current
           cells == ch.size * ch.size
<1>1. /\ IsChallenge(ch, kMaxMatrixDim) /\ value = NumberOf(ch, Mark.number)
      /\ Holds(ch, Mark.number)
      /\ Mark.number < NumberCount(ch) =>
           /\ Current' = ch
           /\ Mark' = [challenge |-> Mark.challenge, number |-> Mark.number + 1,
                       begun |-> FALSE, value |-> 0]
  BY NumberEnds
<1>2. ~completed BY DEF Feed
<1>3. /\ cells \in Nat /\ cells > 0 /\ NumberCount(ch) = 2 + 2 * cells
      /\ \A c \in 0 .. cells - 1 : NumberOf(ch, 3 + c) = ch.cellsA[c + 1]
  BY <1>1, NumbersInOrder
<1>4. /\ phase = "A" /\ NumberEnded
      /\ IF a_index < totalCells
         THEN A' = [A EXCEPT ![a_index] = value] /\ a_index' = a_index + 1
         ELSE UNCHANGED <<A, a_index>>
      /\ phase' = IF a_index' = totalCells THEN "B" ELSE "A"
      /\ UNCHANGED <<b_index, completed, challenge_id, N, B>>
  BY DEF FinalizeA
<1>5. a_index < totalCells /\ a_index \in Nat /\ b_index = 0
      /\ A \in [Cells -> Int] /\ totalCells <= kMaxCells
  BY <1>2, <1>4 DEF ParserInv, InBounds, CompleteInv, TypeOK
<1>6. /\ Mark.number = 3 + a_index /\ challenge_id = ch.cid /\ N = ch.size
      /\ \A c \in 0 .. a_index - 1 : A[c] = ch.cellsA[c + 1]
  BY <1>1, <1>4 DEF Holds
<1>7. totalCells = cells /\ totalCells' = cells BY <1>4, <1>6 DEF totalCells
<1> HIDE DEF value, ch, cells
<1>8. value = ch.cellsA[a_index + 1] BY <1>1, <1>3, <1>5, <1>6, <1>7
<1>9. Mark.number < NumberCount(ch) BY <1>3, <1>5, <1>6, <1>7
<1>10. A' = [A EXCEPT ![a_index] = value] /\ a_index' = a_index + 1
  BY <1>4, <1>5
<1>11. \A c \in 0 .. a_index' - 1 : A'[c] = ch.cellsA[c + 1]
  <2>1. kMaxCells \in Nat /\ a_index \in Cells
    BY <1>3, <1>5, <1>7, ConstantsAssumption DEF kMaxCells, Cells
  <2> TAKE c \in 0 .. a_index' - 1
  <2>2. c \in 0 .. a_index /\ c \in Cells BY <1>5, <1>10, <2>1 DEF Cells
  <2>3. CASE c = a_index BY <1>5, <1>8, <1>10, <2>1, <2>3
  <2>4. CASE c # a_index
    <3>1. c \in 0 .. a_index - 1 BY <1>5, <2>2, <2>4
    <3>2. A'[c] = A[c] BY <1>5, <1>10, <2>2, <2>4
    <3> QED BY <1>6, <3>1, <3>2
  <2> QED BY <2>3, <2>4
<1>12. Holds(Current, Mark.number)'
  <2>1. /\ Current' = ch /\ Mark'.number = 3 + a_index'
        /\ challenge_id' = ch.cid /\ N' = ch.size
    BY <1>1, <1>4, <1>5, <1>6, <1>9, <1>10
  <2>2. CASE a_index' = cells
    <3>1. phase' = "B" /\ b_index' = 0 BY <1>4, <1>5, <1>7, <2>2
    <3>2. Mark'.number = 3 + totalCells' + b_index'
      BY <1>3, <1>7, <2>1, <2>2, <3>1
    <3>3. \A c \in 0 .. totalCells' - 1 : A'[c] = ch.cellsA[c + 1]
      BY <1>7, <1>11, <2>2
    <3>4. \A c \in 0 .. b_index' - 1 : B'[c] = ch.cellsB[c + 1] BY <3>1
    <3> QED BY <2>1, <3>1, <3>2, <3>3, <3>4 DEF Holds
  <2>3. CASE a_index' # cells
    <3>1. phase' = "A" BY <1>4, <1>7, <2>3
    <3> QED BY <1>11, <2>1, <3>1 DEF Holds
  <2> QED BY <2>2, <2>3
<1> QED BY <1>2, <1>4, <1>9, <1>12, OneMore DEF ch

\* A cell of B; with the last one, the job is the challenge.
LEMMA StoreB ==
  ASSUME ParserInv, StreamInv, FromServer, Feed(Space), in_number,
         FinalizeB(sign * current_value)
  PROVE  ProgressInv' /\ CompletedInv'
<1> DEFINE value == sign * current_value
           ch == Current
           cells == ch.size * ch.size
<1>1. /\ IsChallenge(ch, kMaxMatrixDim) /\ value = NumberOf(ch, Mark.number)
      /\ Holds(ch, Mark.number)
      /\ Mark.challenge = Len(answered) + 1
      /\ IF Mark.number < NumberCount(ch)
         THEN /\ Current' = ch
              /\ Mark' = [challenge |-> Mark.challenge, number |-> Mark.number + 1,
                          begun |-> FALSE, value |-> 0]
         ELSE Mark' = Beginning(Mark.challenge + 1)
  BY NumberEnds
<1>2. ~completed /\ answered' = answered /\ sent' = sent BY DEF Feed
<1>3. /\ cells \in Nat /\ cells > 0 /\ NumberCount(ch) = 2 + 2 * cells
      /\ \A c \in 0 .. cells - 1 : NumberOf(ch, 3 + cells + c) = ch.cellsB[c + 1]
  BY <1>1, NumbersInOrder
<1>4. /\ phase = "B" /\ NumberEnded
      /\ IF b_index < totalCells
         THEN B' = [B EXCEPT ![b_index] = value] /\ b_index' = b_index + 1
         ELSE UNCHANGED <<B, b_index>>
      /\ completed' = (b_index' = totalCells)
      /\ UNCHANGED <<phase, a_index, challenge_id, N, A>>
  BY DEF FinalizeB
<1>5. /\ b_index < totalCells /\ b_index \in Nat
      /\ B \in [Cells -> Int] /\ totalCells <= kMaxCells
  BY <1>2, <1>4 DEF ParserInv, InBounds, TypeOK
<1>6. /\ Mark.number = 3 + totalCells + b_index
      /\ challenge_id = ch.cid /\ N = ch.size
      /\ \A c \in 0 .. totalCells - 1 : A[c] = ch.cellsA[c + 1]
      /\ \A c \in 0 .. b_index - 1 : B[c] = ch.cellsB[c + 1]
  BY <1>1, <1>4 DEF Holds
<1>7. totalCells = cells /\ totalCells' = cells BY <1>4, <1>6 DEF totalCells
<1>8. ch = sent.challenges[Len(answered) + 1] BY <1>1 DEF Current
<1> HIDE DEF value, ch, cells
<1>9. value = ch.cellsB[b_index + 1]
  <2>1. b_index \in 0 .. cells - 1 /\ Mark.number = 3 + cells + b_index
    BY <1>3, <1>5, <1>6, <1>7
  <2> QED BY <1>1, <1>3, <2>1
<1>10. B' = [B EXCEPT ![b_index] = value] /\ b_index' = b_index + 1
  BY <1>4, <1>5
<1>11. \A c \in 0 .. b_index' - 1 : B'[c] = ch.cellsB[c + 1]
  <2>1. kMaxCells \in Nat /\ b_index \in Cells
    BY <1>3, <1>5, <1>7, ConstantsAssumption DEF kMaxCells, Cells
  <2> TAKE c \in 0 .. b_index' - 1
  <2>2. c \in 0 .. b_index /\ c \in Cells BY <1>5, <1>10, <2>1 DEF Cells
  <2>3. CASE c = b_index BY <1>5, <1>9, <1>10, <2>1, <2>3
  <2>4. CASE c # b_index
    <3>1. c \in 0 .. b_index - 1 BY <1>5, <2>2, <2>4
    <3>2. B'[c] = B[c] BY <1>5, <1>10, <2>2, <2>4
    <3> QED BY <1>6, <3>1, <3>2
  <2> QED BY <2>3, <2>4
<1>12. CASE b_index' # cells
  <2>1. ~completed' BY <1>4, <1>7, <1>12
  <2>2. Mark.number < NumberCount(ch) BY <1>3, <1>5, <1>6, <1>7, <1>10, <1>12
  <2>3. Current' = ch /\ Mark'.number = 3 + totalCells' + b_index'
    BY <1>1, <1>3, <1>5, <1>6, <1>7, <1>10, <2>2
  <2>4. \A c \in 0 .. totalCells' - 1 : A'[c] = ch.cellsA[c + 1]
    BY <1>4, <1>6, <1>7
  <2>5. Holds(Current, Mark.number)'
    BY <1>4, <1>6, <1>11, <2>3, <2>4 DEF Holds
  <2> QED BY <1>4, <2>1, <2>2, <2>5, OneMore DEF ch
<1>13. CASE b_index' = cells
  <2>1. completed' BY <1>4, <1>7, <1>13
  <2>2. ~(Mark.number < NumberCount(ch)) BY <1>3, <1>5, <1>6, <1>7, <1>10, <1>13
  <2>3. Mark' = Beginning(Len(answered') + 2)
    <3>1. Len(answered) \in Nat BY Sent
    <3>2. Mark' = Beginning(Mark.challenge + 1) BY <1>1, <2>2
    <3>3. Mark.challenge + 1 = Len(answered) + 2 BY <1>1, <3>1
    <3> QED BY <1>2, <3>2, <3>3
  <2>4. SameChallenge(Job', ch)
    <3> DEFINE job == Job'
    <3>1. /\ job.challenge_id = ch.cid /\ job.N = ch.size
          /\ job.A = [c \in 0 .. cells - 1 |-> A'[c]]
          /\ job.B = [c \in 0 .. cells - 1 |-> B'[c]]
      BY <1>4, <1>6, <1>7 DEF Job
    <3> HIDE DEF job
    <3>2. \A c \in 0 .. cells - 1 : A'[c] = ch.cellsA[c + 1] BY <1>4, <1>6, <1>7
    <3>3. \A c \in 0 .. cells - 1 : B'[c] = ch.cellsB[c + 1] BY <1>11, <1>13
    <3>4. \A c \in 0 .. cells - 1 :
            job.A[c] = ch.cellsA[c + 1] /\ job.B[c] = ch.cellsB[c + 1]
      BY <3>1, <3>2, <3>3
    <3>5. SameChallenge(job, ch) BY <3>1, <3>4 DEF SameChallenge, cells
    <3> QED BY <3>5 DEF job
  <2>5. SameChallenge(Job, sent.challenges[Len(answered) + 1])'
    BY <1>2, <1>8, <2>4
  <2> QED BY <2>1, <2>3, <2>5 DEF ProgressInv, CompletedInv
<1> QED BY <1>12, <1>13

\* The first challenge, none, is what the text begins with.
LEMMA StreamInitial == Init => StreamInv
<1> SUFFICES ASSUME Init PROVE StreamInv OBVIOUS
<1>1. sent \in Conversations /\ answered \in Seq(Jobs) BY DEF Init
<1>2. SUFFICES ASSUME FromServer
               PROVE  MarkInv /\ ProgressInv /\ CompletedInv /\ AnswersIntact
  BY <1>1 DEF StreamInv
<1>3. IsConversation(sent, kMaxMatrixDim)
  BY <1>1, <1>2, Sendable DEF FromServer
<1>4. Mark = Beginning(1) /\ Len(sent.challenges) \in Nat
  BY <1>3 DEF IsConversation, Mark, Init
<1>5. Len(answered) = 0 BY DEF Init
<1>6. MarkInv BY <1>4 DEF MarkInv, Beginning
<1>7. ProgressInv
  <2>1. /\ Mark.challenge = 1 /\ Mark.number = 1
        /\ Mark.begun = FALSE /\ Mark.value = 0
    BY <1>4 DEF Beginning
  <2>2. /\ phase = "ChallengeId" /\ sign = 1
        /\ in_number = FALSE /\ current_value = 0
    BY DEF Init
  <2>3. Holds(Current, Mark.number) BY <2>1, <2>2 DEF Holds
  <2>4. Mark.challenge = Len(answered) + 1 BY <1>5, <2>1
  <2> QED BY <2>1, <2>2, <2>3, <2>4 DEF ProgressInv
<1>8. CompletedInv /\ AnswersIntact BY <1>5 DEF CompletedInv, AnswersIntact, Init
<1> QED BY <1>6, <1>7, <1>8

\* A completed job is one of the jobs.
LEMMA JobType ==
  TypeOK /\ InBounds => Job \in Jobs
<1> SUFFICES ASSUME TypeOK, InBounds PROVE Job \in Jobs OBVIOUS
<1>1. N \in 0 .. kMaxMatrixDim /\ totalCells <= kMaxCells
      /\ A \in [Cells -> Int] /\ B \in [Cells -> Int] /\ challenge_id \in Int
  BY DEF TypeOK, InBounds
<1>2. totalCells \in Nat /\ kMaxCells \in Nat
  BY <1>1, Fits, ConstantsAssumption DEF totalCells, kMaxCells
<1>3. \A c \in 0 .. totalCells - 1 : c \in Cells BY <1>1, <1>2 DEF Cells
<1>4. [0 .. totalCells - 1 -> Int] \in {[0 .. n * n - 1 -> Int] : n \in 0 .. kMaxMatrixDim}
  BY <1>1 DEF totalCells
<1>5. /\ [c \in 0 .. totalCells - 1 |-> A[c]] \in Matrices
      /\ [c \in 0 .. totalCells - 1 |-> B[c]] \in Matrices
  <2>1. /\ [c \in 0 .. totalCells - 1 |-> A[c]] \in [0 .. totalCells - 1 -> Int]
        /\ [c \in 0 .. totalCells - 1 |-> B[c]] \in [0 .. totalCells - 1 -> Int]
    BY <1>1, <1>3
  <2> QED BY <1>4, <2>1 DEF Matrices
<1> QED BY <1>1, <1>5, ConstantsAssumption DEF Job, Jobs

\* One answer more.
LEMMA StreamAnswer ==
  ASSUME ParserInv, StreamInv, Answer
  PROVE  StreamInv'
<1>1. /\ completed /\ answered' = Append(answered, Job) /\ ParserReset
      /\ sent' = sent /\ pos' = pos /\ UNCHANGED jobVars
  BY DEF Answer
<1>2. Job \in Jobs BY JobType DEF ParserInv
<1>3. answered \in Seq(Jobs) /\ sent \in Conversations BY DEF StreamInv
<1>4. answered' \in Seq(Jobs) /\ Len(answered') = Len(answered) + 1
      /\ \A i \in 1 .. Len(answered') :
           answered'[i] = IF i = Len(answered) + 1 THEN Job ELSE answered[i]
  BY <1>1, <1>2, <1>3
<1>5. SUFFICES ASSUME FromServer
               PROVE  (MarkInv /\ ProgressInv /\ CompletedInv /\ AnswersIntact)'
  BY <1>1, <1>3, <1>4 DEF StreamInv, FromServer
<1>6. /\ MarkInv /\ AnswersIntact /\ Len(answered) \in Nat
      /\ Len(sent.challenges) \in Nat
      /\ Mark = Beginning(Len(answered) + 2)
      /\ SameChallenge(Job, sent.challenges[Len(answered) + 1])
  BY <1>1, <1>5, Sent DEF CompletedInv
<1>7. Mark' = Mark /\ sent' = sent BY <1>1 DEF Mark
<1>8. MarkInv'
  <2>1. MarkInv BY <1>6
  <2> QED BY <1>7, <2>1 DEF MarkInv
<1>9. ProgressInv'
  <2>1. /\ Mark'.challenge = Len(answered) + 2 /\ Mark'.number = 1
        /\ Mark'.begun = FALSE /\ Mark'.value = 0
    BY <1>6, <1>7 DEF Beginning
  <2>2. /\ phase' = "ChallengeId" /\ sign' = 1
        /\ in_number' = FALSE /\ current_value' = 0
    BY <1>1 DEF ParserReset, NumberEnded
  <2>3. Holds(Current, Mark.number)' BY <2>1, <2>2 DEF Holds
  <2>4. Mark'.challenge = Len(answered') + 1 BY <1>4, <1>6, <2>1
  <2> QED BY <2>1, <2>2, <2>3, <2>4 DEF ProgressInv
<1>10. CompletedInv' BY <1>1 DEF CompletedInv, ParserReset
<1>11. AnswersIntact'
  <2>1. Len(answered) + 1 <= Len(sent.challenges)
    BY <1>6 DEF MarkInv, Beginning
  <2>2. ASSUME NEW i \in 1 .. Len(answered')
        PROVE  i <= Len(sent.challenges) /\ SameChallenge(answered'[i], sent.challenges[i])
    <3>1. CASE i = Len(answered) + 1 BY <1>4, <1>6, <2>1, <3>1
    <3>2. CASE i # Len(answered) + 1
      <4>1. i \in 1 .. Len(answered) BY <1>4, <1>6, <3>2
      <4> QED BY <1>4, <1>5, <1>6, <3>2, <4>1 DEF AnswersIntact
    <3> QED BY <3>1, <3>2
  <2> QED BY <1>1, <2>2 DEF AnswersIntact
<1> QED BY <1>8, <1>9, <1>10, <1>11

\* One character more.
LEMMA StreamChar ==
  ASSUME ParserInv, StreamInv, NEW c \in Chars,
         DigitChar(c) \/ MinusChar(c) \/ SpaceChar(c) \/ OtherChar(c)
  PROVE  StreamInv'
<1>1. Feed(c) BY DEF DigitChar, MinusChar, SpaceChar, OtherChar
<1>2. sent' = sent /\ answered' = answered BY <1>1 DEF Feed
<1>3. SUFFICES ASSUME FromServer
               PROVE  (MarkInv /\ ProgressInv /\ CompletedInv /\ AnswersIntact)'
  <2>1. (sent \in Conversations)' /\ (answered \in Seq(Jobs))'
    BY <1>2 DEF StreamInv
  <2>2. FromServer' <=> FromServer BY <1>2 DEF FromServer
  <2> QED BY <2>1, <2>2 DEF StreamInv
<1>4. MarkInv' BY <1>1, <1>3, MarkStep DEF ParserInv
<1>5. AnswersIntact'
  <2>1. AnswersIntact BY <1>3, Sent
  <2> QED BY <1>2, <2>1 DEF AnswersIntact, FromServer
<1>6. ProgressInv' /\ CompletedInv'
  <2>1. CASE ~(SpaceChar(c) /\ in_number) BY <1>3, <2>1, ReadStep
  <2>2. CASE SpaceChar(c) /\ in_number
    <3>1. Feed(Space) BY <1>1, <2>2 DEF SpaceChar
    <3>2. \/ FinalizeId(sign * current_value) \/ FinalizeN(sign * current_value)
          \/ FinalizeA(sign * current_value) \/ FinalizeB(sign * current_value)
      BY <2>2 DEF SpaceChar
    <3> QED BY <1>3, <2>2, <3>1, <3>2, StoreHeader, StoreA, StoreB
  <2> QED BY <2>1, <2>2
<1> QED BY <1>4, <1>5, <1>6

\* On the stream of a server, what the parser has stored is at every character
\* what the text has got to.
THEOREM StreamInvariant == Spec => []StreamInv
<1>1. ParserInv /\ StreamInv /\ [Next]_vars => StreamInv'
  <2> SUFFICES ASSUME ParserInv, StreamInv, [Next]_vars PROVE StreamInv' OBVIOUS
  <2>1. CASE Answer BY <2>1, StreamAnswer
  <2>2. CASE \E c \in Chars : DigitChar(c) \/ MinusChar(c) \/ SpaceChar(c) \/ OtherChar(c)
    BY <2>2, StreamChar
  <2>3. CASE UNCHANGED vars
    BY <2>3 DEF vars, parserVars, jobVars, StreamInv, FromServer, MarkInv, Mark,
                ProgressInv, CompletedInv, Holds, Current, AnswersIntact, Job, totalCells
  <2> QED BY <2>1, <2>2, <2>3 DEF Next
<1> QED BY <1>1, StreamInitial, ParserInvariant, PTL DEF Spec

\* The challenges answered are those the server sent, in order, with every
\* cell in its place.
THEOREM AnsweredIntact == Spec => []AnswersIntact
<1>1. StreamInv => AnswersIntact BY DEF StreamInv, AnswersIntact
<1> QED BY <1>1, StreamInvariant, PTL

\* A challenge is complete with the white space that ends its last number.
THEOREM AtOnce == Spec => []Prompt
<1>1. ParserInv /\ StreamInv => Prompt
  <2> SUFFICES ASSUME ParserInv, StreamInv, NEW i \in 1 .. Len(sent.challenges),
                      pos >= sent.ends[i]
               PROVE  Len(answered) + (IF completed THEN 1 ELSE 0) >= i
    BY DEF Prompt
  <2>1. FromServer BY DEF FromServer
  <2>2. /\ IsConversation(sent, kMaxMatrixDim) /\ ProgressInv /\ CompletedInv
        /\ Len(answered) \in Nat /\ Len(sent.challenges) \in Nat
    BY <2>1, Sent
  <2>3. Mark.challenge > i
    BY <2>2 DEF IsConversation, Mark, ParserInv, TypeOK
  <2>4. Mark.challenge = Len(answered) + (IF completed THEN 2 ELSE 1)
    BY <2>2 DEF ProgressInv, CompletedInv, Beginning, ParserInv, TypeOK
  <2> QED BY <2>2, <2>3, <2>4
<1> QED BY <1>1, ParserInvariant, StreamInvariant, PTL

-----------------------------------------------------------------------------
(* The parser of the team client, on any text at all.                      *)

TeamRecords ==
  [phase : Phases, in_number : BOOLEAN, sign : {-1, 1}, current_value : Nat,
   challenge_id : Int, N : Int, A : Seq(Int), B : Seq(Int), jobs : Seq(Jobs)]

\* While no challenge is complete, the team client's parser has the fields of
\* the current client's; its matrices are as long as they have been filled.
AlikeInv == ~completed =>
  /\ team.phase = phase
  /\ team.in_number = in_number /\ team.sign = sign
  /\ team.current_value = current_value
  /\ phase # "ChallengeId" => team.challenge_id = challenge_id
  /\ phase \in {"A", "B"} =>
       /\ team.N = N /\ Len(team.A) = a_index /\ Len(team.B) = b_index
       /\ \A c \in 0 .. a_index - 1 : team.A[c + 1] = A[c]
       /\ \A c \in 0 .. b_index - 1 : team.B[c + 1] = B[c]

\* It has begun again where the current client's waits for the answer.
ResetInv == completed =>
  /\ team.phase = "ChallengeId" /\ team.in_number = FALSE
  /\ team.sign = 1 /\ team.current_value = 0

SameJobs == team.jobs = answered \o (IF completed THEN <<Job>> ELSE <<>>)

SimInv == team \in TeamRecords /\ AlikeInv /\ ResetInv /\ SameJobs

\* Between two numbers.
Quiet(p) == p.in_number = FALSE /\ p.sign = 1 /\ p.current_value = 0

\* A parser that has been reset.
LEMMA TeamReset ==
  ASSUME NEW p, p.jobs \in Seq(Jobs)
  PROVE  /\ Team!Reset(p) \in TeamRecords /\ Quiet(Team!Reset(p))
         /\ Team!Reset(p).phase = "ChallengeId" /\ Team!Reset(p).jobs = p.jobs
<1>1. Team!Fresh \in [phase : Phases, in_number : BOOLEAN, sign : {-1, 1},
                      current_value : Nat, challenge_id : Int, N : Int,
                      A : Seq(Int), B : Seq(Int), jobs : Seq(Jobs)]
  BY DEF Team!Fresh, Phases
<1>2. /\ Team!Fresh.phase = "ChallengeId" /\ Team!Fresh.in_number = FALSE
      /\ Team!Fresh.sign = 1 /\ Team!Fresh.current_value = 0
  BY DEF Team!Fresh
<1>3. Team!Reset(p) = [Team!Fresh EXCEPT !.jobs = p.jobs] BY DEF Team!Reset
<1> QED BY <1>1, <1>2, <1>3 DEF TeamRecords, Quiet

\* The number that ends is stored where the phase says.
LEMMA TeamNumber ==
  ASSUME NEW p \in TeamRecords, NEW v \in Int, v = p.sign * p.current_value,
         NEW f, f = Team!FinalizeNumber(p)
  PROVE  /\ p.phase = "ChallengeId" =>
              /\ f \in TeamRecords /\ Quiet(f) /\ f.jobs = p.jobs
              /\ f.phase = "N" /\ f.challenge_id = v
         /\ p.phase = "N" /\ (v <= 0 \/ v > kMaxMatrixDim) =>
              /\ f \in TeamRecords /\ Quiet(f) /\ f.jobs = p.jobs
              /\ f.phase = "ChallengeId"
         /\ p.phase = "N" /\ ~(v <= 0 \/ v > kMaxMatrixDim) =>
              /\ f \in TeamRecords /\ Quiet(f) /\ f.jobs = p.jobs
              /\ f.phase = "A" /\ f.challenge_id = p.challenge_id
              /\ f.N = v /\ f.A = <<>> /\ f.B = <<>>
         /\ p.phase = "A" =>
              /\ f \in TeamRecords /\ Quiet(f) /\ f.jobs = p.jobs
              /\ f.phase = IF Len(p.A) + 1 = p.N * p.N THEN "B" ELSE "A"
              /\ f.challenge_id = p.challenge_id /\ f.N = p.N
              /\ f.A = Append(p.A, v) /\ f.B = p.B
<1> DEFINE q == [p EXCEPT !.in_number = FALSE, !.sign = 1, !.current_value = 0]
           total == p.N * p.N
<1>1. /\ q \in TeamRecords /\ Quiet(q) /\ q.phase = p.phase
      /\ q.challenge_id = p.challenge_id /\ q.N = p.N /\ q.A = p.A /\ q.B = p.B
      /\ q.jobs = p.jobs
  BY DEF TeamRecords, Quiet
<1>2. /\ p.jobs \in Seq(Jobs) /\ <<>> \in Seq(Int)
      /\ Append(p.A, v) \in Seq(Int)
  BY DEF TeamRecords
<1>3. CASE p.phase = "ChallengeId"
  <2>1. f = [q EXCEPT !.challenge_id = v, !.phase = "N"]
    BY <1>3 DEF Team!FinalizeNumber
  <2> HIDE DEF q
  <2> QED BY <1>1, <1>3, <2>1 DEF TeamRecords, Quiet, Phases
<1>4. CASE p.phase = "N" /\ (v <= 0 \/ v > kMaxMatrixDim)
  <2>1. f = Team!Reset(q) BY <1>4 DEF Team!FinalizeNumber
  <2> HIDE DEF q
  <2>2. q.jobs = p.jobs BY <1>1
  <2>3. f \in TeamRecords /\ Quiet(f) /\ f.phase = "ChallengeId" /\ f.jobs = p.jobs
    BY <1>2, <2>1, <2>2, TeamReset
  <2> QED BY <1>4, <2>3
<1>5. CASE p.phase = "N" /\ ~(v <= 0 \/ v > kMaxMatrixDim)
  <2>1. f = [q EXCEPT !.N = v, !.A = <<>>, !.B = <<>>, !.phase = "A"]
    BY <1>5 DEF Team!FinalizeNumber
  <2> HIDE DEF q
  <2> QED BY <1>1, <1>2, <1>5, <2>1 DEF TeamRecords, Quiet, Phases
<1>6. CASE p.phase = "A"
  <2>1. f = [q EXCEPT !.A = Append(q.A, v),
                      !.phase = IF Len(p.A) + 1 = total THEN "B" ELSE "A"]
    BY <1>6 DEF Team!FinalizeNumber
  <2> HIDE DEF q, total
  <2>2. f = [q EXCEPT !.A = Append(p.A, v),
                      !.phase = IF Len(p.A) + 1 = total THEN "B" ELSE "A"]
    BY <1>1, <2>1
  <2>3. (IF Len(p.A) + 1 = total THEN "B" ELSE "A") \in Phases BY DEF Phases
  <2>4. /\ f \in TeamRecords /\ Quiet(f) /\ f.jobs = p.jobs
        /\ f.phase = IF Len(p.A) + 1 = total THEN "B" ELSE "A"
        /\ f.challenge_id = p.challenge_id /\ f.N = p.N
        /\ f.A = Append(p.A, v) /\ f.B = p.B
    BY <1>1, <1>2, <2>2, <2>3 DEF TeamRecords, Quiet
  <2> QED BY <1>6, <2>4 DEF total
<1> QED BY <1>3, <1>4, <1>5, <1>6

\* The last cell of B makes the parser emit the job and begin again.
JobRead(p, v) ==
  [challenge_id |-> p.challenge_id, N |-> p.N,
   A |-> [c \in 0 .. p.N * p.N - 1 |-> p.A[c + 1]],
   B |-> [c \in 0 .. p.N * p.N - 1 |-> Append(p.B, v)[c + 1]]]

LEMMA TeamLast ==
  ASSUME NEW p \in TeamRecords, NEW v \in Int, v = p.sign * p.current_value,
         p.phase = "B", Len(p.B) + 1 = p.N * p.N => JobRead(p, v) \in Jobs
  PROVE  LET f == Team!FinalizeNumber(p) IN
         /\ f \in TeamRecords /\ Quiet(f)
         /\ Len(p.B) + 1 # p.N * p.N =>
              /\ f.jobs = p.jobs /\ f.phase = "B"
              /\ f.challenge_id = p.challenge_id /\ f.N = p.N
              /\ f.A = p.A /\ f.B = Append(p.B, v)
         /\ Len(p.B) + 1 = p.N * p.N =>
              /\ f.phase = "ChallengeId"
              /\ f.jobs = Append(p.jobs, JobRead(p, v))
<1> DEFINE f == Team!FinalizeNumber(p)
           job == JobRead(p, v)
           q == [p EXCEPT !.in_number = FALSE, !.sign = 1, !.current_value = 0]
           total == p.N * p.N
           full == [q EXCEPT !.B = Append(q.B, v)]
<1>1. /\ q \in TeamRecords /\ Quiet(q) /\ q.phase = p.phase
      /\ q.challenge_id = p.challenge_id /\ q.N = p.N /\ q.A = p.A /\ q.B = p.B
      /\ q.jobs = p.jobs
  BY DEF TeamRecords, Quiet
<1>2. p.jobs \in Seq(Jobs) /\ p.B \in Seq(Int) BY DEF TeamRecords
<1>3. Append(p.B, v) \in Seq(Int) /\ Len(Append(p.B, v)) = Len(p.B) + 1 BY <1>2
<1>4. f = IF Len(full.B) = total
          THEN Team!Reset([full EXCEPT !.jobs = Append(full.jobs, Team!Emitted(full))])
          ELSE full
  BY DEF Team!FinalizeNumber
<1> HIDE DEF f, q, job
<1>5. /\ full \in TeamRecords /\ Quiet(full) /\ full.phase = p.phase
      /\ full.challenge_id = p.challenge_id /\ full.N = p.N /\ full.A = p.A
      /\ full.B = Append(p.B, v) /\ full.jobs = p.jobs
  BY <1>1, <1>3 DEF TeamRecords, Quiet
<1> HIDE DEF full
<1>6. CASE Len(p.B) + 1 # total
  <2>1. f = full BY <1>3, <1>4, <1>5, <1>6
  <2> QED BY <1>5, <1>6, <2>1 DEF f
<1>7. CASE Len(p.B) + 1 = total
  <2> DEFINE last == [full EXCEPT !.jobs = Append(full.jobs, Team!Emitted(full))]
  <2>1. f = Team!Reset(last) BY <1>3, <1>4, <1>5, <1>7
  <2>2. Team!Emitted(full) = job
    BY <1>5, <1>7 DEF Team!Emitted, JobRead, job
  <2>3. last.jobs = Append(p.jobs, job) BY <1>5, <2>2 DEF TeamRecords
  <2>4. Append(p.jobs, job) \in Seq(Jobs)
    <3>1. job \in Jobs BY <1>7 DEF job
    <3> QED BY <1>2, <3>1
  <2> HIDE DEF last
  <2>5. /\ f \in TeamRecords /\ Quiet(f) /\ f.phase = "ChallengeId"
        /\ f.jobs = Append(p.jobs, job)
    BY <2>1, <2>3, <2>4, TeamReset
  <2> QED BY <1>7, <2>5 DEF f, job
<1> QED BY <1>6, <1>7

\* Digits and a sign are part of a number.
LEMMA TeamDigit ==
  ASSUME NEW p \in TeamRecords, NEW c \in Digit
  PROVE  LET f == Team!ProcessChar(p, c) IN
         /\ f \in TeamRecords /\ f.in_number = TRUE
         /\ f.sign = IF p.in_number THEN p.sign ELSE 1
         /\ f.current_value = (IF p.in_number THEN p.current_value ELSE 0) * 10 + c
         /\ f.phase = p.phase /\ f.challenge_id = p.challenge_id
         /\ f.N = p.N /\ f.A = p.A /\ f.B = p.B /\ f.jobs = p.jobs
<1> DEFINE f == Team!ProcessChar(p, c)
           sgn == IF p.in_number THEN p.sign ELSE 1
           val == (IF p.in_number THEN p.current_value ELSE 0) * 10 + c
<1>1. f = [p EXCEPT !.in_number = TRUE, !.sign = sgn, !.current_value = val]
  BY DEF Team!ProcessChar, Digit, Team!Digit, Team!Minus, Team!Space
<1>2. sgn \in {-1, 1} BY DEF TeamRecords
<1>3. val \in Nat BY DEF TeamRecords, Digit
<1> HIDE DEF f, sgn, val
<1>4. /\ f \in TeamRecords /\ f.in_number = TRUE /\ f.sign = sgn
      /\ f.current_value = val
      /\ f.phase = p.phase /\ f.challenge_id = p.challenge_id
      /\ f.N = p.N /\ f.A = p.A /\ f.B = p.B /\ f.jobs = p.jobs
  BY <1>1, <1>2, <1>3 DEF TeamRecords
<1> QED BY <1>4 DEF f, sgn, val

LEMMA TeamMinus ==
  ASSUME NEW p \in TeamRecords, ~p.in_number
  PROVE  LET f == Team!ProcessChar(p, Minus) IN
         /\ f \in TeamRecords /\ f.in_number = TRUE
         /\ f.sign = -1 /\ f.current_value = 0
         /\ f.phase = p.phase /\ f.challenge_id = p.challenge_id
         /\ f.N = p.N /\ f.A = p.A /\ f.B = p.B /\ f.jobs = p.jobs
<1> DEFINE f == Team!ProcessChar(p, Minus)
           digit == [p EXCEPT !.in_number = TRUE,
                              !.sign = IF p.in_number THEN p.sign ELSE 1,
                              !.current_value =
                                (IF p.in_number THEN p.current_value ELSE 0) * 10 + Minus]
           minus == [p EXCEPT !.in_number = TRUE, !.sign = -1, !.current_value = 0]
<1>1. f = CASE Minus \in Team!Digit -> digit
            [] Minus = Team!Minus /\ ~p.in_number -> minus
            [] Minus = Team!Space -> IF p.in_number THEN Team!FinalizeNumber(p) ELSE p
            [] OTHER -> Team!Reset(p)
  BY DEF Team!ProcessChar
<1>2. minus \in TeamRecords BY DEF TeamRecords
<1>3. /\ minus.in_number = TRUE /\ minus.sign = -1 /\ minus.current_value = 0
      /\ minus.phase = p.phase /\ minus.challenge_id = p.challenge_id
      /\ minus.N = p.N /\ minus.A = p.A /\ minus.B = p.B /\ minus.jobs = p.jobs
  BY DEF TeamRecords
<1> HIDE DEF f, digit, minus
<1>4. f = minus BY <1>1 DEF Minus, Team!Minus, Team!Digit, Team!Space
<1> QED BY <1>2, <1>3, <1>4 DEF f

\* White space ends a number; what is no part of one abandons the challenge.
LEMMA TeamElse ==
  ASSUME NEW p \in TeamRecords
  PROVE  /\ p.in_number => Team!ProcessChar(p, Space) = Team!FinalizeNumber(p)
         /\ ~p.in_number => Team!ProcessChar(p, Space) = p
         /\ Team!ProcessChar(p, Other) = Team!Reset(p)
         /\ p.in_number => Team!ProcessChar(p, Minus) = Team!Reset(p)
BY DEF Team!ProcessChar, Minus, Space, Other, Team!Digit, Team!Minus, Team!Space

\* Where no challenge is complete, before and after, the jobs stay as they are.
LEMMA SameJobsStep ==
  ASSUME StreamInv, SameJobs, ~completed, ~completed', answered' = answered,
         team'.jobs = team.jobs
  PROVE  SameJobs'
<1>1. answered \in Seq(Jobs) BY DEF StreamInv
<1>2. answered \o <<>> = answered BY <1>1
<1> QED BY <1>2 DEF SameJobs

\* A character that ends no number.
LEMMA SimChar ==
  ASSUME ParserInv, StreamInv, SimInv, NEW c \in Chars,
         \/ DigitChar(c) \/ MinusChar(c) \/ OtherChar(c)
         \/ SpaceChar(c) /\ ~in_number,
         team' = Team!ProcessChar(team, c)
  PROVE  SimInv'
<1>1. Feed(c) BY DEF DigitChar, MinusChar, OtherChar, SpaceChar
<1>2. ~completed /\ answered' = answered BY <1>1 DEF Feed
<1>3. /\ team \in TeamRecords
      /\ team.phase = phase
      /\ team.in_number = in_number /\ team.sign = sign
      /\ team.current_value = current_value
  BY <1>2 DEF SimInv, AlikeInv
<1>4. SameJobs BY DEF SimInv
<1>5. team.in_number <=> in_number BY <1>3
<1>6. CASE DigitChar(c) \/ MinusChar(c)
  <2>1. UNCHANGED <<phase, a_index, b_index, completed, jobVars>>
    BY <1>6 DEF DigitChar, MinusChar
  <2>2. /\ team'.phase = team.phase /\ team'.challenge_id = team.challenge_id
        /\ team'.N = team.N /\ team'.A = team.A /\ team'.B = team.B
        /\ team'.jobs = team.jobs
        /\ team' \in TeamRecords
        /\ team'.in_number = in_number' /\ team'.sign = sign'
        /\ team'.current_value = current_value'
    <3>1. CASE DigitChar(c)
      <4>1. c \in Digit BY <3>1 DEF DigitChar
      <4>2. /\ team' \in TeamRecords /\ team'.in_number = TRUE
            /\ team'.sign = IF team.in_number THEN team.sign ELSE 1
            /\ team'.current_value =
                 (IF team.in_number THEN team.current_value ELSE 0) * 10 + c
            /\ team'.phase = team.phase /\ team'.challenge_id = team.challenge_id
            /\ team'.N = team.N /\ team'.A = team.A /\ team'.B = team.B
            /\ team'.jobs = team.jobs
        <5> DEFINE next == Team!ProcessChar(team, c)
        <5>1. /\ next \in TeamRecords /\ next.in_number = TRUE
              /\ next.sign = IF team.in_number THEN team.sign ELSE 1
              /\ next.current_value =
                   (IF team.in_number THEN team.current_value ELSE 0) * 10 + c
              /\ next.phase = team.phase /\ next.challenge_id = team.challenge_id
              /\ next.N = team.N /\ next.A = team.A /\ next.B = team.B
              /\ next.jobs = team.jobs
          <6>1. team \in TeamRecords BY <1>3
          <6> QED BY ONLY <4>1, <6>1, TeamDigit
        <5>2. team' = next OBVIOUS
        <5> HIDE DEF next
        <5> QED BY ONLY <5>1, <5>2
      <4>3. /\ in_number' = TRUE
            /\ sign' = IF in_number THEN sign ELSE 1
            /\ current_value' = (IF in_number THEN current_value ELSE 0) * 10 + c
        BY <3>1 DEF DigitChar
      <4>4. CASE in_number BY <1>3, <1>5, <4>2, <4>3, <4>4
      <4>5. CASE ~in_number BY <1>3, <1>5, <4>2, <4>3, <4>5
      <4> QED BY <4>4, <4>5
    <3>2. CASE MinusChar(c)
      <4>1. c = Minus /\ ~team.in_number BY <1>5, <3>2 DEF MinusChar
      <4>2. /\ team' \in TeamRecords /\ team'.in_number = TRUE
            /\ team'.sign = -1 /\ team'.current_value = 0
            /\ team'.phase = team.phase /\ team'.challenge_id = team.challenge_id
            /\ team'.N = team.N /\ team'.A = team.A /\ team'.B = team.B
            /\ team'.jobs = team.jobs
        BY <1>3, <4>1, TeamMinus
      <4>3. in_number' = TRUE /\ sign' = -1 /\ current_value' = 0
        BY <3>2 DEF MinusChar
      <4> QED BY <4>2, <4>3
    <3> QED BY <1>6, <3>1, <3>2
  <2>3. AlikeInv'
    <3>1. AlikeInv BY DEF SimInv
    <3> QED BY <1>2, <2>1, <2>2, <3>1 DEF AlikeInv, jobVars
  <2>4. ~completed' BY <1>2, <2>1
  <2>5. SameJobs' BY <1>2, <1>4, <2>2, <2>4, SameJobsStep
  <2> QED BY <2>2, <2>3, <2>4, <2>5 DEF SimInv, ResetInv
<1>7. CASE OtherChar(c)
  <2>1. c = Other \/ (c = Minus /\ team.in_number) BY <1>5, <1>7 DEF OtherChar
  <2>2. team' = Team!Reset(team) BY <1>3, <2>1, TeamElse
  <2>3. team.jobs \in Seq(Jobs) BY <1>3 DEF TeamRecords
  <2>4. /\ team' \in TeamRecords /\ Quiet(team')
        /\ team'.phase = "ChallengeId" /\ team'.jobs = team.jobs
    BY <2>2, <2>3, TeamReset
  <2>5. /\ phase' = "ChallengeId" /\ in_number' = FALSE /\ sign' = 1
        /\ current_value' = 0 /\ ~completed'
    BY <1>7 DEF OtherChar, ParserReset, NumberEnded
  <2>6. AlikeInv' BY <2>4, <2>5 DEF AlikeInv, Quiet
  <2>7. SameJobs' BY <1>2, <1>4, <2>4, <2>5, SameJobsStep
  <2> QED BY <2>4, <2>5, <2>6, <2>7 DEF SimInv, ResetInv
<1>8. CASE SpaceChar(c) /\ ~in_number
  <2>1. c = Space /\ UNCHANGED <<parserVars, jobVars>> BY <1>8 DEF SpaceChar
  <2>2. team' = team
    <3>1. ~team.in_number BY <1>5, <1>8
    <3> QED BY <1>3, <2>1, <3>1, TeamElse
  <2>3. ~completed' BY <1>2, <2>1 DEF parserVars
  <2>4. AlikeInv' 
    <3>1. AlikeInv BY DEF SimInv
    <3> QED BY <2>1, <2>2, <3>1 DEF AlikeInv, parserVars, jobVars
  <2>5. SameJobs' BY <1>2, <1>4, <2>2, <2>3, SameJobsStep
  <2> QED BY <1>3, <2>2, <2>3, <2>4, <2>5 DEF SimInv, ResetInv
<1> QED BY <1>6, <1>7, <1>8

\* Sequences filled one by one.
LEMMA AppendCell ==
  ASSUME NEW s \in Seq(Int), NEW m \in [Cells -> Int], NEW v \in Int,
         Len(s) + 1 <= kMaxCells,
         \A c \in 0 .. Len(s) - 1 : s[c + 1] = m[c]
  PROVE  /\ Len(Append(s, v)) = Len(s) + 1
         /\ \A c \in 0 .. Len(s) : Append(s, v)[c + 1] = [m EXCEPT ![Len(s)] = v][c]
<1>1. kMaxCells \in Nat BY ConstantsAssumption DEF kMaxCells
<1>2. Len(Append(s, v)) = Len(s) + 1 OBVIOUS
<1>3. ASSUME NEW c \in 0 .. Len(s)
      PROVE  Append(s, v)[c + 1] = [m EXCEPT ![Len(s)] = v][c]
  <2>1. c \in Cells BY <1>1 DEF Cells
  <2>2. CASE c = Len(s) BY <2>1, <2>2
  <2>3. CASE c # Len(s)
    <3>1. c \in 0 .. Len(s) - 1 BY <2>3
    <3>2. Append(s, v)[c + 1] = s[c + 1] BY <3>1
    <3> QED BY <2>1, <2>3, <3>1, <3>2
  <2> QED BY <2>2, <2>3
<1> QED BY <1>2, <1>3

\* A number that ends, by the phase.
LEMMA SimHeader ==
  ASSUME ParserInv, StreamInv, SimInv, ~completed, answered' = answered,
         NEW v \in Int, v = sign * current_value,
         FinalizeId(v) \/ FinalizeN(v),
         team' = Team!FinalizeNumber(team)
  PROVE  SimInv'
<1>1. /\ team \in TeamRecords /\ team.phase = phase
      /\ v = team.sign * team.current_value
      /\ phase # "ChallengeId" => team.challenge_id = challenge_id
      /\ SameJobs
  BY DEF SimInv, AlikeInv
<1>2. CASE FinalizeId(v)
  <2>1. /\ phase = "ChallengeId" /\ NumberEnded /\ challenge_id' = v /\ phase' = "N"
        /\ completed' = completed
    BY <1>2 DEF FinalizeId
  <2>2. /\ team' \in TeamRecords /\ Quiet(team') /\ team'.jobs = team.jobs
        /\ team'.phase = "N" /\ team'.challenge_id = v
    BY <1>1, <2>1, TeamNumber
  <2>3. AlikeInv' BY <2>1, <2>2 DEF AlikeInv, Quiet, NumberEnded
  <2>4. SameJobs' BY <1>1, <2>1, <2>2, SameJobsStep
  <2> QED BY <2>1, <2>2, <2>3, <2>4 DEF SimInv, ResetInv
<1>3. CASE FinalizeN(v) /\ (v <= 0 \/ v > kMaxMatrixDim)
  <2>1. phase = "N" /\ ParserReset BY <1>3 DEF FinalizeN
  <2>2. phase' = "ChallengeId" /\ ~completed' /\ NumberEnded
    BY <2>1 DEF ParserReset
  <2>3. /\ team' \in TeamRecords /\ Quiet(team') /\ team'.jobs = team.jobs
        /\ team'.phase = "ChallengeId"
    BY <1>1, <1>3, <2>1, TeamNumber
  <2>4. AlikeInv' BY <2>2, <2>3 DEF AlikeInv, Quiet, NumberEnded
  <2>5. SameJobs' BY <1>1, <2>2, <2>3, SameJobsStep
  <2> QED BY <2>2, <2>3, <2>4, <2>5 DEF SimInv, ResetInv
<1>4. CASE FinalizeN(v) /\ ~(v <= 0 \/ v > kMaxMatrixDim)
  <2>1. /\ phase = "N" /\ NumberEnded /\ N' = v /\ a_index' = 0 /\ b_index' = 0
        /\ phase' = "A" /\ UNCHANGED <<completed, challenge_id, A, B>>
    BY <1>4 DEF FinalizeN
  <2>2. /\ team' \in TeamRecords /\ Quiet(team') /\ team'.jobs = team.jobs
        /\ team'.phase = "A" /\ team'.challenge_id = team.challenge_id
        /\ team'.N = v /\ team'.A = <<>> /\ team'.B = <<>>
    BY <1>1, <1>4, <2>1, TeamNumber
  <2>3. AlikeInv'
    <3>1. /\ Len(team'.A) = a_index' /\ Len(team'.B) = b_index'
          /\ \A c \in 0 .. a_index' - 1 : team'.A[c + 1] = A'[c]
          /\ \A c \in 0 .. b_index' - 1 : team'.B[c + 1] = B'[c]
      BY <2>1, <2>2
    <3>2. team'.challenge_id = challenge_id' /\ team'.N = N' BY <1>1, <2>1, <2>2
    <3> QED BY <2>1, <2>2, <3>1, <3>2 DEF AlikeInv, Quiet, NumberEnded
  <2>4. SameJobs' BY <1>1, <2>1, <2>2, SameJobsStep
  <2> QED BY <2>1, <2>2, <2>3, <2>4 DEF SimInv, ResetInv
<1> QED BY <1>2, <1>3, <1>4

LEMMA SimA ==
  ASSUME ParserInv, StreamInv, SimInv, ~completed, answered' = answered,
         NEW v \in Int, v = sign * current_value, FinalizeA(v),
         team' = Team!FinalizeNumber(team)
  PROVE  SimInv'
<1>1. /\ phase = "A" /\ a_index < totalCells /\ totalCells <= kMaxCells
      /\ a_index \in Nat /\ b_index = 0 /\ N \in Int /\ A \in [Cells -> Int]
  BY DEF FinalizeA, ParserInv, InBounds, CompleteInv, TypeOK
<1>2. /\ A' = [A EXCEPT ![a_index] = v] /\ a_index' = a_index + 1
      /\ phase' = IF a_index' = totalCells THEN "B" ELSE "A"
      /\ NumberEnded /\ UNCHANGED <<b_index, completed, challenge_id, N, B>>
  BY <1>1 DEF FinalizeA
<1>3. /\ team \in TeamRecords /\ team.phase = "A" /\ SameJobs
      /\ v = team.sign * team.current_value
      /\ team.challenge_id = challenge_id /\ team.N = N
      /\ Len(team.A) = a_index /\ Len(team.B) = 0
      /\ \A c \in 0 .. a_index - 1 : team.A[c + 1] = A[c]
  BY <1>1 DEF SimInv, AlikeInv
<1>4. /\ team' \in TeamRecords /\ Quiet(team') /\ team'.jobs = team.jobs
      /\ team'.phase = IF Len(team.A) + 1 = team.N * team.N THEN "B" ELSE "A"
      /\ team'.challenge_id = team.challenge_id /\ team'.N = team.N
      /\ team'.A = Append(team.A, v) /\ team'.B = team.B
  BY <1>3, TeamNumber
<1>5. team'.phase = phase' BY <1>2, <1>3, <1>4 DEF totalCells
<1>6. /\ Len(team'.A) = a_index'
      /\ \A c \in 0 .. a_index' - 1 : team'.A[c + 1] = A'[c]
  <2>1. totalCells \in Nat /\ kMaxCells \in Nat
    BY <1>1, ConstantsAssumption DEF totalCells, kMaxCells, ParserInv, InBounds
  <2>2. a_index + 1 <= kMaxCells BY <1>1, <2>1
  <2>3. team.A \in Seq(Int) BY <1>3 DEF TeamRecords
  <2>4. /\ Len(Append(team.A, v)) = a_index + 1
        /\ \A c \in 0 .. a_index : Append(team.A, v)[c + 1] = [A EXCEPT ![a_index] = v][c]
    <3>1. /\ Len(team.A) + 1 <= kMaxCells
          /\ \A c \in 0 .. Len(team.A) - 1 : team.A[c + 1] = A[c]
      BY <1>3, <2>2
    <3>2. A \in [Cells -> Int] /\ v \in Int BY <1>1
    <3>3. /\ Len(Append(team.A, v)) = Len(team.A) + 1
          /\ \A c \in 0 .. Len(team.A) :
               Append(team.A, v)[c + 1] = [A EXCEPT ![Len(team.A)] = v][c]
      BY ONLY <2>3, <3>1, <3>2, AppendCell
    <3> QED BY <1>3, <3>3
  <2>5. a_index' - 1 = a_index BY <1>1, <1>2
  <2> QED BY <1>2, <1>4, <2>4, <2>5
<1>7. AlikeInv'
  <2>1. b_index' = 0 /\ Len(team'.B) = b_index' BY <1>1, <1>2, <1>3, <1>4
  <2>2. \A c \in 0 .. b_index' - 1 : team'.B[c + 1] = B'[c] BY <2>1
  <2> QED BY <1>2, <1>3, <1>4, <1>5, <1>6, <2>1, <2>2
          DEF AlikeInv, Quiet, NumberEnded
<1>8. SameJobs' BY <1>2, <1>3, <1>4, SameJobsStep
<1> QED BY <1>2, <1>4, <1>7, <1>8 DEF SimInv, ResetInv

LEMMA SimB ==
  ASSUME ParserInv, ParserInv', StreamInv, SimInv, ~completed, answered' = answered,
         NEW v \in Int, v = sign * current_value, FinalizeB(v),
         team' = Team!FinalizeNumber(team)
  PROVE  SimInv'
<1>1. /\ phase = "B" /\ b_index < totalCells /\ totalCells <= kMaxCells
      /\ b_index \in Nat /\ a_index = totalCells /\ N \in Int
      /\ A \in [Cells -> Int] /\ B \in [Cells -> Int]
  BY DEF FinalizeB, ParserInv, InBounds, CompleteInv, TypeOK
<1>2. /\ B' = [B EXCEPT ![b_index] = v] /\ b_index' = b_index + 1
      /\ completed' = (b_index' = totalCells)
      /\ NumberEnded /\ UNCHANGED <<phase, a_index, challenge_id, N, A>>
  BY <1>1 DEF FinalizeB
<1>3. /\ team \in TeamRecords /\ team.phase = "B" /\ SameJobs
      /\ v = team.sign * team.current_value
      /\ team.challenge_id = challenge_id /\ team.N = N
      /\ Len(team.A) = a_index /\ Len(team.B) = b_index
      /\ \A c \in 0 .. a_index - 1 : team.A[c + 1] = A[c]
      /\ \A c \in 0 .. b_index - 1 : team.B[c + 1] = B[c]
  BY <1>1 DEF SimInv, AlikeInv
<1>4. totalCells' = totalCells /\ totalCells = N * N BY <1>2 DEF totalCells
<1>5. /\ Len(Append(team.B, v)) = b_index + 1
      /\ \A c \in 0 .. b_index : Append(team.B, v)[c + 1] = B'[c]
  <2>1. totalCells \in Nat /\ kMaxCells \in Nat
    BY <1>1, ConstantsAssumption DEF totalCells, kMaxCells, ParserInv, InBounds
  <2>2. b_index + 1 <= kMaxCells BY <1>1, <2>1
  <2>3. team.B \in Seq(Int) BY <1>3 DEF TeamRecords
  <2>4. /\ Len(Append(team.B, v)) = b_index + 1
        /\ \A c \in 0 .. b_index : Append(team.B, v)[c + 1] = [B EXCEPT ![b_index] = v][c]
    <3>1. /\ Len(team.B) + 1 <= kMaxCells
          /\ \A c \in 0 .. Len(team.B) - 1 : team.B[c + 1] = B[c]
      BY <1>3, <2>2
    <3>2. B \in [Cells -> Int] /\ v \in Int BY <1>1
    <3>3. /\ Len(Append(team.B, v)) = Len(team.B) + 1
          /\ \A c \in 0 .. Len(team.B) :
               Append(team.B, v)[c + 1] = [B EXCEPT ![Len(team.B)] = v][c]
      BY ONLY <2>3, <3>1, <3>2, AppendCell
    <3> QED BY <1>3, <3>3
  <2> QED BY <1>2, <2>4
<1>6. Job' \in Jobs
  <2>1. TypeOK' /\ InBounds' BY DEF ParserInv
  <2>2. (TypeOK /\ InBounds => Job \in Jobs)' BY JobType, PTL
  <2> QED BY <2>1, <2>2
<1>7. b_index + 1 = totalCells => Job' = JobRead(team, v)
  <2> SUFFICES ASSUME b_index + 1 = totalCells
               PROVE  Job' = [challenge_id |-> challenge_id, N |-> N,
                              A |-> [c \in 0 .. totalCells - 1 |-> team.A[c + 1]],
                              B |-> [c \in 0 .. totalCells - 1 |-> Append(team.B, v)[c + 1]]]
    BY <1>3, <1>4 DEF JobRead
  <2>1. Job' = [challenge_id |-> challenge_id, N |-> N,
                A |-> [c \in 0 .. totalCells - 1 |-> A[c]],
                B |-> [c \in 0 .. totalCells - 1 |-> B'[c]]]
    BY <1>2, <1>4 DEF Job
  <2>2. [c \in 0 .. totalCells - 1 |-> A[c]]
          = [c \in 0 .. totalCells - 1 |-> team.A[c + 1]]
    BY <1>1, <1>3
  <2>3. totalCells - 1 = b_index BY <1>1
  <2>4. [c \in 0 .. totalCells - 1 |-> B'[c]]
          = [c \in 0 .. totalCells - 1 |-> Append(team.B, v)[c + 1]]
    BY <1>5, <2>3
  <2> QED BY <2>1, <2>2, <2>4
<1>8. /\ team' \in TeamRecords /\ Quiet(team')
      /\ b_index + 1 # totalCells =>
           /\ team'.jobs = team.jobs /\ team'.phase = "B"
           /\ team'.challenge_id = team.challenge_id /\ team'.N = team.N
           /\ team'.A = team.A /\ team'.B = Append(team.B, v)
      /\ b_index + 1 = totalCells =>
           team'.phase = "ChallengeId" /\ team'.jobs = Append(team.jobs, Job')
  <2>1. Len(team.B) + 1 = b_index + 1 /\ team.N * team.N = totalCells
    BY <1>3, <1>4
  <2>2. Len(team.B) + 1 = team.N * team.N => JobRead(team, v) \in Jobs
    BY <1>6, <1>7, <2>1
  <2> QED BY <1>3, <1>7, <2>1, <2>2, TeamLast
<1>9. CASE b_index + 1 # totalCells
  <2>1. ~completed' BY <1>2, <1>9
  <2>2. b_index' - 1 = b_index BY <1>1, <1>2
  <2>3. AlikeInv'
    <3>1. /\ Len(team'.B) = b_index'
          /\ \A c \in 0 .. b_index' - 1 : team'.B[c + 1] = B'[c]
      BY <1>2, <1>5, <1>8, <1>9, <2>2
    <3>2. /\ Len(team'.A) = a_index'
          /\ \A c \in 0 .. a_index' - 1 : team'.A[c + 1] = A'[c]
      BY <1>2, <1>3, <1>8, <1>9
    <3>3. /\ team'.phase = phase' /\ team'.challenge_id = challenge_id'
          /\ team'.N = N'
      BY <1>1, <1>2, <1>3, <1>8, <1>9
    <3> QED BY <1>2, <1>8, <3>1, <3>2, <3>3 DEF AlikeInv, Quiet, NumberEnded
  <2>4. SameJobs' BY <1>3, <1>8, <1>9, <2>1, SameJobsStep
  <2> QED BY <1>8, <2>1, <2>3, <2>4 DEF SimInv, ResetInv
<1>10. CASE b_index + 1 = totalCells
  <2>1. completed' BY <1>2, <1>10
  <2>2. answered \in Seq(Jobs) BY DEF StreamInv
  <2>3. team.jobs = answered BY <1>3, <2>2, ConcatEmptySeq DEF SameJobs
  <2>4. team'.jobs = answered \o <<Job'>>
    BY <1>6, <1>8, <1>10, <2>2, <2>3, AppendIsConcat
  <2>5. SameJobs' BY <2>1, <2>4 DEF SameJobs
  <2>6. ResetInv' BY <1>8, <1>10 DEF ResetInv, Quiet
  <2> QED BY <1>8, <2>1, <2>5, <2>6 DEF SimInv, AlikeInv
<1> QED BY <1>9, <1>10

LEMMA SimAnswer ==
  ASSUME ParserInv, StreamInv, SimInv, Answer, team' = team
  PROVE  SimInv'
<1>1. /\ completed /\ answered' = Append(answered, Job)
      /\ phase' = "ChallengeId" /\ ~completed' /\ NumberEnded
  BY DEF Answer, ParserReset
<1>2. team \in TeamRecords /\ ResetInv /\ SameJobs BY DEF SimInv
<1>3. AlikeInv' BY <1>1, <1>2 DEF AlikeInv, ResetInv, NumberEnded
<1>4. SameJobs'
  <2>1. Job \in Jobs BY JobType DEF ParserInv
  <2>2. answered \in Seq(Jobs) BY DEF StreamInv
  <2>3. team.jobs = answered' BY <1>1, <1>2, <2>1, <2>2, AppendIsConcat DEF SameJobs
  <2>4. answered' \in Seq(Jobs) BY <1>1, <2>1, <2>2
  <2>5. answered' \o <<>> = answered' BY <2>4, ConcatEmptySeq
  <2> QED BY <1>1, <2>3, <2>5 DEF SameJobs
<1> QED BY <1>1, <1>2, <1>3, <1>4 DEF SimInv, ResetInv

LEMMA SimNext ==
  ASSUME ParserInv, ParserInv', StreamInv, SimInv, ParsersNext
  PROVE  SimInv'
<1>1. CASE Answer /\ UNCHANGED <<team, v1, cut>> BY <1>1, SimAnswer
<1>2. ASSUME NEW c \in Chars, Char(c) PROVE SimInv'
  <2>1. /\ DigitChar(c) \/ MinusChar(c) \/ SpaceChar(c) \/ OtherChar(c)
        /\ team' = Team!ProcessChar(team, c)
    BY <1>2 DEF Char
  <2>2. CASE ~(SpaceChar(c) /\ in_number) BY <2>1, <2>2, SimChar
  <2>3. CASE SpaceChar(c) /\ in_number
    <3> DEFINE v == sign * current_value
    <3>1. c = Space /\ ~completed /\ answered' = answered
      BY <2>3 DEF SpaceChar, Feed
    <3>2. FinalizeId(v) \/ FinalizeN(v) \/ FinalizeA(v) \/ FinalizeB(v)
      BY <2>3 DEF SpaceChar
    <3>3. v \in Int BY DEF ParserInv, TypeOK
    <3>4. team \in TeamRecords /\ team.in_number
      BY <2>3, <3>1 DEF SimInv, AlikeInv
    <3>5. team' = Team!FinalizeNumber(team) BY <2>1, <3>1, <3>4, TeamElse
    <3>6. v = sign * current_value OBVIOUS
    <3> HIDE DEF v
    <3> QED BY <3>1, <3>2, <3>3, <3>5, <3>6, SimHeader, SimA, SimB
  <2> QED BY <2>2, <2>3
<1> QED BY <1>1, <1>2 DEF ParsersNext

\* A step of the three parsers is one of the current client's.
LEMMA ParsersStep == ParsersSpec => Spec
<1>1. ParsersInit => Init BY DEF ParsersInit
<1>2. [ParsersNext]_parsersVars => [Next]_vars
  BY DEF ParsersNext, Char, Next, parsersVars
<1> QED BY <1>1, <1>2, PTL DEF ParsersSpec, Spec

LEMMA SimInitial == ParsersInit => SimInv
<1> SUFFICES ASSUME ParsersInit PROVE SimInv OBVIOUS
<1>1. /\ phase = "ChallengeId" /\ in_number = FALSE /\ sign = 1
      /\ current_value = 0 /\ completed = FALSE /\ answered = <<>>
      /\ team = Team!Fresh
  BY DEF ParsersInit, Init
<1>2. /\ team.phase = "ChallengeId" /\ team.in_number = FALSE /\ team.sign = 1
      /\ team.current_value = 0 /\ team.jobs = <<>>
  BY <1>1 DEF Team!Fresh
<1>3. team \in TeamRecords BY <1>1 DEF Team!Fresh, TeamRecords, Phases
<1>4. answered \o <<>> = <<>> BY <1>1
<1> QED BY <1>1, <1>2, <1>3, <1>4 DEF SimInv, AlikeInv, ResetInv, SameJobs

\* On any text the parser of the team client is where that of the current
\* client is, but that it does not wait for a job to be answered.
THEOREM TeamParserInvariant == ParsersSpec => []SimInv
<1>1. ParserInv /\ ParserInv' /\ StreamInv /\ SimInv /\ [ParsersNext]_parsersVars
        => SimInv'
  <2> SUFFICES ASSUME ParserInv, ParserInv', StreamInv, SimInv,
                      [ParsersNext]_parsersVars
               PROVE  SimInv'
    OBVIOUS
  <2>1. CASE ParsersNext BY <2>1, SimNext
  <2>2. CASE UNCHANGED parsersVars
    BY <2>2 DEF parsersVars, vars, parserVars, jobVars, SimInv, AlikeInv, ResetInv,
                SameJobs, Job, totalCells
  <2> QED BY <2>1, <2>2
<1> QED BY <1>1, SimInitial, ParsersStep, ParserInvariant, StreamInvariant, PTL
        DEF ParsersSpec

-----------------------------------------------------------------------------
(* What finish() makes of a stream that ends here.                         *)

\* The job it could emit, cell by cell that of the current client but for the
\* number that has just been cut.
LEMMA FinishJob ==
  ASSUME ParserInv, SimInv, ~completed, phase = "B", NEW v \in Int,
         Len(team.B) + 1 = team.N * team.N
  PROVE  /\ JobRead(team, v) \in Jobs
         /\ team.N = N /\ totalCells = N * N /\ b_index = totalCells - 1
         /\ JobRead(team, v).challenge_id = challenge_id
         /\ JobRead(team, v).N = N
         /\ \A c \in 0 .. totalCells - 1 : JobRead(team, v).A[c] = A[c]
         /\ \A c \in 0 .. totalCells - 2 : JobRead(team, v).B[c] = B[c]
<1> DEFINE cellsA == [c \in 0 .. totalCells - 1 |-> team.A[c + 1]]
           cellsB == [c \in 0 .. totalCells - 1 |-> Append(team.B, v)[c + 1]]
<1>1. /\ team.challenge_id = challenge_id /\ team.N = N
      /\ Len(team.A) = a_index /\ Len(team.B) = b_index
      /\ \A c \in 0 .. a_index - 1 : team.A[c + 1] = A[c]
      /\ \A c \in 0 .. b_index - 1 : team.B[c + 1] = B[c]
  BY DEF SimInv, AlikeInv
<1>2. /\ a_index = totalCells /\ totalCells <= kMaxCells
      /\ N \in 0 .. kMaxMatrixDim /\ b_index \in Nat /\ challenge_id \in Int
  BY DEF ParserInv, CompleteInv, InBounds, TypeOK
<1>3. totalCells = N * N BY DEF totalCells
<1>4. totalCells \in Nat BY <1>2, <1>3, Fits
<1>5. b_index = totalCells - 1 BY <1>1, <1>2, <1>3, <1>4
<1>6. team.A \in Seq(Int) /\ Append(team.B, v) \in Seq(Int)
      /\ Len(Append(team.B, v)) = totalCells
      /\ \A c \in 0 .. b_index - 1 : Append(team.B, v)[c + 1] = team.B[c + 1]
  <2>1. team.A \in Seq(Int) /\ team.B \in Seq(Int) BY DEF SimInv, TeamRecords
  <2> QED BY <1>1, <1>2, <1>3, <2>1
<1>7. JobRead(team, v) = [challenge_id |-> challenge_id, N |-> N,
                          A |-> cellsA, B |-> cellsB]
  BY <1>1, <1>3 DEF JobRead
<1>8. cellsA \in Matrices /\ cellsB \in Matrices
  <2>1. cellsA \in [0 .. totalCells - 1 -> Int]
    <3>1. \A c \in 0 .. totalCells - 1 : team.A[c + 1] \in Int
      BY <1>1, <1>2, <1>4, <1>6
    <3> QED BY <3>1
  <2>2. cellsB \in [0 .. totalCells - 1 -> Int]
    <3>1. \A c \in 0 .. totalCells - 1 : Append(team.B, v)[c + 1] \in Int
      BY <1>4, <1>6
    <3> QED BY <3>1
  <2>3. [0 .. totalCells - 1 -> Int] \in {[0 .. n * n - 1 -> Int] : n \in 0 .. kMaxMatrixDim}
    BY <1>2, <1>3
  <2> HIDE DEF cellsA, cellsB
  <2> QED BY <2>1, <2>2, <2>3 DEF Matrices
<1>9. JobRead(team, v) \in Jobs
  <2> HIDE DEF cellsA, cellsB
  <2> QED BY <1>2, <1>7, <1>8, ConstantsAssumption DEF Jobs
<1>10. \A c \in 0 .. totalCells - 1 : cellsA[c] = A[c] BY <1>1, <1>2
<1>11. \A c \in 0 .. totalCells - 2 : cellsB[c] = B[c]
  <2> TAKE c \in 0 .. totalCells - 2
  <2>1. c \in 0 .. totalCells - 1 /\ c \in 0 .. b_index - 1 BY <1>4, <1>5
  <2> QED BY <1>1, <1>6, <2>1
<1> HIDE DEF cellsA, cellsB
<1>12. /\ JobRead(team, v).challenge_id = challenge_id /\ JobRead(team, v).N = N
       /\ JobRead(team, v).A = cellsA /\ JobRead(team, v).B = cellsB
  BY ONLY <1>7
<1>13. /\ \A c \in 0 .. totalCells - 1 : JobRead(team, v).A[c] = A[c]
       /\ \A c \in 0 .. totalCells - 2 : JobRead(team, v).B[c] = B[c]
  BY ONLY <1>10, <1>11, <1>12
<1> QED BY ONLY <1>1, <1>3, <1>5, <1>9, <1>12, <1>13

\* finish() emits at most one job, and only for the last number of a challenge.
LEMMA FinishOnce ==
  ASSUME ParserInv, SimInv, NEW v, v = team.sign * team.current_value
  PROVE  \/ Team!Finish(team).jobs = team.jobs
         \/ /\ ~completed /\ phase = "B" /\ v \in Int
            /\ Len(team.B) + 1 = team.N * team.N
            /\ Team!Finish(team).jobs = Append(team.jobs, JobRead(team, v))
<1>1. team \in TeamRecords BY DEF SimInv
<1>2. v \in Int BY <1>1 DEF TeamRecords
<1>3. CASE ~team.in_number BY <1>3 DEF Team!Finish
<1>4. CASE team.in_number
  <2>1. Team!Finish(team) = Team!FinalizeNumber(team) BY <1>4 DEF Team!Finish
  <2>2. ~completed /\ team.phase = phase BY <1>4 DEF SimInv, ResetInv, AlikeInv
  <2>3. CASE team.phase # "B"
    <3>1. team.phase \in {"ChallengeId", "N", "A"} BY <1>1, <2>3 DEF TeamRecords, Phases
    <3>2. Team!FinalizeNumber(team).jobs = team.jobs
      BY <1>1, <1>2, <3>1, TeamNumber
    <3> QED BY <2>1, <3>2
  <2>4. CASE team.phase = "B"
    <3>1. Len(team.B) + 1 = team.N * team.N => JobRead(team, v) \in Jobs
      BY <1>2, <2>2, <2>4, FinishJob
    <3>2. /\ Len(team.B) + 1 # team.N * team.N =>
               Team!FinalizeNumber(team).jobs = team.jobs
          /\ Len(team.B) + 1 = team.N * team.N =>
               Team!FinalizeNumber(team).jobs = Append(team.jobs, JobRead(team, v))
      BY <1>1, <1>2, <2>4, <3>1, TeamLast
    <3> QED BY <1>2, <2>1, <2>2, <2>4, <3>2
  <2> QED BY <2>3, <2>4
<1> QED BY <1>3, <1>4

\* On the stream of a server the job is right up to its last cell.
LEMMA FinishCell ==
  ASSUME ParserInv, StreamInv, SimInv, FromServer, ~completed, phase = "B",
         NEW v \in Int, Len(team.B) + 1 = team.N * team.N
  PROVE  UpToLastCell(JobRead(team, v), sent.challenges[Len(answered) + 1])
<1> DEFINE ch == sent.challenges[Len(answered) + 1]
           job == JobRead(team, v)
<1>1. /\ totalCells = N * N /\ b_index = totalCells - 1
      /\ job.challenge_id = challenge_id /\ job.N = N
      /\ \A c \in 0 .. totalCells - 1 : job.A[c] = A[c]
      /\ \A c \in 0 .. totalCells - 2 : job.B[c] = B[c]
  BY FinishJob
<1>2. ProgressInv BY Sent
<1>3. Holds(ch, Mark.number) BY <1>2 DEF ProgressInv, Current
<1> HIDE DEF ch, job
<1>4. /\ challenge_id = ch.cid /\ N = ch.size
      /\ \A c \in 0 .. totalCells - 1 : A[c] = ch.cellsA[c + 1]
      /\ \A c \in 0 .. b_index - 1 : B[c] = ch.cellsB[c + 1]
  BY <1>3 DEF Holds
<1>5. totalCells \in Nat BY Fits DEF ParserInv, InBounds, totalCells
<1>6. b_index - 1 = totalCells - 2 BY <1>1, <1>5
<1>7. totalCells = ch.size * ch.size BY <1>1, <1>4
<1>8. /\ \A c \in 0 .. totalCells - 1 : job.A[c] = ch.cellsA[c + 1]
      /\ \A c \in 0 .. totalCells - 2 : job.B[c] = ch.cellsB[c + 1]
  BY <1>1, <1>4, <1>6
<1>9. UpToLastCell(job, ch) BY <1>1, <1>4, <1>7, <1>8 DEF UpToLastCell
<1> QED BY <1>9 DEF ch, job

\* On every text the team client's parser emits the jobs that the current
\* client's completes; at its end finish() adds at most one, and that is wrong
\* in no more than its last cell if a server sent the text.
THEOREM TeamParserAgrees == ParsersSpec => []TeamAgrees
<1>1. ParserInv /\ StreamInv /\ SimInv => TeamAgrees
  <2> SUFFICES ASSUME ParserInv, StreamInv, SimInv PROVE TeamAgrees OBVIOUS
  <2> DEFINE finished == Team!Finish(team).jobs
             emitted == Len(team.jobs)
             v == team.sign * team.current_value
  <2>1. team.jobs = answered \o (IF completed THEN <<Job>> ELSE <<>>)
    BY DEF SimInv, SameJobs
  <2>2. team.jobs \in Seq(Jobs) /\ emitted \in Nat BY DEF SimInv, TeamRecords
  <2>3. \/ finished = team.jobs
        \/ /\ ~completed /\ phase = "B" /\ v \in Int
           /\ Len(team.B) + 1 = team.N * team.N
           /\ finished = Append(team.jobs, JobRead(team, v))
    BY FinishOnce
  <2> HIDE DEF finished, v
  <2>4. CASE finished = team.jobs
    BY <2>1, <2>2, <2>4 DEF TeamAgrees, finished
  <2>5. CASE /\ ~completed /\ phase = "B" /\ v \in Int
             /\ Len(team.B) + 1 = team.N * team.N
             /\ finished = Append(team.jobs, JobRead(team, v))
    <3>1. JobRead(team, v) \in Jobs BY <2>5, FinishJob
    <3>2. Len(finished) = emitted + 1 /\ finished[emitted + 1] = JobRead(team, v)
      BY <2>2, <2>5, <3>1
    <3>3. emitted = Len(answered)
      <4>1. answered \in Seq(Jobs) BY DEF StreamInv
      <4> QED BY <2>1, <2>5, <4>1, ConcatEmptySeq
    <3>4. FromServer => UpToLastCell(finished[emitted + 1], sent.challenges[emitted + 1])
      BY <2>5, <3>2, <3>3, FinishCell
    <3> QED BY <2>1, <2>2, <3>2, <3>4 DEF TeamAgrees, finished
  <2> QED BY <2>3, <2>4, <2>5
<1> QED BY <1>1, ParserInvariant, StreamInvariant, TeamParserInvariant, ParsersStep, PTL

-----------------------------------------------------------------------------
(* The first client: what it skips, and the numbers it extracts.           *)

\* s is the first position of text from i on whose character is not in S.
IsSkip(s, text, i, S) ==
  /\ s \in i .. Len(text) + 1
  /\ \A j \in i .. s - 1 : text[j] \in S
  /\ s <= Len(text) => text[s] \notin S

\* Skip finds that position.
LEMMA SkipIs ==
  ASSUME NEW text, Len(text) \in Nat, NEW i \in 1 .. Len(text) + 1, NEW S
  PROVE  IsSkip(First!Skip(text, i, S), text, i, S)
<1> DEFINE n == Len(text)
           R == {j \in i .. n + 1 : j = n + 1 \/ text[j] \notin S}
           s == First!Skip(text, i, S)
<1>1. n + 1 \in R OBVIOUS
<1>2. \E least \in R : \A y \in R : least <= y
  <2> DEFINE Q == {m \in Nat : m \notin R}
  <2> SUFFICES ASSUME \A z \in R : \E y \in R : y < z PROVE FALSE
    <3>1. R \subseteq Nat OBVIOUS
    <3> HIDE DEF R
    <3> QED BY <3>1
  <2>1. R \subseteq Nat OBVIOUS
  <2> HIDE DEF R
  <2>2. ASSUME NEW m \in Nat, \A l \in 0 .. m - 1 : l \in Q PROVE m \in Q
    <3>1. \A y \in R : ~(y < m) BY <2>1, <2>2
    <3> QED BY <3>1
  <2>3. Q = Nat
    <3>1. Q \in SUBSET Nat OBVIOUS
    <3> HIDE DEF Q
    <3> QED BY <2>2, <3>1, Induction
  <2> QED BY <1>1, <2>1, <2>3
<1>3. s = CHOOSE x \in R : \A y \in R : x <= y BY DEF First!Skip, First!Min
<1>4. s \in R /\ \A y \in R : s <= y
  <2> HIDE DEF R, s
  <2> QED BY <1>2, <1>3
<1>5. ASSUME NEW j \in i .. s - 1 PROVE text[j] \in S
  <2>1. j \notin R BY <1>4
  <2>2. j \in i .. n + 1 /\ j # n + 1 BY <1>4
  <2> QED BY <2>1, <2>2
<1> QED BY <1>4, <1>5 DEF IsSkip

\* v[d] is what the first d digits of text from first to last make.
IsValue(v, text, first, last) ==
  /\ v[0] = 0
  /\ \A d \in 1 .. (last - first) + 1 : v[d] = 10 * v[d - 1] + text[first + d - 1]

\* Value is the value of the digits, one after the other.
LEMMA ValueIs ==
  ASSUME NEW text, NEW first \in Nat, NEW last \in Nat, first <= last
  PROVE  \E v : /\ IsValue(v, text, first, last)
                /\ First!Value(text, first, last) = v[(last - first) + 1]
<1> DEFINE n == (last - first) + 1
           step(x, d) == 10 * x + text[first + d - 1]
           Is(f, m) == f = [d \in 0 .. m |-> IF d = 0 THEN 0 ELSE step(f[d - 1], d)]
           S == {m \in 0 .. n : \E f : Is(f, m)}
           value == CHOOSE f : Is(f, n)
<1>1. First!Value(text, first, last) = value[n]
  BY DEF First!Value
<1>2. n \in Nat OBVIOUS
<1>3. \A d \in 1 .. n : \A x : step(x, d) = 10 * x + text[first + d - 1] OBVIOUS
<1> HIDE DEF step, n
<1>4. 0 \in S
  <2> DEFINE f == [d \in 0 .. 0 |-> 0]
  <2>1. Is(f, 0) OBVIOUS
  <2> HIDE DEF Is
  <2> QED BY <1>2, <2>1
<1>5. ASSUME NEW k \in 1 .. n, k - 1 \in S PROVE k \in S
  <2>1. PICK f : Is(f, k - 1) BY <1>5
  <2> DEFINE h == [d \in 0 .. k |-> IF d = k THEN step(f[k - 1], k) ELSE f[d]]
  <2>2. \A d \in 0 .. k - 1 : f[d] = IF d = 0 THEN 0 ELSE step(f[d - 1], d)
    BY <2>1
  <2>3. ASSUME NEW d \in 0 .. k
        PROVE  h[d] = IF d = 0 THEN 0 ELSE step(h[d - 1], d)
    <3>1. CASE d = 0 BY <1>2, <2>2, <3>1
    <3>2. CASE d # 0
      <4>1. d - 1 \in 0 .. k /\ d - 1 # k BY <3>2
      <4>2. h[d - 1] = f[d - 1] BY <4>1
      <4>3. h[d] = step(f[d - 1], d)
        <5>1. CASE d = k BY <5>1
        <5>2. CASE d # k
          <6>1. d \in 0 .. k - 1 BY <5>2
          <6>2. h[d] = f[d] BY <5>2
          <6> HIDE DEF h
          <6> QED BY <2>2, <3>2, <6>1, <6>2
        <5> QED BY <5>1, <5>2
      <4> HIDE DEF h
      <4> QED BY <3>2, <4>2, <4>3
    <3> QED BY <3>1, <3>2
  <2>4. h = [d \in 0 .. k |-> h[d]] OBVIOUS
  <2>5. Is(h, k)
    <3> HIDE DEF h
    <3> QED BY <2>3, <2>4
  <2> HIDE DEF Is, h
  <2> QED BY <2>5
<1>6. n \in S
  <2> HIDE DEF S
  <2>1. 0 .. n \subseteq S BY <1>2, <1>4, <1>5, CountUp
  <2> QED BY <1>2, <2>1
<1>7. Is(value, n)
  <2> HIDE DEF Is
  <2> QED BY <1>6
<1> HIDE DEF value
<1>8. \A d \in 0 .. n : value[d] = IF d = 0 THEN 0 ELSE step(value[d - 1], d) BY <1>7
<1>9. value[0] = 0 BY <1>2, <1>8
<1>10. ASSUME NEW d \in 1 .. n PROVE value[d] = 10 * value[d - 1] + text[first + d - 1]
  <2>1. d \in 0 .. n /\ d # 0 BY <1>2
  <2>2. value[d] = step(value[d - 1], d) BY <1>8, <2>1
  <2> QED BY <1>3, <2>2
<1>11. IsValue(value, text, first, last) BY <1>9, <1>10 DEF IsValue, n
<1> QED BY <1>1, <1>11 DEF n

-----------------------------------------------------------------------------
(* The text, from one character to the next.                               *)

\* conv is what a server sends, without noise.
Written(conv) ==
  /\ conv.text \in Seq(Chars)
  /\ IsConversation(conv, kMaxMatrixDim)
  /\ \A p \in 1 .. Len(conv.text) : conv.text[p] # Other

\* White space is no digit.
LEMMA DigitIsNoSpace == ASSUME NEW c \in Digit PROVE c # Space
BY DEF Digit, Space

\* The first digit of a number is its value.
LEMMA AfterFirst ==
  ASSUME NEW chs, NEW i \in Nat, NEW k \in Nat, NEW c \in Digit
  PROVE  After(chs, Unbegun(i, k), c) = Begun(i, k, c)
<1>1. 10 * 0 + c = c BY DEF Digit
<1> QED BY <1>1 DEF After, Begun, Unbegun

\* One digit more makes the value ten times as much, and that digit.
LEMMA AfterMore ==
  ASSUME NEW chs, NEW i \in Nat, NEW k \in Nat, NEW v \in Nat, NEW c \in Digit
  PROVE  After(chs, Begun(i, k, v), c) = Begun(i, k, 10 * v + c)
BY DEF After, Begun

\* A server writes digits and white space, each a step to the next mark.
LEMMA WrittenNext ==
  ASSUME NEW conv, Written(conv), NEW p \in 0 .. Len(conv.text) - 1
  PROVE  /\ Len(conv.text) \in Nat
         /\ conv.text[p + 1] \in Digit \cup {Space}
         /\ MayWrite(conv.challenges, conv.marks[p], conv.text[p + 1])
         /\ conv.marks[p + 1] = After(conv.challenges, conv.marks[p], conv.text[p + 1])
<1>1. Len(conv.text) \in Nat BY DEF Written
<1>2. /\ MayWrite(conv.challenges, conv.marks[p], conv.text[p + 1])
      /\ conv.marks[p + 1] = After(conv.challenges, conv.marks[p], conv.text[p + 1])
  BY DEF Written, IsConversation
<1>3. conv.text[p + 1] # Other
  <2>1. p + 1 \in 1 .. Len(conv.text) BY <1>1
  <2> QED BY <2>1 DEF Written
<1> QED BY <1>1, <1>2, <1>3 DEF MayWrite

\* Before the first digit of a number there is white space, or that digit.
LEMMA NextUnbegun ==
  ASSUME NEW conv, Written(conv), NEW p \in 0 .. Len(conv.text) - 1,
         NEW i \in Nat, NEW k \in Nat, conv.marks[p] = Unbegun(i, k)
  PROVE  \/ /\ conv.text[p + 1] = Space
            /\ conv.marks[p + 1] = Unbegun(i, k)
         \/ /\ conv.text[p + 1] \in Digit
            /\ i <= Len(conv.challenges)
            /\ conv.marks[p + 1] = Begun(i, k, conv.text[p + 1])
<1> DEFINE c == conv.text[p + 1]
<1>1. /\ MayWrite(conv.challenges, conv.marks[p], c)
      /\ conv.marks[p + 1] = After(conv.challenges, conv.marks[p], c)
      /\ c \in Digit \cup {Space}
  BY WrittenNext
<1>2. CASE c \in Digit
  <2>1. i <= Len(conv.challenges)
    BY <1>1, <1>2 DEF MayWrite, Unbegun, Digit, Space, Other
  <2>2. After(conv.challenges, Unbegun(i, k), c) = Begun(i, k, c)
    BY <1>2, AfterFirst
  <2>3. conv.marks[p + 1] = Begun(i, k, c) BY <1>1, <2>2, Zenon
  <2> QED BY <1>2, <2>1, <2>3
<1>3. CASE c = Space /\ c \notin Digit
  <2>1. conv.marks[p + 1] = Unbegun(i, k) BY <1>1, <1>3 DEF After, Unbegun
  <2> QED BY <1>3, <2>1
<1> QED BY <1>1, <1>2, <1>3

\* What there is of challenge i, and where its text ends.
LEMMA WrittenChallenge ==
  ASSUME NEW conv, Written(conv), NEW i \in 1 .. Len(conv.challenges)
  PROVE  /\ IsChallenge(conv.challenges[i], kMaxMatrixDim)
         /\ NumberCount(conv.challenges[i]) \in Nat
         /\ NumberCount(conv.challenges[i]) >= 4
         /\ conv.ends[i] \in 1 .. Len(conv.text)
         /\ \A p \in 0 .. Len(conv.text) :
              p >= conv.ends[i] <=> conv.marks[p].challenge > i
<1>1. IsChallenge(conv.challenges[i], kMaxMatrixDim) BY DEF Written, IsConversation
<1>2. NumberCount(conv.challenges[i]) \in Nat /\ NumberCount(conv.challenges[i]) >= 4
  <2> DEFINE ch == conv.challenges[i]
  <2>1. /\ ch.size * ch.size \in Nat /\ ch.size * ch.size > 0
        /\ NumberCount(ch) = 2 + 2 * (ch.size * ch.size)
    BY <1>1, NumbersInOrder
  <2> QED BY <2>1
<1> QED BY <1>1, <1>2 DEF Written, IsConversation

\* After a digit there is another one, or the white space that ends the number.
LEMMA NextBegun ==
  ASSUME NEW conv, Written(conv), NEW p \in 0 .. Len(conv.text) - 1,
         NEW i \in 1 .. Len(conv.challenges), NEW k \in Nat, NEW v \in Nat,
         conv.marks[p] = Begun(i, k, v)
  PROVE  \/ /\ conv.text[p + 1] = Space /\ conv.text[p + 1] \notin Digit
            /\ v = NumberOf(conv.challenges[i], k)
            /\ conv.marks[p + 1] = At(conv.challenges, i, k + 1)
         \/ /\ conv.text[p + 1] \in Digit
            /\ conv.marks[p + 1] = Begun(i, k, 10 * v + conv.text[p + 1])
<1> DEFINE c == conv.text[p + 1]
           chs == conv.challenges
<1>1. /\ MayWrite(chs, conv.marks[p], c)
      /\ conv.marks[p + 1] = After(chs, conv.marks[p], c)
      /\ c \in Digit \cup {Space}
  BY WrittenNext
<1>2. CASE c \in Digit
  <2>2. conv.marks[p + 1] = Begun(i, k, 10 * v + c)
    BY <1>1, <1>2, AfterMore
  <2> QED BY <1>2, <2>2
<1>3. CASE c = Space /\ c \notin Digit
  <2>1. v = NumberOf(chs[i], k)
    BY <1>1, <1>3 DEF MayWrite, Begun, Space, Other
  <2>2. conv.marks[p + 1] =
          IF k < NumberCount(chs[i])
          THEN [Begun(i, k, v) EXCEPT !.number = k + 1, !.begun = FALSE, !.value = 0]
          ELSE Beginning(i + 1)
    BY <1>1, <1>3 DEF After, Begun
  <2>3. k < NumberCount(chs[i]) <=> k + 1 <= NumberCount(chs[i])
    BY WrittenChallenge
  <2> QED BY <1>3, <2>1, <2>2, <2>3 DEF Begun, Unbegun, At
<1> QED BY <1>1, <1>2, <1>3

\* These marks are of challenge i.
LEMMA UnbegunOf == ASSUME NEW i, NEW k PROVE Unbegun(i, k).challenge = i
BY DEF Unbegun

\* These marks are of challenge i.
LEMMA BegunOf == ASSUME NEW i, NEW k, NEW v PROVE Begun(i, k, v).challenge = i
BY DEF Begun

\* A challenge of which a number is still to be written has not come to its end.
LEMMA NotYet ==
  ASSUME NEW conv, Written(conv), NEW p \in 0 .. Len(conv.text),
         NEW i \in 1 .. Len(conv.challenges), NEW k \in Nat,
         conv.marks[p] = Unbegun(i, k)
  PROVE  p < conv.ends[i] - 1
<1>1. Len(conv.text) \in Nat BY DEF Written
<1>2. PICK e \in 1 .. Len(conv.text) :
        /\ e = conv.ends[i]
        /\ \A q \in 0 .. Len(conv.text) : q >= e <=> conv.marks[q].challenge > i
  BY WrittenChallenge
<1>3. conv.marks[p].challenge = i BY UnbegunOf, BegunOf
<1>4. p < e BY <1>1, <1>2, <1>3
<1>5. p \in 0 .. Len(conv.text) - 1 /\ p + 1 \in 0 .. Len(conv.text) BY <1>1, <1>4
<1>6. conv.marks[p + 1].challenge = i
  <2>1. Len(conv.challenges) \in Nat BY DEF Written, IsConversation
  <2>2. i \in Nat BY <2>1
  <2>3. \/ conv.marks[p + 1] = Unbegun(i, k)
        \/ conv.marks[p + 1] = Begun(i, k, conv.text[p + 1])
    BY <1>5, <2>2, NextUnbegun, Zenon
  <2> QED BY <2>3, UnbegunOf, BegunOf
<1>7. p + 1 < e BY <1>2, <1>5, <1>6
<1> QED BY <1>1, <1>2, <1>7

\* A challenge of which a number is still to come has not come to its end.
LEMMA NotLast ==
  ASSUME NEW conv, Written(conv), NEW p \in 0 .. Len(conv.text),
         NEW i \in 1 .. Len(conv.challenges), NEW k \in Nat, NEW v \in Nat,
         conv.marks[p] = Begun(i, k, v), k < NumberCount(conv.challenges[i])
  PROVE  p < conv.ends[i] - 1
<1>1. Len(conv.text) \in Nat BY DEF Written
<1>2. PICK e \in 1 .. Len(conv.text) :
        /\ e = conv.ends[i]
        /\ \A q \in 0 .. Len(conv.text) : q >= e <=> conv.marks[q].challenge > i
  BY WrittenChallenge
<1>3. conv.marks[p].challenge = i BY UnbegunOf, BegunOf
<1>4. p < e BY <1>1, <1>2, <1>3
<1>5. p \in 0 .. Len(conv.text) - 1 /\ p + 1 \in 0 .. Len(conv.text) BY <1>1, <1>4
<1>6. k + 1 <= NumberCount(conv.challenges[i]) BY WrittenChallenge
<1>7. conv.marks[p + 1].challenge = i
  <2>1. \/ conv.marks[p + 1] = At(conv.challenges, i, k + 1)
        \/ conv.marks[p + 1] = Begun(i, k, 10 * v + conv.text[p + 1])
    BY <1>5, NextBegun
  <2>2. At(conv.challenges, i, k + 1) = Unbegun(i, k + 1) BY <1>6 DEF At
  <2> QED BY <2>1, <2>2, UnbegunOf, BegunOf
<1>8. p + 1 < e BY <1>2, <1>5, <1>7
<1> QED BY <1>1, <1>2, <1>8

\* White space changes nothing before the first digit of a number.
LEMMA Spaces ==
  ASSUME NEW conv, Written(conv), NEW x \in 0 .. Len(conv.text),
         NEW e \in x .. Len(conv.text), NEW i \in Nat, NEW k \in Nat,
         conv.marks[x] = Unbegun(i, k), \A j \in x + 1 .. e : conv.text[j] = Space
  PROVE  \A j \in x .. e : conv.marks[j] = Unbegun(i, k)
<1> DEFINE S == {m \in 0 .. e - x : conv.marks[x + m] = Unbegun(i, k)}
<1>1. Len(conv.text) \in Nat /\ x \in Nat /\ e \in Nat /\ e - x \in Nat BY DEF Written
<1>2. 0 \in S
  <2>1. x + 0 = x OBVIOUS
  <2> QED BY <1>1, <2>1
<1>3. ASSUME NEW m \in 1 .. e - x, m - 1 \in S PROVE m \in S
  <2>1. PICK q \in 0 .. Len(conv.text) - 1 :
          q = x + (m - 1) /\ q + 1 = x + m /\ q + 1 \in x + 1 .. e
    BY <1>1
  <2>2. conv.marks[q] = Unbegun(i, k) BY <1>3, <2>1
  <2>3. conv.text[q + 1] = Space /\ Space \notin Digit BY <2>1 DEF Space, Digit
  <2>4. conv.marks[q + 1] = Unbegun(i, k) BY <2>2, <2>3, NextUnbegun
  <2> QED BY <1>1, <2>1, <2>4
<1>4. 0 .. e - x \subseteq S
  <2> HIDE DEF S
  <2> QED BY <1>1, <1>2, <1>3, CountUp
<1>5. ASSUME NEW j \in x .. e PROVE conv.marks[j] = Unbegun(i, k)
  <2>1. j - x \in 0 .. e - x /\ x + (j - x) = j BY <1>1
  <2>2. j - x \in S BY <1>4, <2>1
  <2>3. conv.marks[x + (j - x)] = Unbegun(i, k) BY <2>2
  <2> QED BY <2>1, <2>3
<1> QED BY <1>5

\* The m characters after position x of the text are digits, which amount to v[m].
DigitsFrom(v, text, x, m) ==
  /\ \A d \in 1 .. m : text[x + d] \in Digit
  /\ v[0] = 0
  /\ \A d \in 1 .. m : v[d] = 10 * v[d - 1] + text[x + d]

\* Digits that are written in one run are those of one number.
LEMMA DigitRun ==
  ASSUME NEW conv, Written(conv), NEW x \in 0 .. Len(conv.text), NEW m \in Nat \ {0},
         x + m <= Len(conv.text), NEW i \in Nat \ {0}, NEW k \in Nat,
         conv.marks[x] = Unbegun(i, k),
         NEW v, DigitsFrom(v, conv.text, x, m)
  PROVE  /\ i \in 1 .. Len(conv.challenges)
         /\ v[m] \in Nat
         /\ conv.marks[x + m] = Begun(i, k, v[m])
<1> DEFINE P(d) == v[d] \in Nat /\ conv.marks[x + d] = Begun(i, k, v[d])
           S == {d \in 0 .. m - 1 : P(d + 1)}
<1>1. /\ Len(conv.text) \in Nat /\ x \in Nat /\ Len(conv.challenges) \in Nat
      /\ m - 1 \in Nat
  BY DEF Written, IsConversation
<1>2. i \in 1 .. Len(conv.challenges) /\ P(1)
  <2>1. x \in 0 .. Len(conv.text) - 1 /\ 1 \in 1 .. m /\ 1 - 1 = 0 BY <1>1
  <2>2. conv.text[x + 1] \in Digit /\ conv.text[x + 1] # Space
    <3>1. conv.text[x + 1] \in Digit BY <2>1, Zenon DEF DigitsFrom
    <3> QED BY <3>1, DigitIsNoSpace, Zenon
  <2>3. i <= Len(conv.challenges) /\ conv.marks[x + 1] = Begun(i, k, conv.text[x + 1])
    BY <2>1, <2>2, NextUnbegun
  <2>4. v[1] = 10 * 0 + conv.text[x + 1]
    <3>1. v[1] = 10 * v[1 - 1] + conv.text[x + 1] /\ v[0] = 0
      BY <2>1, Zenon DEF DigitsFrom
    <3> QED BY <3>1
  <2>5. v[1] = conv.text[x + 1] /\ v[1] \in Nat BY <2>2, <2>4 DEF Digit
  <2> QED BY <1>1, <2>3, <2>5
<1>3. ASSUME NEW d \in 1 .. m - 1, P(d) PROVE P(d + 1)
  <2>1. PICK q \in 0 .. Len(conv.text) - 1 : q = x + d /\ q + 1 = x + (d + 1) BY <1>1
  <2>2. d + 1 \in 1 .. m /\ (d + 1) - 1 = d BY <1>1
  <2>3. conv.text[q + 1] \in Digit /\ conv.text[q + 1] # Space
    <3>1. conv.text[x + (d + 1)] \in Digit BY <2>2, Zenon DEF DigitsFrom
    <3>2. conv.text[q + 1] \in Digit BY <2>1, <3>1, Zenon
    <3> QED BY <3>2, DigitIsNoSpace, Zenon
  <2>4. PICK u \in Nat : u = v[d] /\ conv.marks[q] = Begun(i, k, u)
    BY <1>3, <2>1
  <2>5. conv.marks[q + 1] = Begun(i, k, 10 * u + conv.text[q + 1])
    <3>1. i \in 1 .. Len(conv.challenges) /\ conv.marks[q] = Begun(i, k, u) BY <1>2, <2>4
    <3>2. \/ conv.text[q + 1] \notin Digit
          \/ conv.marks[q + 1] = Begun(i, k, 10 * u + conv.text[q + 1])
      BY <3>1, NextBegun
    <3> QED BY <2>3, <3>2
  <2>6. v[d + 1] = 10 * u + conv.text[q + 1]
    <3>1. v[d + 1] = 10 * v[(d + 1) - 1] + conv.text[x + (d + 1)]
      BY <2>2, Zenon DEF DigitsFrom
    <3> QED BY <1>1, <2>1, <2>2, <2>4, <3>1
  <2>7. v[d + 1] \in Nat
    <3>1. PICK c \in Digit : c = conv.text[q + 1] BY <2>3
    <3>2. v[d + 1] = 10 * u + c BY <2>6, <3>1, Zenon
    <3>3. 10 * u + c \in Nat BY DEF Digit
    <3> QED BY <3>2, <3>3, Zenon
  <2>8. conv.marks[x + (d + 1)] = Begun(i, k, v[d + 1]) BY <2>1, <2>5, <2>6
  <2> QED BY <2>7, <2>8
<1> HIDE DEF P
<1>4. 0 \in S
  <2>1. 0 \in 0 .. m - 1 /\ 0 + 1 = 1 BY <1>1
  <2> QED BY <1>2, <2>1
<1>5. ASSUME NEW d \in 1 .. m - 1, d - 1 \in S PROVE d \in S
  <2>1. (d - 1) + 1 = d /\ d \in 0 .. m - 1 BY <1>1
  <2>2. P((d - 1) + 1) BY <1>5
  <2>3. P(d) BY <2>1, <2>2
  <2> QED BY <1>3, <2>1, <2>3
<1>6. 0 .. m - 1 \subseteq S
  <2> HIDE DEF S
  <2> QED BY <1>1, <1>4, <1>5, CountUp
<1>7. P(m)
  <2>1. m - 1 \in 0 .. m - 1 /\ (m - 1) + 1 = m BY <1>1
  <2>2. P((m - 1) + 1) BY <1>6, <2>1
  <2> QED BY <2>1, <2>2
<1> QED BY <1>2, <1>7 DEF P

-----------------------------------------------------------------------------
(* What is extracted is the next number.                                   *)

\* e is what is extracted from text at position i, where white space ends at start.
ExtractedAt(e, text, i, start) ==
  /\ IsSkip(start, text, i, {Space})
  /\ start > Len(text) => e.ok = FALSE
  /\ start <= Len(text) =>
       \E next : /\ IsSkip(next, text, start, Digit) /\ next > start
                 /\ e = [ok |-> TRUE, value |-> First!Value(text, start, next - 1),
                         next |-> next]

\* Of text that consists of digits and white space.
LEMMA ExtractParts ==
  ASSUME NEW text, Len(text) \in Nat, NEW i \in 1 .. Len(text) + 1,
         \A j \in 1 .. Len(text) : text[j] \in Digit \cup {Space}
  PROVE  \E start : ExtractedAt(First!Extract(text, i), text, i, start)
<1> DEFINE n == Len(text)
           start == First!Skip(text, i, {First!Space})
           negative == start <= n /\ text[start] = First!Minus
           first == IF negative THEN start + 1 ELSE start
           next == First!Skip(text, first, First!Digit)
           value == First!Value(text, first, next - 1)
<1>1. First!Space = Space /\ First!Digit = Digit /\ First!Minus = Minus
  BY DEF First!Space, Space, First!Digit, Digit, First!Minus, Minus
<1>2. First!Extract(text, i) =
        [ok |-> next > first, value |-> IF negative THEN -value ELSE value, next |-> next]
  BY DEF First!Extract
<1>3. IsSkip(start, text, i, {Space}) BY <1>1, SkipIs
<1>4. start \in i .. n + 1 /\ (start <= n => text[start] # Space) BY <1>3 DEF IsSkip
<1>5. ~negative
  <2>1. CASE start <= n
    <3>1. start \in 1 .. n BY <1>4, <2>1
    <3>2. text[start] \in Digit BY <1>4, <2>1, <3>1
    <3>3. text[start] # Minus BY <3>2 DEF Digit, Minus
    <3> QED BY <1>1, <3>3
  <2> QED BY <2>1
<1>6. first = start BY <1>5
<1>7. IsSkip(next, text, start, Digit)
  <2>1. start \in 1 .. n + 1 BY <1>4
  <2> HIDE DEF start, negative
  <2> QED BY <1>1, <1>6, <2>1, SkipIs
<1>8. next \in start .. n + 1 /\ (next <= n => text[next] \notin Digit)
  BY <1>7 DEF IsSkip
<1>9. First!Extract(text, i) =
        [ok |-> next > start, value |-> First!Value(text, start, next - 1), next |-> next]
  <2> HIDE DEF start, negative, first, next
  <2> QED BY <1>2, <1>5, <1>6 DEF value
<1> HIDE DEF start, negative, first, next, value
<1>10. CASE start > n
  <2>1. ~(next > start) BY <1>4, <1>8, <1>10 DEF n
  <2>2. First!Extract(text, i).ok = FALSE
    <3>1. (next > start) = FALSE BY <2>1
    <3>2. First!Extract(text, i) =
            [ok |-> FALSE, value |-> First!Value(text, start, next - 1), next |-> next]
      BY <1>9, <3>1, Zenon
    <3> QED BY <3>2
  <2>3. ~(start <= n) BY <1>4, <1>10
  <2>4. start > Len(text) /\ ~(start <= Len(text)) BY <1>10, <2>3 DEF n
  <2> QED BY <1>3, <2>2, <2>4, Zenon DEF ExtractedAt
<1>11. CASE start <= n
  <2>1. text[start] \in Digit
    <3>1. start \in 1 .. n BY <1>4, <1>11
    <3> QED BY <1>4, <1>11, <3>1
  <2>2. next # start BY <1>8, <1>11, <2>1
  <2>3. next > start BY <1>4, <1>8, <2>2
  <2>4. First!Extract(text, i) =
          [ok |-> TRUE, value |-> First!Value(text, start, next - 1), next |-> next]
    BY <1>9, <2>3
  <2>5. ~(start > n) BY <1>4, <1>11
  <2>6. ~(start > Len(text)) BY <2>5 DEF n
  <2> QED BY <1>3, <1>7, <2>3, <2>4, <2>6, Zenon DEF ExtractedAt
<1> QED BY <1>4, <1>10, <1>11

\* t is the text of conv after position b, up to p.
Pend(conv, t, b, p) ==
  /\ b \in 0 .. Len(conv.text) /\ p \in b .. Len(conv.text)
  /\ t \in Seq(Chars) /\ Len(t) = p - b
  /\ \A j \in 1 .. p - b : t[j] = conv.text[b + j]

\* After position x number k of challenge i is the next to be read: it is to be
\* written there, or after the white space that follows.
Unread(conv, x, i, k) ==
  \/ conv.marks[x] = Unbegun(i, k)
  \/ /\ x < Len(conv.text)
     /\ conv.text[x + 1] = Space
     /\ conv.marks[x + 1] = Unbegun(i, k)

\* e is that number, read up to position y, or as much of it as there is up to p.
Read(conv, i, k, e, y, b, p) ==
  /\ e.ok = TRUE
  /\ e.next = (y - b) + 1
  /\ e.value \in Nat
  /\ conv.marks[y] = Begun(i, k, e.value)
  /\ conv.text[y] \in Digit
  /\ y < p => conv.text[y + 1] \notin Digit

\* An extraction that starts between two numbers finds nothing but white space,
\* or the digits that have come of the next number.
LEMMA ExtractIs ==
  ASSUME NEW conv, Written(conv), NEW t, NEW b, NEW p, Pend(conv, t, b, p),
         NEW x \in b .. p, NEW i \in Nat \ {0}, NEW k \in Nat, Unread(conv, x, i, k)
  PROVE  \/ /\ First!Extract(t, (x - b) + 1).ok = FALSE
            /\ \A y \in x + 1 .. p : conv.marks[y] = Unbegun(i, k)
         \/ /\ i \in 1 .. Len(conv.challenges)
            /\ \E y \in x + 1 .. p :
                 Read(conv, i, k, First!Extract(t, (x - b) + 1), y, b, p)
<1> DEFINE w == Len(conv.text)
           e == First!Extract(t, (x - b) + 1)
<1>1. /\ w \in Nat /\ b \in 0 .. w /\ p \in b .. w /\ Len(t) = p - b /\ p - b \in Nat
      /\ \A j \in 1 .. p - b : t[j] = conv.text[b + j]
  BY DEF Written, Pend
<1>2. ASSUME NEW j \in 1 .. p - b PROVE t[j] \in Digit \cup {Space}
  <2>1. PICK q \in 0 .. w - 1 : q + 1 = b + j
    <3>1. (b + j) - 1 \in 0 .. w - 1 /\ ((b + j) - 1) + 1 = b + j BY <1>1
    <3> QED BY <3>1
  <2>2. conv.text[q + 1] \in Digit \cup {Space} BY WrittenNext
  <2> QED BY <1>1, <2>1, <2>2
<1>3. (x - b) + 1 \in 1 .. (p - b) + 1 BY <1>1
<1>4. PICK start : ExtractedAt(e, t, (x - b) + 1, start)
  <2>1. \A j \in 1 .. Len(t) : t[j] \in Digit \cup {Space} BY <1>1, <1>2
  <2>2. Len(t) \in Nat /\ (x - b) + 1 \in 1 .. Len(t) + 1 BY <1>1, <1>3
  <2> QED BY <2>1, <2>2, ExtractParts
<1> HIDE DEF e
<1>5. /\ start \in (x - b) + 1 .. (p - b) + 1
      /\ \A j \in (x - b) + 1 .. start - 1 : t[j] = Space
      /\ start <= p - b => t[start] # Space
  BY <1>1, <1>4 DEF IsSkip, ExtractedAt
\* From x to y0 there is white space only.
<1>6. PICK y0 \in x .. p : y0 = (b + start) - 1 /\ start = (y0 - b) + 1
  <2>1. (b + start) - 1 \in x .. p /\ start = (((b + start) - 1) - b) + 1 BY <1>1, <1>5
  <2> QED BY <2>1
<1>7. ASSUME NEW j \in x + 1 .. y0 PROVE conv.text[j] = Space
  <2>1. j - b \in (x - b) + 1 .. start - 1 /\ j - b \in 1 .. p - b /\ b + (j - b) = j
    BY <1>1, <1>6
  <2>2. t[j - b] = conv.text[b + (j - b)] /\ t[j - b] = Space BY <1>1, <1>5, <2>1
  <2> QED BY <2>1, <2>2
<1>8. ASSUME y0 > x \/ x < p
      PROVE  conv.marks[y0] = Unbegun(i, k) /\ \A y \in x + 1 .. y0 : conv.marks[y] = Unbegun(i, k)
  <2>1. CASE conv.marks[x] = Unbegun(i, k)
    <3>1. x \in 0 .. w /\ y0 \in x .. w /\ y0 \in x .. y0 /\ i \in Nat BY <1>1
    <3>2. \A j \in x .. y0 : conv.marks[j] = Unbegun(i, k)
      BY <1>7, <2>1, <3>1, Spaces
    <3> QED BY <1>1, <3>1, <3>2
  <2>2. CASE x < w /\ conv.text[x + 1] = Space /\ conv.marks[x + 1] = Unbegun(i, k)
    <3>1. y0 > x
      <4>1. ASSUME y0 = x PROVE FALSE
        <5>1. x < p BY <1>1, <1>8, <4>1
        <5>2. start \in 1 .. p - b /\ b + start = x + 1 BY <1>1, <1>6, <4>1, <5>1
        <5>3. t[start] = conv.text[x + 1] /\ start <= p - b BY <1>1, <5>2
        <5> QED BY <1>5, <2>2, <5>3
      <4> QED BY <1>1, <4>1
    <3>2. x + 1 \in 0 .. w /\ y0 \in x + 1 .. w BY <1>1, <3>1
    <3>3. \A j \in (x + 1) + 1 .. y0 : conv.text[j] = Space BY <1>1, <1>7
    <3>4. \A j \in x + 1 .. y0 : conv.marks[j] = Unbegun(i, k)
      BY <2>2, <3>2, <3>3, Spaces
    <3> QED BY <3>2, <3>4
  <2> QED BY <2>1, <2>2 DEF Unread
<1>9. CASE start > p - b
  <2>1. y0 = p BY <1>1, <1>6, <1>9
  <2>2. e.ok = FALSE BY <1>1, <1>4, <1>9 DEF ExtractedAt
  <2>3. ASSUME NEW y \in x + 1 .. p PROVE conv.marks[y] = Unbegun(i, k)
    <3>1. y0 > x BY <1>1, <2>1
    <3> QED BY <1>8, <2>1, <3>1
  <2> QED BY <2>2, <2>3 DEF e
<1>10. CASE start <= p - b
  <2>1. PICK next : /\ IsSkip(next, t, start, Digit) /\ next > start
                    /\ e = [ok |-> TRUE, value |-> First!Value(t, start, next - 1),
                            next |-> next]
    BY <1>1, <1>4, <1>10 DEF ExtractedAt
  <2>2. /\ next \in start .. (p - b) + 1
        /\ \A j \in start .. next - 1 : t[j] \in Digit
        /\ next <= p - b => t[next] \notin Digit
    BY <1>1, <2>1 DEF IsSkip
  <2>3. y0 < p BY <1>1, <1>6, <1>10
  <2>4. conv.marks[y0] = Unbegun(i, k)
    <3>1. x < p BY <1>1, <2>3
    <3> QED BY <1>8, <3>1
  <2>5. PICK m \in Nat \ {0} : m = next - start /\ y0 + m <= p
    <3>1. next - start \in Nat \ {0} /\ y0 + (next - start) <= p BY <1>1, <1>6, <2>1, <2>2
    <3> QED BY <3>1
  <2>6. start \in Nat /\ next - 1 \in Nat /\ start <= next - 1
        /\ ((next - 1) - start) + 1 = m /\ start # 0
    BY <1>1, <1>5, <2>1, <2>2, <2>5
  <2>7. PICK v : /\ IsValue(v, t, start, next - 1)
                 /\ First!Value(t, start, next - 1) = v[((next - 1) - start) + 1]
    BY <2>6, ValueIs
  <2>8. ASSUME NEW d \in 1 .. m
        PROVE  /\ t[start + d - 1] = conv.text[y0 + d]
               /\ t[start + d - 1] \in Digit
    <3>1. /\ start + d - 1 \in start .. next - 1 /\ start + d - 1 \in 1 .. p - b
          /\ b + (start + d - 1) = y0 + d
      BY <1>1, <1>6, <2>2, <2>5, <2>6
    <3> QED BY <1>1, <2>2, <3>1
  <2>9. DigitsFrom(v, conv.text, y0, m)
    <3>1. /\ v[0] = 0
          /\ \A d \in 1 .. m : v[d] = 10 * v[d - 1] + t[start + d - 1]
      BY <2>6, <2>7, Zenon DEF IsValue
    <3>2. ASSUME NEW d \in 1 .. m
          PROVE  v[d] = 10 * v[d - 1] + conv.text[y0 + d] /\ conv.text[y0 + d] \in Digit
      <4>1. v[d] = 10 * v[d - 1] + t[start + d - 1] BY <3>1, Zenon
      <4> QED BY <2>8, <4>1, Zenon
    <3> QED BY <3>1, <3>2, Zenon DEF DigitsFrom
  <2>10. /\ i \in 1 .. Len(conv.challenges)
         /\ v[m] \in Nat
         /\ conv.marks[y0 + m] = Begun(i, k, v[m])
    <3>1. y0 \in 0 .. w /\ y0 + m <= w BY <1>1, <1>6, <2>5
    <3> QED BY <2>4, <2>9, <3>1, DigitRun
  <2>11. PICK y \in x + 1 .. p : y = y0 + m /\ next = (y - b) + 1
    <3>1. y0 + m \in x + 1 .. p /\ next = ((y0 + m) - b) + 1
      BY <1>1, <1>6, <2>2, <2>5, <2>6
    <3> QED BY <3>1
  <2>12. conv.text[y] \in Digit
    <3>1. m \in 1 .. m OBVIOUS
    <3> QED BY <2>8, <2>11, <3>1
  <2>13. ASSUME y < p PROVE conv.text[y + 1] \notin Digit
    <3>1. next \in 1 .. p - b /\ next <= p - b /\ b + next = y + 1
      BY <1>1, <2>11, <2>13
    <3>2. t[next] = conv.text[b + next] BY <1>1, <3>1, Zenon
    <3> QED BY <2>2, <3>1, <3>2
  <2>14. e.ok = TRUE /\ e.next = (y - b) + 1 /\ e.value = v[m]
    BY <2>1, <2>6, <2>7, <2>11
  <2>15. Read(conv, i, k, e, y, b, p)
    BY <2>10, <2>11, <2>12, <2>13, <2>14 DEF Read
  <2> QED BY <2>10, <2>15 DEF e
<1>11. start > p - b \/ start <= p - b BY <1>1, <1>5
<1> QED BY <1>9, <1>10, <1>11

-----------------------------------------------------------------------------
(* The numbers of a challenge, one after the other.                        *)

\* numbers are the first n numbers of text.
IsExtracts(numbers, text, n) ==
  /\ DOMAIN numbers = 0 .. n
  /\ numbers[0] = [ok |-> TRUE, value |-> 0, next |-> 1]
  /\ \A k \in 1 .. n : numbers[k] = First!Extract(text, numbers[k - 1].next)

\* Extracts is extraction after extraction.
LEMMA ExtractsAre ==
  ASSUME NEW text, NEW n \in Nat
  PROVE  IsExtracts(First!Extracts(text, n), text, n)
<1> DEFINE a == [ok |-> TRUE, value |-> 0, next |-> 1]
           step(x) == First!Extract(text, x.next)
           Is(f, m) == f = [k \in 0 .. m |-> IF k = 0 THEN a ELSE step(f[k - 1])]
           S == {m \in 0 .. n : \E f : Is(f, m)}
           numbers == CHOOSE f : Is(f, n)
<1>1. First!Extracts(text, n) = numbers
  BY DEF First!Extracts
<1>2. \A x : step(x) = First!Extract(text, x.next) OBVIOUS
<1> HIDE DEF step, a
<1>4. 0 \in S
  <2> DEFINE f == [k \in 0 .. 0 |-> a]
  <2>1. Is(f, 0) OBVIOUS
  <2> HIDE DEF Is
  <2> QED BY <2>1
<1>5. ASSUME NEW k \in 1 .. n, k - 1 \in S PROVE k \in S
  <2>1. PICK f : Is(f, k - 1) BY <1>5
  <2> DEFINE h == [j \in 0 .. k |-> IF j = k THEN step(f[k - 1]) ELSE f[j]]
  <2>2. \A j \in 0 .. k - 1 : f[j] = IF j = 0 THEN a ELSE step(f[j - 1])
    BY <2>1
  <2>3. ASSUME NEW j \in 0 .. k
        PROVE  h[j] = IF j = 0 THEN a ELSE step(h[j - 1])
    <3>1. CASE j = 0 BY <2>2, <3>1
    <3>2. CASE j # 0
      <4>1. j - 1 \in 0 .. k /\ j - 1 # k BY <3>2
      <4>2. h[j - 1] = f[j - 1] BY <4>1
      <4>3. h[j] = step(f[j - 1])
        <5>1. CASE j = k BY <5>1
        <5>2. CASE j # k
          <6>1. j \in 0 .. k - 1 BY <5>2
          <6>2. h[j] = f[j] BY <5>2
          <6> HIDE DEF h
          <6> QED BY <2>2, <3>2, <6>1, <6>2
        <5> QED BY <5>1, <5>2
      <4> HIDE DEF h
      <4> QED BY <3>2, <4>2, <4>3
    <3> QED BY <3>1, <3>2
  <2>4. h = [j \in 0 .. k |-> h[j]] OBVIOUS
  <2>5. Is(h, k)
    <3> HIDE DEF h
    <3> QED BY <2>3, <2>4
  <2> HIDE DEF Is, h
  <2> QED BY <2>5
<1>6. n \in S
  <2> HIDE DEF S
  <2>1. 0 .. n \subseteq S BY <1>4, <1>5, CountUp
  <2> QED BY <2>1
<1>7. Is(numbers, n)
  <2> HIDE DEF Is
  <2> QED BY <1>6
<1> HIDE DEF numbers
<1>8. DOMAIN numbers = 0 .. n
      /\ \A k \in 0 .. n : numbers[k] = IF k = 0 THEN a ELSE step(numbers[k - 1])
  BY <1>7
<1>9. numbers[0] = a BY <1>8
<1>10. ASSUME NEW k \in 1 .. n PROVE numbers[k] = First!Extract(text, numbers[k - 1].next)
  <2>1. k \in 0 .. n /\ k # 0 OBVIOUS
  <2>2. numbers[k] = step(numbers[k - 1]) BY <1>8, <2>1
  <2> QED BY <1>2, <2>2
<1>11. IsExtracts(numbers, text, n) BY <1>8, <1>9, <1>10, Zenon DEF IsExtracts, a
<1> QED BY <1>1, <1>11

\* At the end of pending there is no number.
LEMMA ExtractEnd ==
  ASSUME NEW conv, Written(conv), NEW t, NEW b, NEW p, Pend(conv, t, b, p)
  PROVE  First!Extract(t, (p - b) + 1).ok = FALSE
<1>1. /\ Len(conv.text) \in Nat /\ b \in 0 .. Len(conv.text) /\ p \in b .. Len(conv.text)
      /\ Len(t) = p - b /\ p - b \in Nat
      /\ \A j \in 1 .. p - b : t[j] = conv.text[b + j]
  BY DEF Written, Pend
<1>2. ASSUME NEW j \in 1 .. Len(t) PROVE t[j] \in Digit \cup {Space}
  <2>1. PICK q \in 0 .. Len(conv.text) - 1 : q + 1 = b + j
    <3>1. (b + j) - 1 \in 0 .. Len(conv.text) - 1 /\ ((b + j) - 1) + 1 = b + j BY <1>1
    <3> QED BY <3>1
  <2>2. conv.text[q + 1] \in Digit \cup {Space} BY WrittenNext
  <2> QED BY <1>1, <2>1, <2>2
<1>3. PICK start : ExtractedAt(First!Extract(t, (p - b) + 1), t, (p - b) + 1, start)
  <2>1. Len(t) \in Nat /\ (p - b) + 1 \in 1 .. Len(t) + 1 BY <1>1
  <2> QED BY <1>2, <2>1, ExtractParts
<1>4. start > Len(t)
  <2>1. start \in (p - b) + 1 .. Len(t) + 1 BY <1>3 DEF ExtractedAt, IsSkip
  <2> QED BY <1>1, <2>1
<1> QED BY <1>3, <1>4 DEF ExtractedAt

\* While a number of challenge i is missing, the challenge is not at its end.
LEMMA MissingNumber ==
  ASSUME NEW conv, Written(conv), NEW x, NEW p \in 0 .. Len(conv.text), x \in 0 .. p,
         NEW i \in 1 .. Len(conv.challenges), NEW k \in Nat, Unread(conv, x, i, k),
         \A y \in x + 1 .. p : conv.marks[y] = Unbegun(i, k)
  PROVE  p < conv.ends[i] - 1
<1>1. Len(conv.text) \in Nat BY DEF Written
<1>2. CASE x < p
  <2>1. p \in x + 1 .. p BY <1>1, <1>2
  <2> QED BY <2>1, NotYet
<1>3. CASE x = p
  <2>1. CASE conv.marks[x] = Unbegun(i, k) BY <1>3, <2>1, NotYet
  <2>2. CASE x < Len(conv.text) /\ conv.marks[x + 1] = Unbegun(i, k)
    <3>1. PICK q \in 0 .. Len(conv.text) : q = p + 1 /\ conv.marks[q] = Unbegun(i, k)
      <4>1. p + 1 \in 0 .. Len(conv.text) BY <1>1, <1>3, <2>2
      <4> QED BY <1>3, <2>2, <4>1
    <3>2. q < conv.ends[i] - 1 BY <3>1, NotYet
    <3>3. conv.ends[i] \in 1 .. Len(conv.text) BY WrittenChallenge
    <3> QED BY <1>1, <3>1, <3>2, <3>3
  <2> QED BY <2>1, <2>2 DEF Unread
<1> QED BY <1>1, <1>2, <1>3

\* k numbers of challenge i have been read.
Reading(conv, i, numbers, k, b, p) ==
  /\ \A j \in 1 .. k : numbers[j].ok = TRUE
  /\ \A j \in 1 .. k - 1 : numbers[j].value = NumberOf(conv.challenges[i], j)
  /\ k = 0 => numbers[0].next = 1
  /\ k # 0 => \E y \in b + k .. p : Read(conv, i, k, numbers[k], y, b, p)

\* A number after which there is white space is the whole of number k.
LEMMA WholeNumber ==
  ASSUME NEW conv, Written(conv), NEW y \in 0 .. Len(conv.text) - 1,
         NEW i \in 1 .. Len(conv.challenges), NEW k \in Nat, NEW v \in Nat,
         conv.marks[y] = Begun(i, k, v), conv.text[y + 1] \notin Digit
  PROVE  /\ v = NumberOf(conv.challenges[i], k)
         /\ Unread(conv, y, i, k + 1) \/ k + 1 > NumberCount(conv.challenges[i])
         /\ conv.text[y + 1] = Space
         /\ conv.marks[y + 1] = At(conv.challenges, i, k + 1)
<1>1. /\ conv.text[y + 1] = Space
      /\ v = NumberOf(conv.challenges[i], k)
      /\ conv.marks[y + 1] = At(conv.challenges, i, k + 1)
  BY NextBegun
<1>2. CASE k + 1 <= NumberCount(conv.challenges[i])
  <2>1. conv.marks[y + 1] = Unbegun(i, k + 1) BY <1>1, <1>2 DEF At
  <2>2. y < Len(conv.text) BY DEF Written
  <2> QED BY <1>1, <2>1, <2>2 DEF Unread
<1>3. CASE ~(k + 1 <= NumberCount(conv.challenges[i]))
  <2>1. k + 1 > NumberCount(conv.challenges[i]) BY <1>3, WrittenChallenge
  <2> QED BY <1>1, <2>1
<1> QED BY <1>2, <1>3

\* The extraction of number k reads it, unless it has yet to come.
LEMMA ReadNext ==
  ASSUME NEW conv, Written(conv), NEW t, NEW b, NEW p, Pend(conv, t, b, p),
         NEW i \in 1 .. Len(conv.challenges), Unread(conv, b, i, 1),
         NEW numbers, NEW k \in 1 .. NumberCount(conv.challenges[i]),
         numbers[k] = First!Extract(t, numbers[k - 1].next),
         Reading(conv, i, numbers, k - 1, b, p)
  PROVE  \/ Reading(conv, i, numbers, k, b, p)
         \/ numbers[k].ok = FALSE /\ p < conv.ends[i] - 1
<1> DEFINE w == Len(conv.text)
           chs == conv.challenges
<1>1. /\ w \in Nat /\ b \in 0 .. w /\ p \in b .. w /\ p \in 0 .. w
      /\ NumberCount(chs[i]) \in Nat /\ Len(chs) \in Nat
      /\ i \in Nat \ {0} /\ k \in Nat /\ k - 1 \in Nat
  <2>1. NumberCount(chs[i]) \in Nat BY WrittenChallenge
  <2>2. w \in Nat /\ b \in 0 .. w /\ p \in b .. w /\ Len(chs) \in Nat
    BY DEF Written, Pend, IsConversation
  <2> QED BY <2>1, <2>2
<1>2. \/ numbers[k].ok = FALSE /\ p < conv.ends[i] - 1
      \/ /\ \E y \in b + k .. p : Read(conv, i, k, numbers[k], y, b, p)
         /\ k > 1 => numbers[k - 1].value = NumberOf(chs[i], k - 1)
  <2>1. CASE k = 1
    <3>1. b \in b .. p /\ (b - b) + 1 = 1 BY <1>1
    <3>2. numbers[k] = First!Extract(t, (b - b) + 1)
      BY <2>1, <3>1 DEF Reading
    <3>3. CASE /\ numbers[k].ok = FALSE
               /\ \A y \in b + 1 .. p : conv.marks[y] = Unbegun(i, k)
      <4>1. b \in 0 .. p BY <1>1
      <4>2. p < conv.ends[i] - 1 BY <1>1, <2>1, <3>3, <4>1, MissingNumber
      <4> QED BY <3>3, <4>2
    <3>4. CASE \E y \in b + 1 .. p : Read(conv, i, k, numbers[k], y, b, p)
      BY <2>1, <3>4
    <3> QED BY <1>1, <2>1, <3>1, <3>2, <3>3, <3>4, ExtractIs
  <2>2. CASE k > 1
    <3>1. PICK y \in b + (k - 1) .. p : Read(conv, i, k - 1, numbers[k - 1], y, b, p)
      <4>1. k - 1 # 0 BY <2>2
      <4> QED BY <4>1 DEF Reading
    <3>2. PICK v \in Nat :
            /\ v = numbers[k - 1].value
            /\ numbers[k - 1].next = (y - b) + 1
            /\ conv.marks[y] = Begun(i, k - 1, v)
            /\ y < p => conv.text[y + 1] \notin Digit
      BY <3>1 DEF Read
    <3>3. CASE y = p
      <4>1. numbers[k].ok = FALSE BY <3>2, <3>3, ExtractEnd
      <4>2. k - 1 < NumberCount(chs[i]) BY <1>1
      <4>3. p < conv.ends[i] - 1 BY <1>1, <3>2, <3>3, <4>2, NotLast
      <4> QED BY <4>1, <4>3
    <3>4. CASE y < p
      <4>1. y \in 0 .. w - 1 /\ y \in b .. p /\ y \in 0 .. p BY <1>1, <2>2, <3>4
      <4>2. conv.text[y + 1] \notin Digit BY <3>2, <3>4
      <4>3. /\ v = NumberOf(chs[i], k - 1)
            /\ Unread(conv, y, i, (k - 1) + 1) \/ (k - 1) + 1 > NumberCount(chs[i])
        <5>1. PICK l \in Nat : l = k - 1 BY <1>1
        <5>2. conv.marks[y] = Begun(i, l, v) BY <3>2, <5>1
        <5>3. /\ v = NumberOf(chs[i], l)
              /\ Unread(conv, y, i, l + 1) \/ l + 1 > NumberCount(chs[i])
          BY <4>1, <4>2, <5>2, WholeNumber
        <5> QED BY <5>1, <5>3
      <4>4. (k - 1) + 1 = k /\ ~(k > NumberCount(chs[i])) BY <1>1
      <4>5. Unread(conv, y, i, k) BY <4>3, <4>4
      <4>6. numbers[k] = First!Extract(t, (y - b) + 1) BY <3>2
      <4>7. CASE /\ numbers[k].ok = FALSE
                 /\ \A z \in y + 1 .. p : conv.marks[z] = Unbegun(i, k)
        <5>1. p < conv.ends[i] - 1 BY <1>1, <4>1, <4>5, <4>7, MissingNumber
        <5> QED BY <4>7, <5>1
      <4>8. CASE \E z \in y + 1 .. p : Read(conv, i, k, numbers[k], z, b, p)
        <5>1. PICK z \in y + 1 .. p : Read(conv, i, k, numbers[k], z, b, p) BY <4>8
        <5>2. z \in b + k .. p BY <1>1, <3>4, <4>1
        <5>3. numbers[k - 1].value = NumberOf(chs[i], k - 1) BY <3>2, <4>3
        <5> QED BY <5>1, <5>2, <5>3
      <4>9. \/ /\ numbers[k].ok = FALSE
               /\ \A z \in y + 1 .. p : conv.marks[z] = Unbegun(i, k)
            \/ \E z \in y + 1 .. p : Read(conv, i, k, numbers[k], z, b, p)
        <5>1. i \in Nat \ {0} /\ k \in Nat /\ y \in b .. p BY <1>1, <4>1
        <5> QED BY <4>5, <4>6, <5>1, ExtractIs, Zenon
      <4> QED BY <4>7, <4>8, <4>9
    <3>5. y = p \/ y < p BY <1>1
    <3> QED BY <3>3, <3>4, <3>5
  <2>3. k = 1 \/ k > 1 BY <1>1
  <2> QED BY <2>1, <2>2, <2>3, Zenon
<1>3. ASSUME /\ \E y \in b + k .. p : Read(conv, i, k, numbers[k], y, b, p)
             /\ k > 1 => numbers[k - 1].value = NumberOf(chs[i], k - 1)
      PROVE  Reading(conv, i, numbers, k, b, p)
  <2>1. numbers[k].ok = TRUE BY <1>3 DEF Read
  <2>2. ASSUME NEW j \in 1 .. k PROVE numbers[j].ok = TRUE
    <3>1. CASE j = k BY <2>1, <3>1
    <3>2. CASE j # k
      <4>1. j \in 1 .. k - 1 BY <1>1, <3>2
      <4> QED BY <4>1 DEF Reading
    <3> QED BY <3>1, <3>2
  <2>3. ASSUME NEW j \in 1 .. k - 1 PROVE numbers[j].value = NumberOf(chs[i], j)
    <3>1. CASE j = k - 1
      <4>1. k > 1 BY <1>1, <3>1
      <4> QED BY <1>3, <3>1, <4>1
    <3>2. CASE j # k - 1
      <4>1. j \in 1 .. (k - 1) - 1 BY <1>1, <3>2
      <4> QED BY <4>1 DEF Reading
    <3> QED BY <3>1, <3>2
  <2>4. k # 0 OBVIOUS
  <2> QED BY <1>3, <2>2, <2>3, <2>4 DEF Reading
<1> QED BY <1>2, <1>3

\* Number after number, all those that have come are read.
LEMMA AllRead ==
  ASSUME NEW conv, Written(conv), NEW t, NEW b, NEW p, Pend(conv, t, b, p),
         NEW i \in 1 .. Len(conv.challenges), Unread(conv, b, i, 1),
         NEW numbers, NEW m \in Nat, IsExtracts(numbers, t, m),
         NEW K \in 0 .. m, K <= NumberCount(conv.challenges[i])
  PROVE  \/ Reading(conv, i, numbers, K, b, p)
         \/ (\E j \in 1 .. K : numbers[j].ok = FALSE) /\ p < conv.ends[i] - 1
<1> DEFINE P(k) == \/ Reading(conv, i, numbers, k, b, p)
                   \/ (\E j \in 1 .. k : numbers[j].ok = FALSE) /\ p < conv.ends[i] - 1
           S == {k \in 0 .. K : P(k)}
<1>1. P(0)
  <2>1. numbers[0].next = 1 BY DEF IsExtracts
  <2> QED BY <2>1 DEF Reading
<1>2. ASSUME NEW k \in 1 .. K, P(k - 1) PROVE P(k)
  <2>1. CASE Reading(conv, i, numbers, k - 1, b, p)
    <3>1. k \in 1 .. NumberCount(conv.challenges[i]) BY WrittenChallenge
    <3>2. numbers[k] = First!Extract(t, numbers[k - 1].next) BY DEF IsExtracts
    <3>3. \/ Reading(conv, i, numbers, k, b, p)
          \/ numbers[k].ok = FALSE /\ p < conv.ends[i] - 1
      BY <2>1, <3>1, <3>2, ReadNext
    <3>4. k \in 1 .. k OBVIOUS
    <3> QED BY <3>3, <3>4
  <2>2. CASE (\E j \in 1 .. k - 1 : numbers[j].ok = FALSE) /\ p < conv.ends[i] - 1
    BY <2>2
  <2> QED BY <1>2, <2>1, <2>2
<1> HIDE DEF P
<1>3. 0 .. K \subseteq S
  <2>1. 0 \in S BY <1>1
  <2>2. ASSUME NEW k \in 1 .. K, k - 1 \in S PROVE k \in S BY <1>2, <2>2
  <2>3. K \in Nat OBVIOUS
  <2> HIDE DEF S
  <2> QED BY <2>1, <2>2, <2>3, CountUp
<1>4. P(K)
  <2>1. K \in 0 .. K OBVIOUS
  <2> QED BY <1>3, <2>1
<1> QED BY <1>4 DEF P

-----------------------------------------------------------------------------
(* What the first client parses is the next challenge.                     *)

\* A portion that ends with position p ends within the last number of a challenge.
Cuts(conv, p) ==
  \E k \in 1 .. Len(conv.challenges) :
    /\ p < conv.ends[k] - 1
    /\ \A j \in p .. conv.ends[k] - 1 : conv.text[j] \in Digit

\* The last number of a challenge that recv() does not cut ends with white space.
LEMMA LastNumber ==
  ASSUME NEW conv, Written(conv), NEW p \in 0 .. Len(conv.text), ~Cuts(conv, p),
         NEW y \in 0 .. p, NEW i \in 1 .. Len(conv.challenges), NEW v \in Nat,
         conv.marks[y] = Begun(i, NumberCount(conv.challenges[i]), v),
         conv.text[y] \in Digit, y < p => conv.text[y + 1] \notin Digit
  PROVE  y \in 0 .. Len(conv.text) - 1 /\ conv.text[y + 1] \notin Digit
<1> DEFINE w == Len(conv.text)
           chs == conv.challenges
<1>1. w \in Nat /\ Len(chs) \in Nat /\ i \in Nat BY DEF Written, IsConversation
<1>2. PICK e \in 1 .. w, count \in Nat :
        /\ e = conv.ends[i] /\ count = NumberCount(chs[i])
        /\ \A q \in 0 .. w : q >= e <=> conv.marks[q].challenge > i
  BY WrittenChallenge
<1>3. CASE y < p BY <1>1, <1>3
<1>4. CASE y = p
  <2>1. conv.marks[p] = Begun(i, count, v) /\ conv.marks[p].challenge = i
    BY <1>2, <1>4, BegunOf
  <2>2. p < e BY <1>1, <1>2, <2>1
  <2>3. SUFFICES ASSUME conv.text[p + 1] \in Digit PROVE FALSE
    BY <1>1, <1>4, <2>2
  <2> DEFINE P(q) == conv.text[q] \in Digit /\ \E u \in Nat : conv.marks[q] = Begun(i, count, u)
             S == {m \in 0 .. (e - 1) - p : P(p + m)}
  <2>4. (e - 1) - p \in Nat BY <1>1, <2>2
  <2>5. ASSUME NEW q \in 0 .. w - 1, P(q), q + 1 < e \/ conv.text[q + 1] \in Digit
        PROVE  P(q + 1) /\ q + 1 < e
    <3>1. PICK u \in Nat : conv.marks[q] = Begun(i, count, u) BY <2>5
    <3>2. \/ /\ conv.text[q + 1] \notin Digit
             /\ conv.marks[q + 1] = At(chs, i, count + 1)
          \/ /\ conv.text[q + 1] \in Digit
             /\ conv.marks[q + 1] = Begun(i, count, 10 * u + conv.text[q + 1])
      BY <3>1, NextBegun
    <3>3. q + 1 \in 0 .. w BY <1>1
    <3>4. CASE /\ conv.text[q + 1] \notin Digit
               /\ conv.marks[q + 1] = At(chs, i, count + 1)
      <4>1. At(chs, i, count + 1) = Unbegun(i + 1, 1)
        <5>1. ~(count + 1 <= NumberCount(chs[i])) BY <1>2
        <5> QED BY <5>1 DEF At, Beginning, Unbegun
      <4>2. conv.marks[q + 1].challenge = i + 1 BY <3>4, <4>1, UnbegunOf
      <4>3. q + 1 >= e BY <1>1, <1>2, <3>3, <4>2
      <4> QED BY <1>1, <2>5, <3>4, <4>3
    <3>5. CASE /\ conv.text[q + 1] \in Digit
               /\ conv.marks[q + 1] = Begun(i, count, 10 * u + conv.text[q + 1])
      <4>1. conv.marks[q + 1].challenge = i BY <3>5, BegunOf
      <4>2. q + 1 < e BY <1>1, <1>2, <3>3, <4>1
      <4>3. PICK c \in Digit : c = conv.text[q + 1] BY <3>5
      <4>4. 10 * u + c \in Nat BY DEF Digit
      <4>5. conv.marks[q + 1] = Begun(i, count, 10 * u + c) BY <3>5, <4>3, Zenon
      <4> QED BY <3>5, <4>2, <4>4, <4>5
    <3> QED BY <3>2, <3>4, <3>5
  <2>6. P(p) BY <1>4, <2>1
  <2>7. p \in 0 .. w - 1 /\ p + 1 < e
    <3>1. p \in 0 .. w - 1 BY <1>1, <2>2
    <3> QED BY <2>3, <2>5, <2>6, <3>1
  <2> HIDE DEF P
  <2>8. 0 \in S
    <3>1. p + 0 = p BY <1>1
    <3> QED BY <2>4, <2>6, <3>1
  <2>9. ASSUME NEW m \in 1 .. (e - 1) - p, m - 1 \in S PROVE m \in S
    <3>1. PICK q \in 0 .. w - 1 : q = p + (m - 1) /\ q + 1 = p + m /\ q + 1 < e
      <4>1. /\ p + (m - 1) \in 0 .. w - 1 /\ (p + (m - 1)) + 1 = p + m
            /\ (p + (m - 1)) + 1 < e
        BY <1>1, <2>2
      <4> QED BY <4>1
    <3>2. P(q) BY <2>9, <3>1
    <3>3. P(q + 1) BY <2>5, <3>1, <3>2
    <3> QED BY <2>4, <3>1, <3>3
  <2>10. 0 .. (e - 1) - p \subseteq S
    <3> HIDE DEF S
    <3> QED BY <2>4, <2>8, <2>9, CountUp
  <2>11. ASSUME NEW j \in p .. e - 1 PROVE conv.text[j] \in Digit
    <3>1. j - p \in 0 .. (e - 1) - p /\ p + (j - p) = j BY <1>1
    <3>2. P(p + (j - p)) BY <2>10, <3>1
    <3>3. P(j) BY <3>1, <3>2
    <3> QED BY <3>3 DEF P
  <2>12. p < e - 1 BY <1>1, <2>7
  <2> QED BY <1>2, <2>11, <2>12 DEF Cuts
<1> QED BY <1>1, <1>3, <1>4

\* The challenge parsed, and how far it goes.
Parsed(conv, r, i, b, p) ==
  /\ r.ok = TRUE
  /\ r.job \in Jobs
  /\ SameChallenge(r.job, conv.challenges[i])
  /\ \E c \in b + 4 .. p : r.consumed = c - b /\ Unread(conv, c, i + 1, 1)

\* What is skipped after the last number is white space before the next challenge.
LEMMA ConsumedIs ==
  ASSUME NEW conv, Written(conv), NEW t, NEW b, NEW p, Pend(conv, t, b, p),
         NEW y \in b .. p, NEW i \in Nat,
         y < Len(conv.text), conv.text[y + 1] = Space, conv.marks[y + 1] = Unbegun(i, 1)
  PROVE  \E c \in y .. p : /\ First!Consumed(t, (y - b) + 1) = c - b
                           /\ Unread(conv, c, i, 1)
<1> DEFINE w == Len(conv.text)
           s == First!Skip(t, (y - b) + 1, {First!Space})
<1>1. /\ w \in Nat /\ b \in 0 .. w /\ p \in b .. w /\ Len(t) = p - b /\ p - b \in Nat
      /\ \A j \in 1 .. p - b : t[j] = conv.text[b + j]
  BY DEF Written, Pend
<1>2. First!Consumed(t, (y - b) + 1) = s - 1 BY DEF First!Consumed
<1>3. /\ s \in (y - b) + 1 .. (p - b) + 1
      /\ \A j \in (y - b) + 1 .. s - 1 : t[j] = Space
  <2>1. First!Space = Space BY DEF First!Space, Space
  <2>2. (y - b) + 1 \in 1 .. Len(t) + 1 /\ Len(t) \in Nat BY <1>1
  <2>3. IsSkip(s, t, (y - b) + 1, {Space}) BY <2>1, <2>2, SkipIs
  <2> QED BY <1>1, <2>3 DEF IsSkip
<1> HIDE DEF s
<1>4. PICK c \in y .. p : c = (b + s) - 1 /\ s - 1 = c - b
  <2>1. (b + s) - 1 \in y .. p /\ s - 1 = ((b + s) - 1) - b BY <1>1, <1>3
  <2> QED BY <2>1
<1>5. CASE c = y BY <1>1, <1>2, <1>4, <1>5 DEF Unread
<1>6. CASE c > y
  <2>1. ASSUME NEW j \in (y + 1) + 1 .. c PROVE conv.text[j] = Space
    <3>1. j - b \in (y - b) + 1 .. s - 1 /\ j - b \in 1 .. p - b /\ b + (j - b) = j
      BY <1>1, <1>4
    <3>2. t[j - b] = conv.text[b + (j - b)] /\ t[j - b] = Space BY <1>1, <1>3, <3>1
    <3> QED BY <3>1, <3>2
  <2>2. y + 1 \in 0 .. w /\ c \in y + 1 .. w /\ 1 \in Nat BY <1>1, <1>6
  <2>3. \A j \in y + 1 .. c : conv.marks[j] = Unbegun(i, 1)
    BY <2>1, <2>2, Spaces
  <2>4. conv.marks[c] = Unbegun(i, 1) BY <2>2, <2>3
  <2> QED BY <1>2, <1>4, <2>4 DEF Unread
<1> QED BY <1>1, <1>5, <1>6

\* The number of cells of a matrix.
LEMMA Squares ==
  ASSUME NEW n \in Nat
  PROVE  n * n \in Nat /\ (n > 0 => n * n > 0)
OBVIOUS

\* A job with the numbers of challenge ch is ch.
JobOf(numbers, ch) ==
  LET cells == ch.size * ch.size
  IN [challenge_id |-> numbers[1].value,
      N |-> ch.size,
      A |-> [c \in 0 .. cells - 1 |-> numbers[3 + c].value],
      B |-> [c \in 0 .. cells - 1 |-> numbers[3 + cells + c].value]]

\* The numbers of a challenge, in order, make its job.
LEMMA JobRight ==
  ASSUME NEW ch, IsChallenge(ch, kMaxMatrixDim), NEW numbers,
         \A j \in 1 .. NumberCount(ch) : numbers[j].value = NumberOf(ch, j)
  PROVE  JobOf(numbers, ch) \in Jobs /\ SameChallenge(JobOf(numbers, ch), ch)
<1> DEFINE cells == ch.size * ch.size
           a == [c \in 0 .. cells - 1 |-> numbers[3 + c].value]
           bb == [c \in 0 .. cells - 1 |-> numbers[3 + cells + c].value]
<1>1. /\ cells \in Nat /\ cells > 0 /\ NumberCount(ch) = 2 + 2 * cells
      /\ NumberOf(ch, 1) = ch.cid /\ NumberOf(ch, 2) = ch.size
      /\ \A c \in 0 .. cells - 1 :
              /\ NumberOf(ch, 3 + c) = ch.cellsA[c + 1]
              /\ NumberOf(ch, 3 + cells + c) = ch.cellsB[c + 1]
  BY NumbersInOrder
<1>2. /\ ch.cid \in Nat /\ ch.size \in 0 .. kMaxMatrixDim
      /\ ch.cellsA \in [1 .. cells -> Nat] /\ ch.cellsB \in [1 .. cells -> Nat]
  BY ConstantsAssumption DEF IsChallenge
<1>3. JobOf(numbers, ch) =
        [challenge_id |-> numbers[1].value, N |-> ch.size, A |-> a, B |-> bb]
  BY DEF JobOf
<1>4. {[0 .. n * n - 1 -> Int] : n \in 0 .. kMaxMatrixDim} = {[0 .. n * n - 1 -> Int] : n \in 0 .. kMaxMatrixDim}
      /\ [0 .. cells - 1 -> Int] \in {[0 .. n * n - 1 -> Int] : n \in 0 .. kMaxMatrixDim}
  BY <1>2
<1> HIDE DEF cells
<1>5. ASSUME NEW c \in 0 .. cells - 1
      PROVE  /\ numbers[3 + c].value = ch.cellsA[c + 1]
             /\ numbers[3 + cells + c].value = ch.cellsB[c + 1]
             /\ ch.cellsA[c + 1] \in Int /\ ch.cellsB[c + 1] \in Int
  <2>1. /\ 3 + c \in 1 .. NumberCount(ch) /\ 3 + cells + c \in 1 .. NumberCount(ch)
        /\ c + 1 \in 1 .. cells
    BY <1>1
  <2>2. numbers[3 + c].value = NumberOf(ch, 3 + c) BY <2>1, Zenon
  <2>3. numbers[3 + cells + c].value = NumberOf(ch, 3 + cells + c) BY <2>1, Zenon
  <2>4. ch.cellsA[c + 1] \in Nat /\ ch.cellsB[c + 1] \in Nat BY <1>2, <2>1
  <2> QED BY <1>1, <2>2, <2>3, <2>4
<1>6. numbers[1].value = ch.cid
  <2>1. 1 \in 1 .. NumberCount(ch) BY <1>1
  <2> QED BY <1>1, <2>1
<1>7. a \in [0 .. cells - 1 -> Int] /\ bb \in [0 .. cells - 1 -> Int] BY <1>5
<1>8. \A c \in 0 .. cells - 1 : a[c] = ch.cellsA[c + 1] /\ bb[c] = ch.cellsB[c + 1]
  BY <1>5
<1> HIDE DEF a, bb
<1>9. a \in Matrices /\ bb \in Matrices BY <1>4, <1>7, Zenon DEF Matrices
<1>10. JobOf(numbers, ch) \in Jobs
  <2>1. ch.cid \in Int /\ ch.size \in Int BY <1>2, ConstantsAssumption
  <2> QED BY <1>3, <1>6, <1>9, <2>1 DEF Jobs
<1>11. SameChallenge(JobOf(numbers, ch), ch)
  BY <1>3, <1>6, <1>8 DEF SameChallenge, cells
<1> QED BY <1>10, <1>11

\* Of a challenge at the beginning of pending, all is parsed or its last digit has
\* yet to come.
LEMMA ParseIs ==
  ASSUME NEW conv, Written(conv), NEW t, NEW b, NEW p, Pend(conv, t, b, p),
         NEW i \in 1 .. Len(conv.challenges), Unread(conv, b, i, 1), ~Cuts(conv, p)
  PROVE  \/ First!ParseChallenge(t).ok = FALSE /\ p < conv.ends[i] - 1
         \/ Parsed(conv, First!ParseChallenge(t), i, b, p)
<1> DEFINE ch == conv.challenges[i]
           header == First!Extracts(t, 2)
           size == header[2].value
           cells == size * size
           m == 2 + 2 * cells
           numbers == First!Extracts(t, m)
           r == First!ParseChallenge(t)
           last == numbers[m].next
           job == [challenge_id |-> header[1].value,
                   N |-> size,
                   A |-> [c \in 0 .. cells - 1 |-> numbers[3 + c].value],
                   B |-> [c \in 0 .. cells - 1 |-> numbers[3 + cells + c].value]]
<1>1. r = IF ~First!AllOk(header) \/ size <= 0 \/ m > Len(t) \/ ~First!AllOk(numbers)
          THEN [ok |-> FALSE]
          ELSE [ok |-> TRUE, job |-> job, consumed |-> First!Consumed(t, last)]
  BY DEF First!ParseChallenge, First!Failed
<1>2. /\ Len(conv.text) \in Nat /\ b \in 0 .. Len(conv.text) /\ p \in b .. Len(conv.text)
      /\ Len(t) = p - b /\ p - b \in Nat /\ p \in 0 .. Len(conv.text)
      /\ Len(conv.challenges) \in Nat /\ i \in Nat
  BY DEF Written, Pend, IsConversation
<1>3. /\ IsChallenge(ch, kMaxMatrixDim)
      /\ NumberCount(ch) \in Nat /\ NumberCount(ch) >= 4
      /\ NumberOf(ch, 2) = ch.size
      /\ ch.size \in Nat /\ ch.size > 0
  <2>1. IsChallenge(ch, kMaxMatrixDim) /\ NumberCount(ch) \in Nat /\ NumberCount(ch) >= 4
    BY WrittenChallenge
  <2>2. NumberOf(ch, 2) = ch.size
    BY <2>1, NumbersInOrder
  <2>3. ch.size \in 1 .. kMaxMatrixDim BY <2>1 DEF IsChallenge
  <2> QED BY <2>1, <2>2, <2>3, ConstantsAssumption
<1>9. NumberCount(ch) = 2 + 2 * (ch.size * ch.size) BY <1>3, NumbersInOrder
<1>4. ASSUME NEW f, NEW l, NEW j \in 0 .. l, IsExtracts(f, t, l), f[j].ok = FALSE
      PROVE  ~First!AllOk(f)
  <2>1. j \in DOMAIN f BY <1>4 DEF IsExtracts
  <2>2. ~f[j].ok BY <1>4
  <2> QED BY <2>1, <2>2, Zenon DEF First!AllOk
<1>5. IsExtracts(header, t, 2) BY ExtractsAre
<1> HIDE DEF header, r, ch
<1>6. CASE (\E j \in 1 .. 2 : header[j].ok = FALSE) /\ p < conv.ends[i] - 1
  <2>1. ~First!AllOk(header)
    <3>1. PICK j \in 0 .. 2 : header[j].ok = FALSE BY <1>6
    <3> QED BY <1>4, <1>5, <3>1, Zenon
  <2>2. r = [ok |-> FALSE] BY <1>1, <2>1, Zenon
  <2>3. r.ok = FALSE BY <2>2
  <2> QED BY <1>6, <2>3 DEF r
<1>7. CASE Reading(conv, i, header, 2, b, p)
  <2>1. PICK y2 \in b + 2 .. p : Read(conv, i, 2, header[2], y2, b, p)
    BY <1>7 DEF Reading
  <2>2. /\ size \in Nat /\ header[2].next = (y2 - b) + 1
        /\ conv.marks[y2] = Begun(i, 2, size)
        /\ y2 < p => conv.text[y2 + 1] \notin Digit
    BY <2>1 DEF Read
  <2>3. PICK sz \in Nat : sz = size BY <2>2
  <2>4. PICK cs \in Nat : cs = cells /\ (sz > 0 => cs > 0) BY <2>3, Squares
  <2>5. PICK k \in Nat : k = m /\ k = 2 + 2 * cs BY <2>4
  <2>6. IsExtracts(numbers, t, k) BY <2>5, ExtractsAre
  <2> HIDE DEF size, cells, m, numbers, last, job
  <2>7. CASE y2 = p
    <3>1. p < conv.ends[i] - 1
      <4>1. 2 < NumberCount(conv.challenges[i]) /\ 2 \in Nat BY <1>3 DEF ch
      <4>2. conv.marks[p] = Begun(i, 2, sz) BY <2>2, <2>3, <2>7
      <4> QED BY <1>2, <4>1, <4>2, NotLast
    <3>2. CASE size <= 0
      <4>1. r = [ok |-> FALSE] BY <1>1, <3>2, Zenon
      <4>2. r.ok = FALSE BY <4>1
      <4> QED BY <3>1, <4>2 DEF r
    <3>3. CASE ~(size <= 0)
      <4>1. k >= 4 BY <2>3, <2>4, <2>5, <3>3
      <4>2. /\ header[0] = [ok |-> TRUE, value |-> 0, next |-> 1]
            /\ header[1] = First!Extract(t, header[0].next)
            /\ header[2] = First!Extract(t, header[1].next)
        <5>1. 1 \in 1 .. 2 /\ 2 \in 1 .. 2 /\ 1 - 1 = 0 /\ 2 - 1 = 1 OBVIOUS
        <5> QED BY <1>5, <5>1 DEF IsExtracts
      <4>3. /\ numbers[0] = [ok |-> TRUE, value |-> 0, next |-> 1]
            /\ numbers[1] = First!Extract(t, numbers[0].next)
            /\ numbers[2] = First!Extract(t, numbers[1].next)
            /\ numbers[3] = First!Extract(t, numbers[2].next)
        <5>1. /\ 1 \in 1 .. k /\ 2 \in 1 .. k /\ 3 \in 1 .. k
              /\ 1 - 1 = 0 /\ 2 - 1 = 1 /\ 3 - 1 = 2
          BY <4>1
        <5> QED BY <2>6, <5>1 DEF IsExtracts
      <4>4. numbers[2] = header[2] BY <4>2, <4>3
      <4>5. numbers[3].ok = FALSE BY <2>2, <2>7, <4>3, <4>4, ExtractEnd
      <4>6. ~First!AllOk(numbers)
        <5>1. 3 \in 0 .. k BY <4>1
        <5> QED BY <1>4, <2>6, <4>5, <5>1, Zenon
      <4>7. r = [ok |-> FALSE] BY <1>1, <4>6, Zenon
      <4>8. r.ok = FALSE BY <4>7
      <4> QED BY <3>1, <4>8 DEF r
    <3> QED BY <3>2, <3>3
  <2>8. CASE y2 < p
    <3>1. sz = ch.size /\ k = NumberCount(ch)
      <4>1. y2 \in 0 .. Len(conv.text) - 1 /\ conv.text[y2 + 1] \notin Digit /\ 2 \in Nat
        BY <1>2, <2>2, <2>8
      <4>2. conv.marks[y2] = Begun(i, 2, sz) BY <2>2, <2>3
      <4>3. sz = NumberOf(conv.challenges[i], 2) BY <4>1, <4>2, WholeNumber
      <4>4. sz = ch.size BY <1>3, <4>3 DEF ch
      <4>5. cs = ch.size * ch.size BY <2>3, <2>4, <4>4 DEF cells
      <4> QED BY <1>9, <2>5, <4>4, <4>5
    <3>2. \/ Reading(conv, i, numbers, k, b, p)
          \/ (\E j \in 1 .. k : numbers[j].ok = FALSE) /\ p < conv.ends[i] - 1
      <4>1. k \in 0 .. k /\ k <= NumberCount(conv.challenges[i]) BY <3>1 DEF ch
      <4> QED BY <2>6, <4>1, AllRead
    <3>3. CASE (\E j \in 1 .. k : numbers[j].ok = FALSE) /\ p < conv.ends[i] - 1
      <4>1. ~First!AllOk(numbers)
        <5>1. PICK j \in 0 .. k : numbers[j].ok = FALSE BY <3>3
        <5> QED BY <1>4, <2>6, <5>1, Zenon
      <4>2. r = [ok |-> FALSE] BY <1>1, <4>1, Zenon
      <4>3. r.ok = FALSE BY <4>2
      <4> QED BY <3>3, <4>3 DEF r
    <3>4. CASE Reading(conv, i, numbers, k, b, p)
      <4>1. PICK y \in b + k .. p : Read(conv, i, k, numbers[k], y, b, p)
        <5>1. k # 0 BY <2>5
        <5> QED BY <3>4, <5>1 DEF Reading
      <4>2. PICK v \in Nat :
              /\ v = numbers[k].value /\ numbers[k].next = (y - b) + 1
              /\ conv.marks[y] = Begun(i, k, v) /\ conv.text[y] \in Digit
              /\ y < p => conv.text[y + 1] \notin Digit
        BY <4>1 DEF Read
      <4>3. y \in 0 .. p /\ y \in b .. p /\ k >= 4 BY <1>2, <1>3, <3>1
      <4>4. y \in 0 .. Len(conv.text) - 1 /\ conv.text[y + 1] \notin Digit
        <5>1. conv.marks[y] = Begun(i, NumberCount(conv.challenges[i]), v)
          BY <3>1, <4>2 DEF ch
        <5> QED BY <1>2, <4>2, <4>3, <5>1, LastNumber
      <4>5. /\ v = NumberOf(ch, k) /\ conv.text[y + 1] = Space
            /\ conv.marks[y + 1] = Unbegun(i + 1, 1)
        <5>1. /\ v = NumberOf(ch, k) /\ conv.text[y + 1] = Space
              /\ conv.marks[y + 1] = At(conv.challenges, i, k + 1)
          BY <1>2, <4>2, <4>4, WholeNumber DEF ch
        <5>2. ~(k + 1 <= NumberCount(conv.challenges[i])) BY <3>1 DEF ch
        <5>3. At(conv.challenges, i, k + 1) = Unbegun(i + 1, 1)
          BY <5>2 DEF At, Beginning, Unbegun
        <5> QED BY <5>1, <5>3
      <4>6. First!AllOk(header)
        <5>1. \A j \in DOMAIN header : header[j].ok = TRUE
          <6>1. header[0].ok = TRUE BY <1>5 DEF IsExtracts
          <6>2. \A j \in 1 .. 2 : header[j].ok = TRUE BY <1>7 DEF Reading
          <6>3. DOMAIN header = 0 .. 2 BY <1>5 DEF IsExtracts
          <6> QED BY <6>1, <6>2, <6>3
        <5> QED BY <5>1 DEF First!AllOk
      <4>7. First!AllOk(numbers)
        <5>1. \A j \in DOMAIN numbers : numbers[j].ok = TRUE
          <6>1. numbers[0].ok = TRUE BY <2>6 DEF IsExtracts
          <6>2. \A j \in 1 .. k : numbers[j].ok = TRUE BY <3>4 DEF Reading
          <6>3. DOMAIN numbers = 0 .. k BY <2>6 DEF IsExtracts
          <6> QED BY <6>1, <6>2, <6>3
        <5> QED BY <5>1 DEF First!AllOk
      <4>8. ~(size <= 0) BY <1>3, <2>3, <3>1
      <4>9. ~(m > Len(t)) BY <1>2, <2>5, <4>3
      <4>10. r = [ok |-> TRUE, job |-> job, consumed |-> First!Consumed(t, last)]
        BY <1>1, <4>6, <4>7, <4>8, <4>9, Zenon
      <4>11. \A j \in 1 .. NumberCount(ch) : numbers[j].value = NumberOf(ch, j)
        <5>1. ASSUME NEW j \in 1 .. k PROVE numbers[j].value = NumberOf(ch, j)
          <6>1. CASE j = k BY <4>2, <4>5, <6>1
          <6>2. CASE j # k
            <7>1. j \in 1 .. k - 1 BY <6>2
            <7> QED BY <3>4, <7>1 DEF Reading, ch
          <6> QED BY <6>1, <6>2
        <5> QED BY <3>1, <5>1
      <4>12. job = JobOf(numbers, ch)
        <5>1. header[1].value = numbers[1].value
          <6>1. 1 \in 1 .. 2 - 1 OBVIOUS
          <6>2. header[1].value = NumberOf(ch, 1) BY <1>7, <6>1 DEF Reading, ch
          <6>3. 1 \in 1 .. NumberCount(ch) BY <1>3
          <6> QED BY <4>11, <6>2, <6>3
        <5>2. size = ch.size /\ cells = ch.size * ch.size BY <2>3, <3>1 DEF cells
        <5> QED BY <5>1, <5>2, Zenon DEF job, JobOf
      <4>13. job \in Jobs /\ SameChallenge(job, ch) BY <1>3, <4>11, <4>12, JobRight
      <4>14. PICK c \in y .. p : /\ First!Consumed(t, (y - b) + 1) = c - b
                                 /\ Unread(conv, c, i + 1, 1)
        <5>1. y < Len(conv.text) /\ i + 1 \in Nat BY <1>2, <4>4
        <5> QED BY <4>3, <4>5, <5>1, ConsumedIs
      <4>15. last = (y - b) + 1 BY <2>5, <4>2 DEF last
      <4>16. r.ok = TRUE /\ r.job = job /\ r.consumed = c - b
        <5>1. r.consumed = First!Consumed(t, last) /\ r.ok = TRUE /\ r.job = job BY <4>10
        <5> QED BY <4>14, <4>15, <5>1
      <4>17. c \in b + 4 .. p BY <1>2, <4>3
      <4>18. Parsed(conv, r, i, b, p)
        BY <4>13, <4>14, <4>16, <4>17 DEF Parsed, ch
      <4> QED BY <4>18 DEF r
    <3> QED BY <3>2, <3>3, <3>4
  <2>9. y2 = p \/ y2 < p BY <1>2
  <2> QED BY <2>7, <2>8, <2>9
<1>8. \/ Reading(conv, i, header, 2, b, p)
      \/ (\E j \in 1 .. 2 : header[j].ok = FALSE) /\ p < conv.ends[i] - 1
  <2>1. 2 \in 0 .. 2 /\ 2 \in Nat /\ 2 <= NumberCount(conv.challenges[i])
    BY <1>3 DEF ch
  <2> QED BY <1>5, <2>1, AllRead
<1> QED BY <1>6, <1>7, <1>8

\* After the last challenge there is none.
LEMMA ParseNothing ==
  ASSUME NEW conv, Written(conv), NEW t, NEW b, NEW p, Pend(conv, t, b, p),
         Unread(conv, b, Len(conv.challenges) + 1, 1)
  PROVE  First!ParseChallenge(t).ok = FALSE
<1> DEFINE header == First!Extracts(t, 2)
           i == Len(conv.challenges) + 1
<1>1. First!AllOk(header) \/ First!ParseChallenge(t) = [ok |-> FALSE]
  BY DEF First!ParseChallenge, First!Failed
<1>2. IsExtracts(header, t, 2) BY ExtractsAre
<1> HIDE DEF header
<1>3. header[1] = First!Extract(t, 1)
  <2>1. 1 \in 1 .. 2 /\ 1 - 1 = 0 OBVIOUS
  <2>2. header[1] = First!Extract(t, header[0].next) /\ header[0].next = 1
    BY <1>2, <2>1 DEF IsExtracts
  <2> QED BY <2>2
<1>4. header[1].ok = FALSE
  <2>1. /\ Len(conv.challenges) \in Nat /\ b \in b .. p /\ (b - b) + 1 = 1
        /\ i \in Nat \ {0} /\ 1 \in Nat /\ ~(i \in 1 .. Len(conv.challenges))
        /\ Unread(conv, b, i, 1)
    BY DEF Written, Pend, IsConversation
  <2>2. \/ First!Extract(t, (b - b) + 1).ok = FALSE
        \/ i \in 1 .. Len(conv.challenges)
    <3> HIDE DEF i
    <3>1. \/ /\ First!Extract(t, (b - b) + 1).ok = FALSE
             /\ \A y \in b + 1 .. p : conv.marks[y] = Unbegun(i, 1)
          \/ /\ i \in 1 .. Len(conv.challenges)
             /\ \E y \in b + 1 .. p :
                  Read(conv, i, 1, First!Extract(t, (b - b) + 1), y, b, p)
      <4>1. b \in b .. p /\ i \in Nat \ {0} /\ 1 \in Nat /\ Unread(conv, b, i, 1)
        BY <2>1
      <4> QED BY <4>1, ExtractIs, Zenon
    <3> QED BY <3>1
  <2> QED BY <1>3, <2>1, <2>2
<1>5. ~First!AllOk(header)
  <2>1. 1 \in DOMAIN header BY <1>2 DEF IsExtracts
  <2>2. ~header[1].ok BY <1>4
  <2> QED BY <2>1, <2>2, Zenon DEF First!AllOk
<1> QED BY <1>1, <1>5

-----------------------------------------------------------------------------
(* The first client answers what has been sent.                            *)

\* The state of the first client.
V1Records == [pending : Seq(Chars), jobs : Seq(Jobs), parsed : BOOLEAN]

\* Client s has answered the challenges before that of which pending, the text
\* up to position p, is the beginning.
Keeps(conv, s, p) ==
  /\ s \in V1Records
  /\ Len(s.jobs) <= Len(conv.challenges)
  /\ \A i \in 1 .. Len(s.jobs) : SameChallenge(s.jobs[i], conv.challenges[i])
  /\ \E b \in 0 .. p : /\ Pend(conv, s.pending, b, p)
                       /\ Unread(conv, b, Len(s.jobs) + 1, 1)

\* No other challenge has come to the last digit of its last number.
UpToDate(conv, s, p) ==
  Len(s.jobs) < Len(conv.challenges) => p < conv.ends[Len(s.jobs) + 1] - 1

\* The fields of that state.
LEMMA V1Record ==
  ASSUME NEW s \in V1Records
  PROVE  /\ s.pending \in Seq(Chars) /\ s.jobs \in Seq(Jobs) /\ s.parsed \in BOOLEAN
         /\ s = [pending |-> s.pending, jobs |-> s.jobs, parsed |-> s.parsed]
         /\ Len(s.pending) \in Nat /\ Len(s.jobs) \in Nat
BY DEF V1Records

\* One turn of the inner loop answers the next challenge, or there is none.
LEMMA AnswerOneIs ==
  ASSUME NEW conv, Written(conv), NEW p, ~Cuts(conv, p), NEW s, Keeps(conv, s, p)
  PROVE  /\ Keeps(conv, First!AnswerOne(s), p)
         /\ First!AnswerOne(s).parsed = s.parsed
         /\ \/ First!AnswerOne(s) = s /\ UpToDate(conv, s, p)
            \/ Len(First!AnswerOne(s).pending) + 4 <= Len(s.pending)
<1> DEFINE n == Len(conv.challenges)
           done == Len(s.jobs)
           t == s.pending
           r == First!ParseChallenge(t)
           s2 == First!AnswerOne(s)
<1>1. PICK b \in 0 .. p : Pend(conv, t, b, p) /\ Unread(conv, b, done + 1, 1)
  BY DEF Keeps
<1>2. /\ Len(conv.text) \in Nat /\ b \in 0 .. Len(conv.text) /\ p \in b .. Len(conv.text)
      /\ t \in Seq(Chars) /\ Len(t) = p - b /\ n \in Nat
      /\ \A j \in 1 .. p - b : t[j] = conv.text[b + j]
  BY <1>1 DEF Written, Pend, IsConversation
<1>3. /\ s \in V1Records /\ done \in Nat /\ done <= n /\ s.jobs \in Seq(Jobs)
      /\ s.parsed \in BOOLEAN
      /\ s = [pending |-> s.pending, jobs |-> s.jobs, parsed |-> s.parsed]
      /\ \A i \in 1 .. done : SameChallenge(s.jobs[i], conv.challenges[i])
  BY V1Record DEF Keeps
<1>4. s2 = IF ~r.ok
           THEN s
           ELSE [s EXCEPT !.pending = SubSeq(t, r.consumed + 1, Len(t)),
                          !.jobs = Append(s.jobs, r.job)]
  BY DEF First!AnswerOne
<1> HIDE DEF r, s2, t
<1>5. CASE r.ok = FALSE /\ (done < n => p < conv.ends[done + 1] - 1)
  <2>1. s2 = s BY <1>4, <1>5
  <2>2. UpToDate(conv, s, p) BY <1>5 DEF UpToDate
  <2> QED BY <2>1, <2>2 DEF s2
<1>6. CASE done < n /\ Parsed(conv, r, done + 1, b, p)
  <2>1. /\ r.ok = TRUE /\ r.job \in Jobs
        /\ SameChallenge(r.job, conv.challenges[done + 1])
    BY <1>6 DEF Parsed
  <2>2. PICK c \in b + 4 .. p : r.consumed = c - b /\ Unread(conv, c, (done + 1) + 1, 1)
    BY <1>6 DEF Parsed
  <2> DEFINE rest == SubSeq(t, (c - b) + 1, p - b)
             jobs == Append(s.jobs, r.job)
  <2>3. s2 = [pending |-> rest, jobs |-> jobs, parsed |-> s.parsed]
    <3>1. s2 = [s EXCEPT !.pending = rest, !.jobs = jobs]
      BY <1>2, <1>4, <2>1, <2>2
    <3> HIDE DEF rest, jobs
    <3> QED BY <1>3, <3>1
  <2>4. /\ rest \in Seq(Chars) /\ Len(rest) = p - c /\ p - c \in Nat
        /\ \A j \in 1 .. p - c : rest[j] = conv.text[c + j]
    <3>1. (c - b) + 1 \in Int /\ p - b \in Int /\ p - c \in Nat BY <1>2
    <3>2. \A j \in (c - b) + 1 .. p - b : t[j] \in Chars
      BY <1>2
    <3>3. /\ rest \in Seq(Chars)
          /\ Len(rest) = IF (c - b) + 1 <= p - b THEN ((p - b) - ((c - b) + 1)) + 1 ELSE 0
          /\ \A j \in 1 .. ((p - b) - ((c - b) + 1)) + 1 : rest[j] = t[(c - b) + 1 + j - 1]
      BY <3>1, <3>2, SubSeqProperties
    <3>4. Len(rest) = p - c BY <1>2, <3>3
    <3>5. ASSUME NEW j \in 1 .. p - c PROVE rest[j] = conv.text[c + j]
      <4>1. /\ j \in 1 .. ((p - b) - ((c - b) + 1)) + 1
            /\ (c - b) + 1 + j - 1 \in 1 .. p - b
            /\ b + ((c - b) + 1 + j - 1) = c + j
        BY <1>2
      <4>2. rest[j] = t[(c - b) + 1 + j - 1] BY <3>3, <4>1, Zenon
      <4>3. t[(c - b) + 1 + j - 1] = conv.text[b + ((c - b) + 1 + j - 1)]
        BY <1>2, <4>1, Zenon
      <4> HIDE DEF rest
      <4> QED BY <4>1, <4>2, <4>3
    <3> HIDE DEF rest
    <3> QED BY <3>1, <3>3, <3>4, <3>5
  <2>5. /\ jobs \in Seq(Jobs) /\ Len(jobs) = done + 1
        /\ \A j \in 1 .. done : jobs[j] = s.jobs[j]
        /\ jobs[done + 1] = r.job
    BY <1>3, <2>1, AppendProperties
  <2> HIDE DEF rest, jobs
  <2>6. s2 \in V1Records /\ s2.jobs = jobs /\ s2.pending = rest /\ s2.parsed = s.parsed
    BY <1>3, <2>3, <2>4, <2>5 DEF V1Records
  <2>7. ASSUME NEW i \in 1 .. Len(jobs) PROVE SameChallenge(jobs[i], conv.challenges[i])
    <3>1. CASE i = done + 1 BY <2>1, <2>5, <3>1
    <3>2. CASE i # done + 1
      <4>1. i \in 1 .. done BY <1>3, <2>5, <3>2
      <4> QED BY <1>3, <2>5, <4>1
    <3> QED BY <3>1, <3>2
  <2>8. c \in 0 .. p /\ Pend(conv, rest, c, p)
    <3>1. c \in 0 .. p /\ c \in 0 .. Len(conv.text) /\ p \in c .. Len(conv.text) BY <1>2
    <3> QED BY <2>4, <3>1 DEF Pend
  <2>9. Unread(conv, c, Len(jobs) + 1, 1) BY <2>2, <2>5
  <2>10. Len(jobs) <= n BY <1>2, <1>3, <1>6, <2>5
  <2>11. Keeps(conv, s2, p)
    <3>1. /\ Len(s2.jobs) <= Len(conv.challenges)
          /\ \A i \in 1 .. Len(s2.jobs) : SameChallenge(s2.jobs[i], conv.challenges[i])
      BY <2>6, <2>7, <2>10
    <3>2. Pend(conv, s2.pending, c, p) /\ Unread(conv, c, Len(s2.jobs) + 1, 1)
      BY <2>6, <2>8, <2>9
    <3> QED BY <2>6, <2>8, <3>1, <3>2, Zenon DEF Keeps
  <2>12. Len(s2.pending) + 4 <= Len(s.pending)
    <3>1. Len(s.pending) = p - b BY <1>2 DEF t
    <3>2. Len(s2.pending) = p - c BY <2>4, <2>6
    <3> QED BY <1>2, <3>1, <3>2
  <2> QED BY <2>6, <2>11, <2>12 DEF s2
<1>7. \/ r.ok = FALSE /\ (done < n => p < conv.ends[done + 1] - 1)
      \/ done < n /\ Parsed(conv, r, done + 1, b, p)
  <2>1. CASE done < n
    <3>1. PICK i \in 1 .. n : i = done + 1
      <4>1. done + 1 \in 1 .. n BY <1>2, <1>3, <2>1
      <4> QED BY <4>1
    <3>2. Unread(conv, b, i, 1) BY <1>1, <3>1
    <3>3. \/ r.ok = FALSE /\ p < conv.ends[i] - 1
          \/ Parsed(conv, r, i, b, p)
      BY <1>1, <3>2, ParseIs DEF r
    <3> QED BY <2>1, <3>1, <3>3
  <2>2. CASE ~(done < n)
    <3>1. done + 1 = n + 1 BY <1>2, <1>3, <2>2
    <3>2. r.ok = FALSE BY <1>1, <3>1, ParseNothing DEF r
    <3> QED BY <2>2, <3>2
  <2> QED BY <2>1, <2>2
<1> QED BY <1>5, <1>6, <1>7

\* The turns of the inner loop.
Turns(s, n) == n = Len(s.pending) \div 4

\* The inner loop is turn after turn.
LEMMA TurnsAre ==
  ASSUME NEW s, NEW n \in Nat, Turns(s, n)
  PROVE  \E f : /\ First!AnswerAll(s) = f[n]
                /\ f[0] = s
                /\ \A k \in 1 .. n : f[k] = First!AnswerOne(f[k - 1])
<1> DEFINE step(x) == First!AnswerOne(x)
           Is(f, m) == f = [k \in 0 .. m |-> IF k = 0 THEN s ELSE step(f[k - 1])]
           S == {m \in 0 .. n : \E f : Is(f, m)}
           after == CHOOSE f : Is(f, Len(s.pending) \div 4)
<1>1. First!AnswerAll(s) = after[Len(s.pending) \div 4]
  BY DEF First!AnswerAll
<1>2. after = CHOOSE f : Is(f, n) BY DEF Turns
<1>3. \A x : step(x) = First!AnswerOne(x) OBVIOUS
<1> HIDE DEF step, after
<1>4. 0 \in S
  <2> DEFINE f == [k \in 0 .. 0 |-> s]
  <2>1. Is(f, 0) OBVIOUS
  <2> HIDE DEF Is
  <2> QED BY <2>1
<1>5. ASSUME NEW k \in 1 .. n, k - 1 \in S PROVE k \in S
  <2>1. PICK f : Is(f, k - 1) BY <1>5
  <2> DEFINE h == [j \in 0 .. k |-> IF j = k THEN step(f[k - 1]) ELSE f[j]]
  <2>2. \A j \in 0 .. k - 1 : f[j] = IF j = 0 THEN s ELSE step(f[j - 1])
    BY <2>1
  <2>3. ASSUME NEW j \in 0 .. k
        PROVE  h[j] = IF j = 0 THEN s ELSE step(h[j - 1])
    <3>1. CASE j = 0 BY <2>2, <3>1
    <3>2. CASE j # 0
      <4>1. j - 1 \in 0 .. k /\ j - 1 # k BY <3>2
      <4>2. h[j - 1] = f[j - 1] BY <4>1
      <4>3. h[j] = step(f[j - 1])
        <5>1. CASE j = k BY <5>1
        <5>2. CASE j # k
          <6>1. j \in 0 .. k - 1 BY <5>2
          <6>2. h[j] = f[j] BY <5>2
          <6> HIDE DEF h
          <6> QED BY <2>2, <3>2, <6>1, <6>2
        <5> QED BY <5>1, <5>2
      <4> HIDE DEF h
      <4> QED BY <3>2, <4>2, <4>3
    <3> QED BY <3>1, <3>2
  <2>4. h = [j \in 0 .. k |-> h[j]] OBVIOUS
  <2>5. Is(h, k)
    <3> HIDE DEF h
    <3> QED BY <2>3, <2>4
  <2> HIDE DEF Is, h
  <2> QED BY <2>5
<1>6. n \in S
  <2> HIDE DEF S
  <2>1. 0 .. n \subseteq S BY <1>4, <1>5, CountUp
  <2> QED BY <2>1
<1>7. Is(after, n)
  <2> HIDE DEF Is
  <2> QED BY <1>2, <1>6
<1>8. \A k \in 0 .. n : after[k] = IF k = 0 THEN s ELSE step(after[k - 1]) BY <1>7
<1>9. after[0] = s BY <1>8
<1>10. ASSUME NEW k \in 1 .. n PROVE after[k] = First!AnswerOne(after[k - 1])
  <2>1. k \in 0 .. n /\ k # 0 OBVIOUS
  <2>2. after[k] = step(after[k - 1]) BY <1>8, <2>1
  <2> QED BY <1>3, <2>2
<1>11. First!AnswerAll(s) = after[n] BY <1>1, Zenon DEF Turns
<1> QED BY <1>9, <1>10, <1>11, Zenon

\* After the inner loop no challenge is left that could have been answered: each
\* turn takes four characters at least, and there are as many turns as that allows.
LEMMA AnswerAllIs ==
  ASSUME NEW conv, Written(conv), NEW p, ~Cuts(conv, p), NEW s, Keeps(conv, s, p)
  PROVE  Keeps(conv, First!AnswerAll(s), p) /\ UpToDate(conv, First!AnswerAll(s), p)
<1>1. PICK l \in Nat : l = Len(s.pending) BY V1Record DEF Keeps
<1>2. PICK n \in Nat : Turns(s, n) /\ l - 4 * n <= 3
  <2>1. l \div 4 \in Nat /\ l - 4 * (l \div 4) <= 3 OBVIOUS
  <2> QED BY <1>1, <2>1 DEF Turns
<1>3. PICK f : /\ First!AnswerAll(s) = f[n]
               /\ f[0] = s
               /\ \A k \in 1 .. n : f[k] = First!AnswerOne(f[k - 1])
  BY <1>2, TurnsAre
<1> DEFINE Stuck(x) == First!AnswerOne(x) = x /\ UpToDate(conv, x, p)
           P(k) == /\ Keeps(conv, f[k], p)
                   /\ Stuck(f[k]) \/ Len(f[k].pending) + 4 * k <= l
           S == {k \in 0 .. n : P(k)}
<1>4. P(0) BY <1>1, <1>3
<1>5. ASSUME NEW k \in 1 .. n, P(k - 1) PROVE P(k)
  <2>1. f[k] = First!AnswerOne(f[k - 1]) /\ Keeps(conv, f[k - 1], p) BY <1>3, <1>5
  <2>2. Keeps(conv, f[k], p) BY <2>1, AnswerOneIs
  <2>3. CASE Stuck(f[k - 1])
    <3>1. f[k] = f[k - 1] BY <2>1, <2>3
    <3> QED BY <2>2, <2>3, <3>1, Zenon
  <2>4. CASE ~Stuck(f[k - 1])
    <3>1. Len(f[k - 1].pending) + 4 * (k - 1) <= l BY <1>5, <2>4
    <3>2. Len(f[k].pending) + 4 <= Len(f[k - 1].pending)
      BY <2>1, <2>4, AnswerOneIs
    <3>3. Len(f[k].pending) \in Nat /\ Len(f[k - 1].pending) \in Nat
      BY <2>1, <2>2, V1Record DEF Keeps
    <3>4. Len(f[k].pending) + 4 * k <= l
      <4>1. PICK c \in Nat, d \in Nat :
              c = Len(f[k].pending) /\ d = Len(f[k - 1].pending)
        BY <3>3
      <4>2. d + 4 * (k - 1) <= l /\ c + 4 <= d BY <3>1, <3>2, <4>1
      <4>3. c + 4 * k <= l BY <4>2
      <4> QED BY <4>1, <4>3
    <3> QED BY <2>2, <3>4
  <2> QED BY <2>3, <2>4
<1> HIDE DEF P
<1>6. 0 .. n \subseteq S
  <2>1. 0 \in S BY <1>4
  <2>2. ASSUME NEW k \in 1 .. n, k - 1 \in S PROVE k \in S BY <1>5, <2>2
  <2> HIDE DEF S
  <2> QED BY <2>1, <2>2, CountUp
<1>7. P(n)
  <2>1. n \in 0 .. n OBVIOUS
  <2> QED BY <1>6, <2>1
<1>8. Keeps(conv, f[n], p) /\ (Stuck(f[n]) \/ Len(f[n].pending) + 4 * n <= l)
  BY <1>7 DEF P
<1>9. UpToDate(conv, f[n], p)
  <2>1. CASE Stuck(f[n]) BY <2>1
  <2>2. CASE Len(f[n].pending) + 4 * n <= l
    <3>1. Keeps(conv, First!AnswerOne(f[n]), p) BY <1>8, AnswerOneIs
    <3>2. Len(f[n].pending) \in Nat /\ Len(First!AnswerOne(f[n]).pending) \in Nat
      BY <1>8, <3>1, V1Record DEF Keeps
    <3>3. ~(Len(First!AnswerOne(f[n]).pending) + 4 <= Len(f[n].pending))
      <4>1. PICK c \in Nat, d \in Nat :
              c = Len(First!AnswerOne(f[n]).pending) /\ d = Len(f[n].pending)
        BY <3>2
      <4>2. d <= 3
        <5>1. d + 4 * n <= l BY <2>2, <4>1, Zenon
        <5>2. l - 4 * n <= 3 BY <1>2
        <5> QED BY <5>1, <5>2
      <4>3. ~(c + 4 <= d) BY <4>2
      <4> QED BY <4>1, <4>3
    <3> QED BY <1>8, <3>3, AnswerOneIs
  <2> QED BY <1>8, <2>1, <2>2
<1> QED BY <1>3, <1>8, <1>9

\* What marks are.
MarkRecords == [challenge : Nat, number : Nat, begun : BOOLEAN, value : Nat]

\* A mark is followed by a mark.
LEMMA AfterMark ==
  ASSUME NEW chs, NEW mark \in MarkRecords, NEW c \in Digit \cup {Space}
  PROVE  After(chs, mark, c) \in MarkRecords
<1>1. PICK i \in Nat, k \in Nat, b \in BOOLEAN, v \in Nat :
        mark = [challenge |-> i, number |-> k, begun |-> b, value |-> v]
  BY DEF MarkRecords
<1>2. CASE c \in Digit
  <2>1. After(chs, mark, c) = [challenge |-> i, number |-> k, begun |-> TRUE, value |-> 10 * v + c]
    BY <1>1, <1>2 DEF After
  <2>2. 10 * v + c \in Nat BY <1>2 DEF Digit
  <2> QED BY <2>1, <2>2 DEF MarkRecords
<1>3. CASE c \notin Digit
  <2>1. \/ After(chs, mark, c) = mark
        \/ After(chs, mark, c) = [challenge |-> i, number |-> k + 1, begun |-> FALSE, value |-> 0]
        \/ After(chs, mark, c) = Beginning(i + 1)
    BY <1>1, <1>3 DEF After
  <2>2. /\ [challenge |-> i, number |-> k + 1, begun |-> FALSE, value |-> 0] \in MarkRecords
        /\ Beginning(i + 1) \in MarkRecords
    BY DEF MarkRecords, Beginning
  <2> QED BY <2>1, <2>2, Zenon
<1> QED BY <1>2, <1>3

\* A text that a server writes has marks all along.
LEMMA MarkIs ==
  ASSUME NEW conv, Written(conv), NEW p \in 0 .. Len(conv.text)
  PROVE  conv.marks[p] \in MarkRecords
<1> DEFINE S == {m \in 0 .. Len(conv.text) : conv.marks[m] \in MarkRecords}
<1>1. Len(conv.text) \in Nat BY DEF Written
<1>2. 0 \in S
  <2>1. conv.marks[0] = Beginning(1) BY DEF Written, IsConversation
  <2>2. Beginning(1) \in MarkRecords BY DEF MarkRecords, Beginning
  <2>3. 0 \in 0 .. Len(conv.text) BY <1>1
  <2> QED BY <2>1, <2>2, <2>3, Zenon
<1>3. ASSUME NEW m \in 1 .. Len(conv.text), m - 1 \in S PROVE m \in S
  <2>1. PICK q \in 0 .. Len(conv.text) - 1 : q = m - 1 /\ q + 1 = m BY <1>1
  <2>2. conv.marks[q] \in MarkRecords BY <1>3, <2>1
  <2>3. conv.marks[q + 1] \in MarkRecords BY <2>2, WrittenNext, AfterMark
  <2> QED BY <1>1, <2>1, <2>3
<1>4. 0 .. Len(conv.text) \subseteq S
  <2> HIDE DEF S
  <2> QED BY <1>1, <1>2, <1>3, CountUp
<1> QED BY <1>4

\* What is sent is what a server writes, without noise.
Plain == FromServer /\ ~\E i \in 1 .. Len(sent.text) : sent.text[i] = Other

\* As long as no recv() has ended within the last number of a challenge, the first
\* client has kept everything, and after its loop it has answered what it could.
V1Inv == ~cut =>
  IF Plain
  THEN Keeps(sent, v1, pos) /\ (v1.parsed => UpToDate(sent, v1, pos))
  ELSE v1.jobs = <<>>

\* What a server sends is written as servers write.
LEMMA PlainWritten == ASSUME TypeOK, StreamInv, Plain PROVE Written(sent)
<1>1. IsConversation(sent, kMaxMatrixDim) BY Sent DEF Plain
<1> QED BY <1>1 DEF Plain, Written, TypeOK

\* At first nothing has been received or answered.
LEMMA V1Initial ==
  ASSUME ParsersInit, TypeOK, StreamInv
  PROVE  V1Inv
<1>1. v1 = [pending |-> <<>>, jobs |-> <<>>, parsed |-> TRUE] /\ pos = 0
  BY DEF ParsersInit, Init
<1>2. CASE ~Plain BY <1>1, <1>2 DEF V1Inv
<1>3. CASE Plain
  <2>1. Written(sent) BY <1>3, PlainWritten
  <2>2. /\ Len(sent.challenges) \in Nat /\ Len(sent.text) \in Nat
        /\ sent.marks[0] = Beginning(1)
    BY <2>1 DEF Written, IsConversation
  <2>3. sent.marks[0] = Unbegun(1, 1) BY <2>2 DEF Beginning, Unbegun
  <2>4. v1.jobs = <<>> /\ v1.pending = <<>> /\ Len(v1.jobs) = 0 /\ Len(v1.pending) = 0
    BY <1>1
  <2>5. v1 \in V1Records
    <3>1. <<>> \in Seq(Chars) /\ <<>> \in Seq(Jobs) OBVIOUS
    <3> QED BY <1>1, <3>1 DEF V1Records
  <2>6. Keeps(sent, v1, pos)
    <3>1. Pend(sent, v1.pending, 0, 0)
      BY <2>2, <2>4, <2>5 DEF Pend, V1Records
    <3>2. Unread(sent, 0, Len(v1.jobs) + 1, 1) BY <2>3, <2>4 DEF Unread
    <3>3. 0 \in 0 .. pos /\ Len(v1.jobs) <= Len(sent.challenges)
          /\ \A i \in 1 .. Len(v1.jobs) : SameChallenge(v1.jobs[i], sent.challenges[i])
      BY <1>1, <2>2, <2>4
    <3> QED BY <1>1, <2>5, <3>1, <3>2, <3>3 DEF Keeps
  <2>7. UpToDate(sent, v1, pos)
    <3>1. SUFFICES ASSUME 0 < Len(sent.challenges) PROVE 0 < sent.ends[1] - 1
      BY <1>1, <2>4 DEF UpToDate
    <3>2. 1 \in 1 .. Len(sent.challenges) /\ 0 \in 0 .. Len(sent.text) /\ 1 \in Nat
      BY <2>2, <3>1
    <3> QED BY <2>1, <2>3, <3>2, NotYet
  <2> QED BY <1>3, <2>6, <2>7 DEF V1Inv
<1> QED BY <1>2, <1>3

\* recv() brings one character more.
LEMMA KeepsMore ==
  ASSUME NEW conv, Written(conv), NEW s, NEW p \in 0 .. Len(conv.text) - 1,
         Keeps(conv, s, p), NEW s2, NEW parsed \in BOOLEAN,
         s2 = [s EXCEPT !.pending = Append(s.pending, conv.text[p + 1]), !.parsed = parsed]
  PROVE  Keeps(conv, s2, p + 1) /\ s2.parsed = parsed
<1>1. PICK b \in 0 .. p : Pend(conv, s.pending, b, p) /\ Unread(conv, b, Len(s.jobs) + 1, 1)
  BY DEF Keeps
<1> DEFINE c == conv.text[p + 1]
           more == Append(s.pending, c)
<1>2. /\ Len(conv.text) \in Nat /\ b \in 0 .. Len(conv.text) /\ p \in b .. Len(conv.text)
      /\ s.pending \in Seq(Chars) /\ Len(s.pending) = p - b /\ p - b \in Nat
      /\ \A j \in 1 .. p - b : s.pending[j] = conv.text[b + j]
  BY <1>1 DEF Written, Pend
<1>3. c \in Chars
  <2>1. conv.text[p + 1] \in Digit \cup {Space} BY WrittenNext
  <2> QED BY <2>1 DEF Chars
<1>4. /\ more \in Seq(Chars) /\ Len(more) = (p - b) + 1
      /\ \A j \in 1 .. p - b : more[j] = s.pending[j]
      /\ more[(p - b) + 1] = c
  BY <1>2, <1>3, AppendProperties
<1>5. ASSUME NEW j \in 1 .. (p + 1) - b PROVE more[j] = conv.text[b + j]
  <2>1. CASE j = (p - b) + 1
    <3>1. b + j = p + 1 BY <1>2, <2>1
    <3> HIDE DEF more
    <3> QED BY <1>4, <2>1, <3>1
  <2>2. CASE j # (p - b) + 1
    <3>1. j \in 1 .. p - b BY <1>2, <2>2
    <3> HIDE DEF more
    <3> QED BY <1>2, <1>4, <3>1
  <2> QED BY <2>1, <2>2
<1>6. s \in V1Records /\ s = [pending |-> s.pending, jobs |-> s.jobs, parsed |-> s.parsed]
      /\ s.jobs \in Seq(Jobs)
  BY V1Record DEF Keeps
<1> HIDE DEF more
<1>7. s2 = [pending |-> more, jobs |-> s.jobs, parsed |-> parsed] BY <1>6 DEF more
<1>8. s2 \in V1Records /\ s2.pending = more /\ s2.jobs = s.jobs /\ s2.parsed = parsed
  <2>1. more \in Seq(Chars) /\ s.jobs \in Seq(Jobs) BY <1>4, <1>6
  <2>2. [pending |-> more, jobs |-> s.jobs, parsed |-> parsed] \in V1Records
    BY <2>1 DEF V1Records
  <2>3. /\ [pending |-> more, jobs |-> s.jobs, parsed |-> parsed].pending = more
        /\ [pending |-> more, jobs |-> s.jobs, parsed |-> parsed].jobs = s.jobs
        /\ [pending |-> more, jobs |-> s.jobs, parsed |-> parsed].parsed = parsed
    OBVIOUS
  <2> QED BY <1>7, <2>2, <2>3, Zenon
<1>9. Pend(conv, more, b, p + 1)
  <2>1. p + 1 \in b .. Len(conv.text) /\ Len(more) = (p + 1) - b BY <1>2, <1>4
  <2> QED BY <1>2, <1>4, <1>5, <2>1 DEF Pend
<1>10. b \in 0 .. p + 1 BY <1>2
<1>11. /\ Len(s.jobs) <= Len(conv.challenges)
       /\ \A i \in 1 .. Len(s.jobs) : SameChallenge(s.jobs[i], conv.challenges[i])
  BY DEF Keeps
<1>12. Keeps(conv, s2, p + 1) BY <1>1, <1>8, <1>9, <1>10, <1>11, Zenon DEF Keeps
<1> QED BY <1>8, <1>12

\* A character more, then the inner loop or not; nothing else touches pending.
LEMMA V1Step ==
  ASSUME TypeOK, StreamInv, V1Inv, [ParsersNext]_parsersVars
  PROVE  V1Inv'
<1>1. ASSUME NEW c \in Chars, Char(c) PROVE V1Inv'
  <2>1. /\ pos \in 0 .. Len(sent.text) - 1 /\ c = sent.text[pos + 1]
        /\ pos' = pos + 1 /\ sent' = sent
    BY <1>1 DEF Char, DigitChar, MinusChar, SpaceChar, OtherChar, Feed, TypeOK
  <2>2. V1Recv(c) BY <1>1 DEF Char
  <2>3. Plain' <=> Plain BY <2>1 DEF Plain, FromServer
  <2>4. CASE ~V1Follows /\ UNCHANGED <<v1, cut>>
    <3>1. cut \/ ~Plain BY <2>4 DEF V1Follows, Plain
    <3> QED BY <2>3, <2>4, <3>1 DEF V1Inv
  <2>5. CASE V1Follows
    <3>1. Plain /\ ~cut BY <2>5 DEF V1Follows, Plain
    <3>2. Written(sent) /\ Keeps(sent, v1, pos) BY <3>1, PlainWritten DEF V1Inv
    <3>3. CASE /\ v1' = [v1 EXCEPT !.pending = Append(@, c), !.parsed = FALSE]
               /\ UNCHANGED cut
      <4>1. v1' = [v1 EXCEPT !.pending = Append(v1.pending, sent.text[pos + 1]),
                             !.parsed = FALSE]
        BY <2>1, <3>3
      <4>2. Keeps(sent, v1', pos + 1) /\ v1'.parsed = FALSE
        BY <2>1, <3>2, <4>1, KeepsMore
      <4> QED BY <2>1, <2>3, <3>1, <4>2 DEF V1Inv
    <3>4. CASE /\ v1' = First!AnswerAll([v1 EXCEPT !.pending = Append(@, c), !.parsed = TRUE])
               /\ cut' = (cut \/ CutsLast(pos + 1))
      <4> DEFINE s == [v1 EXCEPT !.pending = Append(v1.pending, sent.text[pos + 1]),
                                 !.parsed = TRUE]
      <4>1. v1' = First!AnswerAll(s) BY <2>1, <3>4
      <4>2. Keeps(sent, s, pos + 1) BY <2>1, <3>2, KeepsMore
      <4> HIDE DEF s
      <4>3. CASE Cuts(sent, pos + 1)
        <5>1. cut' BY <3>4, <4>3 DEF Cuts, CutsLast
        <5> QED BY <5>1 DEF V1Inv
      <4>4. CASE ~Cuts(sent, pos + 1)
        <5>1. Keeps(sent, v1', pos + 1) /\ UpToDate(sent, v1', pos + 1)
          BY <3>2, <4>1, <4>2, <4>4, AnswerAllIs
        <5> QED BY <2>1, <2>3, <3>1, <5>1 DEF V1Inv
      <4> QED BY <4>3, <4>4
    <3> QED BY <2>2, <2>5, <3>3, <3>4 DEF V1Recv
  <2> QED BY <2>2, <2>4, <2>5 DEF V1Recv
<1>2. CASE Answer /\ UNCHANGED <<team, v1, cut>>
  BY <1>2 DEF Answer, V1Inv, Plain, FromServer
<1>3. CASE UNCHANGED parsersVars
  BY <1>3 DEF parsersVars, vars, V1Inv, Plain, FromServer
<1> QED BY <1>1, <1>2, <1>3 DEF ParsersNext

\* As long as no recv() has ended within the last number of a challenge, the first
\* client has kept all it has not answered, and its inner loop leaves no challenge
\* in pending that has come to its last digit.
THEOREM V1Invariant == ParsersSpec => []V1Inv
<1>1. ParserInv => TypeOK BY DEF ParserInv
<1>2. ParserInv /\ StreamInv /\ ParsersInit => V1Inv BY <1>1, V1Initial
<1>3. ParserInv /\ StreamInv /\ V1Inv /\ [ParsersNext]_parsersVars => V1Inv'
  BY <1>1, V1Step
<1> QED BY <1>2, <1>3, ParsersStep, ParserInvariant, StreamInvariant, PTL DEF ParsersSpec

\* The first client answers the challenges sent, in order and at once, however
\* recv() cuts the stream, unless it cuts the last number of a challenge.
THEOREM FirstClientAgrees == ParsersSpec => []V1Agrees
<1>1. TypeOK /\ StreamInv /\ V1Inv => V1Agrees
  <2> SUFFICES ASSUME TypeOK, StreamInv, V1Inv, ~cut
               PROVE  /\ \A i \in 1 .. Len(v1.jobs) :
                           SameChallenge(v1.jobs[i], sent.challenges[i])
                      /\ V1Follows /\ v1.parsed =>
                           \A i \in 1 .. Len(sent.challenges) :
                             pos >= sent.ends[i] - 1 => Len(v1.jobs) >= i
    BY DEF V1Agrees
  <2>1. CASE ~Plain
    <3>1. v1.jobs = <<>> /\ ~V1Follows BY <2>1 DEF V1Inv, V1Follows, Plain
    <3>2. Len(v1.jobs) = 0 BY <3>1
    <3> QED BY <3>1, <3>2
  <2>2. CASE Plain
    <3>1. Written(sent) BY <2>2, PlainWritten
    <3>2. /\ Keeps(sent, v1, pos)
          /\ v1.parsed => UpToDate(sent, v1, pos)
      BY <2>2 DEF V1Inv
    <3>3. \A i \in 1 .. Len(v1.jobs) : SameChallenge(v1.jobs[i], sent.challenges[i])
      BY <3>2 DEF Keeps
    <3>4. ASSUME v1.parsed, NEW i \in 1 .. Len(sent.challenges), pos >= sent.ends[i] - 1,
                 ~(Len(v1.jobs) >= i)
          PROVE  FALSE
      <4>1. /\ Len(sent.challenges) \in Nat /\ Len(sent.text) \in Nat
            /\ pos \in 0 .. Len(sent.text)
        BY <3>1 DEF Written, IsConversation, TypeOK
      <4>2. Len(v1.jobs) \in Nat BY <3>2, V1Record DEF Keeps
      <4>3. PICK k \in 1 .. Len(sent.challenges) : k = Len(v1.jobs) + 1 /\ k <= i
        <5>1. Len(v1.jobs) + 1 \in 1 .. Len(sent.challenges) /\ Len(v1.jobs) + 1 <= i
          BY <3>4, <4>1, <4>2
        <5> QED BY <5>1
      <4>4. pos < sent.ends[k] - 1 BY <3>2, <3>4, <4>1, <4>2, <4>3 DEF UpToDate
      <4>5. PICK e \in 1 .. Len(sent.text), d \in 1 .. Len(sent.text) :
              /\ e = sent.ends[i] /\ d = sent.ends[k]
              /\ \A p \in 0 .. Len(sent.text) : p >= e <=> sent.marks[p].challenge > i
              /\ \A p \in 0 .. Len(sent.text) : p >= d <=> sent.marks[p].challenge > k
        BY <3>1, WrittenChallenge
      <4>6. d <= e
        <5>1. e \in 0 .. Len(sent.text) /\ sent.marks[e].challenge > i BY <4>1, <4>5
        <5>2. sent.marks[e].challenge \in Nat BY <3>1, <5>1, MarkIs DEF MarkRecords
        <5>3. sent.marks[e].challenge > k BY <4>1, <4>3, <5>1, <5>2
        <5> QED BY <4>1, <4>5, <5>1, <5>3
      <4> QED BY <3>4, <4>1, <4>4, <4>5, <4>6
    <3> QED BY <3>3, <3>4
  <2> QED BY <2>1, <2>2
<1>2. ParserInv => TypeOK BY DEF ParserInv
<1> QED BY <1>1, <1>2, ParsersStep, ParserInvariant, StreamInvariant, V1Invariant, PTL

=============================================================================
