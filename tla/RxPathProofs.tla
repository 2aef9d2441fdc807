---------------------------- MODULE RxPathProofs ----------------------------
(***************************************************************************)
(* What the handling of one frame guarantees whatever frames arrive and    *)
(* whoever the hosts are.  First net_checksum: its two loops are recursive *)
(* functions, which exist (by induction, with sets for predicates) and of  *)
(* which only the recursion equations are used.  Then what is built and    *)
(* verified with it, and the invariant of the receive path.                *)
(***************************************************************************)
EXTENDS RxPath, StackLemmas

-----------------------------------------------------------------------------
(* net_checksum.                                                           *)

\* The running sums of net_checksum's loop.
IsSum(w, f) == f = [i \in 0 .. Len(w) |-> IF i = 0 THEN 0 ELSE f[i - 1] + w[i]]

\* The loop has running sums.
LEMMA SumExists ==
    ASSUME NEW w \in Seq(Nat)
    PROVE  \E f : IsSum(w, f)
<1> DEFINE Sums(n, f) == f = [i \in 0 .. n |-> IF i = 0 THEN 0 ELSE f[i - 1] + w[i]]
           S == {n \in Nat : \E f : Sums(n, f)}
<1>1. 0 \in S
  <2> DEFINE f == [i \in 0 .. 0 |-> 0]
  <2>1. Sums(0, f)
    OBVIOUS
  <2> QED
    BY <2>1
<1>2. ASSUME NEW n \in S
      PROVE  n + 1 \in S
  <2>1. n \in Nat
    OBVIOUS
  <2>2. PICK f : Sums(n, f)
    OBVIOUS
  <2> DEFINE g == [i \in 0 .. n + 1 |-> IF i = n + 1 THEN f[n] + w[n + 1] ELSE f[i]]
  <2>3. ASSUME NEW i \in 0 .. n + 1
        PROVE  g[i] = IF i = 0 THEN 0 ELSE g[i - 1] + w[i]
    <3>1. CASE i = 0
      <4>1. g[0] = f[0] /\ f[0] = 0
        BY <2>1, <2>2
      <4> QED
        BY <3>1, <4>1
    <3>2. CASE i # 0 /\ i = n + 1
      <4>1. g[n] = f[n] /\ g[n + 1] = f[n] + w[n + 1] /\ i - 1 = n
        BY <2>1, <3>2
      <4> QED
        BY <3>2, <4>1
    <3>3. CASE i # 0 /\ i # n + 1
      <4>1. i \in 0 .. n /\ i - 1 \in 0 .. n /\ g[i] = f[i] /\ g[i - 1] = f[i - 1]
        BY <2>1, <3>3
      <4>2. f[i] = f[i - 1] + w[i]
        BY <2>2, <3>3, <4>1
      <4> QED
        BY <3>3, <4>1, <4>2
    <3> QED
      BY <3>1, <3>2, <3>3
  <2>4. Sums(n + 1, g)
    BY <2>3
  <2>5. \E h : Sums(n + 1, h)
    <3> HIDE DEF g
    <3> QED
      BY <2>4
  <2> QED
    BY <2>1, <2>5
<1>3. Len(w) \in Nat
  OBVIOUS
<1>4. \A n \in Nat : n \in S
  <2>1. S \in SUBSET Nat
    OBVIOUS
  <2> HIDE DEF S
  <2> QED
    BY <1>1, <1>2, <2>1, SetInduction
<1>5. \E f : Sums(Len(w), f)
  BY <1>3, <1>4
<1> QED
  BY <1>5 DEF IsSum

\* What the loop computes: running sums that start at 0, of which SumOf is the
\* last.
LEMMA SumLoop ==
    ASSUME NEW w \in Seq(Nat)
    PROVE  \E f : /\ SumOf(w) = f[Len(w)]
                  /\ f[0] = 0
                  /\ \A i \in 1 .. Len(w) : f[i] = f[i - 1] + w[i]
<1>1. PICK g : IsSum(w, g)
  BY SumExists
<1>2. SumOf(w) = (CHOOSE f : IsSum(w, f))[Len(w)]
  BY Zenon DEF SumOf, IsSum
<1>3. IsSum(w, CHOOSE f : IsSum(w, f))
  BY <1>1, Zenon
<1>4. PICK f : SumOf(w) = f[Len(w)] /\ IsSum(w, f)
  BY <1>2, <1>3, Zenon
<1>5. Len(w) \in Nat
  OBVIOUS
<1>6. f[0] = 0
  BY <1>4, <1>5 DEF IsSum
<1>7. ASSUME NEW i \in 1 .. Len(w)
      PROVE  f[i] = f[i - 1] + w[i]
  <2>1. i \in 0 .. Len(w) /\ i # 0
    BY <1>5
  <2> QED
    BY <1>4, <2>1 DEF IsSum
<1> QED
  BY <1>4, <1>6, <1>7

\* A sum of n 16-bit words is a number of at most 65535 n.
LEMMA SumBound ==
    ASSUME NEW w \in Seq(UInt16)
    PROVE  SumOf(w) \in Nat /\ SumOf(w) <= 65535 * Len(w)
<1>1. w \in Seq(Nat) /\ Len(w) \in Nat
  BY DEF UInt16
<1>2. PICK f : /\ SumOf(w) = f[Len(w)]
               /\ f[0] = 0
               /\ \A i \in 1 .. Len(w) : f[i] = f[i - 1] + w[i]
  BY <1>1, SumLoop
<1> DEFINE S == {n \in Nat : n <= Len(w) => f[n] \in Nat /\ f[n] <= 65535 * n}
<1>3. 0 \in S
  BY <1>2
<1>4. ASSUME NEW n \in S
      PROVE  n + 1 \in S
  <2>1. n \in Nat
    OBVIOUS
  <2>2. CASE n + 1 <= Len(w)
    <3>1. f[n] \in Nat /\ f[n] <= 65535 * n
      BY <1>1, <2>1, <2>2
    <3>2. f[n + 1] = f[n] + w[n + 1]
      <4>1. n + 1 \in 1 .. Len(w) /\ (n + 1) - 1 = n
        BY <1>1, <2>1, <2>2
      <4> QED
        BY <1>2, <4>1
    <3>3. w[n + 1] \in Nat /\ w[n + 1] <= 65535
      BY <1>1, <2>1, <2>2 DEF UInt16
    <3> QED
      BY <2>1, <3>1, <3>2, <3>3
  <2> QED
    BY <2>1, <2>2
<1>5. Len(w) \in S
  <2>1. S \in SUBSET Nat
    OBVIOUS
  <2> HIDE DEF S
  <2> QED
    BY <1>1, <1>3, <1>4, <2>1, SetInduction
<1> QED
  BY <1>1, <1>2, <1>5

\* Adding the same on both sides.
LEMMA AddBoth ==
    ASSUME NEW a \in Nat, NEW b \in Nat, NEW c \in Nat, NEW d \in Nat,
           NEW e \in Nat, a + c = b + d
    PROVE  (a + e) + c = (b + e) + d
OBVIOUS

\* Sums of words that differ in one place differ by what is different there.
LEMMA SumDiffers ==
    ASSUME NEW v \in Seq(UInt16), NEW w \in Seq(UInt16), Len(v) = Len(w),
           NEW k \in 1 .. Len(v), \A i \in 1 .. Len(v) : i # k => v[i] = w[i]
    PROVE  SumOf(v) + w[k] = SumOf(w) + v[k]
<1>1. v \in Seq(Nat) /\ w \in Seq(Nat) /\ Len(v) \in Nat
  BY DEF UInt16
<1>7. \A i \in 1 .. Len(v) : v[i] \in Nat /\ w[i] \in Nat
  <2>1. \A i \in 1 .. Len(v) : v[i] \in UInt16 /\ w[i] \in UInt16
    OBVIOUS
  <2> QED
    BY <2>1 DEF UInt16
<1>2. PICK f : /\ SumOf(v) = f[Len(v)]
               /\ f[0] = 0
               /\ \A i \in 1 .. Len(v) : f[i] = f[i - 1] + v[i]
  BY <1>1, SumLoop
<1>3. PICK g : /\ SumOf(w) = g[Len(w)]
               /\ g[0] = 0
               /\ \A i \in 1 .. Len(w) : g[i] = g[i - 1] + w[i]
  BY <1>1, SumLoop
<1> DEFINE S == {n \in Nat : n <= Len(v) =>
                   /\ f[n] \in Nat /\ g[n] \in Nat
                   /\ n < k => f[n] = g[n]
                   /\ k <= n => f[n] + w[k] = g[n] + v[k]}
<1>4. 0 \in S
  BY <1>2, <1>3
<1>5. ASSUME NEW n \in S
      PROVE  n + 1 \in S
  <2>1. n \in Nat /\ k \in Nat
    BY <1>1
  <2>2. CASE n + 1 <= Len(v)
    <3>1. /\ f[n] \in Nat /\ g[n] \in Nat
          /\ n < k => f[n] = g[n]
          /\ k <= n => f[n] + w[k] = g[n] + v[k]
      BY <1>1, <2>1, <2>2
    <3>2. n + 1 \in 1 .. Len(v) /\ (n + 1) - 1 = n
      BY <1>1, <2>1, <2>2
    <3>3. f[n + 1] = f[n] + v[n + 1] /\ g[n + 1] = g[n] + w[n + 1]
      BY <1>2, <1>3, <3>2
    <3>4. v[n + 1] \in Nat /\ w[n + 1] \in Nat /\ v[k] \in Nat /\ w[k] \in Nat
      BY <1>7, <3>2
    <3>5. n + 1 # k => v[n + 1] = w[n + 1]
      BY <3>2
    <3>6. n + 1 < k => f[n + 1] = g[n + 1]
      BY <2>1, <3>1, <3>3, <3>5
    <3>7. ASSUME k <= n + 1
          PROVE  f[n + 1] + w[k] = g[n + 1] + v[k]
      <4>1. CASE k = n + 1
        <5>1. f[n] = g[n]
          BY <2>1, <3>1, <4>1
        <5> QED
          BY <3>1, <3>3, <3>4, <4>1, <5>1
      <4>2. CASE k # n + 1
        <5>1. k <= n
          BY <2>1, <3>7, <4>2
        <5>2. v[n + 1] = w[n + 1] /\ f[n] + w[k] = g[n] + v[k]
          BY <3>1, <3>5, <4>2, <5>1
        <5>3. PICK a \in Nat, b \in Nat, c \in Nat, d \in Nat, e \in Nat :
                 a = f[n] /\ b = g[n] /\ c = w[k] /\ d = v[k] /\ e = w[n + 1]
          BY <3>1, <3>4
        <5>4. (a + e) + c = (b + e) + d
          <6>1. a + c = b + d
            BY <5>2, <5>3
          <6> QED
            BY <6>1, AddBoth
        <5> QED
          BY <3>3, <5>2, <5>3, <5>4, Zenon
      <4> QED
        BY <4>1, <4>2
    <3>8. f[n + 1] \in Nat /\ g[n + 1] \in Nat
      <4>1. \A a, b \in Nat : a + b \in Nat
        OBVIOUS
      <4> QED
        BY <3>1, <3>3, <3>4, <4>1, Zenon
    <3> QED
      BY <2>1, <3>6, <3>7, <3>8
  <2> QED
    BY <2>1, <2>2, <1>1
<1>6. Len(v) \in S
  <2>1. S \in SUBSET Nat
    OBVIOUS
  <2> HIDE DEF S
  <2> QED
    BY <1>1, <1>4, <1>5, <2>1, SetInduction
<1> QED
  BY <1>1, <1>2, <1>3, <1>6

\* The 32-bit sum of net_checksum.
UInt32 == {s \in Nat : s < 65536 * 65536}

\* The halves of a sum; adding them leaves less than 17 bits.
LEMMA Halves ==
    ASSUME NEW s \in Nat
    PROVE  /\ Upper(s) \in Nat /\ Folded(s) \in Nat /\ Folded(s) < 131071
           /\ s < 131071 /\ Upper(s) # 0 => Upper(Folded(s)) = 0
BY DEF Upper, Folded

\* Folding keeps the residue modulo 65535 of a 32-bit sum.
LEMMA FoldedResidue ==
    ASSUME NEW s \in UInt32
    PROVE  /\ s \in Nat
           /\ Upper(s) \in Nat /\ Folded(s) \in Nat
           /\ s = Folded(s) + 65535 * Upper(s)
           /\ Upper(s) = 0 <=> s < 65536
           /\ Upper(s) # 0 => Folded(s) # 0
BY DEF Upper, Folded, UInt32

\* A sum of 17 bits is one of 32 bits.
LEMMA ShortSum ==
    ASSUME NEW s \in Nat, s < 131071
    PROVE  s \in UInt32
BY DEF UInt32

\* The loop that folds, as a function.
IsLoop(f) == f = [s \in Nat |-> IF Upper(s) = 0 THEN s ELSE f[Folded(s)]]

\* The loop ends: after two rounds at most the upper half is 0.
LEMMA LoopExists == \E f : IsLoop(f)
<1> DEFINE f == [s \in Nat |-> IF Upper(s) = 0 THEN s
                               ELSE IF Upper(Folded(s)) = 0 THEN Folded(s)
                               ELSE Folded(Folded(s))]
<1>1. ASSUME NEW s \in Nat
      PROVE  f[s] = IF Upper(s) = 0 THEN s ELSE f[Folded(s)]
  <2>1. PICK t \in Nat : t = Folded(s) /\ t < 131071
    BY Halves
  <2>2. Folded(t) \in Nat /\ (Upper(t) # 0 => Upper(Folded(t)) = 0)
    BY <2>1, Halves
  <2>3. f[s] = IF Upper(s) = 0 THEN s ELSE IF Upper(t) = 0 THEN t ELSE Folded(t)
    BY <2>1
  <2>4. f[t] = IF Upper(t) = 0 THEN t ELSE Folded(t)
    BY <2>2
  <2> QED
    BY <2>1, <2>3, <2>4
<1>2. f = [s \in Nat |-> IF Upper(s) = 0 THEN s ELSE f[Folded(s)]]
  BY <1>1
<1>3. IsLoop(f)
  BY <1>2 DEF IsLoop
<1> HIDE DEF f
<1> QED
  BY <1>3

\* One round of the loop.
LEMMA FoldRound ==
    ASSUME NEW s \in Nat
    PROVE  Fold(s) = IF Upper(s) = 0 THEN s ELSE Fold(Folded(s))
<1>1. \A x : Fold(x) = (CHOOSE f : IsLoop(f))[x]
  BY Zenon DEF Fold, IsLoop
<1>2. IsLoop(CHOOSE f : IsLoop(f))
  BY LoopExists, Zenon
<1>3. PICK f : IsLoop(f) /\ \A x : Fold(x) = f[x]
  BY <1>1, <1>2, Zenon
<1> QED
  BY <1>3 DEF IsLoop

\* Folding a 32-bit sum computes its residue in ones' complement arithmetic,
\* in which 65535 stands for 0 unless the sum is 0.
LEMMA FoldValue ==
    ASSUME NEW s \in UInt32
    PROVE  Fold(s) = IF s = 0 THEN 0 ELSE ((s - 1) % 65535) + 1
<1> DEFINE Residue(n) == IF n = 0 THEN 0 ELSE ((n - 1) % 65535) + 1
<1>1. ASSUME NEW n \in UInt32, n < 65536
      PROVE  Fold(n) = n /\ Residue(n) = n
  <2>1. n \in Nat /\ Upper(n) = 0
    BY <1>1, FoldedResidue
  <2>2. Residue(n) = n
    BY <1>1, <2>1
  <2> QED
    BY <2>1, <2>2, FoldRound
<1>2. ASSUME NEW n \in UInt32, ~ (n < 65536)
      PROVE  /\ Folded(n) \in UInt32
             /\ Fold(n) = Fold(Folded(n)) /\ Residue(n) = Residue(Folded(n))
  <2>1. /\ n \in Nat /\ Upper(n) # 0 /\ Folded(n) # 0 /\ Upper(n) \in Nat
        /\ Folded(n) \in Nat /\ n = Folded(n) + 65535 * Upper(n)
    BY <1>2, FoldedResidue
  <2>2. Folded(n) \in UInt32
    BY <2>1, Halves, ShortSum
  <2>3. PICK t \in Nat, u \in Nat : t = Folded(n) /\ u = Upper(n)
    BY <2>1
  <2>4. n - 1 = (t - 1) + 65535 * u /\ t - 1 \in Nat
    BY <2>1, <2>3
  <2>5. (n - 1) % 65535 = (t - 1) % 65535
    BY <2>4
  <2>6. n # 0
    BY <1>2
  <2>7. Residue(n) = Residue(t)
    BY <2>1, <2>3, <2>5, <2>6
  <2> QED
    BY <2>1, <2>2, <2>3, <2>7, FoldRound
<1>3. CASE s < 65536
  BY <1>1, <1>3
<1>4. CASE ~ (s < 65536)
  <2>1. PICK t \in UInt32 : /\ t = Folded(s) /\ t < 131071
                            /\ Fold(s) = Fold(t) /\ Residue(s) = Residue(t)
    <3>1. s \in Nat
      BY FoldedResidue
    <3> QED
      BY <1>2, <1>4, <3>1, Halves
  <2>2. CASE t < 65536
    BY <1>1, <2>1, <2>2
  <2>3. CASE ~ (t < 65536)
    <3>1. PICK r \in UInt32 : /\ r = Folded(t)
                              /\ Fold(t) = Fold(r) /\ Residue(t) = Residue(r)
      BY <1>2, <2>3
    <3>2. r < 65536
      <4>1. t \in Nat /\ Upper(t) # 0
        BY <2>3, FoldedResidue
      <4>2. Upper(r) = 0
        BY <2>1, <3>1, <4>1, Halves
      <4> QED
        BY <4>2, FoldedResidue
    <3> QED
      BY <1>1, <2>1, <3>1, <3>2
  <2> QED
    BY <2>2, <2>3
<1> QED
  BY <1>3, <1>4

\* A checksum put where there was 0 makes the sum verify.
LEMMA FoldVerifies ==
    ASSUME NEW s \in Nat, s + 65535 \in UInt32
    PROVE  /\ 65535 - Fold(s) \in UInt16
           /\ Fold(s + (65535 - Fold(s))) = 65535
<1>1. s \in UInt32
  BY DEF UInt32
<1>2. PICK r : r = Fold(s) /\ r = IF s = 0 THEN 0 ELSE ((s - 1) % 65535) + 1
  BY <1>1, FoldValue
<1>3. r \in Nat /\ r < 65536
  BY <1>2
<1>4. PICK t : t = s + (65535 - r)
  OBVIOUS
<1>5. t \in Nat /\ t # 0
  BY <1>2, <1>3, <1>4
<1>6. t \in UInt32
  BY <1>3, <1>4, <1>5 DEF UInt32
<1>7. (t - 1) % 65535 = 65534
  <2>1. PICK q \in Nat : s = r + 65535 * q
    <3>1. CASE s = 0
      BY <1>2, <3>1
    <3>2. CASE s # 0
      <4>1. PICK n \in Nat : n = s - 1
        BY <3>2
      <4>2. r = (n % 65535) + 1
        BY <1>2, <3>2, <4>1
      <4>3. n \div 65535 \in Nat /\ n = (n % 65535) + 65535 * (n \div 65535)
        OBVIOUS
      <4>4. s = r + 65535 * (n \div 65535)
        BY <1>3, <4>1, <4>2, <4>3
      <4> QED
        BY <4>3, <4>4
    <3> QED
      BY <3>1, <3>2
  <2>2. t - 1 = 65534 + 65535 * q
    BY <1>3, <1>4, <2>1
  <2> QED
    BY <2>2
<1>8. Fold(t) = 65535
  BY <1>5, <1>6, <1>7, FoldValue
<1>9. 65535 - r \in UInt16
  BY <1>3 DEF UInt16
<1> QED
  BY <1>2, <1>4, <1>8, <1>9

\* A sum that verifies is a multiple of 65535.
LEMMA FoldMultiple ==
    ASSUME NEW s \in UInt32, Fold(s) = 65535
    PROVE  s \in Nat /\ s % 65535 = 0
<1>1. s \in Nat
  BY DEF UInt32
<1>2. 65535 = IF s = 0 THEN 0 ELSE ((s - 1) % 65535) + 1
  BY FoldValue
<1> QED
  BY <1>1, <1>2

\* The sum over a buffer, whose length is a uint16_t, does not overflow its 32
\* bits.
LEMMA SumFits ==
    ASSUME NEW w \in Seq(UInt16), Len(w) <= 32768
    PROVE  SumOf(w) \in Nat /\ SumOf(w) \in UInt32 /\ SumOf(w) + 65535 \in UInt32
<1>1. PICK n \in Nat, s \in Nat : n = Len(w) /\ s = SumOf(w) /\ s <= 65535 * n
  BY SumBound
<1>2. n <= 32768
  BY <1>1
<1>3. s + 65535 < 65536 * 65536
  BY <1>1, <1>2
<1> QED
  BY <1>1, <1>3 DEF UInt32

\* net_checksum is the checksum of RFC 1071, for every buffer.
LEMMA ChecksumIsInternet ==
    ASSUME NEW w \in Seq(UInt16), Len(w) <= 32768
    PROVE  ChecksumOfWords(w) = InternetChecksum(w)
<1>1. SumOf(w) \in UInt32
  BY SumFits
<1> QED
  BY <1>1, FoldValue DEF ChecksumOfWords, InternetChecksum

\* A checksum is a word.
LEMMA ChecksumIsWord ==
    ASSUME NEW w \in Seq(UInt16), Len(w) <= 32768
    PROVE  ChecksumOfWords(w) \in UInt16
BY SumFits, FoldVerifies DEF ChecksumOfWords

\* The checksum, put where there was 0, makes the whole verify.
LEMMA ChecksumVerifies ==
    ASSUME NEW v \in Seq(UInt16), NEW w \in Seq(UInt16),
           Len(v) <= 32768, Len(w) = Len(v),
           NEW k \in 1 .. Len(v), \A i \in 1 .. Len(v) : i # k => v[i] = w[i],
           v[k] = 0, w[k] = ChecksumOfWords(v)
    PROVE  ChecksumOfWords(w) = 0
<1>1. /\ ChecksumOfWords(v) = 65535 - Fold(SumOf(v))
      /\ Fold(SumOf(v) + (65535 - Fold(SumOf(v)))) = 65535
  BY SumFits, FoldVerifies DEF ChecksumOfWords
<1>2. SumOf(v) + w[k] = SumOf(w) + v[k]
  BY SumDiffers
<1>3. SumOf(w) + 0 = SumOf(w)
  BY SumBound
<1>4. SumOf(w) = SumOf(v) + (65535 - Fold(SumOf(v)))
  BY <1>1, <1>2, <1>3
<1>5. Fold(SumOf(w)) = 65535
  BY <1>1, <1>4
<1> QED
  BY <1>5 DEF ChecksumOfWords

\* If two sequences of words verify and differ in one place only, then what is
\* there is the same number modulo 65535.
LEMMA DamageShows ==
    ASSUME NEW v \in Seq(UInt16), NEW w \in Seq(UInt16),
           Len(v) <= 32768, Len(v) = Len(w),
           ChecksumOfWords(v) = 0, ChecksumOfWords(w) = 0,
           NEW k \in 1 .. Len(v), \A i \in 1 .. Len(v) : i # k => v[i] = w[i]
    PROVE  v[k] % 65535 = w[k] % 65535
<1>1. SumOf(v) \in UInt32 /\ SumOf(w) \in UInt32
  BY SumFits
<1>2. Fold(SumOf(v)) = 65535 /\ Fold(SumOf(w)) = 65535
  <2>1. \A s \in UInt32 : Fold(s) \in Nat
    <3> SUFFICES ASSUME NEW s \in UInt32 PROVE Fold(s) \in Nat
      OBVIOUS
    <3>1. s \in Nat
      BY DEF UInt32
    <3> QED
      BY <3>1, FoldValue
  <2> QED
    BY <1>1, <2>1 DEF ChecksumOfWords
<1>3. PICK a \in Nat, b \in Nat, x \in Nat, y \in Nat :
         a = SumOf(v) /\ b = SumOf(w) /\ x = v[k] /\ y = w[k]
  <2>1. v[k] \in UInt16 /\ w[k] \in UInt16
    OBVIOUS
  <2>2. SumOf(v) \in Nat /\ SumOf(w) \in Nat
    BY SumBound
  <2> QED
    BY <2>1, <2>2 DEF UInt16
<1>4. a % 65535 = 0 /\ b % 65535 = 0
  <2>1. SumOf(v) % 65535 = 0 /\ SumOf(w) % 65535 = 0
    BY <1>1, <1>2, FoldMultiple
  <2> QED
    BY <1>3, <2>1
<1>5. a + y = b + x
  <2>1. SumOf(v) + w[k] = SumOf(w) + v[k]
    BY SumDiffers
  <2> QED
    BY <1>3, <2>1
<1>6. x % 65535 = y % 65535
  BY <1>4, <1>5
<1> QED
  BY <1>3, <1>6

\* A buffer of bytes is a sequence of words, half as many.
LEMMA WordsType ==
    ASSUME NEW buf \in Seq(Byte)
    PROVE  WordsOf(buf) \in Seq(UInt16) /\ Len(WordsOf(buf)) = (Len(buf) + 1) \div 2
<1>1. PICK n \in Nat : n = Len(buf)
  OBVIOUS
<1>2. PICK m \in Nat : m = (n + 1) \div 2 /\ 2 * m <= n + 1
  BY <1>1
<1>3. ASSUME NEW i \in 1 .. m
      PROVE  256 * buf[2 * i - 1] + (IF 2 * i <= Len(buf) THEN buf[2 * i] ELSE 0) \in UInt16
  <2>1. 2 * i - 1 \in 1 .. n /\ (2 * i <= n => 2 * i \in 1 .. n)
    BY <1>2
  <2>2. buf[2 * i - 1] \in Byte /\ (2 * i <= n => buf[2 * i] \in Byte)
    BY <1>1, <2>1
  <2>3. PICK hi : hi = buf[2 * i - 1]
    OBVIOUS
  <2>4. PICK lo : lo = IF 2 * i <= Len(buf) THEN buf[2 * i] ELSE 0
    OBVIOUS
  <2>5. hi \in Nat /\ hi < 256 /\ lo \in Nat /\ lo < 256
    BY <1>1, <2>2, <2>3, <2>4 DEF Byte
  <2>6. 256 * hi + lo \in UInt16
    BY <2>5 DEF UInt16
  <2> QED
    BY <2>3, <2>4, <2>6
<1>4. WordsOf(buf) \in [1 .. m -> UInt16]
  BY <1>1, <1>2, <1>3 DEF WordsOf
<1> QED
  BY <1>1, <1>2, <1>4

\* A header is ten words.
LEMMA HeaderWordsType ==
    ASSUME NEW hdr \in Ipv4Header
    PROVE  HeaderWords(hdr) \in Seq(UInt16) /\ Len(HeaderWords(hdr)) = 10
<1>1. /\ hdr.total_length \in UInt16 /\ hdr.identification \in UInt16
      /\ hdr.flags \in UInt16 /\ hdr.header_checksum \in UInt16
      /\ hdr.src \in Addresses /\ hdr.dst \in Addresses
      /\ hdr.version \in Nibble /\ hdr.ihl \in Nibble /\ hdr.dscp_and_ecn \in Byte
      /\ hdr.ttl \in Byte /\ hdr.protocol \in Byte
  BY DEF Ipv4Header
<1>2. /\ hdr.src[1] \in UInt16 /\ hdr.src[2] \in UInt16
      /\ hdr.dst[1] \in UInt16 /\ hdr.dst[2] \in UInt16
  BY <1>1 DEF Addresses
<1>3. 256 * (16 * hdr.version + hdr.ihl) + hdr.dscp_and_ecn \in UInt16
  <2>1. ASSUME NEW v \in Nibble, NEW l \in Nibble, NEW d \in Byte
        PROVE  256 * (16 * v + l) + d \in UInt16
    BY DEF Nibble, Byte, UInt16
  <2> QED
    BY <1>1, <2>1
<1>4. 256 * hdr.ttl + hdr.protocol \in UInt16
  <2>1. ASSUME NEW t \in Byte, NEW p \in Byte
        PROVE  256 * t + p \in UInt16
    BY DEF Byte, UInt16
  <2> QED
    BY <1>1, <2>1
<1> QED
  BY <1>1, <1>2, <1>3, <1>4 DEF HeaderWords

-----------------------------------------------------------------------------
(* What is built with it.                                                  *)

\* What the types of the code say of an IPv4 frame.
LEMMA FrameType ==
    ASSUME NEW f \in Frames, f.ethertype = "ipv4"
    PROVE  /\ f.hdr \in Ipv4Header /\ f.sent \in Ipv4Header
           /\ f.body \in Seq(Byte) /\ Len(f.body) \in Nat /\ Len(f.body) < 65536
           /\ f.len \in Nat /\ f.len < 65536 /\ f.len <= HEADER_LENGTH + Len(f.body)
           /\ f.hdr.total_length \in Nat /\ f.hdr.total_length < 65536
           /\ f.hdr.src \in Addresses
<1>1. /\ f.hdr \in Ipv4Header /\ f.sent \in Ipv4Header
      /\ f.body \in Seq(Byte) /\ Len(f.body) < 65536
      /\ f.len \in UInt16 /\ f.len <= HEADER_LENGTH + Len(f.body)
  BY RxConstants
<1>2. f.hdr.total_length \in UInt16 /\ f.hdr.src \in Addresses
  BY <1>1 DEF Ipv4Header
<1> QED
  BY <1>1, <1>2 DEF UInt16

\* internal_send_ipv4_packet builds a header that verifies.
LEMMA HeaderVerifies ==
    ASSUME NEW h, h.ip \in Addresses, NEW dst \in Addresses,
           NEW number \in Byte, NEW n \in Nat
    PROVE  ChecksumOfWords(HeaderWords(Header(h, dst, number, n))) = 0
<1>1. PICK blank : blank = BlankHeader(h, dst, number, n)
  OBVIOUS
<1>2. blank \in Ipv4Header /\ blank.header_checksum = 0
  <2>1. (HEADER_LENGTH + n) % 65536 \in UInt16
    <3>1. \A k \in Nat : k % 65536 \in Nat /\ k % 65536 < 65536
      OBVIOUS
    <3> QED
      BY <3>1 DEF HEADER_LENGTH, UInt16
  <2>2. /\ 4 \in Nibble /\ HEADER_LENGTH \div 4 \in Nibble /\ 0 \in Byte
        /\ 0 \in UInt16 /\ 2 * 8192 \in UInt16 /\ 128 \in Byte
    BY DEF Nibble, Byte, UInt16, HEADER_LENGTH
  <2> QED
    BY <1>1, <2>1, <2>2 DEF BlankHeader, Ipv4Header
<1>3. PICK sum : sum = ChecksumOfWords(HeaderWords(blank))
  OBVIOUS
<1>4. PICK full : full = [blank EXCEPT !.header_checksum = sum]
  OBVIOUS
<1>5. Header(h, dst, number, n) = full
  BY <1>1, <1>3, <1>4 DEF Header
<1>6. HeaderWords(blank) \in Seq(UInt16) /\ Len(HeaderWords(blank)) = 10
  BY <1>2, HeaderWordsType
<1>7. sum \in UInt16
  <2>1. PICK v : v = HeaderWords(blank)
    OBVIOUS
  <2>2. v \in Seq(UInt16)
    BY <1>6, <2>1
  <2>3. Len(v) <= 32768
    <3>1. Len(v) = 10
      BY <1>6, <2>1
    <3> QED
      BY <3>1
  <2>4. ChecksumOfWords(v) \in UInt16
    BY <2>2, <2>3, ChecksumIsWord
  <2> QED
    BY <1>3, <2>1, <2>4
<1>8. full \in Ipv4Header
  BY <1>2, <1>4, <1>7 DEF Ipv4Header
<1>9. HeaderWords(full) \in Seq(UInt16) /\ Len(HeaderWords(full)) = 10
  BY <1>8, HeaderWordsType
<1>10. /\ HeaderWords(blank)[6] = 0 /\ HeaderWords(full)[6] = sum
       /\ \A i \in 1 .. 10 : i # 6 => HeaderWords(blank)[i] = HeaderWords(full)[i]
  BY <1>2, <1>4 DEF HeaderWords, Ipv4Header
<1> QED
  <2>1. PICK v, w : v = HeaderWords(blank) /\ w = HeaderWords(full)
    OBVIOUS
  <2>2. v \in Seq(UInt16) /\ w \in Seq(UInt16) /\ Len(v) = 10 /\ Len(w) = 10
    BY <1>6, <1>9, <2>1
  <2>3. v[6] = 0 /\ w[6] = ChecksumOfWords(v) /\ \A i \in 1 .. 10 : i # 6 => v[i] = w[i]
    BY <1>3, <1>10, <2>1
  <2>4. v \in Seq(UInt16) /\ w \in Seq(UInt16) /\ Len(v) <= 32768 /\ Len(w) = Len(v)
    BY <2>2
  <2>5. PICK k \in 1 .. Len(v) : /\ v[k] = 0 /\ w[k] = ChecksumOfWords(v)
                                 /\ \A i \in 1 .. Len(v) : i # k => v[i] = w[i]
    BY <2>2, <2>3
  <2>6. ChecksumOfWords(w) = 0
    BY <2>4, <2>5, ChecksumVerifies
  <2> QED
    BY <1>5, <2>1, <2>6

\* The bytes of the reply after its first four.
PingRest(f) == [k \in 1 .. 4 + PayloadLen(f) |-> ByteAt(f, 4 + k)]

\* They are those of the request, and they lie in the frame.
LEMMA PingRestBytes ==
    ASSUME NEW f \in Frames, f.ethertype = "ipv4", IsPing(f),
           f.hdr.total_length <= f.len
    PROVE  /\ PingRest(f) \in Seq(Byte)
           /\ Len(PingRest(f)) = f.hdr.total_length - 24
           /\ f.hdr.total_length >= 28
           /\ \A k \in 1 .. Len(PingRest(f)) :
                 4 + k \in 1 .. Len(f.body) /\ PingRest(f)[k] = f.body[4 + k]
<1>1. PICK t \in Nat, n \in Nat, l \in Nat :
         /\ t = f.hdr.total_length /\ n = Len(f.body) /\ l = f.len
         /\ t <= l /\ l <= 20 + n
  BY FrameType DEF HEADER_LENGTH
<1>2. t >= 28
  BY <1>1 DEF IsPing, HEADER_LENGTH, ICMP_HEADER
<1>3. PICK r \in Nat : r = t - 24 /\ 4 + r <= n
  <2>1. t <= 20 + n
    BY <1>1
  <2>2. t - 24 \in Nat /\ 4 + (t - 24) <= n
    BY <1>2, <2>1
  <2> QED
    BY <2>2
<1>4. 4 + PayloadLen(f) = r
  <2>1. PayloadLen(f) = t - 20 - 8
    BY <1>1 DEF PayloadLen, HEADER_LENGTH, ICMP_HEADER
  <2> QED
    BY <1>2, <1>3, <2>1
<1>5. PingRest(f) = [k \in 1 .. r |-> ByteAt(f, 4 + k)]
  BY <1>4 DEF PingRest
<1>6. ASSUME NEW k \in 1 .. r
      PROVE  /\ 4 + k \in 1 .. n /\ ByteAt(f, 4 + k) = f.body[4 + k]
             /\ f.body[4 + k] \in Byte
  <2>1. 4 + k \in 1 .. n /\ 4 + k <= n
    BY <1>3
  <2>2. f.body \in Seq(Byte)
    BY FrameType
  <2> QED
    BY <1>1, <2>1, <2>2 DEF ByteAt
<1>7. PingRest(f) \in [1 .. r -> Byte]
  BY <1>5, <1>6
<1>8. PingRest(f) \in Seq(Byte) /\ Len(PingRest(f)) = r
  BY <1>7
<1> QED
  BY <1>1, <1>2, <1>3, <1>5, <1>6, <1>8

\* Four bytes before them.
LEMMA FourBefore ==
    ASSUME NEW rest \in Seq(Byte), NEW a \in Byte, NEW b \in Byte,
           NEW c \in Byte, NEW d \in Byte, NEW all, all = <<a, b, c, d>> \o rest
    PROVE  /\ all \in Seq(Byte) /\ Len(all) = 4 + Len(rest)
           /\ all[1] = a /\ all[2] = b /\ all[3] = c /\ all[4] = d
           /\ \A i \in 1 .. Len(rest) : all[4 + i] = rest[i]
<1>1. PICK s : s = <<a, b, c, d>>
  OBVIOUS
<1>2. s \in Seq(Byte) /\ Len(s) = 4 /\ s[1] = a /\ s[2] = b /\ s[3] = c /\ s[4] = d
  BY <1>1
<1>3. /\ s \o rest \in Seq(Byte) /\ Len(s \o rest) = 4 + Len(rest)
      /\ \A i \in 1 .. 4 + Len(rest) :
            (s \o rest)[i] = IF i <= 4 THEN s[i] ELSE rest[i - 4]
  <2>1. s \in Seq(Byte)
    BY <1>2
  <2>2. /\ s \o rest \in Seq(Byte) /\ Len(s \o rest) = Len(s) + Len(rest)
        /\ \A i \in 1 .. Len(s) + Len(rest) :
              (s \o rest)[i] = IF i <= Len(s) THEN s[i] ELSE rest[i - Len(s)]
    BY <2>1, ConcatProperties
  <2> QED
    BY <1>2, <2>2
<1>4. PICK n \in Nat : n = Len(rest)
  OBVIOUS
<1>5. ASSUME NEW i \in 1 .. n
      PROVE  (s \o rest)[4 + i] = rest[i]
  <2>1. 4 + i \in 1 .. 4 + n /\ ~ (4 + i <= 4) /\ (4 + i) - 4 = i
    OBVIOUS
  <2> QED
    BY <1>3, <1>4, <2>1
<1>6. 1 \in 1 .. 4 + n /\ 2 \in 1 .. 4 + n /\ 3 \in 1 .. 4 + n /\ 4 \in 1 .. 4 + n
  OBVIOUS
<1>7. /\ (s \o rest)[1] = a /\ (s \o rest)[2] = b
      /\ (s \o rest)[3] = c /\ (s \o rest)[4] = d
  BY <1>2, <1>3, <1>4, <1>6
<1>8. \A i \in 1 .. Len(rest) : (s \o rest)[4 + i] = rest[i]
  BY <1>4, <1>5
<1> QED
  BY <1>1, <1>3, <1>7, <1>8

\* send_icmpv4_ping_reply builds a message that verifies: as long as the packet
\* it answers, less its header, and with its bytes from the fifth on.
LEMMA PingReplyVerifies ==
    ASSUME NEW f \in Frames, f.ethertype = "ipv4", IsPing(f),
           f.hdr.total_length <= f.len
    PROVE  /\ PingReply(f) \in Seq(Byte)
           /\ Len(PingReply(f)) = f.hdr.total_length - HEADER_LENGTH
           /\ NetChecksum(PingReply(f)) = 0
           /\ \A i \in 5 .. Len(PingReply(f)) :
                 i \in 1 .. Len(f.body) /\ PingReply(f)[i] = f.body[i]
<1>1. PICK rest : rest = PingRest(f)
  OBVIOUS
<1>2. PICK t \in Nat : t = f.hdr.total_length /\ t < 65536 /\ t >= 28
  BY FrameType, PingRestBytes
<1>3. /\ rest \in Seq(Byte) /\ Len(rest) = t - 24
      /\ \A k \in 1 .. Len(rest) : 4 + k \in 1 .. Len(f.body) /\ rest[k] = f.body[4 + k]
  BY <1>1, <1>2, PingRestBytes
<1>4. PICK zero : zero = <<0, 0, 0, 0>> \o rest
  OBVIOUS
<1>5. PICK sum : sum = NetChecksum(zero)
  OBVIOUS
<1>6. PICK full : full = <<0, 0, sum \div 256, sum % 256>> \o rest
  OBVIOUS
<1>7. PingReply(f) = full
  BY <1>1, <1>4, <1>5, <1>6 DEF PingReply, PingRest
<1>8. PICK n \in Nat : n = t - 20 /\ n = 4 + Len(rest) /\ n >= 8 /\ n < 65536
  <2>1. t \in Nat /\ t < 65536 /\ t >= 28
    BY <1>2
  <2>2. PICK n \in Nat : n = t - 20 /\ n = 4 + (t - 24) /\ n >= 8 /\ n < 65536
    BY <2>1
  <2>3. Len(rest) = t - 24
    BY <1>3
  <2> QED
    BY <2>2, <2>3
<1>9. 0 \in Byte
  BY DEF Byte
<1>10. /\ zero \in Seq(Byte) /\ Len(zero) = n
       /\ zero[1] = 0 /\ zero[2] = 0 /\ zero[3] = 0 /\ zero[4] = 0
       /\ \A i \in 1 .. Len(rest) : zero[4 + i] = rest[i]
  <2>1. rest \in Seq(Byte)
    BY <1>3
  <2>2. /\ zero \in Seq(Byte) /\ Len(zero) = 4 + Len(rest)
        /\ zero[1] = 0 /\ zero[2] = 0 /\ zero[3] = 0 /\ zero[4] = 0
        /\ \A i \in 1 .. Len(rest) : zero[4 + i] = rest[i]
    BY <1>4, <1>9, <2>1, FourBefore
  <2> QED
    BY <1>8, <2>2
<1>11. PICK m \in Nat : m = (n + 1) \div 2 /\ m >= 4 /\ m <= 32768
  BY <1>8
<1>12. PICK v : v = WordsOf(zero) /\ v \in Seq(UInt16) /\ Len(v) = m
  BY <1>10, <1>11, WordsType
<1>13. sum = ChecksumOfWords(v) /\ sum \in UInt16
  BY <1>5, <1>11, <1>12, ChecksumIsWord DEF NetChecksum
<1>14. sum \in Nat /\ sum \div 256 \in Byte /\ sum % 256 \in Byte
       /\ 256 * (sum \div 256) + (sum % 256) = sum
  BY <1>13 DEF UInt16, Byte
<1>15. /\ full \in Seq(Byte) /\ Len(full) = n
       /\ full[1] = 0 /\ full[2] = 0 /\ full[3] = sum \div 256 /\ full[4] = sum % 256
       /\ \A i \in 1 .. Len(rest) : full[4 + i] = rest[i]
  <2>1. rest \in Seq(Byte)
    BY <1>3
  <2>2. PICK c \in Byte, d \in Byte : c = sum \div 256 /\ d = sum % 256
    BY <1>14
  <2>3. full = <<0, 0, c, d>> \o rest
    BY <1>6, <2>2
  <2>4. /\ full \in Seq(Byte) /\ Len(full) = 4 + Len(rest)
        /\ full[1] = 0 /\ full[2] = 0 /\ full[3] = c /\ full[4] = d
        /\ \A i \in 1 .. Len(rest) : full[4 + i] = rest[i]
    BY <1>9, <2>1, <2>3, FourBefore
  <2> QED
    BY <1>8, <2>2, <2>4
<1>16. PICK w : w = WordsOf(full) /\ w \in Seq(UInt16) /\ Len(w) = m
  BY <1>11, <1>15, WordsType
<1>17. /\ \A i \in 1 .. m : v[i] = 256 * zero[2 * i - 1]
                                   + (IF 2 * i <= n THEN zero[2 * i] ELSE 0)
       /\ \A i \in 1 .. m : w[i] = 256 * full[2 * i - 1]
                                   + (IF 2 * i <= n THEN full[2 * i] ELSE 0)
  BY <1>10, <1>11, <1>12, <1>15, <1>16 DEF WordsOf
<1>18. ASSUME NEW j \in 1 .. n, j # 3, j # 4
       PROVE  zero[j] = full[j]
  <2>1. CASE j <= 4
    BY <1>10, <1>15, <1>18, <2>1
  <2>2. CASE ~ (j <= 4)
    <3>1. j - 4 \in 1 .. Len(rest) /\ 4 + (j - 4) = j
      BY <1>8, <2>2
    <3>2. zero[4 + (j - 4)] = rest[j - 4] /\ full[4 + (j - 4)] = rest[j - 4]
      BY <1>10, <1>15, <3>1
    <3> QED
      BY <3>1, <3>2
  <2> QED
    BY <2>1, <2>2
<1>19. ASSUME NEW i \in 1 .. m, i # 2
       PROVE  v[i] = w[i]
  <2>1. 2 * i - 1 \in 1 .. n /\ 2 * i - 1 # 3 /\ 2 * i - 1 # 4
    BY <1>8, <1>11, <1>19
  <2>2. 2 * i <= n => 2 * i \in 1 .. n /\ 2 * i # 3 /\ 2 * i # 4
    BY <1>8, <1>11, <1>19
  <2> QED
    BY <1>17, <1>18, <2>1, <2>2
<1>20. v[2] = 0 /\ w[2] = sum
  <2>1. 2 \in 1 .. m /\ 2 * 2 - 1 = 3 /\ 2 * 2 = 4 /\ 4 <= n
    BY <1>8, <1>11
  <2>2. v[2] = 256 * zero[3] + zero[4] /\ w[2] = 256 * full[3] + full[4]
    BY <1>17, <2>1
  <2> QED
    BY <1>10, <1>14, <1>15, <2>2
<1>21. NetChecksum(full) = 0
  <2>1. 2 \in 1 .. m
    BY <1>11
  <2>2. ChecksumOfWords(w) = 0
    BY <1>11, <1>12, <1>13, <1>16, <1>19, <1>20, <2>1, ChecksumVerifies
  <2> QED
    BY <1>16, <2>2 DEF NetChecksum
<1>22. ASSUME NEW i \in 5 .. n
       PROVE  i \in 1 .. Len(f.body) /\ full[i] = f.body[i]
  <2>1. i - 4 \in 1 .. Len(rest) /\ 4 + (i - 4) = i
    BY <1>8
  <2>2. /\ 4 + (i - 4) \in 1 .. Len(f.body)
        /\ full[4 + (i - 4)] = rest[i - 4] /\ rest[i - 4] = f.body[4 + (i - 4)]
    BY <1>3, <1>15, <2>1
  <2> QED
    BY <2>1, <2>2
<1>23. Len(full) = f.hdr.total_length - HEADER_LENGTH
  BY <1>2, <1>8, <1>15 DEF HEADER_LENGTH
<1>24. \A i \in 5 .. Len(full) : i \in 1 .. Len(f.body) /\ full[i] = f.body[i]
  BY <1>15, <1>22
<1> QED
  BY <1>7, <1>15, <1>21, <1>23, <1>24

-----------------------------------------------------------------------------
(* The receive path.                                                       *)

\* Where the frame is, and what has been checked of it by then.
Handling ==
    /\ rx.ethertype = "ipv4" => rx \in Frames
    /\ pc \in {"ipv4", "icmp", "send"} => rx.ethertype = "ipv4"
    /\ pc \in {"idle", "arp"} => rx.ethertype # "ipv4"
    /\ pc \in {"icmp", "send"} => Ipv4Accepts(self, rx) /\ rx.hdr.protocol = ICMP
    /\ pc = "send" => IsPing(rx) /\ datagram = PingReply(rx)
    /\ pc = "idle" => tx = None /\ segment = << >>

\* What is given to TCP is from a frame that was accepted.
Delivering == segment # << >> => rx.ethertype = "ipv4" /\ Ipv4Accepts(self, rx)

\* Every TCP segment that is accepted is given to TCP, with its length.
Delivered ==
    /\ pc = "done" /\ rx.ethertype = "ipv4"
    /\ Ipv4Accepts(self, rx) /\ rx.hdr.protocol = TCP
    => segment = <<SegmentLength(rx)>>

\* The answer to a ping.
Ponged ==
    /\ rx.ethertype = "ipv4" /\ Ipv4Accepts(self, rx) /\ IsPing(rx)
    /\ tx.ethertype = "ipv4" /\ tx.body = PingReply(rx)
    /\ tx.len = (HEADER_LENGTH + Len(tx.body)) % 65536
    /\ tx.hdr = Header(self, rx.hdr.src, ICMP, Len(tx.body))

\* What is on its way out, and the frame it answers.
Answering ==
    \/ tx = None
    \/ Ponged
    \/ \E junk : tx = ArpRequest(self, peer.ip, junk)
    \/ tx = ArpReply(self, rx) /\ ArpForUs(self, rx) /\ rx.operation = 1

RxInv == Handling /\ Delivering /\ Delivered /\ Answering

\* RxInv holds before the first frame.
LEMMA RxInit ==
    ASSUME Init
    PROVE  RxInv
BY DEF Init, RxInv, Handling, Delivering, Delivered, Answering, None, Ponged

\* Every outcome of arp_input, ipv4_input and icmpv4_input, and every frame
\* sent, keeps RxInv.
LEMMA RxStep ==
    ASSUME RxInv, [Next]_vars
    PROVE  RxInv'
<1>1. Handling /\ Delivering /\ Delivered /\ Answering
  BY DEF RxInv
<1>2. ASSUME NEW frame \in Frames, WifiRxcb(frame)
      PROVE  RxInv'
  BY <1>1, <1>2 DEF WifiRxcb, RxInv, Handling, Delivering, Delivered, Answering, None, Ponged
<1>3. CASE SendArpRequest(peer.ip)
  <2>1. pc = "idle" /\ UNCHANGED <<rx, segment>> /\ pc' = "done"
        /\ \E junk : tx' = ArpRequest(self, peer.ip, junk)
    BY <1>3 DEF SendArpRequest, Finish
  <2>2. rx.ethertype # "ipv4"
    BY <1>1, <2>1 DEF Handling
  <2> QED
    BY <1>1, <2>1, <2>2 DEF RxInv, Handling, Delivering, Delivered, Answering
<1>4. CASE ArpInputReply \/ ArpInputDiscard
  <2>1. pc = "arp" /\ pc' = "done" /\ UNCHANGED <<rx, tx, segment>>
    BY <1>4 DEF ArpInputReply, ArpInputDiscard, Finish
  <2>2. rx.ethertype # "ipv4"
    BY <1>1, <2>1 DEF Handling
  <2> QED
    BY <1>1, <2>1, <2>2 DEF RxInv, Handling, Delivering, Delivered, Answering, Ponged
<1>5. CASE Ipv4InputDiscard \/ IcmpInputDiscard
  <2>1. pc' = "done" /\ UNCHANGED <<rx, tx, segment>>
        /\ ~ (Ipv4Accepts(self, rx) /\ rx.hdr.protocol = TCP)
    BY <1>1, <1>5 DEF Ipv4InputDiscard, IcmpInputDiscard, Finish, Handling, ICMP, TCP
  <2>2. Delivered'
    BY <2>1 DEF Delivered
  <2> QED
    BY <1>1, <2>1, <2>2 DEF RxInv, Handling, Delivering, Answering, Ponged
<1>6. CASE ArpInputRequest
  <2>1. /\ pc = "arp" /\ pc' = "done" /\ UNCHANGED <<rx, segment>>
        /\ tx' = ArpReply(self, rx) /\ ArpForUs(self, rx) /\ rx.operation = 1
    BY <1>6 DEF ArpInputRequest, Finish
  <2>2. rx.ethertype # "ipv4"
    BY <1>1, <2>1 DEF Handling
  <2> QED
    BY <1>1, <2>1, <2>2 DEF RxInv, Handling, Delivering, Delivered, Answering
<1>7. CASE Ipv4InputTcp
  <2>1. /\ pc = "ipv4" /\ pc' = "done" /\ UNCHANGED <<rx, tx, datagram>>
        /\ segment' = <<SegmentLength(rx)>> /\ Ipv4Accepts(self, rx)
    BY <1>7 DEF Ipv4InputTcp, Finish
  <2>2. Handling' /\ Delivering'
    BY <1>1, <2>1 DEF Handling, Delivering
  <2>3. Delivered'
    BY <2>1 DEF Delivered
  <2>4. Answering'
    BY <1>1, <2>1 DEF Answering, Ponged
  <2> QED
    BY <2>2, <2>3, <2>4 DEF RxInv
<1>8. CASE Ipv4InputIcmp
  <2>1. /\ pc = "ipv4" /\ pc' = "icmp" /\ UNCHANGED <<rx, tx, datagram, segment>>
        /\ Ipv4Accepts(self, rx) /\ rx.hdr.protocol = ICMP
    BY <1>8 DEF Ipv4InputIcmp
  <2> QED
    BY <1>1, <2>1 DEF RxInv, Handling, Delivering, Delivered, Answering, Ponged
<1>9. CASE IcmpInputPing
  <2>1. /\ pc = "icmp" /\ pc' = "send" /\ datagram' = PingReply(rx) /\ IsPing(rx)
        /\ UNCHANGED <<rx, tx, segment>>
    BY <1>9 DEF IcmpInputPing
  <2> QED
    BY <1>1, <2>1 DEF RxInv, Handling, Delivering, Delivered, Answering, Ponged
<1>10. CASE InternalSendIpv4Packet
  <2>1. PICK mac \in MACs :
           tx' = [ethertype |-> "ipv4", dst_mac |-> mac,
                  len |-> (HEADER_LENGTH + Len(datagram)) % 65536,
                  hdr |-> Header(self, rx.hdr.src, ICMP, Len(datagram)),
                  body |-> datagram]
    BY <1>10 DEF InternalSendIpv4Packet
  <2>2. pc = "send" /\ pc' = "done" /\ UNCHANGED <<rx, segment>>
    BY <1>10 DEF InternalSendIpv4Packet, Finish
  <2>3. Ponged'
    BY <1>1, <2>1, <2>2 DEF Handling, Ponged
  <2>4. rx.hdr.protocol # TCP
    BY <1>1, <2>2 DEF Handling, ICMP, TCP
  <2>5. Handling' /\ Delivering' /\ Delivered'
    BY <1>1, <2>2, <2>4 DEF Handling, Delivering, Delivered
  <2> QED
    BY <2>3, <2>5 DEF RxInv, Answering
<1>11. CASE FreeRxBuffer
  BY <1>11 DEF FreeRxBuffer, RxInv, Handling, Delivering, Delivered, Answering, None, Ponged
<1>12. CASE UNCHANGED vars
  BY <1>1, <1>12 DEF vars, RxInv, Handling, Delivering, Delivered, Answering, Ponged
<1> QED
  BY <1>2, <1>3, <1>4, <1>5, <1>6, <1>7, <1>8, <1>9, <1>10, <1>11, <1>12 DEF Next

\* RxInv holds in every behaviour.
LEMMA RxInvariant == Spec => []RxInv
<1>1. Init => RxInv
  BY RxInit
<1>2. RxInv /\ [Next]_vars => RxInv'
  BY RxStep
<1> QED
  BY <1>1, <1>2, PTL DEF Spec

\* ipv4_input accepts every TCP segment as the peer's own code sends it, of
\* any length, and gives TCP exactly the bytes the peer's TCP handed over: no
\* padding is taken for data, and nothing is cut off.
THEOREM SegmentsArriveWhole == Spec => []SegmentRoundTrip
<1>1. ASSUME RxInv, pc = "done", FromPeer(rx)
      PROVE  segment = <<rx.hdr.total_length - HEADER_LENGTH>>
  <2>1. PICK f : f = rx /\ f \in Frames /\ f.ethertype = "ipv4" /\ FromPeer(f)
    BY <1>1 DEF RxInv, Handling, FromPeer
  <2>2. PICK t \in Nat, l \in Nat : t = f.hdr.total_length /\ l = f.len /\ t < 65536
    BY <2>1, FrameType
  <2>3. 20 <= t /\ t <= l
    BY <2>1, <2>2 DEF FromPeer, HEADER_LENGTH
  <2>4. PICK n \in Nat : n = t - 20 /\ 20 + n = t
    BY <2>2, <2>3
  <2>5. f.hdr = Header(peer, self.ip, TCP, n)
    BY <2>1, <2>2, <2>4 DEF FromPeer, HEADER_LENGTH
  <2>6. /\ f.hdr.version = 4 /\ f.hdr.ihl = 5 /\ f.hdr.protocol = TCP
        /\ f.hdr.dst = self.ip
    BY <2>5 DEF Header, BlankHeader, HEADER_LENGTH
  <2>7. ChecksumOfWords(HeaderWords(f.hdr)) = 0
    <3>1. TCP \in Byte /\ self.ip \in Addresses /\ peer.ip \in Addresses
      BY RxConstants DEF Byte, TCP
    <3> QED
      BY <2>5, <3>1, HeaderVerifies
  <2>8. Ipv4Accepts(self, f)
    BY <2>2, <2>3, <2>6, <2>7 DEF Ipv4Accepts, HEADER_LENGTH
  <2>9. segment = <<SegmentLength(f)>>
    BY <1>1, <2>1, <2>6, <2>8 DEF RxInv, Delivered
  <2>10. SegmentLength(f) = t - 20
    <3>1. (t + 65536 - 20) % 65536 = t - 20
      BY <2>2, <2>3
    <3> QED
      BY <2>2, <3>1 DEF SegmentLength, HEADER_LENGTH
  <2> QED
    BY <2>1, <2>2, <2>9, <2>10 DEF HEADER_LENGTH
<1>2. RxInv => SegmentRoundTrip
  BY <1>1 DEF SegmentRoundTrip
<1> QED
  BY <1>2, RxInvariant, PTL

\* Two hosts that run this code resolve each other: whatever is left in the
\* target hardware address of a request, the peer's arp_input answers it to
\* the asking host, with its own address, and this host does so for every
\* request it accepts.
THEOREM ArpAnswersAsked == Spec => []ArpRoundTrip
<1>1. ASSUME Answering PROVE ArpRoundTrip
  <2>1. CASE tx = None \/ Ponged
    BY <2>1 DEF ArpRoundTrip, None, Ponged
  <2>2. ASSUME NEW junk, tx = ArpRequest(self, peer.ip, junk)
        PROVE  ArpRoundTrip
    BY <2>2 DEF ArpRoundTrip, ArpRequest, ArpReply, ArpFrame, ArpForUs
  <2>3. CASE tx = ArpReply(self, rx) /\ ArpForUs(self, rx) /\ rx.operation = 1
    BY <2>3 DEF ArpRoundTrip, ArpReply, ArpFrame, ArpForUs
  <2> QED
    BY <1>1, <2>1, <2>2, <2>3 DEF Answering
<1>2. RxInv => ArpRoundTrip
  BY <1>1 DEF RxInv
<1> QED
  BY <1>2, RxInvariant, PTL

\* A ping is answered with what its sender accepts, byte for byte: for every
\* frame, payload and pair of hosts, of even and odd length and with padding,
\* the reply's header verifies, its length is right, its ICMP checksum verifies
\* and it carries the bytes of the request.
THEOREM PingsAnswered == Spec => []PingRoundTrip
<1>1. ASSUME RxInv, tx.ethertype = "ipv4"
      PROVE  PingRoundTrip
  <2>1. Ponged
    BY <1>1 DEF RxInv, Answering, None, ArpRequest, ArpReply, ArpFrame
  <2>2. PICK f : f = rx /\ f \in Frames /\ f.ethertype = "ipv4" /\ IsPing(f)
                 /\ f.hdr.total_length <= f.len
    BY <1>1, <2>1 DEF RxInv, Handling, Ponged, Ipv4Accepts
  <2>3. PICK body : body = PingReply(f) /\ body = tx.body
    BY <2>1, <2>2 DEF Ponged
  <2>4. PICK t \in Nat : t = f.hdr.total_length /\ t < 65536 /\ t >= 28
    BY <2>2, FrameType, PingRestBytes
  <2>5. /\ body \in Seq(Byte) /\ Len(body) = f.hdr.total_length - HEADER_LENGTH
        /\ NetChecksum(body) = 0
        /\ \A i \in 5 .. Len(body) : i \in 1 .. Len(f.body) /\ body[i] = f.body[i]
    BY <2>2, <2>3, PingReplyVerifies
  <2>6. PICK n \in Nat : /\ n = Len(body) /\ 20 + n = t /\ n >= 8
                         /\ (20 + n) % 65536 = t
    <3>1. PICK n \in Nat : n = t - 20
      BY <2>4
    <3>2. 20 + n = t /\ n >= 8
      BY <2>4, <3>1
    <3>3. t % 65536 = t
      BY <2>4
    <3>4. Len(body) = n
      BY <2>4, <2>5, <3>1 DEF HEADER_LENGTH
    <3> QED
      BY <3>2, <3>3, <3>4
  <2>7. tx.len = t /\ tx.hdr = Header(self, f.hdr.src, ICMP, n)
    BY <2>1, <2>2, <2>3, <2>6 DEF Ponged, HEADER_LENGTH
  <2>8. /\ tx.hdr.version = 4 /\ tx.hdr.ihl = 5 /\ tx.hdr.total_length = t
        /\ tx.hdr.dst = f.hdr.src
    BY <2>6, <2>7 DEF Header, BlankHeader, HEADER_LENGTH
  <2>9. ChecksumOfWords(HeaderWords(tx.hdr)) = 0
    <3>1. ICMP \in Byte
      BY DEF Byte, ICMP
    <3>2. self.ip \in Addresses
      BY RxConstants
    <3>3. f.hdr.src \in Addresses
      BY <2>2, FrameType
    <3> QED
      BY <2>7, <3>1, <3>2, <3>3, HeaderVerifies
  <2>10. Ipv4Accepts([ip |-> rx.hdr.src], tx)
    BY <2>2, <2>4, <2>7, <2>8, <2>9 DEF Ipv4Accepts, HEADER_LENGTH
  <2>11. SubSeq(body, 5, n) = SubSeq(f.body, 5, n)
    <3>1. \A i \in 5 .. n : body[i] \in Byte /\ f.body[i] \in Byte /\ body[i] = f.body[i]
      <4>1. f.body \in Seq(Byte)
        BY <2>2, FrameType
      <4> QED
        BY <2>5, <2>6, <4>1
    <3>2. PICK u, v : u = SubSeq(body, 5, n) /\ v = SubSeq(f.body, 5, n)
      OBVIOUS
    <3>3. PICK m \in Nat : m = n - 5 + 1
      BY <2>6
    <3>4. /\ u \in Seq(Byte) /\ Len(u) = m /\ \A i \in 1 .. m : u[i] = body[5 + i - 1]
      BY <2>6, <3>1, <3>2, <3>3, SubSeqProperties
    <3>5. /\ v \in Seq(Byte) /\ Len(v) = m /\ \A i \in 1 .. m : v[i] = f.body[5 + i - 1]
      BY <2>6, <3>1, <3>2, <3>3, SubSeqProperties
    <3>6. \A i \in 1 .. m : 5 + i - 1 \in 5 .. n
      BY <2>6, <3>3
    <3>7. \A i \in 1 .. m : u[i] = v[i]
      BY <3>1, <3>4, <3>5, <3>6
    <3>8. u = v
      BY <3>4, <3>5, <3>7
    <3> QED
      BY <3>2, <3>8
  <2>12. HEADER_LENGTH + Len(tx.body) = t
    BY <2>3, <2>6 DEF HEADER_LENGTH
  <2>13. SubSeq(tx.body, 5, Len(tx.body)) = SubSeq(rx.body, 5, Len(tx.body))
    BY <2>2, <2>3, <2>6, <2>11
  <2>14. NetChecksum(tx.body) = 0
    BY <2>3, <2>5
  <2> QED
    BY <2>2, <2>4, <2>8, <2>10, <2>12, <2>13, <2>14 DEF PingRoundTrip
<1>2. RxInv => PingRoundTrip
  BY <1>1 DEF PingRoundTrip
<1> QED
  BY <1>2, RxInvariant, PTL

\* net_checksum is the checksum of RFC 1071 on every header and every body
\* that can arrive, of any length and with any number of carries.
THEOREM ChecksumIsStandard == Spec => []ChecksumStandard
<1>1. ASSUME RxInv, rx.ethertype = "ipv4"
      PROVE  ChecksumStandard
  <2>1. PICK f : f = rx /\ f \in Frames /\ f.ethertype = "ipv4"
    BY <1>1 DEF RxInv, Handling
  <2>2. ChecksumOfWords(HeaderWords(f.hdr)) = InternetChecksum(HeaderWords(f.hdr))
    <3>1. PICK w : w = HeaderWords(f.hdr)
      OBVIOUS
    <3>2. w \in Seq(UInt16)
      BY <2>1, <3>1, FrameType, HeaderWordsType
    <3>3. Len(w) <= 32768
      <4>1. Len(w) = 10
        BY <2>1, <3>1, FrameType, HeaderWordsType
      <4> QED
        BY <4>1
    <3>4. ChecksumOfWords(w) = InternetChecksum(w)
      BY <3>2, <3>3, ChecksumIsInternet
    <3> QED
      BY <3>1, <3>4
  <2>3. PICK n \in Nat : n = Len(f.body) /\ n < 65536 /\ (n + 1) \div 2 <= 32768
    <3>1. \A n \in Nat : n < 65536 => (n + 1) \div 2 <= 32768
      OBVIOUS
    <3> QED
      BY <2>1, <3>1, FrameType
  <2>4. /\ WordsOf(f.body) \in Seq(UInt16) /\ Len(WordsOf(f.body)) <= 32768
    BY <2>1, <2>3, FrameType, WordsType
  <2>5. NetChecksum(f.body) = InternetChecksum(WordsOf(f.body))
    BY <2>4, ChecksumIsInternet DEF NetChecksum
  <2> QED
    BY <2>1, <2>2, <2>5 DEF ChecksumStandard
<1>2. RxInv => ChecksumStandard
  BY <1>1 DEF ChecksumStandard
<1> QED
  BY <1>2, RxInvariant, PTL

\* No header that was damaged in one word gets past ipv4_input, whichever word
\* it is and whatever it was changed into, short of 0 into 65535 or back.
THEOREM DamagedRefused == Spec => []DamageRefused
<1>1. ASSUME RxInv, rx.ethertype = "ipv4",
             ChecksumOfWords(HeaderWords(rx.sent)) = 0, Damaged(rx.hdr, rx.sent)
      PROVE  pc # "icmp" /\ segment = << >>
  <2>1. PICK f : f = rx /\ f \in Frames /\ f.ethertype = "ipv4"
    BY <1>1 DEF RxInv, Handling
  <2>2. PICK v, w : v = HeaderWords(f.hdr) /\ w = HeaderWords(f.sent)
    OBVIOUS
  <2>3. /\ v \in Seq(UInt16) /\ w \in Seq(UInt16) /\ Len(v) = 10 /\ Len(w) = 10
    BY <2>1, <2>2, FrameType, HeaderWordsType
  <2>4. PICK k \in 1 .. Len(v) : /\ v[k] % 65535 # w[k] % 65535
                                 /\ \A i \in 1 .. Len(v) : i # k => v[i] = w[i]
    <3>1. PICK k \in 1 .. 10 : /\ v[k] % 65535 # w[k] % 65535
                               /\ \A i \in 1 .. 10 : i # k => v[i] = w[i]
      <4>1. Damaged(f.hdr, f.sent)
        BY <1>1, <2>1
      <4> QED
        BY <2>2, <4>1, SMT DEF Damaged
    <3> QED
      BY <2>3, <3>1
  <2>5. Len(v) <= 32768 /\ Len(v) = Len(w)
    BY <2>3
  <2>6. ChecksumOfWords(v) # 0
    <3>1. v \in Seq(UInt16) /\ w \in Seq(UInt16)
      BY <2>3
    <3>2. ChecksumOfWords(w) = 0
      BY <1>1, <2>1, <2>2
    <3> QED
      BY <2>4, <2>5, <3>1, <3>2, DamageShows
  <2>7. ~ Ipv4Accepts(self, rx)
    BY <2>1, <2>2, <2>6 DEF Ipv4Accepts
  <2> QED
    BY <1>1, <2>7 DEF RxInv, Handling, Delivering
<1>2. RxInv => DamageRefused
  BY <1>1 DEF DamageRefused
<1> QED
  BY <1>2, RxInvariant, PTL
=============================================================================
