---------------------------- MODULE StackLemmas ----------------------------
(* Facts about the library operators that the models of the stack use. *)
EXTENDS Naturals, FiniteSetsExt, WellFoundedInduction, FiniteSetTheorems,
        SequenceTheorems, TLAPS

\* A set of numbers has a least one.
LEMMA LeastInSet ==
    ASSUME NEW S \in SUBSET Nat, S # {}
    PROVE  \E x \in S : \A y \in S : x =< y
<1> DEFINE R == OpToRel(<, Nat)
<1>1. IsWellFoundedOn(R, Nat)
  BY NatLessThanWellFounded
<1>2. \E x \in S : \A y \in S : ~ (<<y, x>> \in R)
  <2> HIDE DEF R
  <2> QED BY <1>1, WFMin
<1>3. PICK x \in S : \A y \in S : ~ (<<y, x>> \in R)
  BY <1>2
<1>4. ASSUME NEW a \in Nat, NEW b \in Nat, a < b
      PROVE  <<a, b>> \in R
  <2>1. <<a, b>> \in Nat \X Nat
    OBVIOUS
  <2> DEFINE ss == <<a, b>>
  <2>2. ss[1] < ss[2]
    BY <1>4
  <2> QED
    BY <2>1, <2>2 DEF OpToRel
<1>5. \A y \in S : x =< y
  <2> SUFFICES ASSUME NEW y \in S, ~ (x =< y)
               PROVE  FALSE
    OBVIOUS
  <2>1. x \in Nat /\ y \in Nat /\ y < x
    OBVIOUS
  <2>2. <<y, x>> \in R
    BY <2>1, <1>4
  <2> QED
    BY <2>2, <1>3
<1> QED
  BY <1>5

\* The code's "first match" loops are Min of the set of matches: it is one of
\* them whenever there is one.
LEMMA MinInSet ==
    ASSUME NEW S \in SUBSET Nat, S # {}
    PROVE  Min(S) \in S
BY LeastInSet DEF Min

\* Induction over the natural numbers, with a set in the place of a predicate.
LEMMA SetInduction ==
    ASSUME NEW S \in SUBSET Nat, 0 \in S, \A n \in S : n + 1 \in S
    PROVE  \A n \in Nat : n \in S
<1> SUFFICES ASSUME NEW n \in Nat, n \notin S
             PROVE  FALSE
  OBVIOUS
<1> DEFINE T == Nat \ S
<1>1. T \in SUBSET Nat /\ T # {}
  OBVIOUS
<1>2. PICK m \in T : \A y \in T : m =< y
  <2> HIDE DEF T
  <2> QED
    BY <1>1, LeastInSet
<1>3. m # 0 /\ m \in Nat
  OBVIOUS
<1>4. m - 1 \in Nat /\ (m - 1) + 1 = m /\ m - 1 < m
  BY <1>3
<1>5. m - 1 \in S
  BY <1>2, <1>4
<1> QED
  BY <1>4, <1>5

-----------------------------------------------------------------------------
(* Counting the items of a queue that are of some kind T.                  *)

Positions(s, T) == {k \in 1 .. Len(s) : s[k] \in T}
Count(s, T)     == Cardinality(Positions(s, T))

\* A count is a number, at most the length of the queue.
LEMMA CountBound ==
    ASSUME NEW X, NEW s \in Seq(X), NEW T
    PROVE  /\ IsFiniteSet(Positions(s, T))
           /\ Count(s, T) \in Nat
           /\ Count(s, T) <= Len(s)
<1>1. Len(s) \in Nat /\ Positions(s, T) \subseteq 1 .. Len(s)
  BY DEF Positions
<1>2. IsFiniteSet(1 .. Len(s)) /\ Cardinality(1 .. Len(s)) = Len(s)
  <2> DEFINE n == Len(s)
  <2>1. n \in Int /\ 1 \in Int /\ (IF 1 > n THEN 0 ELSE n - 1 + 1) = n
    BY <1>1
  <2> HIDE DEF n
  <2>2. IsFiniteSet(1 .. n) /\ Cardinality(1 .. n) = n
    BY <2>1, FS_Interval
  <2> QED
    BY <2>2 DEF n
<1>3. IsFiniteSet(Positions(s, T))
      /\ Cardinality(Positions(s, T)) <= Cardinality(1 .. Len(s))
  BY <1>1, <1>2, FS_Subset
<1> QED
  BY <1>2, <1>3, FS_CardinalityType DEF Count

\* xQueueSend adds one to the count of the item's kind.
LEMMA CountAppend ==
    ASSUME NEW X, NEW s \in Seq(X), NEW x \in X, NEW T
    PROVE  Count(Append(s, x), T) = Count(s, T) + (IF x \in T THEN 1 ELSE 0)
<1> DEFINE n == Len(s) + 1
<1>1. /\ Len(s) \in Nat /\ Len(Append(s, x)) = n
      /\ Append(s, x)[n] = x
      /\ \A k \in 1 .. Len(s) : Append(s, x)[k] = s[k]
  OBVIOUS
<1>2. CASE x \in T
  <2>1. Positions(Append(s, x), T) = Positions(s, T) \cup {n}
    BY <1>1, <1>2 DEF Positions
  <2>2. n \notin Positions(s, T)
    BY <1>1 DEF Positions
  <2> QED
    BY <1>2, <2>1, <2>2, CountBound, FS_AddElement DEF Count
<1>3. CASE x \notin T
  <2>1. Positions(Append(s, x), T) = Positions(s, T)
    BY <1>1, <1>3 DEF Positions
  <2> QED
    BY <1>3, <2>1, CountBound DEF Count
<1> QED
  BY <1>2, <1>3

\* Moving a set of positions down by one keeps its size.
LEMMA ShiftCardinality ==
    ASSUME NEW n \in Nat, NEW K \in SUBSET (2 .. n)
    PROVE  Cardinality({k \in 1 .. n : k + 1 \in K}) = Cardinality(K)
<1> DEFINE L == {k \in 1 .. n : k + 1 \in K}
           f == [k \in L |-> k + 1]
<1>1. IsFiniteSet(K) /\ IsFiniteSet(L)
  <2>1. IsFiniteSet(1 .. n)
    BY FS_Interval
  <2>2. K \subseteq 1 .. n /\ L \subseteq 1 .. n
    OBVIOUS
  <2> QED
    BY <2>1, <2>2, FS_Subset
<1>2. f \in [L -> K]
  OBVIOUS
<1>3. \A a, b \in L : f[a] = f[b] => a = b
  OBVIOUS
<1>4. \A k \in K : \E a \in L : f[a] = k
  <2> SUFFICES ASSUME NEW k \in K PROVE \E a \in L : f[a] = k
    OBVIOUS
  <2>1. k - 1 \in L /\ f[k - 1] = k
    OBVIOUS
  <2> QED
    BY <2>1
<1>5. f \in Bijection(L, K)
  BY <1>2, <1>3, <1>4 DEF Bijection, Injection, Surjection, IsInjective
<1>6. Cardinality(L) = Cardinality(K)
  <2> HIDE DEF f, L
  <2> QED
    BY <1>1, <1>5, FS_Bijection DEF ExistsBijection
<1> QED
  BY <1>6

\* xQueueReceive takes one from the count of the item's kind.
LEMMA CountTail ==
    ASSUME NEW X, NEW s \in Seq(X), s # << >>, NEW T
    PROVE  Count(s, T) = Count(Tail(s), T) + (IF Head(s) \in T THEN 1 ELSE 0)
<1> DEFINE K == {k \in 2 .. Len(s) : s[k] \in T}
<1>1. /\ Len(s) \in Nat \ {0} /\ Tail(s) \in Seq(X) /\ Len(Tail(s)) = Len(s) - 1
      /\ \A k \in 1 .. Len(s) - 1 : Tail(s)[k] = s[k + 1]
      /\ Head(s) = s[1]
  BY HeadTailProperties, EmptySeq, LenProperties
<1>2. Positions(Tail(s), T) = {k \in 1 .. Len(s) : k + 1 \in K}
  BY <1>1 DEF Positions
<1>3. Count(Tail(s), T) = Cardinality(K)
  BY <1>1, <1>2, ShiftCardinality DEF Count
<1>4. CASE Head(s) \in T
  <2>1. Positions(s, T) = K \cup {1} /\ 1 \notin K
    BY <1>1, <1>4 DEF Positions
  <2>2. IsFiniteSet(K)
    <3>1. K \subseteq Positions(s, T)
      BY <2>1
    <3> QED
      BY <3>1, CountBound, FS_Subset
  <2> QED
    BY <1>3, <1>4, <2>1, <2>2, FS_AddElement DEF Count
<1>5. CASE Head(s) \notin T
  <2>1. Positions(s, T) = K
    BY <1>1, <1>5 DEF Positions
  <2>2. Cardinality(K) \in Nat /\ Count(s, T) = Cardinality(K)
    <3> HIDE DEF K
    <3> QED
      BY <2>1, CountBound DEF Count
  <2> HIDE DEF K
  <2> QED
    BY <1>3, <1>5, <2>2
<1> QED
  BY <1>4, <1>5

-----------------------------------------------------------------------------
(* The payloads of a queue of records.                                     *)

Datas(s) == [k \in 1 .. Len(s) |-> s[k].data]

\* They follow the queue.
LEMMA QueueOfData ==
    ASSUME NEW X, NEW B, \A x \in X : x.data \in B, NEW s \in Seq(X)
    PROVE  /\ Datas(s) \in Seq(B) /\ Len(Datas(s)) = Len(s)
           /\ \A x \in X : Datas(Append(s, x)) = Append(Datas(s), x.data)
           /\ s # << >> => /\ Datas(s) # << >>
                           /\ Datas(Tail(s)) = Tail(Datas(s))
                           /\ Head(s).data = Head(Datas(s))
<1>1. Len(s) \in Nat /\ \A k \in 1 .. Len(s) : s[k].data \in B
  <2>1. Len(s) \in Nat /\ \A k \in 1 .. Len(s) : s[k] \in X
    OBVIOUS
  <2> QED
    BY <2>1
<1>2. Datas(s) \in Seq(B) /\ Len(Datas(s)) = Len(s)
  BY <1>1, IsASeq, LenProperties DEF Datas
<1>3. ASSUME NEW x \in X
      PROVE  Datas(Append(s, x)) = Append(Datas(s), x.data)
  <2>1. /\ Append(s, x) \in Seq(X) /\ Len(Append(s, x)) = Len(s) + 1
        /\ \A k \in 1 .. Len(s) + 1 :
              Append(s, x)[k] = IF k = Len(s) + 1 THEN x ELSE s[k]
    BY <1>1
  <2>2. /\ Append(Datas(s), x.data) \in Seq(B)
        /\ Len(Append(Datas(s), x.data)) = Len(s) + 1
        /\ \A k \in 1 .. Len(s) + 1 :
              Append(Datas(s), x.data)[k] =
                IF k = Len(s) + 1 THEN x.data ELSE Datas(s)[k]
    BY <1>1, <1>2
  <2>3. \A k \in 1 .. Len(s) + 1 :
           Datas(Append(s, x))[k] = Append(Datas(s), x.data)[k]
    BY <2>1, <2>2 DEF Datas
  <2>4. Datas(Append(s, x)) \in Seq(B)
        /\ Len(Datas(Append(s, x))) = Len(s) + 1
    BY <1>1, <2>1, IsASeq, LenProperties DEF Datas
  <2> QED
    BY <2>2, <2>3, <2>4, SeqEqual
<1>4. ASSUME s # << >>
      PROVE  /\ Datas(s) # << >> /\ Datas(Tail(s)) = Tail(Datas(s))
             /\ Head(s).data = Head(Datas(s))
  <2>1. /\ Len(s) # 0 /\ Tail(s) \in Seq(X) /\ Len(Tail(s)) = Len(s) - 1
        /\ \A k \in 1 .. Len(s) - 1 : Tail(s)[k] = s[k + 1]
        /\ Head(s) = s[1]
    BY <1>4, HeadTailProperties, EmptySeq, LenProperties
  <2>2. Datas(s) # << >>
    BY <1>2, <2>1
  <2>3. /\ Tail(Datas(s)) \in Seq(B) /\ Len(Tail(Datas(s))) = Len(s) - 1
        /\ \A k \in 1 .. Len(s) - 1 : Tail(Datas(s))[k] = Datas(s)[k + 1]
        /\ Head(Datas(s)) = Datas(s)[1]
    BY <1>2, <2>2, HeadTailProperties, EmptySeq, LenProperties
  <2>4. Datas(Tail(s)) \in Seq(B) /\ Len(Datas(Tail(s))) = Len(s) - 1
    BY <1>1, <2>1, IsASeq, LenProperties DEF Datas
  <2>5. \A k \in 1 .. Len(s) - 1 : Datas(Tail(s))[k] = Tail(Datas(s))[k]
    BY <1>1, <2>1, <2>3 DEF Datas
  <2>6. Datas(Tail(s)) = Tail(Datas(s))
    BY <2>3, <2>4, <2>5, SeqEqual
  <2> QED
    BY <1>1, <2>1, <2>2, <2>3, <2>6 DEF Datas
<1> QED
  BY <1>2, <1>3, <1>4
=============================================================================
