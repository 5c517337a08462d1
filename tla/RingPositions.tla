---------------------------- MODULE RingPositions ----------------------------
(***************************************************************************)
(* Lemmas about the positions of words in a ring and in the log, which the *)
(* proofs about SampleSession and about RingOrder share.                   *)
(***************************************************************************)
EXTENDS Integers, Sequences, SequenceTheorems, TLAPS

(* A multiple of n that is smaller than another one is at least n smaller. *)
LEMMA MultiplesApart ==
    ASSUME NEW n \in Nat, NEW a \in Int, NEW b \in Int, a < b
    PROVE  n * a + n <= n * b
<1>1. n * (b - a - 1) >= 0
  BY b - a - 1 >= 0
<1>2. n * (b - a - 1) = n * b - n * a - n
  OBVIOUS
<1>3. n * a \in Int /\ n * b \in Int
  OBVIOUS
<1> QED
  BY <1>1, <1>2, <1>3

(* Quotient and remainder of a position are unique.                        *)
LEMMA RemainderUnique ==
    ASSUME NEW n \in Nat \ {0}, NEW a \in Int, NEW b \in Int,
           NEW r \in 0 .. n - 1, NEW s \in 0 .. n - 1,
           n * a + r = n * b + s
    PROVE  r = s
<1>1. n * a \in Int /\ n * b \in Int
  OBVIOUS
<1>2. CASE a < b
  <2>1. n * a + n <= n * b
    BY <1>2, MultiplesApart
  <2> QED
    BY <1>1, <2>1
<1>3. CASE b < a
  <2>1. n * b + n <= n * a
    BY <1>3, MultiplesApart
  <2> QED
    BY <1>1, <2>1
<1>4. CASE a = b
  BY <1>1, <1>4
<1> QED
  BY <1>2, <1>3, <1>4

(* A position is its quotient and remainder.                               *)
LEMMA DivMod ==
    ASSUME NEW n \in Nat \ {0}, NEW x \in Int
    PROVE  /\ x = n * (x \div n) + (x % n)
           /\ x % n \in 0 .. n - 1
           /\ x \div n \in Int
OBVIOUS

(* Two positions less than a ring apart share a cell only if equal.        *)
LEMMA CellInjective ==
    ASSUME NEW n \in Nat \ {0}, NEW x \in Int, NEW y \in Int,
           x % n = y % n, x - y < n, y - x < n
    PROVE  x = y
<1> DEFINE a == x \div n
           b == y \div n
<1>1. /\ x = n * a + (x % n) /\ y = n * b + (x % n)
      /\ a \in Int /\ b \in Int /\ (x % n) \in Int
  BY DivMod
<1> HIDE DEF a, b
<1>2. n * a \in Int /\ n * b \in Int
  BY <1>1
<1>3. ~(a < b)
  <2> SUFFICES ASSUME a < b PROVE FALSE
    OBVIOUS
  <2>1. n * a + n <= n * b
    BY <1>1, MultiplesApart
  <2> QED
    BY <1>1, <1>2, <2>1
<1>4. ~(b < a)
  <2> SUFFICES ASSUME b < a PROVE FALSE
    OBVIOUS
  <2>1. n * b + n <= n * a
    BY <1>1, MultiplesApart
  <2> QED
    BY <1>1, <1>2, <2>1
<1>5. a = b
  BY <1>1, <1>3, <1>4
<1> QED
  BY <1>1, <1>5

(* The first n words, followed by the next ones, are the first words.      *)
LEMMA FirstWordsConcat ==
    ASSUME NEW n \in Nat, NEW size \in Nat
    PROVE  [k \in 1 .. n |-> k - 1] \o [k \in 1 .. size |-> n + k - 1]
               = [k \in 1 .. n + size |-> k - 1]
<1> DEFINE f == [k \in 1 .. n |-> k - 1]
           s == [k \in 1 .. size |-> n + k - 1]
           g == [k \in 1 .. n + size |-> k - 1]
<1>1. f \in Seq(Int) /\ s \in Seq(Int) /\ Len(f) = n /\ Len(s) = size
  OBVIOUS
<1>2. g \in Seq(Int) /\ Len(g) = n + size
  OBVIOUS
<1>3. f \o s \in Seq(Int) /\ Len(f \o s) = n + size
  BY <1>1
<1>4. ASSUME NEW k \in 1 .. n + size PROVE (f \o s)[k] = g[k]
  <2>1. CASE k <= n
    BY <1>1, <2>1
  <2>2. CASE k > n
    <3>1. (f \o s)[k] = s[k - n]
      BY <1>1, <2>2
    <3> QED
      BY <2>2, <3>1
  <2> QED
    BY <2>1, <2>2
<1> QED
  BY <1>2, <1>3, <1>4

(* The first n words, followed by word n, are the first n + 1 words.       *)
LEMMA FirstWordsAppend ==
    ASSUME NEW n \in Nat
    PROVE  Append([k \in 1 .. n |-> k - 1], n) = [k \in 1 .. n + 1 |-> k - 1]
<1> DEFINE f == [k \in 1 .. n |-> k - 1]
           g == [k \in 1 .. n + 1 |-> k - 1]
<1>1. f \in Seq(Int) /\ Len(f) = n
  OBVIOUS
<1>2. g \in Seq(Int) /\ Len(g) = n + 1
  OBVIOUS
<1>3. Append(f, n) \in Seq(Int) /\ Len(Append(f, n)) = n + 1
  BY <1>1
<1>4. ASSUME NEW k \in 1 .. n + 1 PROVE Append(f, n)[k] = g[k]
  BY <1>1
<1> QED
  BY <1>2, <1>3, <1>4
=============================================================================
