----------------------------- MODULE RingLemmas -----------------------------
(***************************************************************************)
(* Facts about rings of n slots and about sequences given as functions,    *)
(* which the proofs that a ring buffer implements BoundedQueue share.      *)
(***************************************************************************)
EXTENDS Integers, Sequences, TLAPS

\* Indices less than twice the number of slots wrap at most once.
LEMMA ModOfSmall ==
  ASSUME NEW n \in Nat \ {0}, NEW k \in 0 .. n - 1
  PROVE  k % n = k
OBVIOUS

LEMMA ModWraps ==
  ASSUME NEW n \in Nat \ {0}, NEW k \in n .. 2 * n - 1
  PROVE  k % n = k - n
OBVIOUS

LEMMA RingSlot ==
  ASSUME NEW n \in Nat \ {0}, NEW h \in 0 .. n - 1, NEW i \in 0 .. n
  PROVE  /\ (h + i) % n = IF h + i < n THEN h + i ELSE h + i - n
         /\ (h + i) % n \in 0 .. n - 1
<1>1. CASE h + i < n
  BY <1>1, ModOfSmall
<1>2. CASE h + i >= n
  <2>1. h + i \in n .. 2 * n - 1
    BY <1>2
  <2>2. (h + i) % n = h + i - n
    BY <2>1, ModWraps
  <2> QED
    BY <1>2, <2>1, <2>2
<1> QED
  BY <1>1, <1>2

\* How far b is ahead of a, and how far it is ahead of the slot after a.
LEMMA RingDistance ==
  ASSUME NEW n \in Nat \ {0}, NEW a \in 0 .. n - 1, NEW b \in 0 .. n - 1
  PROVE  /\ (b + n - a) % n = IF a <= b THEN b - a ELSE b - a + n
         /\ (b + n - 1 - a) % n = IF a < b THEN b - 1 - a ELSE b - 1 - a + n
<1>1. ASSUME NEW k \in 0 .. 2 * n - 1
      PROVE  k % n = IF k < n THEN k ELSE k - n
  <2>1. CASE k < n
    BY <2>1, ModOfSmall
  <2>2. CASE k >= n
    BY <2>2, ModWraps
  <2> QED
    BY <2>1, <2>2
<1>2. b + n - a \in 0 .. 2 * n - 1 /\ b + n - 1 - a \in 0 .. 2 * n - 1
  OBVIOUS
<1>3. /\ (b + n - a) % n = IF b + n - a < n THEN b + n - a ELSE b + n - a - n
      /\ (b + n - 1 - a) % n = IF b + n - 1 - a < n THEN b + n - 1 - a
                               ELSE b + n - 1 - a - n
  BY <1>1, <1>2
<1> QED
  BY <1>3

\* A function on 1 .. n + 1 that extends f is f with one element appended.
LEMMA AppendedSeq ==
  ASSUME NEW S, NEW n \in Nat, NEW f \in [1 .. n -> S], NEW v \in S,
         NEW g \in [1 .. n + 1 -> S],
         \A i \in 1 .. n : g[i] = f[i], g[n + 1] = v
  PROVE  Len(f) = n /\ g = Append(f, v)
OBVIOUS

\* A function on 1 .. n - 1 that is f shifted by one is f without its head.
LEMMA ShiftedSeq ==
  ASSUME NEW S, NEW n \in Nat \ {0}, NEW f \in [1 .. n -> S],
         NEW g \in [1 .. n - 1 -> S],
         \A i \in 1 .. n - 1 : g[i] = f[i + 1]
  PROVE  f # <<>> /\ Head(f) = f[1] /\ g = Tail(f)
OBVIOUS
=============================================================================
