-------------------------- MODULE QueueBenchProofs --------------------------
(***************************************************************************)
(* Theorems about the benchmark harness, for every row and every number of *)
(* threads, iterations and failures, and all capacities: a trial ends only *)
(* if the prefill covers it, the items it reports are the elements         *)
(* transferred, and its retry counters are exact for even splits and for   *)
(* no others.                                                              *)
(*                                                                         *)
(* The threads' numbers are summed as a set: Units has f[t] pairs of t, so *)
(* that a sum is a cardinality and grows by what one thread adds.          *)
(***************************************************************************)
EXTENDS QueueBench, FiniteSetTheorems, TLAPS

-----------------------------------------------------------------------------
Units(S, f) == {u \in S \X Nat : u[2] < f[u[1]]}

Total(S, f) == Cardinality(Units(S, f))

LEMMA NothingYet ==
  ASSUME NEW S, NEW f, \A s \in S : f[s] = 0
  PROVE  IsFiniteSet(Units(S, f)) /\ Total(S, f) = 0
<1>1. Units(S, f) = {}
  <2> SUFFICES ASSUME NEW s \in S, NEW n \in Nat, n < f[s] PROVE FALSE
    BY DEF Units
  <2> QED
    OBVIOUS
<1> QED
  BY <1>1, FS_EmptySet DEF Total

\* One of S adds m to its number.
LEMMA OneAdds ==
  ASSUME NEW S, NEW f, NEW g, NEW t \in S, NEW m \in Nat,
         \A s \in S : f[s] \in Nat,
         g[t] = f[t] + m, \A s \in S : s # t => g[s] = f[s],
         IsFiniteSet(Units(S, f))
  PROVE  IsFiniteSet(Units(S, g)) /\ Total(S, g) = Total(S, f) + m
<1> DEFINE New == {t} \X (f[t] .. f[t] + m - 1)
<1>1. Units(S, g) = Units(S, f) \cup New
  <2>1. ASSUME NEW s \in S, NEW n \in Nat
        PROVE  <<s, n>> \in Units(S, g) <=> <<s, n>> \in Units(S, f) \cup New
    <3>1. CASE s = t
      <4>1. f[t] \in Nat /\ g[t] = f[t] + m
        OBVIOUS
      <4> QED
        BY <3>1, <4>1 DEF Units
    <3>2. CASE s # t
      BY <3>2 DEF Units
    <3> QED
      BY <3>1, <3>2
  <2>2. Units(S, g) \subseteq S \X Nat /\ Units(S, f) \subseteq S \X Nat
    BY DEF Units
  <2>3. New \subseteq S \X Nat
    <3>1. f[t] \in Nat
      OBVIOUS
    <3>2. f[t] .. f[t] + m - 1 \subseteq Nat
      BY <3>1
    <3> QED
      BY <3>2
  <2> QED
    BY <2>1, <2>2, <2>3
<1>2. Units(S, f) \cap New = {}
  <2>1. ASSUME NEW u \in New PROVE u \notin Units(S, f)
    <3>1. f[t] \in Nat /\ u[1] = t /\ u[2] \in f[t] .. f[t] + m - 1
      OBVIOUS
    <3>2. ~(u[2] < f[u[1]])
      BY <3>1
    <3> QED
      BY <3>2 DEF Units
  <2> QED
    BY <2>1
<1>3. IsFiniteSet(New) /\ Cardinality(New) = m
  <2>1. PICK a \in Int, b \in Int : a = f[t] /\ b = a + m - 1
    OBVIOUS
  <2>2. /\ IsFiniteSet(a .. b)
        /\ Cardinality(a .. b) = IF a > b THEN 0 ELSE b - a + 1
    BY FS_Interval
  <2>3. Cardinality(a .. b) = m
    <3>1. b - a + 1 = m /\ (a > b => m = 0)
      BY <2>1
    <3> QED
      BY <2>2, <3>1
  <2>4. IsFiniteSet({t}) /\ Cardinality({t}) = 1
    BY FS_Singleton
  <2>5. /\ IsFiniteSet(New)
        /\ Cardinality(New) = Cardinality({t}) * Cardinality(a .. b)
    BY <2>1, <2>2, <2>4, FS_Product
  <2> QED
    BY <2>3, <2>4, <2>5
<1>4. /\ IsFiniteSet(Units(S, f) \cup New)
      /\ Cardinality(Units(S, f) \cup New)
           = Cardinality(Units(S, f)) + Cardinality(New)
               - Cardinality(Units(S, f) \cap New)
  BY <1>3, FS_Union
<1>5. Cardinality(Units(S, f) \cap New) = 0
  BY <1>2, FS_EmptySet
<1>6. Cardinality(Units(S, f)) \in Nat
  BY FS_CardinalityType
<1> HIDE DEF New
<1> QED
  BY <1>1, <1>3, <1>4, <1>5, <1>6 DEF Total

\* All of S have the same number.
LEMMA AllAlike ==
  ASSUME NEW S, IsFiniteSet(S), NEW f, NEW n \in Nat, \A s \in S : f[s] = n
  PROVE  Total(S, f) = Cardinality(S) * n
<1>1. Units(S, f) = S \X (0 .. n - 1)
  BY DEF Units
<1>2. IsFiniteSet(0 .. n - 1) /\ Cardinality(0 .. n - 1) = n
  <2>1. /\ IsFiniteSet(0 .. n - 1)
        /\ Cardinality(0 .. n - 1) = IF 0 > n - 1 THEN 0 ELSE n - 1 - 0 + 1
    BY FS_Interval
  <2> QED
    BY <2>1
<1> QED
  BY <1>1, <1>2, FS_Product DEF Total

LEMMA SameNumbers ==
  ASSUME NEW S, NEW f, NEW g, \A s \in S : f[s] = g[s]
  PROVE  Units(S, f) = Units(S, g) /\ Total(S, f) = Total(S, g)
<1>1. Units(S, f) = Units(S, g)
  BY DEF Units
<1> QED
  BY <1>1 DEF Total
-----------------------------------------------------------------------------
(***************************************************************************)
(* The invariant.                                                          *)
(***************************************************************************)
Bodies == {"blocking", "try", "bulk", "round_trip"}

\* Elements a thread transfers in one iteration.
PerIteration ==
  IF row.body = "bulk" THEN kBulkBatch ELSE IF row.body = "round_trip" THEN 2 ELSE 1

\* What a thread has transferred, failed at, and given to the library.
Moved == [t \in Threads |-> (iterations - left[t]) * PerIteration + part[t]]
Failed == [t \in Threads |-> retries[t] + failures[t]]
Given == [t \in Threads |-> IF t \in reported THEN retries[t] ELSE 0]

TypeInv ==
  /\ row \in Registered \cup Odd
  /\ iterations \in Nat \ {0}
  /\ phase \in {"idle", "run", "done"}
  /\ queued \in Nat
  /\ left \in [Threads -> Nat] /\ \A t \in Threads : left[t] <= iterations
  /\ reported \subseteq Threads
  /\ part \in [Threads -> Nat] /\ \A t \in Threads : part[t] < PerIteration
  /\ failures \in [Threads -> Nat]
  /\ retries \in [Threads -> Nat]
  /\ report \in [items : Nat, push : Nat, pop : Nat, op : Nat]
  /\ truth \in [ops : Nat, push : Nat, pop : Nat]

\* Only the try rows fail; a thread without iterations left is in none, and
\* only such threads report.
IterationsEnd ==
  \A t \in Threads :
    /\ row.body # "try" => failures[t] = 0
    /\ left[t] = 0 => part[t] = 0 /\ failures[t] = 0
    /\ t \in reported => left[t] = 0

Finite(f) == \A S \in {Producers, Consumers} : IsFiniteSet(Units(S, f))

FiniteSums == Finite(Moved) /\ Finite(Failed) /\ Finite(Given)

Pushed == Total(Producers, Moved)
Popped == Total(Consumers, Moved)

\* Every transfer is counted, and the queue holds the prefill and what has
\* been pushed but not popped.
TransfersCounted ==
  /\ truth.ops = Pushed + Popped
  /\ phase = "idle" => Pushed = 0 /\ Popped = 0
  /\ phase = "run" /\ row.body # "round_trip" => queued + Popped = Prefill + Pushed

FailuresCounted ==
  truth.push = Total(Producers, Failed) /\ truth.pop = Total(Consumers, Failed)

ReportsCounted ==
  /\ report.items = Cardinality(reported) * Items
  /\ report.push = 2 * Total(Producers, Given)
  /\ report.pop = 2 * Total(Consumers, Given)
  /\ 2 * report.op = report.push + report.pop

CoveredInTheEnd == phase = "done" => reported = Threads /\ Covered

BenchInv ==
  /\ TypeInv /\ IterationsEnd /\ FiniteSums /\ TransfersCounted
  /\ FailuresCounted /\ ReportsCounted /\ CoveredInTheEnd

-----------------------------------------------------------------------------
LEMMA RowTypes ==
  ASSUME row \in Registered \cup Odd
  PROVE  /\ row.threads \in Nat \ {0} /\ row.capacity \in Nat \ {0}
         /\ row.body \in Bodies
         /\ row.body = "round_trip" => row.threads = 1
         /\ row.body = "bulk" => row.threads = 2
         /\ PerIteration \in Nat \ {0} /\ Prefill \in Nat
         /\ row.body # "round_trip" => Prefill = row.capacity \div 2
<1>1. /\ row.threads \in Nat \ {0} /\ row.capacity \in Nat \ {0}
      /\ row.body \in Bodies
      /\ row.body = "round_trip" => row.threads = 1
      /\ row.body = "bulk" => row.threads = 2
  <2>1. CASE row \in Throughput
    BY <2>1, BenchAssumption DEF Throughput, Row, Bodies
  <2>2. CASE row \in BulkThroughput
    BY <2>2, BenchAssumption DEF BulkThroughput, Row, Bodies
  <2>3. ASSUME NEW n \in {kSpscThreads} \cup OddThreads, row \in TryThroughput(n)
        PROVE  /\ row.threads \in Nat \ {0} /\ row.capacity \in Nat \ {0}
               /\ row.body = "try"
    <3>1. n \in Nat \ {0}
      BY BenchAssumption
    <3> QED
      BY <2>3, <3>1, BenchAssumption DEF TryThroughput, Row
  <2>4. CASE row \in RoundTrip
    BY <2>4, BenchAssumption DEF RoundTrip, Row, Bodies
  <2> QED
    BY <2>1, <2>2, <2>3, <2>4 DEF Registered, Odd, Bodies
<1>2. PerIteration \in Nat \ {0}
  BY BenchAssumption DEF PerIteration
<1>3. row.capacity \div 2 \in Nat
  <2>1. PICK c \in Nat : c = row.capacity
    BY <1>1
  <2>2. c \div 2 \in Nat
    OBVIOUS
  <2> QED
    BY <2>1, <2>2
<1> QED
  BY <1>1, <1>2, <1>3 DEF Prefill

\* The threads and their halves.
LEMMA Halves ==
  ASSUME TypeInv
  PROVE  /\ IsFiniteSet(Threads) /\ Cardinality(Threads) = row.threads
         /\ IsFiniteSet(Producers) /\ IsFiniteSet(Consumers)
         /\ Cardinality(Producers) = row.threads \div 2
         /\ Cardinality(Producers) + Cardinality(Consumers) = row.threads
         /\ Producers \subseteq Threads /\ Consumers = Threads \ Producers
<1>1. PICK n \in Nat \ {0} : n = row.threads
  BY RowTypes DEF TypeInv
<1>2. PICK h \in Nat : h = n \div 2
  OBVIOUS
<1>3. 2 * h <= n /\ h <= n - 1
  BY <1>2
<1>4. /\ IsFiniteSet(0 .. n - 1) /\ Cardinality(0 .. n - 1) = n
      /\ IsFiniteSet(0 .. h - 1) /\ Cardinality(0 .. h - 1) = h
      /\ IsFiniteSet(h .. n - 1) /\ Cardinality(h .. n - 1) = n - h
  <2>1. /\ IsFiniteSet(0 .. n - 1)
        /\ Cardinality(0 .. n - 1) = IF 0 > n - 1 THEN 0 ELSE n - 1 - 0 + 1
    BY FS_Interval
  <2>2. /\ IsFiniteSet(0 .. h - 1)
        /\ Cardinality(0 .. h - 1) = IF 0 > h - 1 THEN 0 ELSE h - 1 - 0 + 1
    BY FS_Interval
  <2>3. /\ IsFiniteSet(h .. n - 1)
        /\ Cardinality(h .. n - 1) = IF h > n - 1 THEN 0 ELSE n - 1 - h + 1
    BY FS_Interval
  <2> QED
    BY <1>3, <2>1, <2>2, <2>3
<1>5. Threads = 0 .. n - 1
  BY <1>1 DEF Threads
<1>6. Producers = 0 .. h - 1
  BY <1>1, <1>2, <1>3, <1>5 DEF Producers
<1>7. Consumers = h .. n - 1
  BY <1>3, <1>5, <1>6 DEF Consumers
<1>8. Producers \subseteq Threads /\ Consumers = Threads \ Producers
  BY DEF Consumers, Producers
<1> QED
  BY <1>1, <1>2, <1>3, <1>4, <1>5, <1>6, <1>7, <1>8

LEMMA NumbersAre ==
  ASSUME TypeInv, NEW t \in Threads
  PROVE  Moved[t] \in Nat /\ Failed[t] \in Nat /\ Given[t] \in Nat
<1>1. PICK k \in Nat, i \in Nat, l \in Nat :
        k = PerIteration /\ i = iterations /\ l = left[t] /\ l <= i
  BY RowTypes DEF TypeInv
<1>2. (i - l) * k \in Nat
  <2>1. i - l \in Nat
    BY <1>1
  <2> QED
    BY <2>1
<1> QED
  BY <1>1, <1>2 DEF TypeInv, Moved, Failed, Given

LEMMA ItemsAre ==
  ASSUME TypeInv
  PROVE  Items \in Nat /\ Items = iterations * PerIteration * row.threads
<1>1. PICK k \in Nat, i \in Nat, n \in Nat :
        k = PerIteration /\ i = iterations /\ n = row.threads
  BY RowTypes DEF TypeInv
<1>2. PICK p \in Nat : p = i * k
  OBVIOUS
<1>3. PICK q \in Nat : q = p * n
  OBVIOUS
<1>4. CASE row.body \in {"blocking", "try"}
  <2>1. k = 1
    BY <1>1, <1>4 DEF PerIteration
  <2>2. p = i
    BY <1>2, <2>1
  <2>3. Items = i * n
    BY <1>1, <1>4 DEF Items
  <2> QED
    BY <1>1, <1>2, <1>3, <2>2, <2>3
<1>5. CASE row.body = "bulk"
  <2>1. Items = i * k * n
    BY <1>1, <1>5 DEF Items, PerIteration
  <2> QED
    BY <1>1, <1>2, <1>3, <2>1
<1>6. CASE row.body = "round_trip"
  <2>1. k = 2 /\ n = 1
    BY <1>1, <1>6, RowTypes DEF PerIteration, TypeInv
  <2>2. q = p
    BY <1>3, <2>1
  <2>3. Items = i * 2
    BY <1>1, <1>6 DEF Items
  <2> QED
    BY <1>1, <1>2, <1>3, <2>1, <2>2, <2>3
<1> QED
  BY <1>4, <1>5, <1>6, RowTypes DEF Bodies, TypeInv

LEMMA TotalsAre ==
  ASSUME NEW f, Finite(f)
  PROVE  Total(Producers, f) \in Nat /\ Total(Consumers, f) \in Nat
BY FS_CardinalityType DEF Finite, Total

LEMMA BenchInit == Init => BenchInv
<1> SUFFICES ASSUME Init PROVE BenchInv
  OBVIOUS
<1>1. TypeInv
  <2>1. PerIteration \in Nat \ {0}
    BY RowTypes DEF Init
  <2>2. iterations \in Nat /\ iterations <= iterations
    BY BenchAssumption DEF Init
  <2> QED
    BY <2>1, <2>2 DEF Init, TypeInv, Zero
<1>2. IterationsEnd
  BY BenchAssumption DEF Init, IterationsEnd, Zero
<1>3. \A t \in Threads : Moved[t] = 0 /\ Failed[t] = 0 /\ Given[t] = 0
  <2> SUFFICES ASSUME NEW t \in Threads
               PROVE  Moved[t] = 0 /\ Failed[t] = 0 /\ Given[t] = 0
    OBVIOUS
  <2>1. PICK k \in Nat, i \in Nat : k = PerIteration /\ i = iterations
    BY <1>1, RowTypes DEF TypeInv
  <2>2. (i - i) * k + 0 = 0
    OBVIOUS
  <2> QED
    BY <2>1, <2>2 DEF Moved, Failed, Given, Init, Zero
<1>4. \A S \in {Producers, Consumers} : S \subseteq Threads
  BY DEF Producers, Consumers
<1>5. \A S \in {Producers, Consumers}, f \in {Moved, Failed, Given} :
         IsFiniteSet(Units(S, f)) /\ Total(S, f) = 0
  BY <1>3, <1>4, NothingYet
<1>6. FiniteSums
  BY <1>5 DEF FiniteSums, Finite
<1>7. /\ Total(Producers, Moved) = 0 /\ Total(Consumers, Moved) = 0
      /\ Total(Producers, Failed) = 0 /\ Total(Consumers, Failed) = 0
      /\ Total(Producers, Given) = 0 /\ Total(Consumers, Given) = 0
  BY <1>5
<1>8. TransfersCounted /\ FailuresCounted
  BY <1>7 DEF Init, TransfersCounted, FailuresCounted, Pushed, Popped
<1>9. ReportsCounted
  <2>1. Items \in Nat
    BY <1>1, ItemsAre
  <2>2. Cardinality(reported) = 0
    BY FS_EmptySet DEF Init
  <2> QED
    BY <1>7, <2>1, <2>2 DEF Init, ReportsCounted
<1>10. CoveredInTheEnd
  BY DEF Init, CoveredInTheEnd
<1> QED
  BY <1>1, <1>2, <1>6, <1>8, <1>9, <1>10 DEF BenchInv

-----------------------------------------------------------------------------
(***************************************************************************)
(* What a step does to the sums.                                           *)
(***************************************************************************)
LEMMA TrialFixed ==
  ASSUME UNCHANGED trial
  PROVE  /\ row' = row /\ iterations' = iterations
         /\ Threads' = Threads /\ Producers' = Producers /\ Consumers' = Consumers
         /\ PerIteration' = PerIteration /\ Prefill' = Prefill /\ Items' = Items
         /\ Covered' = Covered
<1>1. row' = row /\ iterations' = iterations
  BY DEF trial
<1>2. Threads' = Threads
  BY <1>1 DEF Threads
<1>3. Producers' = Producers
  BY <1>1, <1>2 DEF Producers
<1>4. Consumers' = Consumers
  BY <1>2, <1>3 DEF Consumers
<1>5. PerIteration' = PerIteration /\ Prefill' = Prefill /\ Items' = Items
  BY <1>1 DEF PerIteration, Prefill, Items
<1>6. Covered' = Covered
  BY <1>1, <1>3, <1>4 DEF Covered
<1> QED
  BY <1>1, <1>2, <1>3, <1>4, <1>5, <1>6

\* Thread t adds m to its number f[t]; with m = 0, nothing changes.
LEMMA OneOfHalves ==
  ASSUME TypeInv, NEW f, NEW g, NEW t \in Threads, NEW m \in Nat, Finite(f),
         \A s \in Threads : f[s] \in Nat /\ g[s] = IF s = t THEN f[s] + m ELSE f[s]
  PROVE  /\ \A S \in {Producers, Consumers} : IsFiniteSet(Units(S, g))
         /\ Total(Producers, g)
              = Total(Producers, f) + (IF t \in Producers THEN m ELSE 0)
         /\ Total(Consumers, g)
              = Total(Consumers, f) + (IF t \in Producers THEN 0 ELSE m)
<1>1. ASSUME NEW S \in {Producers, Consumers}
      PROVE  IsFiniteSet(Units(S, g))
             /\ Total(S, g) = Total(S, f) + (IF t \in S THEN m ELSE 0)
  <2>1. S \subseteq Threads /\ IsFiniteSet(Units(S, f)) /\ Total(S, f) \in Nat
    BY Halves, TotalsAre DEF Finite
  <2>2. CASE t \in S
    <3>1. \A s \in S : f[s] \in Nat
      BY <2>1
    <3>2. g[t] = f[t] + m
      OBVIOUS
    <3>3. \A s \in S : s # t => g[s] = f[s]
      BY <2>1
    <3>4. IsFiniteSet(Units(S, g)) /\ Total(S, g) = Total(S, f) + m
      BY ONLY <2>1, <2>2, <3>1, <3>2, <3>3, OneAdds, m \in Nat
    <3> QED
      BY <2>2, <3>4
  <2>3. CASE t \notin S
    <3>1. \A s \in S : f[s] = g[s]
      BY <2>1, <2>3
    <3>2. Units(S, f) = Units(S, g) /\ Total(S, f) = Total(S, g)
      BY <3>1, SameNumbers
    <3> QED
      BY <2>1, <2>3, <3>2
  <2> QED
    BY <2>2, <2>3
<1>2. t \in Producers <=> t \notin Consumers
  BY Halves
<1> QED
  BY <1>1, <1>2

\* Thread t transfers m elements, and with the last of them ends its iteration.
Moves(t, m) ==
  \/ /\ part[t] + m < PerIteration
     /\ left' = left
     /\ part' = [part EXCEPT ![t] = part[t] + m]
  \/ /\ part[t] + m = PerIteration
     /\ left' = [left EXCEPT ![t] = left[t] - 1]
     /\ part' = [part EXCEPT ![t] = 0]

LEMMA MovesAdds ==
  ASSUME TypeInv, UNCHANGED trial,
         NEW t \in Threads, left[t] > 0, NEW m \in Nat, Moves(t, m)
  PROVE  /\ left' \in [Threads -> Nat]
         /\ \A s \in Threads : left'[s] <= iterations
         /\ part' \in [Threads -> Nat]
         /\ \A s \in Threads : part'[s] < PerIteration
         /\ \A s \in Threads : s # t => left'[s] = left[s] /\ part'[s] = part[s]
         /\ left'[t] = 0 => part'[t] = 0
         /\ \A s \in Threads : Moved'[s] = IF s = t THEN Moved[s] + m ELSE Moved[s]
<1>1. PICK k \in Nat \ {0}, i \in Nat, l \in Nat, p \in Nat :
        k = PerIteration /\ i = iterations /\ l = left[t] /\ p = part[t] /\ l <= i
  BY RowTypes DEF TypeInv
<1>2. l > 0 /\ l - 1 \in Nat /\ l - 1 <= i /\ p + m \in Nat
  BY <1>1
<1>3. /\ left' \in [Threads -> Nat] /\ part' \in [Threads -> Nat]
      /\ \A s \in Threads : s # t => left'[s] = left[s] /\ part'[s] = part[s]
  BY <1>1, <1>2 DEF Moves, TypeInv
<1>4. \/ p + m < k /\ left'[t] = l /\ part'[t] = p + m
      \/ p + m = k /\ left'[t] = l - 1 /\ part'[t] = 0
  BY <1>1 DEF Moves, TypeInv
<1>5. Moved[t] = (i - l) * k + p
  BY <1>1 DEF Moved
<1>6. Moved' = [s \in Threads |-> (iterations - left'[s]) * PerIteration + part'[s]]
  BY TrialFixed DEF Moved
<1>7. Moved'[t] = Moved[t] + m
  <2>1. CASE p + m < k /\ left'[t] = l /\ part'[t] = p + m
    <3>1. PICK z \in Int : z = (i - l) * k
      OBVIOUS
    <3>2. Moved'[t] = z + (p + m)
      BY <1>1, <1>6, <2>1, <3>1
    <3> QED
      BY <1>5, <3>1, <3>2
  <2>2. CASE p + m = k /\ left'[t] = l - 1 /\ part'[t] = 0
    <3>1. PICK z \in Int : z = (i - l) * k
      OBVIOUS
    <3>2. (i - (l - 1)) * k = z + k
      BY <3>1
    <3>3. Moved'[t] = (i - (l - 1)) * k + 0
      BY <1>1, <1>6, <2>2
    <3> QED
      BY <1>5, <2>2, <3>1, <3>2, <3>3
  <2> QED
    BY <1>4, <2>1, <2>2
<1>8. \A s \in Threads : s # t => Moved'[s] = Moved[s]
  BY <1>3, <1>6 DEF Moved
<1>9. \A s \in Threads : left'[s] <= iterations /\ part'[s] < PerIteration
  BY <1>1, <1>2, <1>3, <1>4 DEF TypeInv
<1>10. left'[t] = 0 => part'[t] = 0
  BY <1>2, <1>4
<1> QED
  BY <1>3, <1>7, <1>8, <1>9, <1>10

\* Steps that change no report and no failures, whatever they transfer.
LEMMA TransferStep ==
  ASSUME BenchInv, phase = "run", UNCHANGED <<trial, phase, reported, report>>,
         NEW t \in Threads, left[t] > 0, NEW m \in Nat, Moves(t, m),
         queued' \in Nat,
         row.body # "round_trip" =>
           queued' = IF t \in Producers THEN queued + m ELSE queued - m,
         truth' = [truth EXCEPT !.ops = @ + m],
         failures' \in [Threads -> Nat], retries' \in [Threads -> Nat],
         failures'[t] = 0,
         \A s \in Threads : s # t => failures'[s] = failures[s] /\ retries'[s] = retries[s],
         \A s \in Threads : retries'[s] + failures'[s] = retries[s] + failures[s]
  PROVE  BenchInv'
<1>1. TypeInv /\ IterationsEnd /\ FiniteSums /\ TransfersCounted
      /\ FailuresCounted /\ ReportsCounted /\ CoveredInTheEnd
  BY DEF BenchInv
<1>2. /\ left' \in [Threads -> Nat]
      /\ \A s \in Threads : left'[s] <= iterations
      /\ part' \in [Threads -> Nat]
      /\ \A s \in Threads : part'[s] < PerIteration
      /\ \A s \in Threads : s # t => left'[s] = left[s] /\ part'[s] = part[s]
      /\ left'[t] = 0 => part'[t] = 0
      /\ \A s \in Threads : Moved'[s] = IF s = t THEN Moved[s] + m ELSE Moved[s]
  BY <1>1, MovesAdds
<1>3. /\ row' = row /\ iterations' = iterations
      /\ Threads' = Threads /\ Producers' = Producers /\ Consumers' = Consumers
      /\ PerIteration' = PerIteration /\ Prefill' = Prefill /\ Items' = Items
  BY TrialFixed
<1>4. truth.ops \in Nat /\ truth'.ops = truth.ops + m
      /\ truth'.push = truth.push /\ truth'.pop = truth.pop
      /\ truth' \in [ops : Nat, push : Nat, pop : Nat]
  BY <1>1 DEF TypeInv
<1>5. TypeInv'
  BY <1>1, <1>2, <1>3, <1>4 DEF TypeInv
<1>6. IterationsEnd'
  <2>1. t \notin reported
    BY <1>1 DEF IterationsEnd
  <2> QED
    BY <1>1, <1>2, <1>3, <2>1 DEF IterationsEnd
<1>7. \A s \in Threads : Failed'[s] = Failed[s]
  BY <1>3 DEF Failed
<1>8. \A s \in Threads : Given'[s] = Given[s]
  <2>1. t \notin reported
    BY <1>1 DEF IterationsEnd
  <2> QED
    BY <1>3, <2>1 DEF Given
<1>9. /\ \A S \in {Producers, Consumers} : IsFiniteSet(Units(S, Moved'))
      /\ Total(Producers, Moved') = Pushed + (IF t \in Producers THEN m ELSE 0)
      /\ Total(Consumers, Moved') = Popped + (IF t \in Producers THEN 0 ELSE m)
  <2>1. \A s \in Threads : Moved[s] \in Nat
    BY <1>1, NumbersAre
  <2> QED
    BY <1>1, <1>2, <2>1, OneOfHalves DEF FiniteSums, Pushed, Popped
<1>10. \A S \in {Producers, Consumers} :
         /\ Units(S, Failed') = Units(S, Failed) /\ Total(S, Failed') = Total(S, Failed)
         /\ Units(S, Given') = Units(S, Given) /\ Total(S, Given') = Total(S, Given)
  <2>1. \A S \in {Producers, Consumers} : S \subseteq Threads
    BY <1>1, Halves
  <2> QED
    BY <1>7, <1>8, <2>1, SameNumbers
<1>11. FiniteSums'
  BY <1>1, <1>3, <1>9, <1>10 DEF FiniteSums, Finite
<1>12. Pushed' = Total(Producers, Moved') /\ Popped' = Total(Consumers, Moved')
  BY <1>3 DEF Pushed, Popped
<1>13. Pushed \in Nat /\ Popped \in Nat /\ Prefill \in Nat /\ queued \in Nat
  BY <1>1, TotalsAre, RowTypes DEF FiniteSums, Pushed, Popped, TypeInv
<1>14. TransfersCounted'
  <2>1. truth'.ops = Pushed' + Popped'
    BY <1>1, <1>4, <1>9, <1>12, <1>13 DEF TransfersCounted
  <2>2. row.body # "round_trip" => queued' + Popped' = Prefill + Pushed'
    BY <1>1, <1>9, <1>12, <1>13 DEF TransfersCounted
  <2> QED
    BY <1>3, <2>1, <2>2 DEF TransfersCounted
<1>15. FailuresCounted'
  BY <1>1, <1>3, <1>4, <1>10 DEF FailuresCounted
<1>16. ReportsCounted'
  BY <1>1, <1>3, <1>10 DEF ReportsCounted
<1>17. CoveredInTheEnd'
  BY DEF CoveredInTheEnd
<1> QED
  BY <1>5, <1>6, <1>11, <1>14, <1>15, <1>16, <1>17 DEF BenchInv

LEMMA SetupStep == BenchInv /\ Setup => BenchInv'
<1> SUFFICES ASSUME BenchInv, Setup PROVE BenchInv'
  OBVIOUS
<1>1. TypeInv /\ IterationsEnd /\ FiniteSums /\ TransfersCounted
      /\ FailuresCounted /\ ReportsCounted /\ CoveredInTheEnd
  BY DEF BenchInv
<1>2. UNCHANGED <<trial, left, reported, part, failures, retries, report, truth>>
      /\ phase = "idle" /\ phase' = "run" /\ queued' = Prefill
  BY DEF Setup
<1>3. /\ row' = row /\ iterations' = iterations
      /\ Threads' = Threads /\ Producers' = Producers /\ Consumers' = Consumers
      /\ PerIteration' = PerIteration /\ Prefill' = Prefill /\ Items' = Items
  BY <1>2, TrialFixed
<1>4. Prefill \in Nat
  BY <1>1, RowTypes DEF TypeInv
<1>5. Moved' = Moved /\ Failed' = Failed /\ Given' = Given
  BY <1>2, <1>3 DEF Moved, Failed, Given
<1>6. TypeInv' /\ IterationsEnd'
  BY <1>1, <1>2, <1>3, <1>4 DEF TypeInv, IterationsEnd
<1>7. FiniteSums' /\ FailuresCounted' /\ ReportsCounted'
  BY <1>1, <1>2, <1>3, <1>5 DEF FiniteSums, Finite, FailuresCounted, ReportsCounted
<1>8. Pushed' = Pushed /\ Popped' = Popped
  BY <1>3, <1>5 DEF Pushed, Popped
<1>9. TransfersCounted'
  BY <1>1, <1>2, <1>3, <1>4, <1>8 DEF TransfersCounted
<1>10. CoveredInTheEnd'
  BY <1>2 DEF CoveredInTheEnd
<1> QED
  BY <1>6, <1>7, <1>9, <1>10 DEF BenchInv

LEMMA TryFailsStep ==
  ASSUME BenchInv, NEW t \in Threads, TryFails(t)
  PROVE  BenchInv'
<1>1. TypeInv /\ IterationsEnd /\ FiniteSums /\ TransfersCounted
      /\ FailuresCounted /\ ReportsCounted /\ CoveredInTheEnd
  BY DEF BenchInv
<1>2. /\ UNCHANGED <<trial, phase, queued, left, reported, part, retries, report>>
      /\ phase = "run" /\ row.body = "try" /\ left[t] > 0
  BY DEF TryFails, Running
<1>3. /\ row' = row /\ iterations' = iterations
      /\ Threads' = Threads /\ Producers' = Producers /\ Consumers' = Consumers
      /\ PerIteration' = PerIteration /\ Prefill' = Prefill /\ Items' = Items
  BY <1>2, TrialFixed
<1>4. PICK m \in Nat :
        /\ failures' = [failures EXCEPT ![t] = failures[t] + m]
        /\ truth' = IF t \in Producers THEN [truth EXCEPT !.push = truth.push + m]
                                        ELSE [truth EXCEPT !.pop = truth.pop + m]
  <2>1. CASE failures[t] = MaxFailures
    <3>1. failures' = failures /\ truth' = truth
      BY <2>1 DEF TryFails
    <3>2. failures = [failures EXCEPT ![t] = failures[t] + 0]
      BY <1>1 DEF TypeInv
    <3>3. /\ truth = [truth EXCEPT !.push = truth.push + 0]
          /\ truth = [truth EXCEPT !.pop = truth.pop + 0]
      BY <1>1 DEF TypeInv
    <3> QED
      BY <3>1, <3>2, <3>3
  <2>2. CASE failures[t] # MaxFailures
    BY <2>2 DEF TryFails
  <2> QED
    BY <2>1, <2>2
<1>5. /\ truth'.ops = truth.ops
      /\ truth'.push = truth.push + (IF t \in Producers THEN m ELSE 0)
      /\ truth'.pop = truth.pop + (IF t \in Producers THEN 0 ELSE m)
      /\ truth' \in [ops : Nat, push : Nat, pop : Nat]
  BY <1>1, <1>4 DEF TypeInv
<1>6. /\ failures' \in [Threads -> Nat] /\ failures'[t] = failures[t] + m
      /\ \A s \in Threads : s # t => failures'[s] = failures[s]
  BY <1>1, <1>4 DEF TypeInv
<1>7. TypeInv'
  BY <1>1, <1>2, <1>3, <1>5, <1>6 DEF TypeInv
<1>8. IterationsEnd'
  BY <1>1, <1>2, <1>3, <1>6 DEF IterationsEnd
<1>9. Moved' = Moved /\ Given' = Given
  BY <1>2, <1>3 DEF Moved, Given
<1>10. \A s \in Threads : Failed'[s] = IF s = t THEN Failed[s] + m ELSE Failed[s]
  BY <1>1, <1>2, <1>3, <1>6 DEF Failed, TypeInv
<1>11. /\ \A S \in {Producers, Consumers} : IsFiniteSet(Units(S, Failed'))
       /\ Total(Producers, Failed')
            = Total(Producers, Failed) + (IF t \in Producers THEN m ELSE 0)
       /\ Total(Consumers, Failed')
            = Total(Consumers, Failed) + (IF t \in Producers THEN 0 ELSE m)
  <2>1. \A s \in Threads : Failed[s] \in Nat
    BY <1>1, NumbersAre
  <2> QED
    BY <1>1, <1>10, <2>1, OneOfHalves DEF FiniteSums
<1>12. FiniteSums' /\ ReportsCounted'
  BY <1>1, <1>2, <1>3, <1>9, <1>11 DEF FiniteSums, Finite, ReportsCounted
<1>13. FailuresCounted'
  BY <1>1, <1>3, <1>5, <1>11 DEF FailuresCounted
<1>14. Pushed' = Pushed /\ Popped' = Popped
  BY <1>3, <1>9 DEF Pushed, Popped
<1>15. TransfersCounted' /\ CoveredInTheEnd'
  BY <1>1, <1>2, <1>3, <1>5, <1>14 DEF TransfersCounted, CoveredInTheEnd
<1> QED
  BY <1>7, <1>8, <1>12, <1>13, <1>15 DEF BenchInv

LEMMA ReportsStep ==
  ASSUME BenchInv, NEW t \in Threads, Reports(t)
  PROVE  BenchInv'
<1>1. TypeInv /\ IterationsEnd /\ FiniteSums /\ TransfersCounted
      /\ FailuresCounted /\ ReportsCounted /\ CoveredInTheEnd
  BY DEF BenchInv
<1>2. /\ UNCHANGED <<trial, phase, queued, left, part, failures, retries, truth>>
      /\ phase = "run" /\ left[t] = 0 /\ t \notin reported
      /\ reported' = reported \cup {t}
  BY DEF Reports
<1>3. /\ row' = row /\ iterations' = iterations
      /\ Threads' = Threads /\ Producers' = Producers /\ Consumers' = Consumers
      /\ PerIteration' = PerIteration /\ Prefill' = Prefill /\ Items' = Items
  BY <1>2, TrialFixed
<1>4. PICK r \in Nat, i \in Nat : r = retries[t] /\ i = Items
  BY <1>1, ItemsAre DEF TypeInv
<1>5. /\ report'.items = report.items + i
      /\ report'.push = report.push + (IF t \in Producers THEN 2 * r ELSE 0)
      /\ report'.pop = report.pop + (IF t \in Producers THEN 0 ELSE 2 * r)
      /\ report'.op = report.op + r
      /\ report' \in [items : Nat, push : Nat, pop : Nat, op : Nat]
  BY <1>1, <1>4 DEF Reports, SideRetries, TypeInv
<1>6. TypeInv' /\ IterationsEnd'
  BY <1>1, <1>2, <1>3, <1>5 DEF TypeInv, IterationsEnd
<1>7. Moved' = Moved /\ Failed' = Failed
  BY <1>2, <1>3 DEF Moved, Failed
<1>8. \A s \in Threads : Given'[s] = IF s = t THEN Given[s] + r ELSE Given[s]
  BY <1>2, <1>3, <1>4 DEF Given
<1>9. /\ \A S \in {Producers, Consumers} : IsFiniteSet(Units(S, Given'))
      /\ Total(Producers, Given')
           = Total(Producers, Given) + (IF t \in Producers THEN r ELSE 0)
      /\ Total(Consumers, Given')
           = Total(Consumers, Given) + (IF t \in Producers THEN 0 ELSE r)
  <2>1. \A s \in Threads : Given[s] \in Nat
    BY <1>1, NumbersAre
  <2> QED
    BY <1>1, <1>8, <2>1, OneOfHalves DEF FiniteSums
<1>10. FiniteSums' /\ FailuresCounted'
  BY <1>1, <1>2, <1>3, <1>7, <1>9 DEF FiniteSums, Finite, FailuresCounted
<1>11. ReportsCounted'
  <2>1. PICK p \in Nat, c \in Nat : p = Total(Producers, Given) /\ c = Total(Consumers, Given)
    BY <1>1, TotalsAre DEF FiniteSums
  <2>2. IsFiniteSet(reported) /\ IsFiniteSet(Threads)
    BY <1>1, Halves, FS_Subset DEF TypeInv
  <2>3. PICK n \in Nat : n = Cardinality(reported)
    BY <2>2, FS_CardinalityType
  <2>4. Cardinality(reported') = n + 1
    BY <1>2, <2>2, <2>3, FS_AddElement
  <2>5. report'.items = Cardinality(reported') * Items'
    <3>1. report.items = n * i
      BY <1>1, <1>4, <2>3 DEF ReportsCounted
    <3>2. (n + 1) * i = n * i + i
      OBVIOUS
    <3> QED
      BY <1>3, <1>4, <1>5, <2>4, <3>1, <3>2
  <2>6. report.push = 2 * p /\ report.pop = 2 * c /\ 2 * report.op = report.push + report.pop
        /\ report.op \in Nat
    BY <1>1, <2>1 DEF ReportsCounted, TypeInv
  <2>7. /\ report'.push = 2 * Total(Producers, Given')
        /\ report'.pop = 2 * Total(Consumers, Given')
        /\ 2 * report'.op = report'.push + report'.pop
    BY <1>5, <1>9, <2>1, <2>6
  <2> QED
    BY <1>3, <2>5, <2>7 DEF ReportsCounted
<1>12. Pushed' = Pushed /\ Popped' = Popped
  BY <1>3, <1>7 DEF Pushed, Popped
<1>13. TransfersCounted' /\ CoveredInTheEnd'
  BY <1>1, <1>2, <1>3, <1>12 DEF TransfersCounted, CoveredInTheEnd
<1> QED
  BY <1>6, <1>10, <1>11, <1>13 DEF BenchInv

\* Once all threads have reported, both sides have done all their iterations.
LEMMA AllReported ==
  ASSUME BenchInv, reported = Threads
  PROVE  LET p == Cardinality(Producers)
             c == Cardinality(Consumers)
         IN  /\ Pushed = p * (iterations * PerIteration)
             /\ Popped = c * (iterations * PerIteration)
             /\ Total(Producers, Failed) = Total(Producers, Given)
             /\ Total(Consumers, Failed) = Total(Consumers, Given)
<1>1. TypeInv /\ IterationsEnd
  BY DEF BenchInv
<1>2. PICK k \in Nat, i \in Nat : k = PerIteration /\ i = iterations
  BY <1>1, RowTypes DEF TypeInv
<1>3. PICK n \in Nat : n = i * k
  OBVIOUS
<1>4. ASSUME NEW t \in Threads
      PROVE  Moved[t] = n /\ Failed[t] = Given[t]
  <2>1. left[t] = 0 /\ part[t] = 0 /\ failures[t] = 0 /\ retries[t] \in Nat
    BY <1>1 DEF IterationsEnd, TypeInv
  <2>2. (i - 0) * k + 0 = n
    BY <1>3
  <2> QED
    BY <1>2, <2>1, <2>2 DEF Moved, Failed, Given
<1>5. /\ IsFiniteSet(Producers) /\ Producers \subseteq Threads
      /\ IsFiniteSet(Consumers) /\ Consumers \subseteq Threads
  BY <1>1, Halves
<1>6. /\ Total(Producers, Moved) = Cardinality(Producers) * n
      /\ Total(Consumers, Moved) = Cardinality(Consumers) * n
  BY <1>4, <1>5, AllAlike
<1>7. /\ Total(Producers, Failed) = Total(Producers, Given)
      /\ Total(Consumers, Failed) = Total(Consumers, Given)
  BY <1>4, <1>5, SameNumbers
<1> QED
  BY <1>2, <1>3, <1>6, <1>7 DEF Pushed, Popped

LEMMA TeardownStep == BenchInv /\ Teardown => BenchInv'
<1> SUFFICES ASSUME BenchInv, Teardown PROVE BenchInv'
  OBVIOUS
<1>1. TypeInv /\ IterationsEnd /\ FiniteSums /\ TransfersCounted
      /\ FailuresCounted /\ ReportsCounted
  BY DEF BenchInv
<1>2. UNCHANGED <<trial, left, reported, part, failures, retries, report, truth>>
      /\ phase = "run" /\ phase' = "done" /\ queued' = 0 /\ reported = Threads
  BY DEF Teardown
<1>3. /\ row' = row /\ iterations' = iterations
      /\ Threads' = Threads /\ Producers' = Producers /\ Consumers' = Consumers
      /\ PerIteration' = PerIteration /\ Prefill' = Prefill /\ Items' = Items
      /\ Covered' = Covered
  BY <1>2, TrialFixed
<1>4. Moved' = Moved /\ Failed' = Failed /\ Given' = Given
  BY <1>2, <1>3 DEF Moved, Failed, Given
<1>5. TypeInv' /\ IterationsEnd'
  BY <1>1, <1>2, <1>3 DEF TypeInv, IterationsEnd
<1>6. FiniteSums' /\ FailuresCounted' /\ ReportsCounted'
  BY <1>1, <1>2, <1>3, <1>4 DEF FiniteSums, Finite, FailuresCounted, ReportsCounted
<1>7. Pushed' = Pushed /\ Popped' = Popped
  BY <1>3, <1>4 DEF Pushed, Popped
<1>8. TransfersCounted'
  BY <1>1, <1>2, <1>3, <1>7 DEF TransfersCounted
<1>9. Covered
  <2>1. CASE row.body = "round_trip"
    BY <2>1 DEF Covered
  <2>2. CASE row.body # "round_trip"
    <3>1. PICK p \in Nat, c \in Nat, i \in Nat, k \in Nat, f \in Nat, q \in Nat :
            /\ p = Cardinality(Producers) /\ c = Cardinality(Consumers)
            /\ i = iterations /\ k = PerIteration /\ f = Prefill /\ q = queued
      BY <1>1, Halves, RowTypes, FS_CardinalityType DEF TypeInv
    <3>2. q + c * (i * k) = f + p * (i * k)
      BY <1>1, <1>2, <2>2, <3>1, AllReported DEF TransfersCounted
    <3>3. (c - p) * i <= f
      <4>1. CASE k = 1
        <5>1. q + c * i = f + p * i
          BY <3>2, <4>1
        <5>2. PICK a \in Nat, b \in Nat : a = c * i /\ b = p * i
          OBVIOUS
        <5>3. (c - p) * i = a - b
          BY <5>2
        <5> QED
          BY <5>1, <5>2, <5>3
      <4>2. CASE row.body = "bulk"
        <5>1. row.threads = 2
          BY <1>1, <4>2, RowTypes DEF TypeInv
        <5>2. p = 1 /\ p + c = 2
          BY <1>1, <3>1, <5>1, Halves
        <5>3. c - p = 0
          BY <5>2
        <5>4. (c - p) * i = 0
          BY <5>3
        <5> QED
          BY <5>4
      <4> QED
        BY <2>2, <3>1, <4>1, <4>2 DEF PerIteration
    <3>4. f = row.capacity \div 2
      BY <1>1, <2>2, <3>1, RowTypes DEF TypeInv
    <3> QED
      BY <3>1, <3>3, <3>4 DEF Covered
  <2> QED
    BY <2>1, <2>2
<1>10. CoveredInTheEnd'
  BY <1>2, <1>3, <1>9 DEF CoveredInTheEnd
<1> QED
  BY <1>5, <1>6, <1>8, <1>10 DEF BenchInv

LEMMA StutterStep == BenchInv /\ UNCHANGED vars => BenchInv'
<1> SUFFICES ASSUME BenchInv, UNCHANGED vars PROVE BenchInv'
  OBVIOUS
<1>1. UNCHANGED <<trial, phase, queued, left, reported, part, failures, retries, report, truth>>
  BY DEF vars
<1>2. /\ row' = row /\ iterations' = iterations
      /\ Threads' = Threads /\ Producers' = Producers /\ Consumers' = Consumers
      /\ PerIteration' = PerIteration /\ Prefill' = Prefill /\ Items' = Items
      /\ Covered' = Covered
  BY <1>1, TrialFixed
<1>3. Moved' = Moved /\ Failed' = Failed /\ Given' = Given
  BY <1>1, <1>2 DEF Moved, Failed, Given
<1>4. Pushed' = Pushed /\ Popped' = Popped
  BY <1>2, <1>3 DEF Pushed, Popped
<1>5. TypeInv' /\ IterationsEnd'
  BY <1>1, <1>2 DEF BenchInv, TypeInv, IterationsEnd
<1>6. FiniteSums' /\ FailuresCounted' /\ ReportsCounted'
  BY <1>1, <1>2, <1>3 DEF BenchInv, FiniteSums, Finite, FailuresCounted, ReportsCounted
<1>7. TransfersCounted' /\ CoveredInTheEnd'
  BY <1>1, <1>2, <1>4 DEF BenchInv, TransfersCounted, CoveredInTheEnd
<1> QED
  BY <1>5, <1>6, <1>7 DEF BenchInv

LEMMA OpStep ==
  ASSUME BenchInv, NEW t \in Threads,
         BlockingOp(t) \/ TrySucceeds(t) \/ BulkOp(t) \/ RoundTripOp(t)
  PROVE  BenchInv'
<1>1. TypeInv /\ IterationsEnd
  BY DEF BenchInv
<1>2. /\ part[t] \in Nat /\ part[t] < PerIteration /\ left[t] \in Nat
      /\ queued \in Nat /\ failures[t] \in Nat /\ retries[t] \in Nat
      /\ PerIteration \in Nat
  BY <1>1, RowTypes DEF TypeInv
\* A transfer leaves no fewer than none in the queue.
<1>3. ASSUME NEW m \in Nat, Transfers(t, m)
      PROVE  /\ queued' \in Nat
             /\ queued' = IF t \in Producers THEN queued + m ELSE queued - m
             /\ truth' = [truth EXCEPT !.ops = @ + m]
  BY <1>2, <1>3 DEF Transfers, HasData
\* Outside the try rows nothing fails.
<1>4. ASSUME row.body # "try", UNCHANGED <<failures, retries>>
      PROVE  /\ failures' \in [Threads -> Nat] /\ retries' \in [Threads -> Nat]
             /\ failures'[t] = 0
             /\ \A s \in Threads : s # t => failures'[s] = failures[s] /\ retries'[s] = retries[s]
             /\ \A s \in Threads : retries'[s] + failures'[s] = retries[s] + failures[s]
  BY <1>1, <1>4 DEF TypeInv, IterationsEnd
<1>5. CASE BlockingOp(t)
  <2>1. /\ phase = "run" /\ row.body = "blocking" /\ left[t] > 0 /\ Transfers(t, 1)
        /\ left' = [left EXCEPT ![t] = left[t] - 1]
        /\ UNCHANGED <<trial, phase, reported, part, failures, retries, report>>
    BY <1>5 DEF BlockingOp, Running, EndsIteration
  <2>2. PerIteration = 1
    BY <2>1 DEF PerIteration
  <2>3. part[t] = 0 /\ part[t] + 1 = PerIteration
    BY <1>2, <2>2
  <2>4. part' = [part EXCEPT ![t] = 0]
    BY <1>1, <2>1, <2>3 DEF TypeInv
  <2>5. Moves(t, 1)
    BY <2>1, <2>3, <2>4 DEF Moves
  <2> QED
    BY <1>3, <1>4, <2>1, <2>5, TransferStep
<1>6. CASE TrySucceeds(t)
  <2>1. /\ phase = "run" /\ row.body = "try" /\ left[t] > 0 /\ Transfers(t, 1)
        /\ left' = [left EXCEPT ![t] = left[t] - 1]
        /\ retries' = [retries EXCEPT ![t] = retries[t] + failures[t]]
        /\ failures' = [failures EXCEPT ![t] = 0]
        /\ UNCHANGED <<trial, phase, reported, part, report>>
    BY <1>6 DEF TrySucceeds, Running, EndsIteration, AddRetries
  <2>2. PerIteration = 1
    BY <2>1 DEF PerIteration
  <2>3. part[t] = 0 /\ part[t] + 1 = PerIteration
    BY <1>2, <2>2
  <2>4. part' = [part EXCEPT ![t] = 0]
    BY <1>1, <2>1, <2>3 DEF TypeInv
  <2>5. Moves(t, 1)
    BY <2>1, <2>3, <2>4 DEF Moves
  <2>6. /\ failures' \in [Threads -> Nat] /\ retries' \in [Threads -> Nat]
        /\ failures'[t] = 0
        /\ \A s \in Threads : s # t => failures'[s] = failures[s] /\ retries'[s] = retries[s]
        /\ \A s \in Threads : retries'[s] + failures'[s] = retries[s] + failures[s]
    BY <1>1, <1>2, <2>1 DEF TypeInv
  <2> QED
    BY <1>3, <2>1, <2>5, <2>6, TransferStep
<1>7. CASE BulkOp(t)
  <2>1. /\ phase = "run" /\ row.body = "bulk" /\ left[t] > 0
        /\ UNCHANGED <<trial, phase, reported, failures, retries, report>>
    BY <1>7 DEF BulkOp, Running
  <2>2. PerIteration = kBulkBatch
    BY <2>1 DEF PerIteration
  <2>3. PICK m \in 1 .. kBulkBatch - part[t] :
          /\ Transfers(t, m)
          /\ IF part[t] + m < kBulkBatch
             THEN part' = [part EXCEPT ![t] = part[t] + m] /\ UNCHANGED left
             ELSE part' = [part EXCEPT ![t] = 0] /\ EndsIteration(t)
    BY <1>7 DEF BulkOp, BulkDone
  <2>4. m \in Nat /\ part[t] + m <= PerIteration
    BY <1>2, <2>2, <2>3
  <2>5. Moves(t, m)
    BY <1>2, <2>2, <2>3, <2>4 DEF Moves, EndsIteration
  <2>6. /\ queued' \in Nat
        /\ queued' = IF t \in Producers THEN queued + m ELSE queued - m
        /\ truth' = [truth EXCEPT !.ops = @ + m]
    BY <1>3, <2>3, <2>4
  <2> QED
    BY <1>4, <2>1, <2>4, <2>5, <2>6, TransferStep
<1>8. CASE RoundTripOp(t)
  <2>1. /\ phase = "run" /\ row.body = "round_trip" /\ left[t] > 0
        /\ part' = [part EXCEPT ![t] = 1 - part[t]]
        /\ truth' = [truth EXCEPT !.ops = @ + 1]
        /\ UNCHANGED <<trial, phase, reported, failures, retries, report>>
    BY <1>8 DEF RoundTripOp, Running
  <2>2. PerIteration = 2
    BY <2>1 DEF PerIteration
  <2>3. queued' \in Nat
    BY <1>2, <1>8 DEF RoundTripOp, HasData
  <2>4. CASE part[t] = 0
    <3>1. left' = left
      BY <1>8, <2>4 DEF RoundTripOp
    <3>2. Moves(t, 1)
      BY <2>1, <2>2, <2>4, <3>1 DEF Moves
    <3> QED
      BY <1>4, <2>1, <2>3, <3>2, TransferStep
  <2>5. CASE part[t] # 0
    <3>1. left' = [left EXCEPT ![t] = left[t] - 1]
      BY <1>8, <2>5 DEF RoundTripOp, EndsIteration
    <3>2. part[t] = 1
      BY <1>2, <2>2, <2>5
    <3>3. Moves(t, 1)
      BY <2>1, <2>2, <3>1, <3>2 DEF Moves
    <3> QED
      BY <1>4, <2>1, <2>3, <3>3, TransferStep
  <2> QED
    BY <2>4, <2>5
<1> QED
  BY <1>5, <1>6, <1>7, <1>8

LEMMA BenchStep == BenchInv /\ [Next]_vars => BenchInv'
<1> SUFFICES ASSUME BenchInv, [Next]_vars PROVE BenchInv'
  OBVIOUS
<1>1. CASE Setup
  BY <1>1, SetupStep
<1>2. ASSUME NEW t \in Threads, Progress(t) PROVE BenchInv'
  BY <1>2, OpStep, ReportsStep DEF Progress
<1>3. ASSUME NEW t \in Threads, TryFails(t) PROVE BenchInv'
  BY <1>3, TryFailsStep
<1>4. CASE Teardown
  BY <1>4, TeardownStep
<1>5. CASE UNCHANGED vars
  BY <1>5, StutterStep
<1> QED
  BY <1>1, <1>2, <1>3, <1>4, <1>5 DEF Next, Over

LEMMA BenchInvHolds == Spec => []BenchInv
BY BenchInit, BenchStep, PTL DEF Spec

-----------------------------------------------------------------------------
(***************************************************************************)
(* A trial ends only if the producers' pushes and the prefill of           *)
(* install_half_full_queue() cover what the consumers pop: the bound in    *)
(* the comment of BM_QueueTryThroughput, for every split.                  *)
(***************************************************************************)
THEOREM EndsOnlyIfCoveredHolds == Spec => []EndsOnlyIfCovered
<1>1. BenchInv => EndsOnlyIfCovered
  BY DEF BenchInv, CoveredInTheEnd, EndsOnlyIfCovered, Ended
<1> QED
  BY <1>1, BenchInvHolds, PTL

(***************************************************************************)
(* SetItemsProcessed() of all bodies adds up to the elements transferred   *)
(* times the threads, for every row, batch size and number of iterations.  *)
(***************************************************************************)
THEOREM ItemsAreTransfersHolds == Spec => []ItemsAreTransfers
<1>1. ASSUME BenchInv, Ended PROVE report.items = row.threads * truth.ops
  <2>1. TypeInv /\ reported = Threads
    BY <1>1 DEF BenchInv, CoveredInTheEnd, Ended
  <2>2. PICK n \in Nat, p \in Nat, c \in Nat, i \in Nat, k \in Nat :
          /\ n = row.threads /\ i = iterations /\ k = PerIteration
          /\ p = Cardinality(Producers) /\ c = Cardinality(Consumers)
    BY <2>1, Halves, RowTypes, FS_CardinalityType DEF TypeInv
  <2>3. p + c = n /\ Cardinality(Threads) = n
    BY <2>1, <2>2, Halves
  <2>4. PICK m \in Nat : m = i * k
    OBVIOUS
  <2>5. truth.ops = p * m + c * m
    BY <1>1, <2>1, <2>2, <2>4, AllReported DEF BenchInv, TransfersCounted
  <2>6. truth.ops = n * m
    <3>1. p * m + c * m = (p + c) * m
      OBVIOUS
    <3> QED
      BY <2>3, <2>5, <3>1
  <2>7. Items = m * n
    BY <2>1, <2>2, <2>4, ItemsAre
  <2>8. report.items = n * (m * n)
    BY <1>1, <2>1, <2>3, <2>7 DEF BenchInv, ReportsCounted
  <2>9. m * n = n * m
    OBVIOUS
  <2> QED
    BY <2>2, <2>6, <2>8, <2>9
<1>2. BenchInv => ItemsAreTransfers
  BY <1>1 DEF ItemsAreTransfers
<1> QED
  BY <1>2, BenchInvHolds, PTL

\* When a side's counter, which doubles its failures x, is exact.
LEMMA ExactWhen ==
  ASSUME NEW n \in Nat \ {0}, NEW i \in Nat \ {0}, NEW s \in Nat, NEW x \in Nat
  PROVE  2 * x * s * i = x * n * i <=> x = 0 \/ 2 * s = n
<1>1. CASE x = 0
  BY <1>1
<1>2. CASE x # 0
  <2>1. PICK y \in Nat \ {0} : y = x * i
    BY <1>2
  <2>2. 2 * x * s * i = y * (2 * s) /\ x * n * i = y * n
    BY <2>1
  <2>3. PICK d \in Int : d = 2 * s - n
    <3>1. 2 * s - n \in Int
      OBVIOUS
    <3> QED
      BY ONLY <3>1
  <2>4. y * (2 * s) - y * n = y * d
    BY <2>3
  <2>5. y * d = 0 <=> d = 0
    <3>1. PICK z \in Nat : y = z + 1
      <4> WITNESS y - 1 \in Nat
      <4> QED
        OBVIOUS
    <3>2. y * d = z * d + d
      BY <3>1
    <3>3. CASE d > 0
      <4>1. z * d \in Nat
        BY <3>3
      <4> QED
        BY <3>2, <3>3, <4>1
    <3>4. CASE d < 0
      <4>1. PICK e \in Nat : e = -d
        BY <3>4
      <4>2. z * e \in Nat /\ z * d = -(z * e)
        BY <4>1
      <4> QED
        BY <3>2, <3>4, <4>2
    <3>5. CASE d = 0
      BY <3>5
    <3> QED
      BY <3>3, <3>4, <3>5
  <2> QED
    BY <1>2, <2>2, <2>3, <2>4, <2>5
<1> QED
  BY <1>1, <1>2

(***************************************************************************)
(* The counters "push_retries/push" and "pop_retries/pop" are a side's     *)
(* failed attempts per operation of its own for every even split; for an   *)
(* odd split they misreport whenever an attempt has failed.                *)
(***************************************************************************)
THEOREM RetriesPerOwnOpHolds == Spec => []RetriesPerOwnOp
<1>1. ASSUME BenchInv, Ended PROVE RetriesPerOwnOp
  <2>1. TypeInv /\ reported = Threads
    BY <1>1 DEF BenchInv, CoveredInTheEnd, Ended
  <2>2. PICK n \in Nat \ {0}, p \in Nat, c \in Nat, i \in Nat \ {0} :
          /\ n = row.threads /\ i = iterations
          /\ p = Cardinality(Producers) /\ c = Cardinality(Consumers)
    BY <2>1, Halves, RowTypes, FS_CardinalityType DEF TypeInv
  <2>3. p = n \div 2 /\ p + c = n
    BY <2>1, <2>2, Halves
  <2>4. PICK x \in Nat, y \in Nat : x = truth.push /\ y = truth.pop
    BY <2>1 DEF TypeInv
  <2>5. report.push = 2 * x /\ report.pop = 2 * y /\ report.op \in Nat
        /\ 2 * report.op = report.push + report.pop
    BY <1>1, <2>1, <2>4, AllReported DEF BenchInv, TypeInv, ReportsCounted, FailuresCounted
  <2>6. report.op = truth.push + truth.pop
    <3>1. PICK o \in Nat : o = report.op /\ 2 * o = 2 * x + 2 * y
      BY <2>5
    <3>2. o = x + y
      BY <3>1
    <3> QED
      BY <2>4, <3>1, <3>2
  <2>7. Exact(report.push, truth.push, Producers) <=> x = 0 \/ 2 * p = n
    <3>1. 2 * x * p * i = x * n * i <=> x = 0 \/ 2 * p = n
      BY ExactWhen
    <3>2. Exact(report.push, truth.push, Producers) <=> 2 * x * p * i = x * n * i
      BY <2>2, <2>4, <2>5 DEF Exact
    <3> QED
      BY <3>1, <3>2, Zenon
  <2>8. Exact(report.pop, truth.pop, Consumers) <=> y = 0 \/ 2 * c = n
    <3>1. 2 * y * c * i = y * n * i <=> y = 0 \/ 2 * c = n
      BY ExactWhen
    <3>2. Exact(report.pop, truth.pop, Consumers) <=> 2 * y * c * i = y * n * i
      BY <2>2, <2>4, <2>5 DEF Exact
    <3> QED
      BY <3>1, <3>2, Zenon
  <2>9. (n % 2 = 0 <=> 2 * p = n) /\ (n % 2 = 0 <=> 2 * c = n)
    <3>1. n % 2 \in {0, 1} /\ n = 2 * p + (n % 2)
      BY <2>3
    <3> QED
      BY <2>3, <3>1
  <2>10. x + y = 0 <=> x = 0 /\ y = 0
    OBVIOUS
  <2> QED
    BY <2>2, <2>4, <2>6, <2>7, <2>8, <2>9, <2>10 DEF RetriesPerOwnOp
<1>2. BenchInv => RetriesPerOwnOp
  BY <1>1 DEF RetriesPerOwnOp
<1> QED
  BY <1>2, BenchInvHolds, PTL
=============================================================================
