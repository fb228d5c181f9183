----------------------------- MODULE QueueBench -----------------------------
(***************************************************************************)
(* The benchmark harness (bench/queue_bench.cpp, bench/try_operation.hpp): *)
(* one trial of one benchmark.  Half of the threads push and the others    *)
(* pop, a fixed number of iterations each, over a queue that Setup has     *)
(* filled to the half.  The library reports what the bodies give it: items *)
(* processed and, for the non-blocking bodies, counters of retries.        *)
(*                                                                         *)
(* A queue is the number of its elements: what it does with them is the    *)
(* subject of the queue modules.  A non-blocking call on a lock-free queue *)
(* may also fail when there is room or data (a slot claimed and not yet    *)
(* published, a stale index).                                              *)
(***************************************************************************)
EXTENDS Integers, FiniteSets

CONSTANTS
  kCapacity, kSpscThreads, kMpmcThreads, kBulkBatch,
  capacity_sweep,
  OddThreads,     \* thread counts for which try rows are not registered
  MaxIterations,  \* bound: iterations of a trial
  MaxFailures     \* bound: failed attempts counted in one iteration

ASSUME BenchAssumption ==
  /\ kSpscThreads = 2
  /\ kMpmcThreads \in Nat \ {0} /\ kMpmcThreads % 2 = 0
  /\ kCapacity \in Nat \ {0} /\ kBulkBatch \in Nat \ {0}
  /\ capacity_sweep \subseteq Nat \ {0}
  /\ OddThreads \subseteq {n \in Nat : n % 2 = 1}
  /\ MaxIterations \in Nat \ {0} /\ MaxFailures \in Nat

VARIABLES
  row,         \* the benchmark: its body, queue, threads and capacity
  iterations,  \* iterations per thread of the trial
  phase,       \* "idle", "run", "done"
  queued,      \* elements in the queue
  left,        \* iterations a thread has left
  reported,    \* the threads whose body has ended
  part,        \* what it has done of one iteration
  failures,    \* failed attempts of the present iteration
  retries,     \* failed attempts of the iterations before
  report,      \* what the bodies gave the library, summed over the threads
  truth        \* history: what really was transferred, and failed

trial == <<row, iterations>>
vars == <<trial, phase, queued, left, reported, part, failures,
          retries, report, truth>>

-----------------------------------------------------------------------------
(***************************************************************************)
(* The registrations.                                                      *)
(***************************************************************************)
Row(b, q, n, c) == [body |-> b, queue |-> q, threads |-> n, capacity |-> c]

CqQueues == {"MutexQueue", "SpscQueue", "MpmcQueue"}
Queues == CqQueues \cup {"TbbBoundedQueue", "MoodycamelQueue"}

Throughput ==
  {Row("blocking", q, kSpscThreads, kCapacity) : q \in Queues} \cup
  {Row("blocking", q, kMpmcThreads, kCapacity) : q \in Queues \ {"SpscQueue"}}
BulkThroughput == {Row("bulk", "SpscQueue", kSpscThreads, kCapacity)}
TryThroughput(n) == {Row("try", q, n, c) : q \in CqQueues, c \in capacity_sweep}
RoundTrip == {Row("round_trip", q, 1, kCapacity) : q \in Queues}

Registered ==
  Throughput \cup BulkThroughput \cup TryThroughput(kSpscThreads) \cup RoundTrip

\* The odd splits the comment in BM_QueueTryThroughput is about.
Odd == UNION {TryThroughput(n) : n \in OddThreads}

-----------------------------------------------------------------------------
Threads == 0 .. row.threads - 1

\* thread_index() < threads() / 2; the bulk body's thread_index() == 0.
Producers == {t \in Threads : t < row.threads \div 2}
Consumers == Threads \ Producers

\* moodycamel is unbounded: its capacity only sizes the block pool.
HasRoom(m) == row.queue = "MoodycamelQueue" \/ queued + m <= row.capacity
HasData(m) == queued >= m

\* A try_push (t a producer) or try_pop may fail now.
MayFail(t) ==
  \/ row.queue # "MutexQueue"
  \/ ~(IF t \in Producers THEN HasRoom(1) ELSE HasData(1))

Zero == [t \in Threads |-> 0]

Init ==
  /\ row \in Registered \cup Odd
  /\ iterations \in 1 .. MaxIterations
  /\ phase = "idle"
  /\ queued = 0
  /\ left = [t \in Threads |-> iterations]
  /\ reported = {}
  /\ part = Zero
  /\ failures = Zero
  /\ retries = Zero
  /\ report = [items |-> 0, push |-> 0, pop |-> 0, op |-> 0]
  /\ truth = [ops |-> 0, push |-> 0, pop |-> 0]

\* Mutants: the queue starts empty; it starts full.
PrefillNothing == 0
PrefillWhole == IF row.body = "round_trip" THEN 0 ELSE row.capacity

\* install_half_full_queue().  The round trips construct their own queue.
Prefill == IF row.body = "round_trip" THEN 0 ELSE row.capacity \div 2

Setup ==
  /\ phase = "idle"
  /\ phase' = "run"
  /\ queued' = Prefill
  /\ UNCHANGED <<trial, left, reported, part, failures, retries, report, truth>>

-----------------------------------------------------------------------------
\* t puts m elements in (a producer) or takes m out.
Transfers(t, m) ==
  /\ IF t \in Producers
     THEN HasRoom(m) /\ queued' = queued + m
     ELSE HasData(m) /\ queued' = queued - m
  /\ truth' = [truth EXCEPT !.ops = @ + m]

Running(t, body) == phase = "run" /\ row.body = body /\ left[t] > 0

\* The iteration of t is over.
EndsIteration(t) == left' = [left EXCEPT ![t] = @ - 1]

\* BM_QueueThroughput: a push() or pop() that blocks until it can be done.
BlockingOp(t) ==
  /\ Running(t, "blocking")
  /\ Transfers(t, 1)
  /\ EndsIteration(t)
  /\ UNCHANGED <<trial, phase, reported, part, failures, retries, report>>

\* BM_QueueTryThroughput: count_failures_until_success(), an attempt that
\* fails.
TryFails(t) ==
  /\ Running(t, "try")
  /\ MayFail(t)
  /\ IF failures[t] = MaxFailures
     THEN UNCHANGED <<failures, truth>>
     ELSE /\ failures' = [failures EXCEPT ![t] = @ + 1]
          /\ truth' = IF t \in Producers THEN [truth EXCEPT !.push = @ + 1]
                                         ELSE [truth EXCEPT !.pop = @ + 1]
  /\ UNCHANGED <<trial, phase, queued, left, reported, part, retries, report>>

\* Mutant: only the last iteration's failures are kept.
AddRetriesLast(r, f) == f

\* retries += count_failures_until_success(...).
AddRetries(r, f) == r + f

\* The attempt that succeeds.
TrySucceeds(t) ==
  /\ Running(t, "try")
  /\ Transfers(t, 1)
  /\ retries' = [retries EXCEPT ![t] = AddRetries(@, failures[t])]
  /\ failures' = [failures EXCEPT ![t] = 0]
  /\ EndsIteration(t)
  /\ UNCHANGED <<trial, phase, reported, part, report>>

\* Mutant: a call counts as a whole batch.
BulkDoneWhole(d, m) == kBulkBatch

\* done += try_push_n(...) or try_pop_n(...).
BulkDone(d, m) == d + m

\* BM_SpscBulkThroughput: a call moves what it can of the rest of the batch.
BulkOp(t) ==
  /\ Running(t, "bulk")
  /\ \E m \in 1 .. kBulkBatch - part[t] :
       /\ Transfers(t, m)
       /\ LET done == BulkDone(part[t], m)
          IN  IF done < kBulkBatch
              THEN part' = [part EXCEPT ![t] = done] /\ UNCHANGED left
              ELSE part' = [part EXCEPT ![t] = 0] /\ EndsIteration(t)
  /\ UNCHANGED <<trial, phase, reported, failures, retries, report>>

\* BM_QueuePushPopSingleThread: push(1), then pop(value).
RoundTripOp(t) ==
  /\ Running(t, "round_trip")
  /\ IF part[t] = 0
     THEN HasRoom(1) /\ queued' = queued + 1 /\ UNCHANGED left
     ELSE HasData(1) /\ queued' = queued - 1 /\ EndsIteration(t)
  /\ part' = [part EXCEPT ![t] = 1 - @]
  /\ truth' = [truth EXCEPT !.ops = @ + 1]
  /\ UNCHANGED <<trial, phase, reported, failures, retries, report>>

-----------------------------------------------------------------------------
\* SetItemsProcessed() of one thread.
Items ==
  CASE row.body \in {"blocking", "try"} -> iterations * row.threads
    [] row.body = "bulk" -> iterations * kBulkBatch * row.threads
    [] row.body = "round_trip" -> iterations * 2

\* A side has half of the iterations the library divides by.
SideRetries(t) == 2 * retries[t]

\* The end of a body.
Reports(t) ==
  /\ phase = "run"
  /\ left[t] = 0 /\ t \notin reported
  /\ reported' = reported \cup {t}
  /\ report' =
       [items |-> report.items + Items,
        push  |-> report.push + IF t \in Producers THEN SideRetries(t) ELSE 0,
        pop   |-> report.pop + IF t \in Producers THEN 0 ELSE SideRetries(t),
        op    |-> report.op + retries[t]]
  /\ UNCHANGED <<trial, phase, queued, left, part, failures, retries, truth>>

\* Once all threads have ended; the queue is destroyed.
Teardown ==
  /\ phase = "run"
  /\ reported = Threads
  /\ phase' = "done"
  /\ queued' = 0
  /\ UNCHANGED <<trial, left, reported, part, failures, retries, report, truth>>

Over == phase = "done" /\ UNCHANGED vars

Progress(t) ==
  BlockingOp(t) \/ TrySucceeds(t) \/ BulkOp(t) \/ RoundTripOp(t) \/ Reports(t)

Next ==
  \/ Setup
  \/ \E t \in Threads : Progress(t) \/ TryFails(t)
  \/ Teardown
  \/ Over

Spec == Init /\ [][Next]_vars

(***************************************************************************)
(* Fairness: every thread is scheduled, and an attempt that keeps being    *)
(* possible does not fail for ever.                                        *)
(***************************************************************************)
AllThreads == UNION {0 .. r.threads - 1 : r \in Registered \cup Odd}

Fairness ==
  /\ WF_vars(Setup) /\ WF_vars(Teardown)
  /\ \A t \in AllThreads : WF_vars(t \in Threads /\ Progress(t))

FairSpec == Spec /\ Fairness
-----------------------------------------------------------------------------
Ended == phase = "done"

\* "(consumers - producers) * iterations-per-thread <= capacity / 2".
Covered ==
  \/ row.body = "round_trip"
  \/ (Cardinality(Consumers) - Cardinality(Producers)) * iterations
       <= row.capacity \div 2

(***************************************************************************)
(* "an odd split completes only while (consumers - producers) *            *)
(* iterations-per-thread <= capacity / 2" (queue_bench.cpp): no trial ends *)
(* whose consumers need more than the producers push and the prefill       *)
(* holds.                                                                  *)
(***************************************************************************)
EndsOnlyIfCovered == Ended => Covered

(***************************************************************************)
(* And all others end: every registered row, whatever the split of threads *)
(* and the capacity, down to capacity 1, and the odd splits the prefill    *)
(* covers.                                                                 *)
(***************************************************************************)
EndsIfCovered == Covered => <>Ended

(***************************************************************************)
(* "items/s = total ops/s (a push and its pop count as two)": the items    *)
(* the threads report, which the library divides by the sum of the         *)
(* threads' times, are the elements transferred times the threads, whether *)
(* by single calls, by retried ones or by parts of batches.                *)
(***************************************************************************)
ItemsAreTransfers == Ended => report.items = row.threads * truth.ops

(***************************************************************************)
(* The retry counters, divided by the iterations of all threads, are a     *)
(* side's failed attempts per operation of its own "for any even           *)
(* producer/consumer split"; "an odd split would misreport" any failure.   *)
(***************************************************************************)
Exact(counter, failed, S) ==
  counter * Cardinality(S) * iterations = failed * row.threads * iterations

RetriesPerOwnOp ==
  Ended /\ row.body = "try" =>
    /\ report.op = truth.push + truth.pop
    /\ (Exact(report.push, truth.push, Producers)
          /\ Exact(report.pop, truth.pop, Consumers))
         <=> (row.threads % 2 = 0 \/ truth.push + truth.pop = 0)
=============================================================================
