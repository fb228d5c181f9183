# TLA+ verification of the cq queues

`cq` is a header-only C++20 library of three bounded FIFO queues that share one
contract: `MutexQueue` (a mutex and two condition variables, any number of
threads), `SpscQueue` (a lock-free Lamport ring for one producer and one
consumer) and `MpmcQueue` (a lock-free ring with a sequence counter per slot,
any number of threads). This directory models the three queues, the wait policy
of the lock-free two and the benchmark harness, checks them with TLC against
the contract and what their comments promise, and proves facts about them with
TLAPS.

## The system

| Part | State | Operations |
|---|---|---|
| `MpmcQueue` (`include/cq/mpmc_queue.*`) | `enqueue_pos_`, `dequeue_pos_`, `closed_`, per slot `sequence` and `value` | `push`, `try_push`, `pop`, `try_pop`, `close`, `closed`, `size`, `capacity` |
| `SpscQueue` (`include/cq/spsc_queue.*`) | `head_`, `tail_`, `closed_`, `buffer_`, and private to each side `head_cache_`, `tail_cache_` | the same and `try_push_n`, `try_pop_n` |
| `MutexQueue` (`include/cq/mutex_queue.*`) | `buffer_`, `head_`, `tail_`, `size_`, `closed_` under `mutex_`; `not_full_`, `not_empty_` | the same as `MpmcQueue` and `try_push_for`, `try_pop_for` |
| `Backoff` (`include/cq/backoff.hpp`) | spin count and delay of one blocked call | `wait` |
| `cache_line.hpp` | none (an alignment constant) | - |
| Benchmarks (`bench/queue_bench.cpp`, `bench/try_operation.hpp`) | a shared half-full queue per trial, retries per thread, reported items and counters | setup, four bodies, teardown, `count_failures_until_success` |
| Clients (`tests/stress_test.cpp`, "Non-blocking loops" in `README.md`) | - | producers that push and end, consumers that pop until false, a main thread that joins, closes, joins |

The queues do not call each other. The lock-free two use `Backoff` between the
attempts of a blocked `push` or `pop`. The benchmarks run the queues' operations
from a fixed split of threads. All interaction between threads is
through the shared members: atomics and the plain slots they guard in the
lock-free queues, the mutex and the condition variables in `MutexQueue`.

What is hard, and which properties are for it, is the list of hazards in
`PROJECT.json`. In short: loads that return stale values, a compare-and-swap
that is relaxed although a plain slot is handed over, a cached index in place
of an acquire load, `close()` falling between any two steps, notifications
given after the unlock and to one waiter only, a move assignment that throws
half way, a timeout at the moment of a notification, sizes read in two loads,
the boundaries of the rings (capacity 1, the wrap, full against empty), words
that wrap under tickets, sleepers nobody wakes, and retry loops whose two sides
must balance.

What makes each part correct:

- all three: FIFO, bounded, nothing accepted is lost, duplicated or reordered;
  what is queued at the close still comes out; every blocked call ends after
  the close;
- the lock-free two: no data race on a slot; a `pop()` that returns false after
  an orderly close has left nothing behind; `size()` exact when nothing runs;
- `MpmcQueue`: a ticket is claimed only when its slot is ready for it, and a
  slot belongs to one thread at a time;
- `SpscQueue`: a cached index never shows more room or data than there is;
- `MutexQueue`: no wakeup is lost; nothing is accepted after the close;
- `Backoff`: a blocked call notices what it waits for in bounded time, and does
  not spin for ever;
- the benchmarks: every registered row ends, and reports what really happened.

## Modules

| Module | Models |
|---|---|
| `BoundedQueue` | the contract, as an abstract specification |
| `AtomicMemory` | the C++ atomics, plain accesses and thread joins the lock-free queues use (external) |
| `MpmcQueue` | `cq::MpmcQueue` and its clients |
| `SpscQueue` | `cq::SpscQueue` and its clients |
| `MutexQueue` | `cq::MutexQueue` and its clients |
| `TicketWrap` | the ticket arithmetic of `cq::MpmcQueue` in words that wrap |
| `Backoff` | `cq::Backoff` and the loop that drives it |
| `QueueBench` | the benchmark harness |
| `MCMpmcQueue`, `MCMutexQueue` | the symmetry sets for TLC |
| `MCMpmcFull` | `MpmcQueue` with a history variable, for one documented claim |
| `MpmcQueueProofs` | type correctness of `MpmcQueue`, proved |
| `MpmcProtocolProofs` | the slot protocol of `MpmcQueue`, proved |
| `MpmcContractProofs` | the contract, the end after a close and the exact size of `MpmcQueue`, proved |
| `BackoffProofs` | the bounds of `Backoff`, proved |
| `RingLemmas` | lemmas on rings and sequences that the proofs about the three queues share |
| `MutexQueueProofs` | the types, wakeups and contract of `MutexQueue`, proved |
| `SpscQueueProofs` | the types, memory order, end and contract of `SpscQueue`, proved |
| `QueueBenchProofs` | the counts of the benchmark harness, proved |

**AtomicMemory** is the view semantics of release/acquire. `mo[x]` is the
modification order of location `x`; `view[t][x]` says up to which message of `x`
thread `t` is synchronised. A load returns any message from the view on, so it
may be stale; a release store attaches the thread's view, an acquire load joins
it; a successful relaxed read-modify-write carries on the view of the message
it replaces (the release sequence). A plain access by a thread whose view of the
location is not the newest message is a data race, and what a racing move-out
yields is any value the slot ever had or `Torn`. A store goes to the end of the
modification order: no two threads of these queues store to one location
unordered (`StoresInOrder` for the sequences; the other stored locations have one
writer or are only changed by compare-and-swap). Views allow every
stale read that coherence allows; the one relaxed behaviour of C++ that is left
out is load buffering (a load that reads from a store that comes after it in
its own causal past).

**MpmcQueue.** A step of a thread is one access to shared memory and the local
computation up to the next. `try_enqueue` and `try_dequeue` share their first
steps: `LoadsPos` (116, 131, 138, 153), `LoadsSequence` with the classification
of `dif` (119-132), `CasSucceeds`, `CasFails` (a weak CAS may fail spuriously).
Then come `WritesSlot`, `PublishesSlot` or `MovesOut`, `FreesSlot`. `push` and
`try_push` begin with `PushChecksClosed`, `pop` goes to `PopChecksClosed` after a
failed attempt, and its attempt after the close is the call `"last"`. `size` is two
steps with a clamp. `Backoff::wait()` only delays a step.

**SpscQueue.** A side's load of its own index is local, as nobody else writes
it. `PushChecksClosed` and `CallPop` decide with the cache, `RefreshesHead` and
`RefreshesTail` reload it when it says full or empty. `Room` and `Data` keep the two
ways the code computes room (`has_room`, and `free_slots` of the bulk calls).
`WritesSlot` and `MovesOut` move one element of a batch, `PublishesTail` and
`PublishesHead` publish the index. `WriteThrows` and `MoveThrows` are the throwing
move assignment, only for the single-element calls (the bulk ones reject such a
`T` at compile time).

**MutexQueue.** What happens under the mutex is one step: `WaitsNotFull`,
`PushRefused`, `enqueue_locked`, `EnqueueThrows` and their counterparts. `notify_one`
is a step of its own, as it comes after the unlock, and so are the two
`notify_all` of `close`. A waiter leaves its wait by a notification, a
`SpuriousWakeup` or `TimesOut`, and evaluates its predicate again. `NoLostWakeup`
counts: free slots (elements) beside a waiter are matched by notifications under
way, by threads awake to take them, and by exceptions, each of which costs at
most the one notification its call had consumed.

**TicketWrap** is `try_enqueue`, `try_dequeue` and `size` once more, with positions,
tickets and sequences as words of `Width` bits, `slot_index` with its mask and its
remainder, and the signed cast. Memory is sequentially consistent, since stale
loads are `MpmcQueue`'s subject, and a slot is used in one step, which
`ClaimsInTurn` and `NoDataRace` there justify. Threads repeat their attempts without
end, so the words go around again and again in a finite state space; the
element of a ticket is that ticket. Three history variables give the truth
the words are compared with: `lag`, the tickets handed out since a thread loaded
its own, `queued`, and `jumped`, that the tickets have wrapped with a capacity that
is no power of two, so that `ticket % size()` jumps. The bound `MaxLag` is also a precondition of the code: a
signed difference of doubled tickets is read right only while a thread is less
than a quarter of the words behind (2^62 tickets; `WrapAssumption`).

**Backoff** follows one thread through calls that have to wait: `Looks` is the
attempt and the look at `closed_` in the loops of `push` and `pop`, `Yields`,
`FallsAsleep` and `WakesUp` are `wait()`. Other threads make the queue ready, take
what came, or close it at any moment. `Tick` lets a microsecond of a sleep pass;
steps of the program take no time. A sleep ends when its delay is over or up to
`Oversleep` later, as `sleep_for` promises a minimum only.

**QueueBench** is one trial of one row: `Setup` fills the queue to the half, the
bodies (`BlockingOp`, `TryFails` and `TrySucceeds`, `BulkOp`, `RoundTripOp`) run their
iterations, `Reports` gives the library items and counters, `Teardown` ends it. A
queue is its number of elements. `Registered` are the rows of the file, `Odd` the
splits its comment explains why not to register. `MayFail`: a non-blocking call
on a lock-free queue may fail without being full or empty.

The clients are those of the stress test and of the README's loops: a client of
`push()` ends when it returns false; a client of a `try_` call asks `closed()` when
it fails, and a consumer that finds the queue closed makes one last attempt.
Every element is a number of its own, which stands for the tagged values of the
stress test.

**BoundedQueue** has `queue`, `delivered` and `closed`, with `Push` (of an element
never accepted before), `Pop` and `Close`. Each queue module shows it as
`ImplementsContract` under a refinement mapping. In `MpmcQueue` an element is
accepted when its ticket is won and delivered when a consumer wins that ticket;
`Carried(k)` then finds the element of ticket `k` with the producer, in the slot or
with the consumer. In `SpscQueue` the moments are the write and the move-out, in
`MutexQueue` the critical sections. `RefusesAfterClose` is TRUE for `MutexQueue` only:
in the other two a push that has passed its `closed_` check may land after the
close, which their documentation excludes by its stop-the-producers-first rule.

## Runs

| Run | Bounds | What it shows |
|---|---|---|
| `mpmc_handoff` | 2 producers, 2 consumers, 1 slot, 3 pushes, orderly close | `ClaimsInTurn`, `NoDataRace`, `StoresInOrder`, `DrainedWhenPopFails`, `ReloadOnlyWhenTaken`, the contract |
| `mpmc_close_race` | 1 + 1 threads, 2 slots, 3 calls of all kinds; main closes and asks for the size at any time | types, `SizeExactWhenQuiescent`, the contract |
| `mpmc_progress` | 2 producers that block, 1 consumer that blocks or polls, 1 slot, 2 pushes, close at any time, fair | `EveryoneEnds` |
| `mpmc_full` (violation) | 1 + 1 threads, 1 slot, no stale loads | `TryPushFailsOnlyWhenFullOrClosed` does not hold |
| `ticket_wrap` | 2 producers, 1 consumer; 1, 2 or 3 slots, 5-bit words, lag up to 4 | `ReadyUnlessBusy`, `StopsAtTheJump`, `AloneWithItsElement`, `SignsReadRight`, `SizeAcrossWrap` |
| `spsc_handoff` | 2 usable slots, 6 elements, batches up to 3 | `NoDataRace`, `CachesNeverAhead`, `DrainedWhenPopFails`, the contract |
| `spsc_calls` | 1 usable slot, 3 elements, all six calls, batches up to 2, 1 throw, close at any time, fair | `SizeExactWhenQuiescent`, the contract, `EveryoneEnds` |
| `mutex_safety` | 2 producers, 1 consumer, 1 closer, all six calls, 2 slots, 4 pushes, 1 throw, close at any time | `NoLostWakeup`, `DrainedWhenPopFails`, the contract with nothing accepted after the close |
| `mutex_progress` | 2 + 2 threads, 2 closers, 1 slot, 3 calls, fair | `EveryoneEnds`, `BlocksOnlyWhileFull` |
| `mutex_throw` (violation) | 2 + 1 threads, 1 slot, 1 throw, fair | `BlocksOnlyWhileFull` does not hold |
| `backoff` | the code's constants, 50 microseconds of timer slack, fair | types, `NoticedInTime`, `LateInProportion`, `SleepsWhileBlocked` |
| `bench_trials` | every row, and odd splits of 1 and 3 threads; capacities 1, 2, 4, batches of 3, up to 3 iterations, fair | `EndsOnlyIfCovered`, `EndsIfCovered`, `ItemsAreTransfers`, `RetriesPerOwnOp` |

**Why the bounds suffice.** A slot's life is a cycle of four steps, and three
elements through one slot go around it more than twice, so a thread can be a whole lap
behind, in its ticket or in the sequence it loads. Capacity 1 is the boundary of
the doubled encoding; capacity 2 makes tickets fall on different slots. Two
threads a side are enough to race for a ticket, to lose the race, and to wait
while another takes what was notified. Six elements through a ring of three
positions wrap both indices twice, with batches that start anywhere in the ring
and exceed the room. `Staleness` 10 exceeds every modification order, so loads
are limited by coherence only; it is 0 in `mpmc_full`, whose point is that no
stale load is needed. In `SpscQueue` the passing runs ask for the size once both
threads are joined; in `mpmc_close_race` main asks at any time. In `MpmcQueue` and `MutexQueue` each
pass of a producer's `try_push` loop is a call and counts against `Calls`, so what
`EveryoneEnds` says there of polling is about the consumers; in `SpscQueue` neither
side's loop is bounded. Words of 5 bits
wrap after 32 tickets, the doubled ones after 16, and leave room for a lag of two
laps and more; nothing in the arithmetic depends on the width but that room. Capacity 1 takes the remainder
although it is a power of two, capacity 2 the mask; both go on for ever.
Capacity 3 takes the remainder and is followed past the last word too (2^64
pushes), where `ticket % size()` jumps: up to there the ring works
(`ReadyUnlessBusy`, `SignsReadRight`); from there it hands out no ticket, and those
won before keep their slots to themselves (`StopsAtTheJump`, `AloneWithItsElement`).
For `Backoff` the code's own constants are checked, and its theorems hold for
all. In `QueueBench` the thread counts and capacities are scaled down (4 for 8
threads, 4 for 1024); three iterations exceed the largest prefill of 2, so odd
splits fall on both sides of the condition, and a batch of 3 never fits the
half of a queue of 4, so batches go in parts. The named bounds are `Calls`,
`Pushes`, `Batch`, `Throws`, `MaxLag`, `MaxIterations`, `MaxFailures` and one close by main
(the closers of `MutexQueue` may be several).

**Fairness.** Every thread is scheduled (weak fairness on its steps). For the
lock-free queues: a store becomes visible to loads in finite time
(C++20 [atomics.order]), so a polling thread gets the newest value again and
again (strong fairness on the loads that see it), and a weak CAS does not fail
for ever where it could succeed. For `MutexQueue`: a thread that asks for the
mutex gets it and timed waits expire; nothing is assumed of spurious wakeups.
For `Backoff`: the caller is scheduled and time passes; nothing is assumed of the
other threads. For the benchmarks: each thread's next operation is done if it
stays possible.

**Findings.** `mutex_throw`: a producer that is notified and whose move assignment
throws passes the notification to nobody, and another producer waits for ever
beside an empty, open queue. `mpmc_full`: `try_push()` can fail on a queue that
was neither full nor closed, because a consumer has claimed the slot and not yet freed it.
`ticket_wrap`, a passing run, contradicts the comment at `mpmc_queue.ipp:59` that
with a capacity that is no power of two the slot indexing goes wrong at 2^63, where
the doubled tickets wrap. `ReadyUnlessBusy` holds there with three slots, since
`slot_index` divides the ticket and not its double; it ends at 2^64, where the
tickets wrap.

## Proofs

`MpmcQueueProofs` proves `TypeCorrect`: `Spec => []TypeOK` for all sets of threads,
every capacity, number of calls and staleness. Beyond the types of the locals
this says that the two-load `size()` is within the capacity, and that each
location keeps its kind of contents. The assumptions are `MpmcAssumption` and
`StalenessAssumption`, which every run evaluates. `TypeOK` is strengthened by
`ItemReady` (a producer past its call has an element in `Items`), without which the
write to a slot could not be typed. The memory operations have a lemma each
(`LoadRelaxedType` to `JoinThreadType`); `TypeStep` has a step for every action and
under it one for every conjunct the action can disturb.

`MpmcProtocolProofs` proves `ClaimsInTurn`, `StoresInOrder`, `NoDataRace` and
`ReloadOnlyWhenTaken`, under the same assumptions: every capacity from 1 (the
code rejects only 0; a power of two merely gets the mask), any threads, any
number of calls, loads as stale as coherence allows. None of the four is
inductive. The invariant `SlotInv` comes in layers:

- `ViewsKnown`: no view is ahead of the modification orders, and a message knows
  no later message of its own location. So an acquire load leaves the view at
  the message it read.
- `TicketsInOrder`: message `k` of a position holds `k - 1`, so a stale load of a
  position yields an earlier ticket.
- `Protocol`: who is in which slot. The two positions are at most a capacity
  apart; each slot's newest sequence says "free for" or "holds the data of" a
  ticket of that slot that the other side's position licenses (`SlotStates`); the
  sequences of a slot only grow; a thread at its CAS has seen its slot ready; and
  `InTurn`, `StoresInOrder`, `TicketsDiffer` for those that have won.
- `Handover`: the value and the sequence of a slot are stored alternately, so they
  count together (`ValuesCounted`), and whoever knows message `k` of the sequence
  knows message `k` of the value (`ViewsCover`).

The heart is the lemma `NotPassed`: while a ticket is still the position of its
side, the sequence of its slot has not passed what its owner expects. It rests
on the arithmetic of laps (`NextLap`: two tickets of one slot are at least a
capacity apart). From it, a CAS that succeeds finds the sequence it saw earlier
still the newest one, however stale that load was, since sequences grow
(`ProtocolClaim`); that is why no re-check is needed after the CAS. It also gives
`ReloadOnlyWhenTaken`. `AloneInSlot` follows as the expectations of two different
tickets differ. `NoDataRace` combines `StoresInOrder`, `AloneInSlot` and `Handover`: the
thread in the slot knows the newest sequence, hence as many messages of the
value, and no one is between an access and its store. Steps outside an attempt
are shown once to disturb none of this (`OutsideStep`, `QuietStep`).

`MpmcContractProofs` builds on `SlotInv` and proves the refinement
`ImplementsContract`, `DrainedWhenPopFails` and `SizeExactWhenQuiescent` of `MpmcQueue`, under
the same assumptions. Each has an invariant of its own:

- `ElementsInv`, for the refinement: each ticket carries one element for ever. The
  abstract step is the CAS that wins a ticket, and the element reaches the slot,
  and later the client, steps after it; so `Carried` must not change when the
  element moves on, when a slot is used again, or while other tickets are won.
  `TakenInTurn` says that a ticket a consumer has won is taken out or about to be;
  `SequencesReached`, how far the slot of a ticket had come when it was won;
  `CarriedKnown`, that a carried element is one a push was called with;
  `PendingFresh` and `PendingApart`, that an element without a ticket yet is new
  and in one thread's hands only. The claim of a ticket is then a `Push` or a `Pop`,
  the store of `closed_` a `Close`, and every other step a stutter.
- `JoinInv`, for the size: main knows all that the threads it joined knew
  (`JoinedDone`), and of each position somebody knows the newest value, namely who
  won its last ticket (`PositionsKnown`). So relaxed loads after the last join
  cannot be stale (`LastSize`).
- `CloseInv`, for the end. Each ticket handed out is published or its producer is
  in the slot (`PublishedOrInSlot`); the sequence that publishes it is known to a
  producer (`KnownToProducers`). An orderly close puts what the joined producers
  know into its message (`CloseKnows`), and the acquire load of `closed_` gives that
  to the consumer before its last attempt (`LastKnows`). As sequences only grow
  (`SequencesSorted`), that attempt cannot read its slot as empty if the ticket
  was ever published, and a stale position is corrected by the reload.

`BackoffProofs` proves `TypeOK`, `NoticedInTime` and `LateInProportion` of `Backoff` for
every number of spins and all delays with `kInitialSleep <= kMaxSleep`
(`BackoffAssumption`). The invariant adds `DelayEarned` (the next delay is at most
what the call has slept and the first sleep: each sleep earns the doubling of
the next) and `LateOnlyAsleep` (lateness begins in a sleep and, with the time
left, never exceeds that sleep's delay), without which a step of time would not
preserve the bounds.

`MutexQueueProofs` proves `TypeOK`, `DrainedWhenPopFails`, `NoLostWakeup` and the
refinement `ImplementsContract` of `MutexQueue`, for every capacity, all finite sets
of producers and consumers, any closers, any number of calls and throws
(`MutexAssumption`; without finite sets the waiters could not be counted).
`DrainedWhenPopFails` needs only that nothing is pushed once `closed_` holds.
`NoLostWakeup` is inductive with one more conjunct, `NotifiesAfterClose`; the work is
in the counts: each action adds or removes at most one thread in each set that
the bound counts, and what it takes from one it gives to another. The refinement
rests on `ContractInv`: `tail_` is `size_` slots past `head_` (`RingClosed`), and an
element about to be pushed is neither queued nor delivered nor held by another
thread. `StoresAppends` and `DequeueTakesHead` say what the two changes of the ring do
to the queue it stands for; all other actions leave it alone
(`DisturbsNothing`).

`SpscQueueProofs` proves `TypeOK`, `NoDataRace`, `CachesNeverAhead`,
`DrainedWhenPopFails`, `SizeExactWhenQuiescent` and `ImplementsContract` of `SpscQueue`, for
every capacity, batch size, number of elements and of throws, and loads as stale
as coherence allows (`SpscAssumption`, `StalenessAssumption`). The two sides mirror
each other, so what a step does is proved once, for a side and its peer. The
invariant has three layers over the types:

- `RingInv`, for each side: the messages of the peer's index it may still read
  show at least the room (or elements) its cache shows (`CacheBehind`), at most what
  there is (`NeverAhead`), later ones more (`InOrder`), and each hands over the slots
  it shows (`HandedOver`), so that the slots a side may move by its cache are its own
  (`Owned`). The cache has to be compared with every message that can still be
  read, not with the newest: a stale refresh may not take anything back. What the
  two sides may move adds up to the capacity (`AvailSum`), so no slot is both's.
- `EndInv`: the elements in the ring are those written and not moved out (`Counted`);
  outside a call an index is published (`Published`); the message of an orderly
  close knows the producer's last `tail_` (`OrderlyClose`), so that the attempt after
  the load of `closed_` sees all there is (`LastAttempt`); main has joined both sides
  before the last `size()` (`JoinedInv`, `SizeInv`).
- `ValuesInv`: the slots from the consumer's index on hold the elements
  `Len(delivered) + 1` to `written` in order, and those delivered are the ones before.
  The refinement follows: a write appends, a move-out takes the head.

`QueueBenchProofs` proves `EndsOnlyIfCovered`, `ItemsAreTransfers` and `RetriesPerOwnOp` for
every number of threads, iterations, failures and elements of a batch and all
capacities (`BenchAssumption`). All three are about sums over the threads, which
the prover cannot take by induction; so a sum is the cardinality of a set of
pairs, `f[t]` of them for each thread `t` (`Units`), which an action of one thread extends
by as many new pairs as it adds (`OneAdds`) and which is a product once all threads
have the same number (`AllAlike`). The invariant `BenchInv` says that the history
counts, the counters reported and the queue's elements are such sums at every
moment of a trial (`TransfersCounted`, `FailuresCounted`, `ReportsCounted`).

Only model-checked: `TicketWrap` (its bitwise mask is outside what the prover can
use), and liveness, which is out of the prover's reach (fairness and ENABLED).
The safety invariants and the refinements of every other module are theorems.

## Not modelled

- Stale loads and wrapping words together: `MpmcQueue` has the one with natural
  numbers as tickets, `TicketWrap` the other.
- The time the program's own steps take, in `Backoff`.
- The benchmark library: how it times, repeats and chooses iterations. The abort
  in `install_half_full_queue`, which half a capacity cannot reach.
- `MutexQueue::size()` and `capacity()`: one read each, of a member under the lock
  and of a constant. Empty spans in the bulk calls, which return at once.
- The value of an element after a throwing move-out ("valid but unspecified"):
  the model keeps its number, to follow the element.
- Destruction of a queue in use, a second producer or consumer of `SpscQueue`:
  excluded by the documented preconditions.
- Cache-line layout, build and unit tests (read as statements of intent). Of the
  stress test, the counting and the checksums: the contract replaces them.

## Plan

Done: the three queues and their contract, tickets that wrap, `Backoff`, the
benchmark harness, the runs above, and as theorems all safety invariants of the
three queues with their refinements, the bounds of `Backoff` and the counts of the
benchmarks. Open: the arithmetic of `TicketWrap` as a theorem for every
width. It needs that `k & (n - 1)` is `k % n` for every power of two, which is an
induction over bits that the prover cannot make.
