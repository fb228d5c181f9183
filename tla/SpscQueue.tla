----------------------------- MODULE SpscQueue -----------------------------
(***************************************************************************)
(* cq::SpscQueue (include/cq/spsc_queue.hpp, .ipp): the Lamport ring for   *)
(* one producer and one consumer, with an index cached on each side and    *)
(* bulk transfers that publish one index per batch.                        *)
(*                                                                         *)
(* A step is one access to shared memory with the local computation up to  *)
(* the next one.  A side's relaxed load of its own index is local: it is   *)
(* the only writer.  A call that moves one element and one that moves a    *)
(* batch share the steps that write (move out) and publish.                *)
(*                                                                         *)
(* The client is a producer that pushes and ends, closing the queue itself *)
(* or leaving that to main; a consumer that pops until pop() is false; and *)
(* main, which joins both, closes, and asks for the size.  With MainOps    *)
(* main also closes and asks for the size while the others run.            *)
(***************************************************************************)
EXTENDS AtomicMemory, Integers

CONSTANTS
  Capacity,         \* usable slots; the ring has one more
  Pushes,           \* bound: elements the producer writes
  Batch,            \* bound: elements of one bulk call
  PushOps, PopOps,  \* the operations the client uses
  MainOps,          \* what main does while the others run
  Throws,           \* bound: move assignments of T that throw
  Empty,            \* a default-constructed or moved-from slot
  Torn              \* what a racing read may also return

ASSUME SpscAssumption ==
  /\ Capacity \in Nat \ {0}
  /\ Pushes \in Nat
  /\ Batch \in Nat \ {0}
  /\ PushOps \subseteq {"push", "try_push", "try_push_n"}
  /\ PopOps \subseteq {"pop", "try_pop", "try_pop_n"}
  /\ MainOps \subseteq {"close", "size"}
  /\ Throws \in Nat
  /\ Empty \notin 1 .. Pushes

VARIABLES
  pc,           \* where each thread is in its call
  op,           \* the call it is in; "last" is pop()'s attempt after the close
  left,         \* elements it still has to move (or, before that, was asked to)
  index,        \* its own index: past the part of a batch it has moved
  head_cache_,  \* the producer's last-seen value of head_
  tail_cache_,  \* the consumer's last-seen value of tail_
  written,      \* history: elements written; each is its own number
  delivered,    \* history: what the consumer has moved out, in order
  thrown,       \* history: how many move assignments have thrown
  joined,       \* the threads main has joined
  orderly,      \* history: the producer had stopped when the queue was closed
  sizeRet       \* what size() last returned

caches == <<head_cache_, tail_cache_>>
local == <<pc, op, left, index>>
history == <<written, delivered, thrown, joined, orderly, sizeRet>>
vars == <<memory, local, caches, history>>

-----------------------------------------------------------------------------
Producer == "producer"
Consumer == "consumer"
Main == "main"
Threads == {Producer, Consumer, Main}

\* The slots of the ring, ring_slots(): one is kept empty.
RingSlots == Capacity + 1
Slots == 0 .. RingSlots - 1

HeadIdx   == <<"head_", 0>>
TailIdx   == <<"tail_", 0>>
Closed    == <<"closed_", 0>>
Buffer(i) == <<"buffer_", i>>

Loc == {HeadIdx, TailIdx, Closed} \cup {Buffer(i) : i \in Slots}

\* Mutant: the wrap comes one index too late.
nextTooLate(i) == IF i = RingSlots THEN 0 ELSE i + 1

next(i) == IF i + 1 = RingSlots THEN 0 ELSE i + 1

\* How far index b is ahead of index a on the ring.
Distance(a, b) == (b + RingSlots - a) % RingSlots

\* Mutant: the ring is used to its last slot, so full looks like empty.
free_slotsOffByOne(tail, head) ==
  IF tail = head THEN RingSlots ELSE (head + RingSlots - tail) % RingSlots

\* Room and data as a side's cache shows them; the single and the bulk
\* operations compute them differently.
free_slots(tail, head) == (head + RingSlots - 1 - tail) % RingSlots
available(head, tail) == (tail + RingSlots - head) % RingSlots

has_room(tail, head) == next(tail) # head
has_data(head, tail) == head # tail

\* Mutant: a batch is not cut to what there is.
LeastIgnoresLimit(n, limit) == IF limit = 0 THEN 0 ELSE n

Least(n, limit) == IF n < limit THEN n ELSE limit

\* How many of the n elements asked for a call may move, as far as head
\* (the producer's call) or tail (the consumer's) shows.
Room(head) ==
  IF op[Producer] = "try_push_n"
  THEN Least(left[Producer], free_slots(index[Producer], head))
  ELSE IF has_room(index[Producer], head) THEN 1 ELSE 0

Data(o, n, tail) ==
  IF o = "try_pop_n" THEN Least(n, available(index[Consumer], tail))
  ELSE IF has_data(index[Consumer], tail) THEN 1 ELSE 0

Goto(t, l) == pc' = [pc EXCEPT ![t] = l]

\* t was asked for n elements and may move m: it does, or goes to l.
Proceeds(t, n, m, l) ==
  /\ Goto(t, IF m = 0 THEN l ELSE "move")
  /\ left' = [left EXCEPT ![t] = IF m = 0 THEN n ELSE m]

\* Mutant: push() looks at closed_ only once.
AfterFailureNoCheck(t) ==
  CASE op[t] = "push"                     -> "refresh"
    [] op[t] \in {"try_push", "try_push_n"} -> "asks"
    [] op[t] = "last"                     -> "done"
    [] OTHER                              -> "closed"

\* Where a thread goes when there is no room or no data: push() and pop()
\* check closed_ again (after backoff.wait()); the non-blocking loops of the
\* README ask closed(); the attempt after the close decides.
AfterFailure(t) ==
  CASE op[t] \in {"try_push", "try_push_n"} -> "asks"
    [] op[t] = "last"                     -> "done"
    [] OTHER                              -> "closed"

\* Mutant: the load is relaxed.
LoadsPeerRelaxed(t, x, k) == LoadRelaxed(t, x, k)

\* The acquire load of the other side's index, when the cache is not enough.
LoadsPeer(t, x, k) == LoadAcquire(t, x, k)

-----------------------------------------------------------------------------
InitialValue(x) ==
  CASE x[1] = "buffer_" -> Empty [] x[1] = "closed_" -> FALSE [] OTHER -> 0

Init ==
  /\ mo = [x \in Loc |-> <<Message(InitialValue(x), [y \in Loc |-> 1])>>]
  /\ view = [t \in Threads |-> [x \in Loc |-> 1]]
  /\ pc = [t \in Threads |-> "idle"]
  /\ op = [t \in Threads |-> "none"]
  /\ left = [t \in Threads |-> 0]
  /\ index = [t \in Threads |-> 0]
  /\ head_cache_ = 0
  /\ tail_cache_ = 0
  /\ written = 0
  /\ delivered = <<>>
  /\ thrown = 0
  /\ joined = {}
  /\ orderly = FALSE
  /\ sizeRet = 0

-----------------------------------------------------------------------------
(***************************************************************************)
(* The producer's calls.  n is the span's size for try_push_n, else 1.     *)
(***************************************************************************)
CallPush(o, n) ==
  /\ pc[Producer] = "idle"
  /\ written + n <= Pushes
  /\ o # "try_push_n" => n = 1
  /\ op' = [op EXCEPT ![Producer] = o]
  /\ left' = [left EXCEPT ![Producer] = n]
  /\ Goto(Producer, "closed")
  /\ UNCHANGED <<memory, index, caches, history>>

\* The relaxed closed_ check, then the room the cached head_ promises.
PushChecksClosed ==
  /\ pc[Producer] = "closed"
  /\ \E k \in Readable(Producer, Closed) :
       /\ LoadRelaxed(Producer, Closed, k)
       /\ IF mo[Closed][k].val
          THEN /\ Goto(Producer, IF op[Producer] = "push" THEN "done" ELSE "asks")
               /\ UNCHANGED left
          ELSE Proceeds(Producer, left[Producer], Room(head_cache_), "refresh")
  /\ UNCHANGED <<op, index, caches, history>>

\* The cache says full: load head_ and decide.
RefreshesHead ==
  /\ pc[Producer] = "refresh"
  /\ \E k \in Readable(Producer, HeadIdx) :
       /\ LoadsPeer(Producer, HeadIdx, k)
       /\ head_cache_' = mo[HeadIdx][k].val
       /\ Proceeds(Producer, left[Producer], Room(mo[HeadIdx][k].val),
                   AfterFailure(Producer))
  /\ UNCHANGED <<op, index, tail_cache_, history>>

\* buffer_[tail] = std::move(value), once per element of a batch.
WritesSlot ==
  /\ pc[Producer] = "move"
  /\ Access(Producer, Buffer(index[Producer]), written + 1)
  /\ written' = written + 1
  /\ index' = [index EXCEPT ![Producer] = next(@)]
  /\ left' = [left EXCEPT ![Producer] = @ - 1]
  /\ Goto(Producer, IF left[Producer] = 1 THEN "publish" ELSE "move")
  /\ UNCHANGED <<op, caches, delivered, thrown, joined, orderly, sizeRet>>

\* The assignment throws out of push() or try_push(): the slot is disturbed,
\* the index has not moved.
WriteThrows ==
  /\ thrown < Throws
  /\ thrown' = thrown + 1
  /\ op[Producer] # "try_push_n"
  /\ pc[Producer] = "move"
  /\ Access(Producer, Buffer(index[Producer]), Empty)
  /\ Goto(Producer, "idle")
  /\ UNCHANGED <<op, left, index, caches, written, delivered, joined, orderly,
                 sizeRet>>

PublishesTail ==
  /\ pc[Producer] = "publish"
  /\ StoreRelease(Producer, TailIdx, index[Producer])
  /\ Goto(Producer, "idle")
  /\ UNCHANGED <<op, left, index, caches, history>>

\* closed(), as the README's non-blocking producer loop asks it after a
\* failed call: leave the loop, or try again.
AsksClosed ==
  /\ pc[Producer] = "asks"
  /\ \E k \in Readable(Producer, Closed) :
       /\ LoadAcquire(Producer, Closed, k)
       /\ Goto(Producer, IF mo[Closed][k].val THEN "done" ELSE "idle")
  /\ UNCHANGED <<op, left, index, caches, history>>

\* The producer stops; main joins it and closes.
EndProducer ==
  /\ pc[Producer] = "idle"
  /\ Goto(Producer, "done")
  /\ UNCHANGED <<memory, op, left, index, caches, history>>

-----------------------------------------------------------------------------
(***************************************************************************)
(* The consumer's calls: first what the cached tail_ promises.             *)
(***************************************************************************)
CallPop(o, n) ==
  /\ pc[Consumer] = "idle"
  /\ o # "try_pop_n" => n = 1
  /\ op' = [op EXCEPT ![Consumer] = o]
  /\ Proceeds(Consumer, n, Data(o, n, tail_cache_), "refresh")
  /\ UNCHANGED <<memory, index, caches, history>>

\* The cache says empty: load tail_ and decide.
RefreshesTail ==
  /\ pc[Consumer] = "refresh"
  /\ \E k \in Readable(Consumer, TailIdx) :
       /\ LoadsPeer(Consumer, TailIdx, k)
       /\ tail_cache_' = mo[TailIdx][k].val
       /\ Proceeds(Consumer, left[Consumer],
                   Data(op[Consumer], left[Consumer], mo[TailIdx][k].val),
                   AfterFailure(Consumer))
  /\ UNCHANGED <<op, index, head_cache_, history>>

\* What moving out of slot i can yield: its element, or anything in a race.
Outcomes(i) ==
  IF UpToDate(Consumer, Buffer(i))
  THEN {Latest(Buffer(i))}
  ELSE {mo[Buffer(i)][k].val : k \in 1 .. Len(mo[Buffer(i)])} \cup {Torn}

MovesOut ==
  /\ pc[Consumer] = "move"
  /\ \E v \in Outcomes(index[Consumer]) : delivered' = Append(delivered, v)
  /\ Access(Consumer, Buffer(index[Consumer]), Empty)
  /\ index' = [index EXCEPT ![Consumer] = next(@)]
  /\ left' = [left EXCEPT ![Consumer] = @ - 1]
  /\ Goto(Consumer, IF left[Consumer] = 1 THEN "publish" ELSE "move")
  /\ UNCHANGED <<op, caches, written, thrown, joined, orderly, sizeRet>>

\* Mutant: the index advances before the assignment that throws.
MoveThrowsAdvances ==
  /\ thrown < Throws
  /\ thrown' = thrown + 1
  /\ op[Consumer] # "try_pop_n"
  /\ pc[Consumer] = "move"
  /\ Access(Consumer, Buffer(index[Consumer]), Latest(Buffer(index[Consumer])))
  /\ index' = [index EXCEPT ![Consumer] = next(@)]
  /\ Goto(Consumer, "idle")
  /\ UNCHANGED <<op, left, caches, written, delivered, joined, orderly, sizeRet>>

\* The assignment throws out of pop() or try_pop(): the element stays queued
\* with an unspecified value; the model keeps its number.
MoveThrows ==
  /\ thrown < Throws
  /\ thrown' = thrown + 1
  /\ op[Consumer] # "try_pop_n"
  /\ pc[Consumer] = "move"
  /\ Access(Consumer, Buffer(index[Consumer]), Latest(Buffer(index[Consumer])))
  /\ Goto(Consumer, "idle")
  /\ UNCHANGED <<op, left, index, caches, written, delivered, joined, orderly,
                 sizeRet>>

PublishesHead ==
  /\ pc[Consumer] = "publish"
  /\ StoreRelease(Consumer, HeadIdx, index[Consumer])
  /\ Goto(Consumer, "idle")
  /\ UNCHANGED <<op, left, index, caches, history>>

\* Mutant: a pop() that sees the close returns false at once.
PopChecksClosedOnly ==
  /\ pc[Consumer] = "closed"
  /\ \E k \in Readable(Consumer, Closed) :
       /\ LoadAcquire(Consumer, Closed, k)
       /\ Goto(Consumer, IF mo[Closed][k].val THEN "done" ELSE "refresh")
  /\ UNCHANGED <<op, left, index, caches, history>>

\* pop()'s acquire check of closed_, and the same question asked by the
\* README's non-blocking consumer loop: after a close one more try_pop
\* decides.  The cache still says empty, so that attempt reloads tail_.
PopChecksClosed ==
  /\ pc[Consumer] = "closed"
  /\ \E k \in Readable(Consumer, Closed) :
       /\ LoadAcquire(Consumer, Closed, k)
       /\ IF mo[Closed][k].val
          THEN op' = [op EXCEPT ![Consumer] = "last"] /\ Goto(Consumer, "refresh")
          ELSE /\ Goto(Consumer, IF op[Consumer] = "pop" THEN "refresh" ELSE "idle")
               /\ UNCHANGED op
  /\ UNCHANGED <<left, index, caches, history>>

-----------------------------------------------------------------------------
(***************************************************************************)
(* Main: join a thread that has ended, close(), size() with its two loads. *)
(***************************************************************************)
Joins(t) ==
  /\ pc[Main] = "idle"
  /\ pc[t] = "done"
  /\ t \notin joined
  /\ JoinThread(Main, t)
  /\ joined' = joined \cup {t}
  /\ UNCHANGED <<local, caches, written, delivered, thrown, orderly, sizeRet>>

\* close() by main, or by the producer between its calls.  Bound: one close.
close(t) ==
  /\ pc[t] = "idle"
  /\ Latest(Closed) = FALSE
  /\ t = Main => Producer \in joined \/ "close" \in MainOps
  /\ StoreRelease(t, Closed, TRUE)
  /\ orderly' = (t = Producer \/ Producer \in joined)
  /\ Goto(t, IF t = Producer THEN "done" ELSE "idle")
  /\ UNCHANGED <<op, left, index, caches, written, delivered, thrown, joined,
                 sizeRet>>

SizeLoadsHead ==
  /\ pc[Main] = "idle"
  /\ joined = {Producer, Consumer} \/ "size" \in MainOps
  /\ \E k \in Readable(Main, HeadIdx) :
       /\ LoadRelaxed(Main, HeadIdx, k)
       /\ index' = [index EXCEPT ![Main] = mo[HeadIdx][k].val]
  /\ Goto(Main, IF joined = {Producer, Consumer} THEN "final" ELSE "size")
  /\ UNCHANGED <<op, left, caches, history>>

\* Mutant: the difference without the ring's size added, clamped at 0.
sizeUnwrapped(head, tail) == IF tail < head THEN 0 ELSE tail - head

\* size()'s result from its two loads.
size(head, tail) == (tail + RingSlots - head) % RingSlots

\* The size() main calls once it has joined both threads is its last step.
SizeLoadsTail ==
  /\ pc[Main] \in {"size", "final"}
  /\ \E k \in Readable(Main, TailIdx) :
       /\ LoadRelaxed(Main, TailIdx, k)
       /\ sizeRet' = size(index[Main], mo[TailIdx][k].val)
  /\ Goto(Main, IF pc[Main] = "final" THEN "done" ELSE "idle")
  /\ UNCHANGED <<op, left, index, caches, written, delivered, thrown, joined,
                 orderly>>

AllDone ==
  /\ \A t \in Threads : pc[t] = "done"
  /\ UNCHANGED vars

-----------------------------------------------------------------------------
ProducerThread ==
  \/ \E o \in PushOps, n \in 1 .. Batch : CallPush(o, n)
  \/ PushChecksClosed \/ RefreshesHead \/ WritesSlot \/ WriteThrows
  \/ PublishesTail \/ AsksClosed \/ EndProducer \/ close(Producer)

ConsumerThread ==
  \/ \E o \in PopOps, n \in 1 .. Batch : CallPop(o, n)
  \/ RefreshesTail \/ MovesOut \/ MoveThrows \/ PublishesHead
  \/ PopChecksClosed

MainThread ==
  \/ \E t \in {Producer, Consumer} : Joins(t)
  \/ close(Main) \/ SizeLoadsHead \/ SizeLoadsTail

Next == ProducerThread \/ ConsumerThread \/ MainThread \/ AllDone

Spec == Init /\ [][Next]_vars

(***************************************************************************)
(* Fairness: every thread is scheduled, and a store becomes visible to     *)
(* loads in finite time (C++20 [atomics.order]), so a thread that polls a  *)
(* location does not get stale values for ever.                            *)
(***************************************************************************)
SeesNewest(t, x) == view'[t][x] = Len(mo[x])

Fairness ==
  /\ WF_vars(ProducerThread)
  /\ WF_vars(ConsumerThread)
  /\ WF_vars(MainThread)
  /\ SF_vars(PushChecksClosed /\ SeesNewest(Producer, Closed))
  /\ SF_vars(RefreshesHead /\ SeesNewest(Producer, HeadIdx))
  /\ SF_vars(PopChecksClosed /\ SeesNewest(Consumer, Closed))
  /\ SF_vars(RefreshesTail /\ SeesNewest(Consumer, TailIdx))

FairSpec == Spec /\ Fairness

-----------------------------------------------------------------------------
Messages(V) == [val : V, view : [Loc -> Nat]]

Contents(x) ==
  CASE x[1] = "buffer_" -> 1 .. Pushes \cup {Empty}
    [] x[1] = "closed_" -> BOOLEAN
    [] OTHER            -> Slots

(***************************************************************************)
(* Every variable has its type.  In particular no index leaves the ring,   *)
(* stored, cached or on its way through a batch, and size() is within the  *)
(* capacity.                                                               *)
(***************************************************************************)
TypeOK ==
  /\ DOMAIN mo = Loc
  /\ \A x \in Loc : mo[x] \in Seq(Messages(Contents(x))) \ {<<>>}
  /\ view \in [Threads -> [Loc -> Nat]]
  /\ pc \in [Threads -> {"idle", "closed", "refresh", "move", "publish",
                         "asks", "size", "final", "done"}]
  /\ op \in [Threads -> {"none", "push", "try_push", "try_push_n",
                         "pop", "try_pop", "try_pop_n", "last"}]
  /\ left \in [Threads -> Nat]
  /\ index \in [Threads -> Slots]
  /\ head_cache_ \in Slots
  /\ tail_cache_ \in Slots
  /\ written \in 0 .. Pushes
  /\ delivered \in Seq(1 .. Pushes \cup {Empty, Torn})
  /\ thrown \in 0 .. Throws
  /\ joined \subseteq {Producer, Consumer}
  /\ orderly \in BOOLEAN
  /\ sizeRet \in 0 .. Capacity

(***************************************************************************)
(* Every write and move-out of a slot happens after the access before it,  *)
(* also on the fast path that skips the acquire load of the peer's index.  *)
(***************************************************************************)
NoDataRace ==
  \A t \in {Producer, Consumer} :
    pc[t] = "move" => UpToDate(t, Buffer(index[t]))

(***************************************************************************)
(* "A cache lags but never runs ahead" (spsc_queue.hpp): through its cache *)
(* the producer never sees more room, nor the consumer more elements, than *)
(* the published indices leave.                                            *)
(***************************************************************************)
CachesNeverAhead ==
  /\ Distance(head_cache_, index[Producer])
       >= Distance(Latest(HeadIdx), index[Producer])
  /\ Distance(index[Consumer], tail_cache_)
       <= Distance(index[Consumer], Latest(TailIdx))

(***************************************************************************)
(* If the producer had stopped when the queue was closed, a pop() that     *)
(* returns false leaves nothing behind.                                    *)
(***************************************************************************)
DrainedWhenPopFails ==
  orderly /\ pc[Consumer] = "done" => Len(delivered) = written

(***************************************************************************)
(* size() is exact once both threads have been joined.                     *)
(***************************************************************************)
SizeExactWhenQuiescent ==
  pc[Main] = "done" => sizeRet = written - Len(delivered)

(***************************************************************************)
(* The queue implements BoundedQueue, throwing moves included ("nothing is *)
(* lost or duplicated").  An element is accepted when it is written and    *)
(* delivered when it is moved out; publishing is what lets the other side  *)
(* come to it.                                                             *)
(***************************************************************************)
Contract == INSTANCE BoundedQueue WITH
  Item <- 1 .. Pushes,
  RefusesAfterClose <- FALSE,
  queue <- [i \in 1 .. Distance(index[Consumer], index[Producer]) |->
              Latest(Buffer((index[Consumer] + i - 1) % RingSlots))],
  closed <- Latest(Closed)

ImplementsContract == Contract!Spec

(***************************************************************************)
(* With a close, every push() and pop() returns: all threads end.          *)
(***************************************************************************)
EveryoneEnds == <>(\A t \in Threads : pc[t] = "done")
=============================================================================
