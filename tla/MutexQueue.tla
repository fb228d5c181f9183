----------------------------- MODULE MutexQueue -----------------------------
(***************************************************************************)
(* cq::MutexQueue (include/cq/mutex_queue.hpp, .ipp): a ring guarded by a  *)
(* mutex, with a condition variable for each side.                         *)
(*                                                                         *)
(* What a thread does while it holds mutex_ is one step.  Between the      *)
(* steps are the places where another thread can come in: before the lock  *)
(* is taken, while the thread waits on a condition variable, and between   *)
(* the unlock and the notification that follows it.  A waiter leaves its   *)
(* wait when it is notified, spuriously, or, in a timed wait, because its  *)
(* time is over; it then takes the lock again and evaluates its predicate. *)
(*                                                                         *)
(* The clients are producers and consumers of any number and threads that  *)
(* close the queue: once the producers have ended or, with EarlyClose,     *)
(* while they still push.                                                  *)
(***************************************************************************)
EXTENDS Naturals, Sequences, FiniteSets

CONSTANTS
  Producers, Consumers, Closers,  \* the threads
  Capacity,                       \* number of slots
  Calls,                          \* bound: push calls of all producers
  PushOps, PopOps,                \* the operations the clients use
  EarlyClose,                     \* whether close() races the producers
  Throws,                         \* bound: move assignments of T that throw
  Empty                           \* a default-constructed or moved-from slot

ASSUME MutexAssumption ==
  /\ Capacity \in Nat \ {0}
  /\ Calls \in Nat
  /\ PushOps \subseteq {"push", "try_push", "try_push_for"}
  /\ PopOps \subseteq {"pop", "try_pop", "try_pop_for"}
  /\ EarlyClose \in BOOLEAN
  /\ Throws \in Nat
  /\ Empty \notin 1 .. Calls
  /\ Producers \cap Consumers = {}
  /\ Closers \cap (Producers \cup Consumers) = {}
  /\ IsFiniteSet(Producers) /\ IsFiniteSet(Consumers)

VARIABLES
  buffer_, head_, tail_, size_, closed_,  \* the members mutex_ guards
  pc,         \* where each thread is in its call
  op,         \* the call it is in; "last" is the attempt after closed()
  item,       \* the element a producer is pushing
  calls,      \* how many push calls have begun; each pushes its own number
  delivered,  \* history: what the consumers have moved out, in order
  thrown      \* history: how many move assignments have thrown

ring == <<buffer_, head_, tail_, size_>>
local == <<pc, op, item, calls>>
vars == <<ring, closed_, local, delivered, thrown>>

-----------------------------------------------------------------------------
Threads == Producers \cup Consumers \cup Closers
Items == 1 .. Calls
Slots == 0 .. Capacity - 1

next(i) == IF i + 1 = Capacity THEN 0 ELSE i + 1

Goto(t, l) == pc' = [pc EXCEPT ![t] = l]

\* The threads waiting on not_full_ and on not_empty_.
NotFullWaiters  == {p \in Producers : pc[p] = "wait"}
NotEmptyWaiters == {c \in Consumers : pc[c] = "wait"}

\* t is about to take the lock; it may or may not still wait after that.
Awake(t) == pc[t] \in {"lock", "expired"}
MayWait(t) ==
  /\ pc[t] = "lock"
  /\ op[t] \in {"push", "try_push_for", "pop", "try_pop_for"}

not_full_or_closed_locked == closed_ \/ size_ < Capacity
not_empty_or_closed_locked == closed_ \/ size_ > 0

Init ==
  /\ buffer_ = [i \in Slots |-> Empty]
  /\ head_ = 0
  /\ tail_ = 0
  /\ size_ = 0
  /\ closed_ = FALSE
  /\ pc = [t \in Threads |-> "idle"]
  /\ op = [t \in Threads |-> "none"]
  /\ item = [p \in Producers |-> 0]
  /\ calls = 0
  /\ delivered = <<>>
  /\ thrown = 0

-----------------------------------------------------------------------------
(***************************************************************************)
(* push(), try_push(), try_push_for().                                     *)
(***************************************************************************)
CallPush(p, o) ==
  /\ pc[p] = "idle"
  /\ calls < Calls
  /\ calls' = calls + 1
  /\ item' = [item EXCEPT ![p] = calls']
  /\ op' = [op EXCEPT ![p] = o]
  /\ Goto(p, "lock")
  /\ UNCHANGED <<ring, closed_, delivered, thrown>>

EndProducer(p) ==
  /\ pc[p] = "idle"
  /\ Goto(p, "done")
  /\ UNCHANGED <<ring, closed_, op, item, calls, delivered, thrown>>

WaitsNotFull(p) ==
  /\ MayWait(p)
  /\ ~not_full_or_closed_locked
  /\ Goto(p, "wait")
  /\ UNCHANGED <<ring, closed_, op, item, calls, delivered, thrown>>

\* Closed, or full with no waiting allowed or no time left.  The client of
\* push() ends; those of the others ask closed() first.
PushRefused(p) ==
  /\ Awake(p)
  /\ closed_ \/ (size_ = Capacity /\ ~MayWait(p))
  /\ Goto(p, IF op[p] = "push" THEN "done" ELSE "asks")
  /\ UNCHANGED <<ring, closed_, op, item, calls, delivered, thrown>>

\* Mutants: the predicate is not looked at again after the wait; a value is
\* still accepted after the close.
AcceptsUnchecked == ~closed_
AcceptsClosed == size_ < Capacity

\* What the call must find, under the lock, to enqueue.
Accepts == ~closed_ /\ size_ < Capacity

\* buffer_[tail_] = std::move(value), and the indices after it.
Stores(v) ==
  /\ buffer_' = [buffer_ EXCEPT ![tail_] = v]
  /\ tail_' = next(tail_)
  /\ size_' = size_ + 1
  /\ UNCHANGED head_

enqueue_locked(p) ==
  /\ Awake(p)
  /\ Accepts
  /\ Stores(item[p])
  /\ Goto(p, "notify")
  /\ UNCHANGED <<closed_, op, item, calls, delivered, thrown>>

\* Mutant: the indices are updated before the assignment that throws.
DisturbsSlotAdvances == Stores(Empty)

DisturbsSlot ==
  /\ buffer_' = [buffer_ EXCEPT ![tail_] = Empty]
  /\ UNCHANGED <<head_, tail_, size_>>

\* The assignment throws: the slot is disturbed, the indices have not moved,
\* and the exception leaves the call without a notification.
EnqueueThrows(p) ==
  /\ Awake(p)
  /\ Accepts
  /\ thrown < Throws
  /\ thrown' = thrown + 1
  /\ DisturbsSlot
  /\ Goto(p, "idle")
  /\ UNCHANGED <<closed_, op, item, calls, delivered>>

-----------------------------------------------------------------------------
(***************************************************************************)
(* pop(), try_pop(), try_pop_for().                                        *)
(***************************************************************************)
CallPop(c, o) ==
  /\ pc[c] = "idle"
  /\ op' = [op EXCEPT ![c] = o]
  /\ Goto(c, "lock")
  /\ UNCHANGED <<ring, closed_, item, calls, delivered, thrown>>

WaitsNotEmpty(c) ==
  /\ MayWait(c)
  /\ ~not_empty_or_closed_locked
  /\ Goto(c, "wait")
  /\ UNCHANGED <<ring, closed_, op, item, calls, delivered, thrown>>

\* Mutant: a closed queue is not drained.
PopGivesUpIfClosed(c) == closed_ \/ (size_ = 0 /\ ~MayWait(c))

\* Empty, and closed or with no waiting allowed or no time left.
PopGivesUp(c) == size_ = 0 /\ (closed_ \/ ~MayWait(c))

PopRefused(c) ==
  /\ Awake(c)
  /\ PopGivesUp(c)
  /\ Goto(c, IF op[c] \in {"pop", "last"} THEN "done" ELSE "asks")
  /\ UNCHANGED <<ring, closed_, op, item, calls, delivered, thrown>>

\* Mutant: only a pop that finds the queue full notifies.
AfterDequeueIfFull == IF size_ = Capacity THEN "notify" ELSE "idle"

AfterDequeue == "notify"

dequeue_locked(c) ==
  /\ Awake(c)
  /\ size_ > 0
  /\ delivered' = Append(delivered, buffer_[head_])
  /\ buffer_' = [buffer_ EXCEPT ![head_] = Empty]
  /\ head_' = next(head_)
  /\ size_' = size_ - 1
  /\ Goto(c, AfterDequeue)
  /\ UNCHANGED <<tail_, closed_, op, item, calls, thrown>>

\* The assignment throws: the element stays queued with an unspecified value
\* (the model keeps its number), and nobody is notified.
DequeueThrows(c) ==
  /\ Awake(c)
  /\ size_ > 0
  /\ thrown < Throws
  /\ thrown' = thrown + 1
  /\ Goto(c, "idle")
  /\ UNCHANGED <<ring, closed_, op, item, calls, delivered>>

-----------------------------------------------------------------------------
(***************************************************************************)
(* After the unlock: a push notifies one consumer, a pop one producer.     *)
(***************************************************************************)
\* Mutant: both sides wait on one condition variable.
OtherSideShared(t) == NotFullWaiters \cup NotEmptyWaiters

OtherSide(t) == IF t \in Producers THEN NotEmptyWaiters ELSE NotFullWaiters

\* t notifies one waiter of S, if there is one, or all of them, and goes to l.
NotifiesOne(t, S, l) ==
  \/ S = {} /\ Goto(t, l)
  \/ \E w \in S : pc' = [pc EXCEPT ![t] = l, ![w] = "lock"]

NotifiesAll(t, S, l) ==
  pc' = [u \in Threads |-> IF u = t THEN l ELSE IF u \in S THEN "lock" ELSE pc[u]]

notify_one(t) ==
  /\ pc[t] = "notify"
  /\ NotifiesOne(t, OtherSide(t), "idle")
  /\ UNCHANGED <<ring, closed_, op, item, calls, delivered, thrown>>

SpuriousWakeup(t) ==
  /\ pc[t] = "wait"
  /\ Goto(t, "lock")
  /\ UNCHANGED <<ring, closed_, op, item, calls, delivered, thrown>>

\* wait_for() gives up; its predicate still decides, under the lock.
TimesOut(t) ==
  /\ pc[t] = "wait"
  /\ op[t] \in {"try_push_for", "try_pop_for"}
  /\ Goto(t, "expired")
  /\ UNCHANGED <<ring, closed_, op, item, calls, delivered, thrown>>

\* closed(), asked by the clients of the calls that return false for "not
\* now" too.  A producer leaves its loop; a consumer makes one last try_pop.
AsksClosed(t) ==
  /\ pc[t] = "asks"
  /\ IF closed_ /\ t \in Consumers
     THEN Goto(t, "lock") /\ op' = [op EXCEPT ![t] = "last"]
     ELSE Goto(t, IF closed_ THEN "done" ELSE "idle") /\ UNCHANGED op
  /\ UNCHANGED <<ring, closed_, item, calls, delivered, thrown>>

-----------------------------------------------------------------------------
(***************************************************************************)
(* close(): only the call that finds the queue open notifies.              *)
(***************************************************************************)
close(k) ==
  /\ pc[k] = "idle"
  /\ EarlyClose \/ \A p \in Producers : pc[p] = "done"
  /\ closed_' = TRUE
  /\ Goto(k, IF closed_ THEN "done" ELSE "notify_full")
  /\ UNCHANGED <<ring, op, item, calls, delivered, thrown>>

NotifiesNotFull(k) ==
  /\ pc[k] = "notify_full"
  /\ NotifiesAll(k, NotFullWaiters, "notify_empty")
  /\ UNCHANGED <<ring, closed_, op, item, calls, delivered, thrown>>

\* Mutant: not_empty_ gets a notify_one.
NotifiesNotEmptyOnce(k) ==
  /\ pc[k] = "notify_empty"
  /\ NotifiesOne(k, NotEmptyWaiters, "done")
  /\ UNCHANGED <<ring, closed_, op, item, calls, delivered, thrown>>

NotifiesNotEmpty(k) ==
  /\ pc[k] = "notify_empty"
  /\ NotifiesAll(k, NotEmptyWaiters, "done")
  /\ UNCHANGED <<ring, closed_, op, item, calls, delivered, thrown>>

AllDone ==
  /\ \A t \in Threads : pc[t] = "done"
  /\ UNCHANGED vars

-----------------------------------------------------------------------------
Producer(p) ==
  \/ \E o \in PushOps : CallPush(p, o)
  \/ EndProducer(p) \/ WaitsNotFull(p) \/ PushRefused(p)
  \/ enqueue_locked(p) \/ EnqueueThrows(p)
  \/ notify_one(p) \/ TimesOut(p) \/ AsksClosed(p)

Consumer(c) ==
  \/ \E o \in PopOps : CallPop(c, o)
  \/ WaitsNotEmpty(c) \/ PopRefused(c)
  \/ dequeue_locked(c) \/ DequeueThrows(c)
  \/ notify_one(c) \/ TimesOut(c) \/ AsksClosed(c)

Closer(k) == close(k) \/ NotifiesNotFull(k) \/ NotifiesNotEmpty(k)

Next ==
  \/ \E p \in Producers : Producer(p) \/ SpuriousWakeup(p)
  \/ \E c \in Consumers : Consumer(c) \/ SpuriousWakeup(c)
  \/ \E k \in Closers : Closer(k)
  \/ AllDone

Spec == Init /\ [][Next]_vars

(***************************************************************************)
(* Fairness: every thread is scheduled and gets the mutex when it asks for *)
(* it, and time passes.  A waiter's only other way out is to be notified:  *)
(* nothing is assumed of spurious wakeups.                                 *)
(***************************************************************************)
Fairness ==
  /\ \A p \in Producers : WF_vars(Producer(p))
  /\ \A c \in Consumers : WF_vars(Consumer(c))
  /\ \A k \in Closers : WF_vars(Closer(k))

FairSpec == Spec /\ Fairness

-----------------------------------------------------------------------------
(***************************************************************************)
(* Every variable has its type.                                            *)
(***************************************************************************)
TypeOK ==
  /\ buffer_ \in [Slots -> Items \cup {Empty}]
  /\ head_ \in Slots
  /\ tail_ \in Slots
  /\ size_ \in 0 .. Capacity
  /\ closed_ \in BOOLEAN
  /\ pc \in [Threads -> {"idle", "lock", "wait", "expired", "notify", "asks",
                         "notify_full", "notify_empty", "done"}]
  /\ op \in [Threads -> {"none", "push", "try_push", "try_push_for",
                         "pop", "try_pop", "try_pop_for", "last"}]
  /\ item \in [Producers -> 0 .. Calls]
  /\ calls \in 0 .. Calls
  /\ delivered \in Seq(Items \cup {Empty})
  /\ thrown \in 0 .. Throws

(***************************************************************************)
(* No wakeup is lost but by a throw.  While the queue is open, a producer  *)
(* waits beside free slots only if for each of them a notification is on   *)
(* its way, a producer is awake to take it, or an assignment has thrown    *)
(* out of the call that was to take it; and a consumer beside queued       *)
(* elements likewise.  After the close, a waiter still has its notify_all  *)
(* coming.  This is what a notification after the unlock, notify_one and a *)
(* wait shared by push() and try_push_for() could break.                   *)
(***************************************************************************)
Notifying(S) == {t \in S : pc[t] = "notify"}
AwakeIn(S) == {t \in S : Awake(t)}

NoLostWakeup ==
  /\ NotFullWaiters # {} =>
       IF closed_
       THEN \E k \in Closers : pc[k] = "notify_full"
       ELSE Capacity - size_ <= Cardinality(Notifying(Consumers))
                                  + Cardinality(AwakeIn(Producers)) + thrown
  /\ NotEmptyWaiters # {} =>
       IF closed_
       THEN \E k \in Closers : pc[k] \in {"notify_full", "notify_empty"}
       ELSE size_ <= Cardinality(Notifying(Producers))
                       + Cardinality(AwakeIn(Consumers)) + thrown

(***************************************************************************)
(* A consumer that got false for good leaves nothing behind: unlike the    *)
(* lock-free queues this one needs no producer to be stopped first.        *)
(***************************************************************************)
DrainedWhenPopFails ==
  (\E c \in Consumers : pc[c] = "done") => closed_ /\ size_ = 0

(***************************************************************************)
(* The queue implements BoundedQueue and, as its push and close exclude    *)
(* each other, accepts nothing after the close.                            *)
(***************************************************************************)
Contract == INSTANCE BoundedQueue WITH
  Item <- Items,
  RefusesAfterClose <- TRUE,
  queue <- [i \in 1 .. size_ |-> buffer_[(head_ + i - 1) % Capacity]],
  closed <- closed_

ImplementsContract == Contract!Spec

(***************************************************************************)
(* Every call returns and all threads end.                                 *)
(***************************************************************************)
EveryoneEnds == <>(\A t \in Threads : pc[t] = "done")

(***************************************************************************)
(* push() and try_push_for() block "while the queue is full"               *)
(* (mutex_queue.hpp): no producer waits for ever beside a free slot.       *)
(***************************************************************************)
BlocksOnlyWhileFull ==
  \A p \in Producers : []<>~(pc[p] = "wait" /\ size_ < Capacity)
=============================================================================
