----------------------------- MODULE MpmcQueue -----------------------------
(***************************************************************************)
(* cq::MpmcQueue (include/cq/mpmc_queue.hpp, .ipp): the bounded ring for   *)
(* any number of producers and consumers.  Every slot has a sequence       *)
(* counter; enqueue_pos_ and dequeue_pos_ only hand out tickets.           *)
(*                                                                         *)
(* A step of a thread is one access to shared memory with the local        *)
(* computation up to the next one.  Tickets are natural numbers here (no   *)
(* run comes near the wrap of std::size_t).                                *)
(*                                                                         *)
(* The threads are those of the stress test: producers that push, then     *)
(* end; consumers that pop until a pop returns false; and a main thread    *)
(* that joins them, closes the queue and asks for its size.  With MainOps  *)
(* main also closes and asks at any other time, racing the others.         *)
(***************************************************************************)
EXTENDS AtomicMemory, Integers

CONSTANTS
  Producers, Consumers, Main,  \* the threads
  Capacity,                    \* number of slots
  Calls,                       \* bound: push calls of all producers
  PushOps, PopOps,             \* the operations the clients use
  MainOps,                     \* what main does while the others run
  Empty,                       \* a default-constructed or moved-from slot
  Torn                         \* what a racing read may also return

ASSUME MpmcAssumption ==
  /\ Capacity \in Nat \ {0}
  /\ Calls \in Nat
  /\ PushOps \subseteq {"push", "try_push"}
  /\ PopOps \subseteq {"pop", "try_pop"}
  /\ MainOps \subseteq {"close", "size"}
  /\ Producers \cap Consumers = {}
  /\ Main \notin Producers \cup Consumers

VARIABLES
  pc,       \* where each thread is in its call
  op,       \* the call it is in; "last" is pop()'s attempt after the close
  ticket,   \* its local ticket (main: size()'s local tail)
  item,     \* the element a producer is pushing
  calls,    \* how many push calls have begun; each pushes its own number
  taken,    \* history: taken[k] is what the consumer of ticket k moved out
  joined,   \* the threads main has joined
  orderly,  \* history: main had joined every producer when it closed
  sizeRet   \* what size() last returned

local == <<pc, op, ticket, item, calls>>
history == <<taken, joined, orderly, sizeRet>>
vars == <<memory, local, history>>

-----------------------------------------------------------------------------
Threads == Producers \cup Consumers \cup {Main}

\* slot_index(): the masked AND of a power of two is the same remainder.
slot_index(k) == k % Capacity

Slots == 0 .. Capacity - 1

EnqueuePos  == <<"enqueue_pos_", 0>>
DequeuePos  == <<"dequeue_pos_", 0>>
Closed      == <<"closed_", 0>>
Sequence(i) == <<"sequence", i>>
Value(i)    == <<"value", i>>

Loc == {EnqueuePos, DequeuePos, Closed}
         \cup {Sequence(i) : i \in Slots} \cup {Value(i) : i \in Slots}

Items == 1 .. Calls

Pos(t) == IF t \in Producers THEN EnqueuePos ELSE DequeuePos

\* Mutant: Vyukov's original encoding, which collides at capacity 1.
FreeForUndoubled(k) == k

\* The two states of a slot: free for the producer of ticket k, and holding
\* the data of ticket k.
FreeFor(k) == 2 * k
HoldsDataOf(k) == FreeFor(k) + 1

\* The sequence that says the slot is ready for t's ticket.
Expected(t) ==
  IF t \in Producers THEN FreeFor(ticket[t]) ELSE HoldsDataOf(ticket[t])

TicketSlot(t) == slot_index(ticket[t])

Goto(t, l) == pc' = [pc EXCEPT ![t] = l]

\* Mutants: push() retries without looking at closed_ again; the
\* non-blocking loops never ask closed().
AfterFailureNoCheck(t) ==
  CASE op[t] = "push"     -> "pos"
    [] op[t] = "try_push" -> "asks"
    [] op[t] = "last"     -> "done"
    [] OTHER              -> "closed"
AfterFailureNeverAsks(t) == IF op[t] \in {"push", "pop"} THEN "closed" ELSE "idle"

\* Where a thread goes when its try_enqueue or try_dequeue returns false:
\* push() and pop() check closed_ (after backoff.wait()); the non-blocking
\* loops of the README ask closed(); the attempt after the close decides.
AfterFailure(t) ==
  CASE op[t] = "try_push" -> "asks"
    [] op[t] = "last"     -> "done"
    [] OTHER              -> "closed"

\* Mutants: a full or empty slot is claimed too; the two signs swapped.
ClassifyIgnoresFull(t, dif) == IF dif > 0 THEN "pos" ELSE "cas"
ClassifySwapped(t, dif) ==
  CASE dif = 0 -> "cas" [] dif > 0 -> AfterFailure(t) [] dif < 0 -> "pos"

\* What the signed difference of sequence and expectation means: ours, the
\* previous lap is unfinished, or the ticket is gone.
Classify(t, dif) ==
  CASE dif = 0 -> "cas" [] dif < 0 -> AfterFailure(t) [] dif > 0 -> "pos"

-----------------------------------------------------------------------------
(***************************************************************************)
(* The constructor: every slot is free for the producer of ticket i.       *)
(***************************************************************************)
InitialValue(x) ==
  CASE x[1] = "sequence" -> FreeFor(x[2])
    [] x[1] = "value"    -> Empty
    [] x[1] = "closed_"  -> FALSE
    [] OTHER             -> 0

Init ==
  /\ mo = [x \in Loc |-> <<Message(InitialValue(x), [y \in Loc |-> 1])>>]
  /\ view = [t \in Threads |-> [x \in Loc |-> 1]]
  /\ pc = [t \in Threads |-> "idle"]
  /\ op = [t \in Threads |-> "none"]
  /\ ticket = [t \in Threads |-> 0]
  /\ item = [p \in Producers |-> 0]
  /\ calls = 0
  /\ taken = <<>>
  /\ joined = {}
  /\ orderly = FALSE
  /\ sizeRet = 0

-----------------------------------------------------------------------------
(***************************************************************************)
(* The clients call push()/try_push() and pop()/try_pop(), and end.        *)
(***************************************************************************)
CallPush(p, o) ==
  /\ pc[p] = "idle"
  /\ calls < Calls
  /\ calls' = calls + 1
  /\ item' = [item EXCEPT ![p] = calls']
  /\ op' = [op EXCEPT ![p] = o]
  /\ Goto(p, "closed")
  /\ UNCHANGED <<memory, ticket, history>>

CallPop(c, o) ==
  /\ pc[c] = "idle"
  /\ op' = [op EXCEPT ![c] = o]
  /\ Goto(c, "pos")
  /\ UNCHANGED <<memory, ticket, item, calls, history>>

EndProducer(p) ==
  /\ pc[p] = "idle"
  /\ Goto(p, "done")
  /\ UNCHANGED <<memory, op, ticket, item, calls, history>>

(***************************************************************************)
(* push(), try_push(): the relaxed closed_ check that comes first.         *)
(***************************************************************************)
PushChecksClosed(p) ==
  /\ pc[p] = "closed"
  /\ \E k \in Readable(p, Closed) :
       /\ LoadRelaxed(p, Closed, k)
       /\ Goto(p, IF ~mo[Closed][k].val THEN "pos"
                  ELSE IF op[p] = "push" THEN "done" ELSE "asks")
  /\ UNCHANGED <<op, ticket, item, calls, history>>

(***************************************************************************)
(* closed(), as the README's non-blocking producer loop asks it after a    *)
(* failed try_push(): leave the loop, or try again.                        *)
(***************************************************************************)
AsksClosed(p) ==
  /\ pc[p] = "asks"
  /\ \E k \in Readable(p, Closed) :
       /\ LoadAcquire(p, Closed, k)
       /\ Goto(p, IF mo[Closed][k].val THEN "done" ELSE "idle")
  /\ UNCHANGED <<op, ticket, item, calls, history>>

\* Mutant: the check is relaxed, so it brings nothing the close published.
PopChecksClosedRelaxed(c) ==
  /\ pc[c] = "closed"
  /\ \E k \in Readable(c, Closed) :
       /\ LoadRelaxed(c, Closed, k)
       /\ op' = [op EXCEPT ![c] = IF mo[Closed][k].val THEN "last" ELSE @]
       /\ Goto(c, IF op'[c] = "try_pop" THEN "idle" ELSE "pos")
  /\ UNCHANGED <<ticket, item, calls, history>>

(***************************************************************************)
(* pop()'s acquire check of closed_ after a failed try_dequeue, and the    *)
(* same question asked by the README's non-blocking consumer loop: after a *)
(* close one more attempt decides.                                         *)
(***************************************************************************)
PopChecksClosed(c) ==
  /\ pc[c] = "closed"
  /\ \E k \in Readable(c, Closed) :
       /\ LoadAcquire(c, Closed, k)
       /\ op' = [op EXCEPT ![c] = IF mo[Closed][k].val THEN "last" ELSE @]
       /\ Goto(c, IF op'[c] = "try_pop" THEN "idle" ELSE "pos")
  /\ UNCHANGED <<ticket, item, calls, history>>

(***************************************************************************)
(* try_enqueue() and try_dequeue(), which share their shape: load the      *)
(* position, load the slot's sequence and classify it, race for the        *)
(* ticket with a CAS.                                                      *)
(***************************************************************************)
LoadsPos(t) ==
  /\ pc[t] = "pos"
  /\ \E k \in Readable(t, Pos(t)) :
       /\ LoadRelaxed(t, Pos(t), k)
       /\ ticket' = [ticket EXCEPT ![t] = mo[Pos(t)][k].val]
  /\ Goto(t, "seq")
  /\ UNCHANGED <<op, item, calls, history>>

LoadsSequence(t) ==
  /\ pc[t] = "seq"
  /\ LET x == Sequence(TicketSlot(t))
     IN  \E k \in Readable(t, x) :
           /\ LoadAcquire(t, x, k)
           /\ Goto(t, Classify(t, mo[x][k].val - Expected(t)))
  /\ UNCHANGED <<op, ticket, item, calls, history>>

\* Mutant: a load and a store in place of the CAS.
CasSucceedsBlindly(t) ==
  /\ pc[t] = "cas"
  /\ ExchangeRelaxed(t, Pos(t), ticket[t] + 1)
  /\ Goto(t, "slot")
  /\ UNCHANGED <<op, ticket, item, calls, history>>

CasSucceeds(t) ==
  /\ pc[t] = "cas"
  /\ Latest(Pos(t)) = ticket[t]
  /\ ExchangeRelaxed(t, Pos(t), ticket[t] + 1)
  /\ Goto(t, "slot")
  /\ UNCHANGED <<op, ticket, item, calls, history>>

\* Mutant: the CAS is tried again with the reloaded ticket, without the check
\* of that ticket's slot.
CasFailsNoRecheck(t) ==
  /\ pc[t] = "cas"
  /\ \E k \in Readable(t, Pos(t)) :
       /\ LoadRelaxed(t, Pos(t), k)
       /\ ticket' = [ticket EXCEPT ![t] = mo[Pos(t)][k].val]
  /\ UNCHANGED <<pc, op, item, calls, history>>

\* compare_exchange_weak may fail though the position still is the ticket.
CasFails(t) ==
  /\ pc[t] = "cas"
  /\ \E k \in Readable(t, Pos(t)) :
       /\ LoadRelaxed(t, Pos(t), k)
       /\ ticket' = [ticket EXCEPT ![t] = mo[Pos(t)][k].val]
  /\ Goto(t, "seq")
  /\ UNCHANGED <<op, item, calls, history>>

WritesSlot(p) ==
  /\ pc[p] = "slot"
  /\ Access(p, Value(TicketSlot(p)), item[p])
  /\ Goto(p, "publish")
  /\ UNCHANGED <<op, ticket, item, calls, history>>

\* Mutant: the sequence is stored relaxed.
PublishesSlotRelaxed(p) ==
  /\ pc[p] = "publish"
  /\ StoreRelaxed(p, Sequence(TicketSlot(p)), HoldsDataOf(ticket[p]))
  /\ Goto(p, "idle")
  /\ UNCHANGED <<op, ticket, item, calls, history>>

PublishesSlot(p) ==
  /\ pc[p] = "publish"
  /\ StoreRelease(p, Sequence(TicketSlot(p)), HoldsDataOf(ticket[p]))
  /\ Goto(p, "idle")
  /\ UNCHANGED <<op, ticket, item, calls, history>>

\* What moving out of slot i can yield: its element, or anything in a race.
Outcomes(c, i) ==
  IF UpToDate(c, Value(i))
  THEN {Latest(Value(i))}
  ELSE {mo[Value(i)][k].val : k \in 1 .. Len(mo[Value(i)])} \cup {Torn}

MovesOut(c) ==
  /\ pc[c] = "slot"
  /\ \E v \in Outcomes(c, TicketSlot(c)) :
       taken' = [k \in DOMAIN taken \cup {ticket[c]} |->
                   IF k = ticket[c] THEN v ELSE taken[k]]
  /\ Access(c, Value(TicketSlot(c)), Empty)
  /\ Goto(c, "publish")
  /\ UNCHANGED <<op, ticket, item, calls, joined, orderly, sizeRet>>

FreesSlot(c) ==
  /\ pc[c] = "publish"
  /\ StoreRelease(c, Sequence(TicketSlot(c)), FreeFor(ticket[c] + Capacity))
  /\ Goto(c, "idle")
  /\ UNCHANGED <<op, ticket, item, calls, history>>

-----------------------------------------------------------------------------
(***************************************************************************)
(* Main: join a thread that has ended, close(), size() with its two loads. *)
(***************************************************************************)
Joins(t) ==
  /\ pc[Main] = "idle"
  /\ pc[t] = "done"
  /\ t \notin joined
  /\ JoinThread(Main, t)
  /\ joined' = joined \cup {t}
  /\ UNCHANGED <<local, taken, orderly, sizeRet>>

\* Bound: main closes once.  Early, in a race with the producers, or orderly.
close ==
  /\ pc[Main] = "idle"
  /\ Latest(Closed) = FALSE
  /\ Producers \subseteq joined \/ "close" \in MainOps
  /\ StoreRelease(Main, Closed, TRUE)
  /\ orderly' = (Producers \subseteq joined)
  /\ UNCHANGED <<local, taken, joined, sizeRet>>

SizeLoadsTail ==
  /\ pc[Main] = "idle"
  /\ joined = Producers \cup Consumers \/ "size" \in MainOps
  /\ \E k \in Readable(Main, EnqueuePos) :
       /\ LoadRelaxed(Main, EnqueuePos, k)
       /\ ticket' = [ticket EXCEPT ![Main] = mo[EnqueuePos][k].val]
  /\ Goto(Main, IF joined = Producers \cup Consumers THEN "final" ELSE "size")
  /\ UNCHANGED <<op, item, calls, history>>

\* Mutants: no upper clamp; a bound one too low.
ClampBelow(dif) == IF dif < 0 THEN 0 ELSE dif
ClampTooLow(dif) ==
  IF dif < 0 THEN 0 ELSE IF dif < Capacity - 1 THEN dif ELSE Capacity - 1

\* size()'s clamp of the torn edges of its two loads.
Clamp(dif) ==
  IF dif < 0 THEN 0 ELSE IF dif < Capacity THEN dif ELSE Capacity

\* The size() main calls once it has joined everybody is its last step.
SizeLoadsHead ==
  /\ pc[Main] \in {"size", "final"}
  /\ \E k \in Readable(Main, DequeuePos) :
       /\ LoadRelaxed(Main, DequeuePos, k)
       /\ sizeRet' = Clamp(ticket[Main] - mo[DequeuePos][k].val)
  /\ Goto(Main, IF pc[Main] = "final" THEN "done" ELSE "idle")
  /\ UNCHANGED <<op, ticket, item, calls, taken, joined, orderly>>

AllDone ==
  /\ \A t \in Threads : pc[t] = "done"
  /\ UNCHANGED vars

-----------------------------------------------------------------------------
try_enqueue(p) ==
  LoadsPos(p) \/ LoadsSequence(p) \/ CasSucceeds(p) \/ CasFails(p)
    \/ WritesSlot(p) \/ PublishesSlot(p)

try_dequeue(c) ==
  LoadsPos(c) \/ LoadsSequence(c) \/ CasSucceeds(c) \/ CasFails(c)
    \/ MovesOut(c) \/ FreesSlot(c)

size == SizeLoadsTail \/ SizeLoadsHead

Producer(p) ==
  \/ \E o \in PushOps : CallPush(p, o)
  \/ EndProducer(p) \/ PushChecksClosed(p) \/ AsksClosed(p) \/ try_enqueue(p)

Consumer(c) ==
  \/ \E o \in PopOps : CallPop(c, o)
  \/ PopChecksClosed(c) \/ try_dequeue(c)

MainThread == (\E t \in Producers \cup Consumers : Joins(t)) \/ close \/ size

Next ==
  \/ \E p \in Producers : Producer(p)
  \/ \E c \in Consumers : Consumer(c)
  \/ MainThread
  \/ AllDone

Spec == Init /\ [][Next]_vars

(***************************************************************************)
(* Fairness: every thread is scheduled; a weak CAS does not fail for ever  *)
(* where it could succeed; and a store becomes visible to loads in finite  *)
(* time (C++20 [atomics.order]), so a thread that keeps loading a location *)
(* is not given stale values for ever.                                     *)
(***************************************************************************)
SeesNewest(t, x) == view'[t][x] = Len(mo[x])

ChecksClosed(t) ==
  IF t \in Producers THEN PushChecksClosed(t) ELSE PopChecksClosed(t)

FairLoads(t) ==
  /\ SF_vars((LoadsPos(t) /\ SeesNewest(t, Pos(t))) \/ CasSucceeds(t))
  /\ SF_vars(LoadsSequence(t) /\ SeesNewest(t, Sequence(TicketSlot(t))))
  /\ SF_vars(ChecksClosed(t) /\ SeesNewest(t, Closed))

Fairness ==
  /\ WF_vars(MainThread)
  /\ \A p \in Producers : WF_vars(Producer(p)) /\ FairLoads(p)
  /\ \A c \in Consumers : WF_vars(Consumer(c)) /\ FairLoads(c)

FairSpec == Spec /\ Fairness

-----------------------------------------------------------------------------
Workers == Producers \cup Consumers

\* t has won a ticket and has not yet stored the slot's sequence.
InSlot(t) == pc[t] \in {"slot", "publish"}

\* Tickets handed out to producers and to consumers.
Enqueued == Latest(EnqueuePos)
Dequeued == Latest(DequeuePos)

Messages(V) == [val : V, view : [Loc -> Nat]]

\* What each location can hold.
Contents(x) ==
  CASE x[1] = "value"   -> Items \cup {Empty}
    [] x[1] = "closed_" -> BOOLEAN
    [] OTHER            -> Nat

MemoryType ==
  /\ DOMAIN mo = Loc
  /\ \A x \in Loc : mo[x] \in Seq(Messages(Contents(x))) \ {<<>>}
  /\ view \in [Threads -> [Loc -> Nat \ {0}]]

LocalType ==
  /\ pc \in [Threads -> {"idle", "closed", "pos", "seq", "cas", "slot",
                         "publish", "asks", "size", "final", "done"}]
  /\ op \in [Threads -> {"none", "push", "try_push",
                         "pop", "try_pop", "last"}]
  /\ ticket \in [Threads -> Nat]
  /\ item \in [Producers -> 0 .. Calls]
  /\ calls \in 0 .. Calls

HistoryType ==
  /\ DOMAIN taken \subseteq Nat
  /\ joined \subseteq Workers
  /\ orderly \in BOOLEAN
  /\ sizeRet \in 0 .. Capacity

(***************************************************************************)
(* Every variable has its type; what size() returns is within the          *)
(* capacity, however its two loads are torn.                               *)
(***************************************************************************)
TypeOK == MemoryType /\ LocalType /\ HistoryType

(***************************************************************************)
(* "A stale sequence read can only make a thread re-check or report        *)
(* full/empty, never claim a slot out of turn": whoever has won a ticket   *)
(* finds its slot in exactly the state that is its turn, and no two        *)
(* threads are in one slot.                                                *)
(***************************************************************************)
ClaimsInTurn ==
  \A t \in Workers : InSlot(t) =>
    /\ Latest(Sequence(TicketSlot(t))) = Expected(t)
    /\ \A u \in Workers \ {t} : InSlot(u) => TicketSlot(u) # TicketSlot(t)

(***************************************************************************)
(* Every write and move-out of a slot happens after the access before it:  *)
(* the producer's write happens before the consumer's move-out, and that   *)
(* before the next lap's write.                                            *)
(***************************************************************************)
NoDataRace ==
  \A t \in Workers : pc[t] = "slot" => UpToDate(t, Value(TicketSlot(t)))

(***************************************************************************)
(* A thread that stores a slot's sequence has seen its newest value, so    *)
(* the stores of different threads are ordered by happens-before.          *)
(***************************************************************************)
StoresInOrder ==
  \A t \in Workers : InSlot(t) => UpToDate(t, Sequence(TicketSlot(t)))

(***************************************************************************)
(* If main closed after joining the producers, a pop() that returns false  *)
(* leaves nothing behind: every ticket has been claimed by a consumer.     *)
(***************************************************************************)
DrainedWhenPopFails ==
  orderly /\ (\E c \in Consumers : pc[c] = "done") => Dequeued = Enqueued

(***************************************************************************)
(* size() is exact once everybody has been joined, as the stress test      *)
(* expects of the drained queue.                                           *)
(***************************************************************************)
SizeExactWhenQuiescent ==
  pc[Main] = "done" => sizeRet = Enqueued - Dequeued

(***************************************************************************)
(* A positive difference "means another thread of our side already took    *)
(* the ticket": a thread reloads its position only when its ticket really  *)
(* is gone, so it never gives up a ticket that was still its own to claim. *)
(***************************************************************************)
ReloadOnlyWhenTaken ==
  [][\A t \in Workers :
       pc[t] = "seq" /\ pc'[t] = "pos" => ticket[t] < Latest(Pos(t))]_vars

(***************************************************************************)
(* The queue implements BoundedQueue.  An element is accepted when its     *)
(* ticket is won and delivered when a consumer wins that ticket; what the  *)
(* consumer then moves out must be that element.                           *)
(***************************************************************************)
Carried(k) ==
  IF \E p \in Producers : pc[p] = "slot" /\ ticket[p] = k
  THEN item[CHOOSE p \in Producers : pc[p] = "slot" /\ ticket[p] = k]
  ELSE IF k \in DOMAIN taken THEN taken[k] ELSE Latest(Value(slot_index(k)))

Contract == INSTANCE BoundedQueue WITH
  Item <- Items,
  RefusesAfterClose <- FALSE,
  queue <- [i \in 1 .. Enqueued - Dequeued |-> Carried(Dequeued + i - 1)],
  delivered <- [i \in 1 .. Dequeued |-> Carried(i - 1)],
  closed <- Latest(Closed)

ImplementsContract == Contract!Spec

(***************************************************************************)
(* With a close(), every push() and pop() returns, whatever the order in   *)
(* which they meet a full, an empty or a closed queue: all threads end.    *)
(***************************************************************************)
EveryoneEnds == <>(\A t \in Threads : pc[t] = "done")
=============================================================================
