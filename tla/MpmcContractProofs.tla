------------------------ MODULE MpmcContractProofs ------------------------
(***************************************************************************)
(* What MpmcQueue promises its clients, for every capacity, any number of  *)
(* threads and calls and any staleness of the loads: it implements the     *)
(* bounded FIFO of BoundedQueue, a pop() that fails after an orderly close *)
(* leaves nothing behind, and size() is exact once everybody has ended.    *)
(*                                                                         *)
(* Three invariants on top of SlotInv: what the element of each ticket is  *)
(* and where it lies (ElementsInv), what main has learnt from the threads  *)
(* it joined (JoinInv), and what a close hands on of that (CloseInv).      *)
(***************************************************************************)
EXTENDS MpmcProtocolProofs, RingLemmas

-----------------------------------------------------------------------------
(***************************************************************************)
(* Steps.  No step forgets a message or makes a view older, no sequence    *)
(* falls, and a worker that has ended stays as it is.                      *)
(***************************************************************************)
LEMMA PutGrows ==
  ASSUME MemoryType, ViewsKnown, NEW t \in Threads, NEW x \in Loc, NEW m,
         Put(t, x, m)
  PROVE  /\ \A u \in Threads : \A y \in Loc : view[u][y] <= view'[u][y]
         /\ \A y \in Loc : /\ Len(mo[y]) <= Len(mo'[y]) /\ Len(mo'[y]) <= Len(mo[y]) + 1
                           /\ \A k \in 1 .. Len(mo[y]) : mo'[y][k] = mo[y][k]
<1>0. \A y \in Loc : mo[y] \in Seq(Messages(Contents(y))) /\ Len(mo[y]) \in Nat
  BY LatestType DEF MemoryType
<1>1. mo'[x] = Append(mo[x], m) /\ \A y \in Loc \ {x} : mo'[y] = mo[y]
  BY DEF Put, MemoryType
<1>2. Len(mo'[x]) = Len(mo[x]) + 1 /\ \A k \in 1 .. Len(mo[x]) : mo'[x][k] = mo[x][k]
  BY <1>0, <1>1
<1>3. /\ view'[t][x] = Len(mo[x]) + 1
      /\ \A y \in Loc \ {x} : view'[t][y] = view[t][y]
      /\ \A u \in Threads \ {t} : view'[u] = view[u]
  BY DEF Put, MemoryType
<1>4. \A u \in Threads : \A y \in Loc : view[u][y] \in Nat /\ view[u][y] <= Len(mo[y])
  BY DEF ViewsKnown, Known, MemoryType
<1>5. ASSUME NEW u \in Threads, NEW y \in Loc PROVE view[u][y] <= view'[u][y]
  BY <1>0, <1>3, <1>4
<1>6. ASSUME NEW y \in Loc
      PROVE  /\ Len(mo[y]) <= Len(mo'[y]) /\ Len(mo'[y]) <= Len(mo[y]) + 1
             /\ \A k \in 1 .. Len(mo[y]) : mo'[y][k] = mo[y][k]
  <2>1. CASE y = x
    BY <1>0, <1>2, <2>1
  <2>2. CASE y # x
    BY <1>0, <1>1, <2>2
  <2> QED
    BY <2>1, <2>2
<1> QED
  BY <1>5, <1>6

LEMMA MemoryGrows ==
  ASSUME TypeInv, ViewsKnown, [Next]_vars
  PROVE  /\ \A u \in Threads : \A y \in Loc : view[u][y] <= view'[u][y]
         /\ \A y \in Loc : /\ Len(mo[y]) <= Len(mo'[y]) /\ Len(mo'[y]) <= Len(mo[y]) + 1
                           /\ \A k \in 1 .. Len(mo[y]) : mo'[y][k] = mo[y][k]
<1> DEFINE Grows ==
      /\ \A u \in Threads : \A y \in Loc : view[u][y] <= view'[u][y]
      /\ \A y \in Loc : /\ Len(mo[y]) <= Len(mo'[y]) /\ Len(mo'[y]) <= Len(mo[y]) + 1
                        /\ \A k \in 1 .. Len(mo[y]) : mo'[y][k] = mo[y][k]
<1>t. MemoryType
  BY DEF TypeInv, TypeOK
<1>0. /\ \A y \in Loc : Len(mo[y]) \in Nat
      /\ \A u \in Threads : \A y \in Loc : view[u][y] \in Nat
  BY <1>t, LatestType DEF MemoryType
<1>1. CASE UNCHANGED memory
  BY <1>0, <1>1 DEF memory
<1>2. ASSUME NEW t \in Threads, NEW x \in Loc, NEW k \in Readable(t, x),
             LoadRelaxed(t, x, k)
      PROVE  Grows
  <2>1. view[t][x] <= k
    BY <1>t, LatestType DEF Readable, MemoryType
  <2>2. /\ mo' = mo /\ view'[t][x] = k
        /\ \A y \in Loc \ {x} : view'[t][y] = view[t][y]
        /\ \A u \in Threads \ {t} : view'[u] = view[u]
    BY <1>t, <1>2, RelaxedFacts
  <2> QED
    BY <1>0, <2>1, <2>2
<1>3. ASSUME NEW t \in Threads, NEW x \in Loc, NEW k \in Readable(t, x),
             LoadAcquire(t, x, k)
      PROVE  Grows
  <2>1. view[t][x] <= k /\ k \in Nat
    BY <1>t, LatestType DEF Readable, MemoryType
  <2>2. mo[x][k].view[x] \in Nat
    BY <1>t, ReadableType
  <2>3. /\ mo' = mo
        /\ \A u \in Threads \ {t} : view'[u] = view[u]
        /\ view'[t][x] >= k /\ view'[t][x] \in {k, mo[x][k].view[x]}
        /\ \A y \in Loc \ {x} : view'[t][y] >= view[t][y]
    BY <1>t, <1>3, AcquireFacts
  <2>4. view[t][x] <= view'[t][x]
    BY <1>0, <2>1, <2>2, <2>3
  <2> QED
    BY <1>0, <2>3, <2>4
<1>4. ASSUME NEW t \in Threads, NEW u \in Threads, JoinThread(t, u)
      PROVE  Grows
  <2>1. /\ mo' = mo
        /\ \A s \in Threads \ {t} : view'[s] = view[s]
        /\ \A y \in Loc : view'[t][y] >= view[t][y]
    BY <1>t, <1>4, JoinThreadFacts
  <2> QED
    BY <1>0, <2>1
<1>5. ASSUME NEW t \in Threads, NEW x \in Loc, NEW m, Put(t, x, m)
      PROVE  Grows
  BY <1>t, <1>5, PutGrows
<1>6. \A t \in Workers : t \in Threads /\ TicketSlot(t) \in Slots
  BY WorkerTypes
<1>7. MemoryStep
  BY NextIsMemoryStep
<1> HIDE DEF Grows
<1>8. Grows
  BY <1>1, <1>2, <1>3, <1>4, <1>5, <1>6, <1>7, Locations
  DEF MemoryStep, StoreRelease, ExchangeRelaxed, Access, Grows
<1> QED
  BY <1>8 DEF Grows

LEMMA SequenceTypesThen ==
  TypeInv' => \A i \in Slots : Len(mo'[Sequence(i)]) \in Nat \ {0}
                               /\ Latest(Sequence(i))' \in Nat
<1>1. TypeInv => \A i \in Slots : Len(mo[Sequence(i)]) \in Nat \ {0}
                                  /\ Latest(Sequence(i)) \in Nat
  BY SequenceTypes
<1>2. TypeInv' => (\A i \in Slots : Len(mo[Sequence(i)]) \in Nat \ {0}
                                    /\ Latest(Sequence(i)) \in Nat)'
  BY <1>1, PTL
<1> QED
  BY <1>2

LEMMA SequencesNeverFall ==
  ASSUME SlotInv, SlotInv', [Next]_vars, NEW i \in Slots
  PROVE  Latest(Sequence(i)) <= Latest(Sequence(i))'
<1> DEFINE x == Sequence(i)
<1>1. /\ x \in Loc /\ Len(mo[x]) \in Nat \ {0} /\ Len(mo'[x]) \in Nat \ {0}
      /\ Latest(x) \in Nat /\ Latest(x)' \in Nat
  BY SequenceTypes, SequenceTypesThen DEF SlotInv
<1>2. Len(mo[x]) <= Len(mo'[x]) /\ mo'[x][Len(mo[x])] = mo[x][Len(mo[x])]
  BY <1>1, MemoryGrows DEF SlotInv
<1>3. CASE Len(mo'[x]) = Len(mo[x])
  BY <1>1, <1>2, <1>3 DEF Latest, Newest
<1>4. CASE Len(mo'[x]) # Len(mo[x])
  <2>1. Len(mo[x]) \in 1 .. Len(mo'[x]) - 1
    BY <1>1, <1>2, <1>4
  <2>2. mo'[x][Len(mo[x])].val < Latest(x)'
    BY <2>1 DEF SlotInv, Protocol, SequencesGrow
  <2> QED
    BY <1>1, <1>2, <2>2 DEF Latest, Newest
<1> QED
  BY <1>3, <1>4

\* A step of an attempt, and what it leaves alone.
AttemptStep(t) ==
  \/ LoadsPos(t) \/ LoadsSequence(t) \/ CasFails(t) \/ CasSucceeds(t)
  \/ t \in Producers /\ (WritesSlot(t) \/ PublishesSlot(t))
  \/ t \in Consumers /\ (MovesOut(t) \/ FreesSlot(t))

LEMMA StepKinds == [Next]_vars => ClientStep \/ \E t \in Workers : AttemptStep(t)
BY DEF Next, Producer, Consumer, try_enqueue, try_dequeue, Workers, ClientStep,
       AttemptStep

LEMMA AttemptFrame ==
  ASSUME TypeInv, NEW t \in Workers, AttemptStep(t)
  PROVE  /\ UNCHANGED <<op, item, calls, joined, orderly, sizeRet>>
         /\ pc[t] \in {"pos", "seq", "cas", "slot", "publish"}
         /\ \A u \in Threads \ {t} :
              pc'[u] = pc[u] /\ ticket'[u] = ticket[u] /\ view'[u] = view[u]
         /\ mo'[Closed] = mo[Closed]
         /\ taken' = taken \/ MovesOut(t)
<1>t. MemoryType /\ LocalType
  BY DEF TypeInv, TypeOK
<1>w. /\ t \in Threads /\ Pos(t) \in Loc /\ Pos(t) # Closed
      /\ Sequence(TicketSlot(t)) \in Loc /\ Sequence(TicketSlot(t)) # Closed
      /\ Value(TicketSlot(t)) \in Loc /\ Value(TicketSlot(t)) # Closed
  BY WorkerTypes, Locations, LocationsDiffer
<1>1. CASE LoadsPos(t) \/ CasFails(t) \/ LoadsSequence(t)
  BY <1>t, <1>w, <1>1
  DEF LoadsPos, CasFails, LoadsSequence, LoadRelaxed, LoadAcquire, Goto, history,
      LocalType, MemoryType
<1>2. CASE CasSucceeds(t)
  BY <1>t, <1>w, <1>2
  DEF CasSucceeds, ExchangeRelaxed, Put, Goto, history, LocalType, MemoryType
<1>3. CASE WritesSlot(t)
  <2>1. /\ UNCHANGED <<op, ticket, item, calls, joined, orderly, sizeRet>>
        /\ taken' = taken \/ MovesOut(t)
        /\ pc[t] \in {"slot", "publish"}
        /\ \A u \in Threads \ {t} : pc'[u] = pc[u]
    BY <1>t, <1>w, <1>3 DEF WritesSlot, Goto, history, LocalType
  <2>2. /\ \A u \in Threads \ {t} : view'[u] = view[u]
        /\ mo'[Closed] = mo[Closed]
    BY <1>t, <1>w, <1>3, Locations DEF WritesSlot, Access, Put, MemoryType
  <2> QED
    BY <2>1, <2>2
<1>4. CASE PublishesSlot(t)
  <2>1. /\ UNCHANGED <<op, ticket, item, calls, joined, orderly, sizeRet>>
        /\ taken' = taken \/ MovesOut(t)
        /\ pc[t] \in {"slot", "publish"}
        /\ \A u \in Threads \ {t} : pc'[u] = pc[u]
    BY <1>t, <1>w, <1>4 DEF PublishesSlot, Goto, history, LocalType
  <2>2. /\ \A u \in Threads \ {t} : view'[u] = view[u]
        /\ mo'[Closed] = mo[Closed]
    BY <1>t, <1>w, <1>4, Locations DEF PublishesSlot, StoreRelease, Put, MemoryType
  <2> QED
    BY <2>1, <2>2
<1>5. CASE MovesOut(t)
  <2>1. /\ UNCHANGED <<op, ticket, item, calls, joined, orderly, sizeRet>>
        /\ taken' = taken \/ MovesOut(t)
        /\ pc[t] \in {"slot", "publish"}
        /\ \A u \in Threads \ {t} : pc'[u] = pc[u]
    BY <1>t, <1>w, <1>5 DEF MovesOut, Goto, history, LocalType
  <2>2. /\ \A u \in Threads \ {t} : view'[u] = view[u]
        /\ mo'[Closed] = mo[Closed]
    BY <1>t, <1>w, <1>5, Locations DEF MovesOut, Access, Put, MemoryType
  <2> QED
    BY <2>1, <2>2
<1>6. CASE FreesSlot(t)
  <2>1. /\ UNCHANGED <<op, ticket, item, calls, joined, orderly, sizeRet>>
        /\ taken' = taken \/ MovesOut(t)
        /\ pc[t] \in {"slot", "publish"}
        /\ \A u \in Threads \ {t} : pc'[u] = pc[u]
    BY <1>t, <1>w, <1>6 DEF FreesSlot, Goto, history, LocalType
  <2>2. /\ \A u \in Threads \ {t} : view'[u] = view[u]
        /\ mo'[Closed] = mo[Closed]
    BY <1>t, <1>w, <1>6, Locations DEF FreesSlot, StoreRelease, Put, MemoryType
  <2> QED
    BY <2>1, <2>2
<1> QED
  BY <1>1, <1>2, <1>3, <1>4, <1>5, <1>6 DEF AttemptStep

LEMMA DoneStays ==
  ASSUME TypeInv, [Next]_vars, NEW t \in Workers, pc[t] = "done"
  PROVE  pc'[t] = "done" /\ view'[t] = view[t] /\ op'[t] = op[t]
<1>t. MemoryType /\ LocalType /\ t \in Threads /\ t # Main
  BY MpmcAssumption DEF TypeInv, TypeOK, Workers, Threads
<1>1. ASSUME NEW u \in Workers, AttemptStep(u)
      PROVE  pc'[t] = "done" /\ view'[t] = view[t] /\ op'[t] = op[t]
  BY <1>t, <1>1, AttemptFrame
<1>2. ASSUME NEW p \in Producers,
             \/ \E o \in PushOps : CallPush(p, o)
             \/ EndProducer(p) \/ PushChecksClosed(p) \/ AsksClosed(p)
      PROVE  pc'[t] = "done" /\ view'[t] = view[t] /\ op'[t] = op[t]
  <2>1. t # p
    BY <1>2 DEF CallPush, EndProducer, PushChecksClosed, AsksClosed
  <2> QED
    BY <1>t, <1>2, <2>1
    DEF CallPush, EndProducer, PushChecksClosed, AsksClosed, LoadRelaxed,
        LoadAcquire, Goto, memory, LocalType, MemoryType
<1>3. ASSUME NEW c \in Consumers,
             (\E o \in PopOps : CallPop(c, o)) \/ PopChecksClosed(c)
      PROVE  pc'[t] = "done" /\ view'[t] = view[t] /\ op'[t] = op[t]
  <2>1. t # c
    BY <1>3 DEF CallPop, PopChecksClosed
  <2> QED
    BY <1>t, <1>3, <2>1
    DEF CallPop, PopChecksClosed, LoadAcquire, Goto, memory, LocalType, MemoryType
<1>4. CASE MainThread
  BY <1>t, <1>4
  DEF MainThread, Joins, JoinThread, close, StoreRelease, Put, size, SizeLoadsTail,
      SizeLoadsHead, LoadRelaxed, Goto, local, LocalType, MemoryType
<1>5. CASE AllDone \/ UNCHANGED vars
  BY <1>5 DEF AllDone, vars, memory, local
<1> QED
  BY <1>1, <1>2, <1>3, <1>4, <1>5, StepKinds DEF ClientStep

(***************************************************************************)
(* Elements.  Every ticket k that a producer has won carries one element,  *)
(* Carried(k), from then on.                                               *)
(***************************************************************************)
Writing(p, k) == pc[p] = "slot" /\ ticket[p] = k

\* A producer whose element has no ticket yet.
Pending(p) == pc[p] \in {"closed", "pos", "seq", "cas"}

\* A ticket that a consumer has won is taken, or is being taken.
TakenInTurn ==
  /\ \A k \in DOMAIN taken : k < Dequeued
  /\ \A c \in Consumers : pc[c] = "slot" => ticket[c] \notin DOMAIN taken
  /\ \A k \in Nat : k < Dequeued /\ k \notin DOMAIN taken =>
       \E c \in Consumers : pc[c] = "slot" /\ ticket[c] = k

\* A ticket is won only once the sequence of its slot has reached it.
SequencesReached ==
  \A k \in Nat :
    /\ k < Enqueued => FreeFor(k) <= Latest(Sequence(slot_index(k)))
    /\ k < Dequeued => HoldsDataOf(k) <= Latest(Sequence(slot_index(k)))

\* The elements carried and the elements pending are all different.
CarriedKnown == \A k \in Nat : k < Enqueued => Carried(k) \in 1 .. calls

PendingFresh ==
  \A p \in Producers : Pending(p) =>
    /\ item[p] \in 1 .. calls
    /\ \A k \in Nat : k < Enqueued => Carried(k) # item[p]

PendingApart ==
  \A p, q \in Producers : Pending(p) /\ Pending(q) /\ p # q => item[p] # item[q]

ElementsInv ==
  /\ TakenInTurn /\ SequencesReached
  /\ CarriedKnown /\ PendingFresh /\ PendingApart

\* Where the element of a ticket lies.
LEMMA CarriedByWriter ==
  ASSUME TypeInv, TicketsDiffer, NEW p \in Producers, NEW k, Writing(p, k)
  PROVE  Carried(k) = item[p]
<1>1. \A q \in Producers : pc[q] = "slot" /\ ticket[q] = k => q = p
  BY DEF TicketsDiffer, InSlot, Workers, Pos, Writing
<1> DEFINE w == CHOOSE q \in Producers : pc[q] = "slot" /\ ticket[q] = k
<1>2. w = p
  BY <1>1 DEF Writing
<1> QED
  BY <1>2 DEF Carried, Writing

LEMMA CarriedElsewhere ==
  ASSUME NEW k, \A p \in Producers : ~Writing(p, k)
  PROVE  Carried(k) = IF k \in DOMAIN taken THEN taken[k]
                      ELSE Latest(Value(slot_index(k)))
BY DEF Carried, Writing

LEMMA CarriedByWriterThen ==
  TypeInv' /\ TicketsDiffer' =>
    \A p \in Producers : \A k \in Nat : Writing(p, k)' => Carried(k)' = item'[p]
<1>1. TypeInv /\ TicketsDiffer =>
        \A p \in Producers : \A k \in Nat : Writing(p, k) => Carried(k) = item[p]
  BY CarriedByWriter
<1>2. (TypeInv /\ TicketsDiffer)' =>
        (\A p \in Producers : \A k \in Nat : Writing(p, k) => Carried(k) = item[p])'
  BY <1>1, PTL
<1> QED
  BY <1>2

LEMMA CarriedFrame ==
  ASSUME SlotInv, SlotInv', NEW k \in Nat,
         k \in DOMAIN taken' <=> k \in DOMAIN taken,
         k \in DOMAIN taken => taken'[k] = taken[k],
         \A p \in Producers : Writing(p, k)' <=> Writing(p, k),
         \A p \in Producers : Writing(p, k) => item'[p] = item[p],
         Latest(Value(slot_index(k)))' = Latest(Value(slot_index(k)))
  PROVE  Carried(k)' = Carried(k)
<1>1. ASSUME NEW p \in Producers, Writing(p, k)
      PROVE  Carried(k)' = Carried(k)
  <2>1. Carried(k) = item[p]
    BY <1>1, CarriedByWriter DEF SlotInv, Protocol
  <2>2. Carried(k)' = item'[p]
    BY <1>1, CarriedByWriterThen DEF SlotInv, Protocol
  <2> QED
    BY <1>1, <2>1, <2>2
<1>2. CASE \A p \in Producers : ~Writing(p, k)
  <2>1. Carried(k) = IF k \in DOMAIN taken THEN taken[k]
                     ELSE Latest(Value(slot_index(k)))
    BY <1>2, CarriedElsewhere
  <2>2. Carried(k)' = IF k \in DOMAIN taken' THEN taken'[k]
                      ELSE Latest(Value(slot_index(k)))'
    BY <1>2 DEF Carried, Writing
  <2> QED
    BY <2>1, <2>2
<1> QED
  BY <1>1, <1>2

\* A producer in a slot holds a ticket that no consumer has won, and no other
\* ticket of the slot is between the two positions.
LEMMA WriterTicket ==
  ASSUME SlotInv, SequencesReached, NEW p \in Producers, InSlot(p)
  PROVE  /\ ticket[p] \in Nat /\ Dequeued <= ticket[p] /\ ticket[p] < Enqueued
         /\ \A k \in Nat : Dequeued <= k /\ k < Enqueued /\ k # ticket[p] =>
              slot_index(k) # TicketSlot(p)
<1>1. p \in Workers /\ ticket[p] \in Nat /\ TicketSlot(p) = slot_index(ticket[p])
  BY WorkerTypes DEF SlotInv, Workers, TicketSlot
<1>2. Enqueued \in Nat /\ Dequeued \in Nat /\ Capacity \in Nat \ {0}
  BY PositionTypes, MpmcAssumption DEF SlotInv
<1>3. ticket[p] < Enqueued
  BY <1>1 DEF SlotInv, Protocol, TicketsHandedOut, Pos, Enqueued
<1>4. Latest(Sequence(slot_index(ticket[p]))) = FreeFor(ticket[p])
  BY <1>1 DEF SlotInv, Protocol, InTurn, Expected
<1>5. Dequeued <= ticket[p]
  <2> SUFFICES ASSUME ticket[p] < Dequeued PROVE FALSE
    BY <1>1, <1>2
  <2>1. HoldsDataOf(ticket[p]) <= FreeFor(ticket[p])
    BY <1>1, <1>4 DEF SequencesReached
  <2> QED
    BY <1>1, <2>1 DEF HoldsDataOf, FreeFor
<1>6. ASSUME NEW k \in Nat, Dequeued <= k, k < Enqueued, k # ticket[p],
             slot_index(k) = TicketSlot(p)
      PROVE  FALSE
  <2>1. Enqueued <= Dequeued + Capacity
    BY DEF SlotInv, Protocol, WithinCapacity
  <2>2. k < ticket[p] => k + Capacity <= ticket[p]
    BY <1>1, <1>6, NextLap
  <2>3. ticket[p] < k => ticket[p] + Capacity <= k
    BY <1>1, <1>6, NextLap
  <2> QED
    BY <1>1, <1>2, <1>3, <1>5, <1>6, <2>1, <2>2, <2>3
<1> QED
  BY <1>1, <1>3, <1>5, <1>6

\* While a consumer is in a slot, no later ticket of the slot has been won.
LEMMA TakerTicket ==
  ASSUME SlotInv, SequencesReached, NEW c \in Consumers, InSlot(c)
  PROVE  /\ ticket[c] \in Nat /\ ticket[c] < Dequeued
         /\ \A k \in Nat : Dequeued <= k /\ k < Enqueued =>
              slot_index(k) # TicketSlot(c)
<1>1. /\ c \in Workers /\ c \notin Producers
      /\ ticket[c] \in Nat /\ TicketSlot(c) = slot_index(ticket[c])
  BY WorkerTypes, MpmcAssumption DEF SlotInv, Workers, TicketSlot
<1>2. Enqueued \in Nat /\ Dequeued \in Nat /\ Capacity \in Nat \ {0}
  BY PositionTypes, MpmcAssumption DEF SlotInv
<1>3. ticket[c] < Dequeued
  BY <1>1 DEF SlotInv, Protocol, TicketsHandedOut, Pos, Dequeued
<1>4. Latest(Sequence(slot_index(ticket[c]))) = HoldsDataOf(ticket[c])
  BY <1>1 DEF SlotInv, Protocol, InTurn, Expected
<1>5. ASSUME NEW k \in Nat, Dequeued <= k, k < Enqueued, slot_index(k) = TicketSlot(c)
      PROVE  FALSE
  <2>1. FreeFor(k) <= HoldsDataOf(ticket[c])
    BY <1>1, <1>4, <1>5 DEF SequencesReached
  <2>2. k <= ticket[c]
    BY <1>1, <2>1 DEF FreeFor, HoldsDataOf
  <2> QED
    BY <1>1, <1>2, <1>3, <1>5, <2>2
<1> QED
  BY <1>1, <1>3, <1>5

(***************************************************************************)
(* The effects of the steps of an attempt on the memory.                   *)
(***************************************************************************)
LEMMA ClaimFacts ==
  ASSUME TypeInv, NEW t \in Workers, CasSucceeds(t)
  PROVE  /\ Latest(Pos(t)) = ticket[t] /\ Latest(Pos(t))' = ticket[t] + 1
         /\ \A y \in Loc \ {Pos(t)} : mo'[y] = mo[y]
         /\ UpToDate(t, Pos(t))'
         /\ pc[t] = "cas" /\ pc'[t] = "slot"
         /\ ticket' = ticket /\ taken' = taken
<1> DEFINE x == Pos(t)
           m == Message(ticket[t] + 1, Newest(x).view)
<1>t. MemoryType /\ LocalType
  BY DEF TypeInv, TypeOK
<1>w. t \in Threads /\ x \in Loc /\ Contents(x) = Nat /\ ticket[t] + 1 \in Contents(x)
  BY WorkerTypes, Locations DEF Pos
<1>1. m \in Messages(Contents(x)) /\ m.val = ticket[t] + 1 /\ Put(t, x, m)
  BY <1>t, <1>w, StoredMessages DEF CasSucceeds, ExchangeRelaxed, Message
<1> HIDE DEF m
<1>2. /\ Len(mo'[x]) = Len(mo[x]) + 1 /\ mo'[x][Len(mo[x]) + 1] = m
      /\ \A y \in Loc \ {x} : mo'[y] = mo[y]
      /\ view'[t][x] = Len(mo[x]) + 1
  BY <1>t, <1>w, <1>1, PutFacts
<1>3. Latest(x)' = ticket[t] + 1 /\ UpToDate(t, x)'
  <2>1. x' = x
    BY DEF Pos
  <2> QED
    BY <1>1, <1>2, <2>1 DEF Latest, Newest, UpToDate
<1>4. /\ Latest(x) = ticket[t] /\ pc[t] = "cas" /\ pc'[t] = "slot"
      /\ ticket' = ticket /\ taken' = taken
  BY <1>t, <1>w DEF CasSucceeds, Goto, history, LocalType
<1> QED
  BY <1>2, <1>3, <1>4

LEMMA AccessFacts ==
  ASSUME TypeInv, NEW t \in Workers, NEW v \in Items \cup {Empty},
         Access(t, Value(TicketSlot(t)), v), ticket' = ticket
  PROVE  /\ Latest(Value(TicketSlot(t)))' = v
         /\ \A y \in Loc \ {Value(TicketSlot(t))} : mo'[y] = mo[y]
<1> DEFINE x == Value(TicketSlot(t))
           m == Message(v, NoView)
<1>t. MemoryType /\ LocalType
  BY DEF TypeInv, TypeOK
<1>w. t \in Threads /\ x \in Loc /\ Contents(x) = Items \cup {Empty}
  BY WorkerTypes, Locations
<1>1. m \in Messages(Contents(x)) /\ m.val = v /\ Put(t, x, m)
  BY <1>t, <1>w, StoredMessages DEF Access, Message
<1> HIDE DEF m
<1>2. /\ Len(mo'[x]) = Len(mo[x]) + 1 /\ mo'[x][Len(mo[x]) + 1] = m
      /\ \A y \in Loc \ {x} : mo'[y] = mo[y]
  BY <1>t, <1>w, <1>1, PutFacts
<1>3. Latest(x)' = v
  BY <1>1, <1>2 DEF Latest, Newest, TicketSlot
<1> QED
  BY <1>2, <1>3

LEMMA StoreFacts ==
  ASSUME TypeInv, NEW t \in Workers, NEW v \in Nat,
         StoreRelease(t, Sequence(TicketSlot(t)), v)
  PROVE  /\ Len(mo'[Sequence(TicketSlot(t))]) = Len(mo[Sequence(TicketSlot(t))]) + 1
         /\ mo'[Sequence(TicketSlot(t))][Len(mo[Sequence(TicketSlot(t))]) + 1].val = v
         /\ view'[t][Sequence(TicketSlot(t))] = Len(mo[Sequence(TicketSlot(t))]) + 1
         /\ \A y \in Loc \ {Sequence(TicketSlot(t))} : mo'[y] = mo[y]
<1> DEFINE x == Sequence(TicketSlot(t))
           m == Message(v, [view[t] EXCEPT ![x] = Len(mo[x]) + 1])
<1>t. MemoryType
  BY DEF TypeInv, TypeOK
<1>w. t \in Threads /\ x \in Loc /\ Contents(x) = Nat
  BY WorkerTypes, Locations
<1>1. m \in Messages(Contents(x)) /\ m.val = v /\ Put(t, x, m)
  BY <1>t, <1>w, StoredMessages DEF StoreRelease, Message
<1> HIDE DEF m
<1> QED
  BY <1>t, <1>w, <1>1, PutFacts

\* The stores that end a turn.
LEMMA TurnEnds ==
  ASSUME TypeInv, NEW t \in Workers,
         \/ t \in Producers /\ PublishesSlot(t)
         \/ t \in Consumers /\ FreesSlot(t)
  PROVE  /\ \E v \in Nat :
              /\ StoreRelease(t, Sequence(TicketSlot(t)), v)
              /\ t \in Producers => v = HoldsDataOf(ticket[t])
              /\ t \in Consumers => v = FreeFor(ticket[t] + Capacity)
         /\ pc[t] = "publish" /\ pc'[t] = "idle" /\ ticket' = ticket
         /\ taken' = taken
<1>t. LocalType
  BY DEF TypeInv, TypeOK
<1>w. t \in Threads /\ ticket[t] \in Nat
  BY WorkerTypes
<1>1. HoldsDataOf(ticket[t]) \in Nat /\ FreeFor(ticket[t] + Capacity) \in Nat
  BY <1>w, MpmcAssumption DEF HoldsDataOf, FreeFor
<1>2. t \in Producers => t \notin Consumers
  BY MpmcAssumption
<1>3. \E v \in Nat :
        /\ StoreRelease(t, Sequence(TicketSlot(t)), v)
        /\ t \in Producers => v = HoldsDataOf(ticket[t])
        /\ t \in Consumers => v = FreeFor(ticket[t] + Capacity)
  BY <1>1, <1>2 DEF PublishesSlot, FreesSlot
<1> QED
  BY <1>t, <1>w, <1>3 DEF PublishesSlot, FreesSlot, Goto, history, LocalType

\* The move-out yields the element that lies in the slot.
LEMMA MoveOutFacts ==
  ASSUME SlotInv, NEW c \in Consumers, MovesOut(c)
  PROVE  /\ DOMAIN taken' = DOMAIN taken \cup {ticket[c]}
         /\ taken'[ticket[c]] = Latest(Value(TicketSlot(c)))
         /\ \A k \in DOMAIN taken \ {ticket[c]} : taken'[k] = taken[k]
         /\ pc[c] = "slot" /\ pc'[c] = "publish" /\ ticket' = ticket
         /\ Access(c, Value(TicketSlot(c)), Empty)
<1>1. PICK v \in Outcomes(c, TicketSlot(c)) :
        taken' = [k \in DOMAIN taken \cup {ticket[c]} |->
                    IF k = ticket[c] THEN v ELSE taken[k]]
  BY DEF MovesOut
<1>2. pc[c] = "slot" /\ c \in Workers
  BY DEF MovesOut, Workers
<1>3. UpToDate(c, Value(TicketSlot(c)))
  BY <1>2, RacesExcluded DEF NoDataRace
<1>4. v = Latest(Value(TicketSlot(c)))
  BY <1>1, <1>3 DEF Outcomes
<1>5. pc'[c] = "publish" /\ ticket' = ticket /\ Access(c, Value(TicketSlot(c)), Empty)
  BY DEF MovesOut, Goto, SlotInv, TypeInv, TypeOK, LocalType, Threads
<1> QED
  BY <1>1, <1>2, <1>4, <1>5

(***************************************************************************)
(* A ticket carries the same element for ever, wherever it lies.           *)
(***************************************************************************)
\* Memory and threads as they matter to ticket k are not touched.
LEMMA CarriedQuiet ==
  ASSUME SlotInv, SlotInv', NEW k \in Nat, taken' = taken,
         mo'[Value(slot_index(k))] = mo[Value(slot_index(k))],
         \A p \in Producers : (pc[p] = "slot" <=> pc'[p] = "slot"),
         \A p \in Producers : pc[p] = "slot" =>
           ticket'[p] = ticket[p] /\ item'[p] = item[p]
  PROVE  Carried(k)' = Carried(k)
<1>1. \A p \in Producers : Writing(p, k)' <=> Writing(p, k)
  BY DEF Writing
<1>2. \A p \in Producers : Writing(p, k) => item'[p] = item[p]
  BY DEF Writing
<1>3. Latest(Value(slot_index(k)))' = Latest(Value(slot_index(k)))
  BY DEF Latest, Newest
<1> QED
  BY <1>1, <1>2, <1>3, CarriedFrame

LEMMA CarriedClient ==
  ASSUME SlotInv, SlotInv', NEW k \in Nat, ClientStep
  PROVE  Carried(k)' = Carried(k)
<1>t. TypeInv /\ LocalType
  BY DEF SlotInv, TypeInv, TypeOK
<1>1. OutsideStep
  BY <1>t, ClientStepOutside
<1>2. mo'[Value(slot_index(k))] = mo[Value(slot_index(k))]
  BY <1>1, SlotIndexType, Locations, LocationsDiffer DEF OutsideStep
<1>3. \A p \in Producers : /\ (pc[p] = "slot" <=> pc'[p] = "slot")
                           /\ ticket'[p] = ticket[p]
  BY <1>1 DEF OutsideStep, Attempting, Workers
<1>4. taken' = taken
  BY DEF ClientStep, CallPush, EndProducer, PushChecksClosed, AsksClosed, CallPop,
         PopChecksClosed, MainThread, Joins, close, size, SizeLoadsTail, SizeLoadsHead,
         AllDone, vars, history
<1>5. \A p \in Producers : pc[p] = "slot" => item'[p] = item[p]
  <2>1. ASSUME NEW q \in Producers, NEW o, CallPush(q, o), NEW p \in Producers,
               pc[p] = "slot"
        PROVE  item'[p] = item[p]
    BY <1>t, <2>1 DEF CallPush, LocalType
  <2>2. (\E q \in Producers : \E o \in PushOps : CallPush(q, o)) \/ item' = item
    BY DEF ClientStep, EndProducer, PushChecksClosed, AsksClosed, CallPop,
           PopChecksClosed, MainThread, Joins, close, size, SizeLoadsTail,
           SizeLoadsHead, AllDone, vars, local
  <2> QED
    BY <2>1, <2>2
<1> QED
  BY <1>2, <1>3, <1>4, <1>5, CarriedQuiet

LEMMA CarriedLoad ==
  ASSUME SlotInv, SlotInv', NEW k \in Nat, NEW t \in Workers,
         LoadsPos(t) \/ CasFails(t) \/ LoadsSequence(t)
  PROVE  Carried(k)' = Carried(k)
<1>t. TypeInv
  BY DEF SlotInv
<1>1. /\ mo' = mo /\ ~InSlot(t) /\ ~InSlot(t)'
      /\ \A u \in Workers \ {t} : pc'[u] = pc[u] /\ ticket'[u] = ticket[u]
  BY <1>t, LoadEffects
<1>2. taken' = taken /\ item' = item
  BY DEF LoadsPos, CasFails, LoadsSequence, history
<1> QED
  BY <1>1, <1>2, CarriedQuiet DEF InSlot, Workers

LEMMA CarriedEnds ==
  ASSUME SlotInv, SlotInv', NEW k \in Nat, NEW t \in Workers,
         \/ t \in Producers /\ PublishesSlot(t)
         \/ t \in Consumers /\ FreesSlot(t)
  PROVE  Carried(k)' = Carried(k)
<1>t. TypeInv /\ \A u \in Workers : u \in Threads
  BY WorkerTypes DEF SlotInv
<1>1. PICK v \in Nat : StoreRelease(t, Sequence(TicketSlot(t)), v)
  BY <1>t, TurnEnds
<1>2. \A y \in Loc \ {Sequence(TicketSlot(t))} : mo'[y] = mo[y]
  BY <1>t, <1>1, StoreFacts
<1>3. mo'[Value(slot_index(k))] = mo[Value(slot_index(k))]
  BY <1>t, <1>2, SlotIndexType, WorkerTypes, Locations, LocationsDiffer
<1>4. /\ pc[t] = "publish" /\ pc'[t] = "idle" /\ ticket' = ticket /\ taken' = taken
  BY <1>t, TurnEnds
<1>5. item' = item /\ \A u \in Workers \ {t} : pc'[u] = pc[u]
  BY <1>t, AttemptFrame DEF AttemptStep
<1> QED
  BY <1>3, <1>4, <1>5, CarriedQuiet DEF Workers

\* The claim of a ticket leaves the earlier ones alone.
LEMMA CarriedClaim ==
  ASSUME SlotInv, SlotInv', NEW k \in Nat, k < Enqueued, NEW t \in Workers,
         CasSucceeds(t)
  PROVE  Carried(k)' = Carried(k)
<1>t. TypeInv /\ \A u \in Workers : u \in Threads
  BY WorkerTypes DEF SlotInv
<1>1. /\ Latest(Pos(t)) = ticket[t] /\ ticket[t] \in Nat
      /\ \A y \in Loc \ {Pos(t)} : mo'[y] = mo[y]
      /\ pc[t] = "cas" /\ pc'[t] = "slot" /\ ticket' = ticket /\ taken' = taken
  BY <1>t, ClaimFacts, WorkerTypes
<1>2. item' = item /\ \A u \in Workers \ {t} : pc'[u] = pc[u]
  BY <1>t, AttemptFrame DEF AttemptStep
<1>3. mo'[Value(slot_index(k))] = mo[Value(slot_index(k))]
  BY <1>t, <1>1, SlotIndexType, WorkerTypes, Locations, LocationsDiffer
<1>4. t \in Producers => ticket[t] = Enqueued
  BY <1>1 DEF Pos, Enqueued
<1>5. \A p \in Producers : Writing(p, k)' <=> Writing(p, k)
  <2>1. \A p \in Producers \ {t} : Writing(p, k)' <=> Writing(p, k)
    BY <1>1, <1>2 DEF Writing, Workers
  <2>2. t \in Producers => ticket[t] # k
    BY <1>1, <1>4
  <2> QED
    BY <1>1, <2>1, <2>2 DEF Writing
<1>6. Latest(Value(slot_index(k)))' = Latest(Value(slot_index(k)))
  BY <1>3 DEF Latest, Newest
<1> QED
  BY <1>1, <1>2, <1>5, <1>6, CarriedFrame

\* The write puts the element where the ticket's slot is.
LEMMA CarriedWrite ==
  ASSUME SlotInv, SlotInv', TakenInTurn, SequencesReached,
         NEW k \in Nat, k < Enqueued, NEW p \in Producers, WritesSlot(p)
  PROVE  Carried(k)' = Carried(k)
<1> DEFINE i == TicketSlot(p)
<1>t. TypeInv /\ \A u \in Workers : u \in Threads
  BY WorkerTypes DEF SlotInv
<1>p. p \in Workers /\ AttemptStep(p) /\ \A q \in Producers : q \in Workers /\ q \in Threads
  BY <1>t DEF Workers, AttemptStep
<1>1. /\ pc[p] = "slot" /\ pc'[p] = "publish" /\ ticket' = ticket
      /\ taken' = taken /\ item' = item
      /\ Access(p, Value(i), item[p])
  BY <1>t, <1>p DEF WritesSlot, Goto, history, TypeInv, TypeOK, LocalType
<1>2. item[p] \in Items \cup {Empty}
  BY <1>t, <1>1 DEF TypeInv, ItemReady
<1>3. /\ Latest(Value(i))' = item[p]
      /\ \A y \in Loc \ {Value(i)} : mo'[y] = mo[y]
  BY <1>t, <1>p, <1>1, <1>2, AccessFacts
<1>4. \A u \in Workers \ {p} : pc'[u] = pc[u]
  BY <1>t, <1>p, AttemptFrame
<1>5. /\ ticket[p] \in Nat /\ Dequeued <= ticket[p] /\ ticket[p] < Enqueued
      /\ \A j \in Nat : Dequeued <= j /\ j < Enqueued /\ j # ticket[p] => slot_index(j) # i
  BY <1>1, WriterTicket DEF InSlot
<1>6. Enqueued \in Nat /\ Dequeued \in Nat
  BY <1>t, PositionTypes
<1>7. CASE k = ticket[p]
  <2>1. Carried(k) = item[p]
    BY <1>t, <1>1, <1>7, CarriedByWriter DEF Writing, SlotInv, Protocol
  <2>2. \A q \in Producers : ~Writing(q, k)'
    <3>1. \A q \in Producers \ {p} : pc[q] = "slot" => ticket[q] # ticket[p]
      BY <1>1, <1>p DEF SlotInv, Protocol, TicketsDiffer, InSlot, Pos
    <3> QED
      BY <1>1, <1>4, <1>p, <1>7, <3>1 DEF Writing
  <2>3. k \notin DOMAIN taken
    BY <1>5, <1>6, <1>7 DEF TakenInTurn
  <2>4. Carried(k)' = Latest(Value(slot_index(k)))'
    BY <1>1, <2>2, <2>3 DEF Carried, Writing
  <2>5. slot_index(k) = i /\ i' = i
    BY <1>1, <1>7 DEF TicketSlot
  <2> QED
    BY <1>3, <2>1, <2>4, <2>5
<1>8. CASE k # ticket[p]
  <2>1. \A q \in Producers : Writing(q, k)' <=> Writing(q, k)
    BY <1>1, <1>4, <1>p, <1>8 DEF Writing
  <2>2. CASE k \in DOMAIN taken
    <3>1. \A q \in Producers : ~Writing(q, k)
      <4> SUFFICES ASSUME NEW q \in Producers, Writing(q, k) PROVE FALSE
        OBVIOUS
      <4>1. Dequeued <= k
        BY WriterTicket DEF Writing, InSlot
      <4> QED
        BY <1>6, <2>2, <4>1 DEF TakenInTurn
    <3>2. Carried(k) = taken[k]
      BY <2>2, <3>1, CarriedElsewhere
    <3>3. Carried(k)' = taken'[k]
      BY <1>1, <2>1, <2>2, <3>1 DEF Carried, Writing
    <3> QED
      BY <1>1, <3>2, <3>3
  <2>3. CASE k \notin DOMAIN taken
    <3>1. slot_index(k) # i
      <4>1. CASE Dequeued <= k
        BY <1>5, <1>8, <4>1
      <4>2. CASE ~(Dequeued <= k)
        <5>1. PICK c \in Consumers : pc[c] = "slot" /\ ticket[c] = k
          BY <1>6, <2>3, <4>2 DEF TakenInTurn
        <5>2. c \in Workers /\ c # p /\ InSlot(c) /\ InSlot(p)
          BY <1>1, <5>1, MpmcAssumption DEF Workers, InSlot
        <5>3. TicketSlot(c) # TicketSlot(p)
          BY <1>t, <1>p, <5>2, AloneInSlot DEF SlotInv, Protocol
        <5> QED
          BY <5>1, <5>3 DEF TicketSlot
      <4> QED
        BY <4>1, <4>2
    <3>2. mo'[Value(slot_index(k))] = mo[Value(slot_index(k))]
      <4>1. i \in Slots /\ slot_index(k) \in Slots
        BY <1>t, <1>p, WorkerTypes, SlotIndexType
      <4> QED
        BY <1>3, <3>1, <4>1, Locations, LocationsDiffer
    <3>3. Latest(Value(slot_index(k)))' = Latest(Value(slot_index(k)))
      BY <3>2 DEF Latest, Newest
    <3> QED
      BY <1>1, <2>1, <3>3, CarriedFrame
  <2> QED
    BY <2>2, <2>3
<1> QED
  BY <1>7, <1>8

\* The move-out records the element that was in the ticket's slot.
LEMMA CarriedMoveOut ==
  ASSUME SlotInv, SlotInv', TakenInTurn, SequencesReached,
         NEW k \in Nat, k < Enqueued, NEW c \in Consumers, MovesOut(c)
  PROVE  Carried(k)' = Carried(k)
<1> DEFINE i == TicketSlot(c)
<1>t. TypeInv /\ \A u \in Workers : u \in Threads
  BY WorkerTypes DEF SlotInv
<1>p. /\ c \in Workers /\ AttemptStep(c) /\ c \notin Producers
      /\ \A q \in Producers : q \in Workers
  BY MpmcAssumption DEF Workers, AttemptStep
<1>1. /\ DOMAIN taken' = DOMAIN taken \cup {ticket[c]}
      /\ taken'[ticket[c]] = Latest(Value(i))
      /\ \A j \in DOMAIN taken \ {ticket[c]} : taken'[j] = taken[j]
      /\ pc[c] = "slot" /\ ticket' = ticket
      /\ Access(c, Value(i), Empty)
  BY MoveOutFacts
<1>2. item' = item /\ \A q \in Producers : pc'[q] = pc[q]
  BY <1>t, <1>p, AttemptFrame
<1>3. \A y \in Loc \ {Value(i)} : mo'[y] = mo[y]
  BY <1>t, <1>p, <1>1, AccessFacts
<1>4. \A q \in Producers : Writing(q, k)' <=> Writing(q, k)
  BY <1>1, <1>2 DEF Writing
<1>5. /\ ticket[c] \in Nat /\ ticket[c] < Dequeued /\ ticket[c] \notin DOMAIN taken
      /\ \A j \in Nat : Dequeued <= j /\ j < Enqueued => slot_index(j) # i
  BY <1>1, TakerTicket DEF InSlot, TakenInTurn
<1>6. Enqueued \in Nat /\ Dequeued \in Nat
  BY <1>t, PositionTypes
<1>7. CASE k = ticket[c]
  <2>1. \A q \in Producers : ~Writing(q, k)
    <3> SUFFICES ASSUME NEW q \in Producers, Writing(q, k) PROVE FALSE
      OBVIOUS
    <3>1. Dequeued <= k
      BY WriterTicket DEF Writing, InSlot
    <3> QED
      BY <1>5, <1>6, <1>7, <3>1
  <2>2. Carried(k) = Latest(Value(i))
    BY <1>5, <1>7, <2>1, CarriedElsewhere DEF TicketSlot
  <2>3. Carried(k)' = taken'[k]
    BY <1>1, <1>4, <1>7, <2>1 DEF Carried, Writing
  <2> QED
    BY <1>1, <1>7, <2>2, <2>3
<1>8. CASE k # ticket[c]
  <2>1. CASE \E q \in Producers : Writing(q, k)
    <3>1. PICK q \in Producers : Writing(q, k)
      BY <2>1
    <3>2. Carried(k) = item[q]
      BY <1>t, <3>1, CarriedByWriter DEF SlotInv, Protocol
    <3>3. Carried(k)' = item'[q]
      BY <1>4, <3>1, CarriedByWriterThen DEF SlotInv, Protocol
    <3> QED
      BY <1>2, <3>2, <3>3
  <2>2. CASE k \in DOMAIN taken /\ ~\E q \in Producers : Writing(q, k)
    <3>1. Carried(k) = taken[k]
      BY <2>2, CarriedElsewhere
    <3>2. Carried(k)' = taken'[k]
      BY <1>1, <1>4, <2>2 DEF Carried, Writing
    <3> QED
      BY <1>1, <1>8, <2>2, <3>1, <3>2
  <2>3. CASE k \notin DOMAIN taken
    <3>1. slot_index(k) # i
      <4>1. CASE Dequeued <= k
        BY <1>5, <4>1
      <4>2. CASE ~(Dequeued <= k)
        <5>1. PICK d \in Consumers : pc[d] = "slot" /\ ticket[d] = k
          BY <1>6, <2>3, <4>2 DEF TakenInTurn
        <5>2. d \in Workers /\ d # c /\ InSlot(c) /\ InSlot(d)
          BY <1>1, <1>8, <5>1 DEF Workers, InSlot
        <5>3. TicketSlot(d) # TicketSlot(c)
          BY <1>t, <1>p, <5>2, AloneInSlot DEF SlotInv, Protocol
        <5> QED
          BY <5>1, <5>3 DEF TicketSlot
      <4> QED
        BY <4>1, <4>2
    <3>2. mo'[Value(slot_index(k))] = mo[Value(slot_index(k))]
      <4>1. i \in Slots /\ slot_index(k) \in Slots
        BY <1>t, <1>p, WorkerTypes, SlotIndexType
      <4> QED
        BY <1>3, <3>1, <4>1, Locations, LocationsDiffer
    <3>3. Latest(Value(slot_index(k)))' = Latest(Value(slot_index(k)))
      BY <3>2 DEF Latest, Newest
    <3>4. k \in DOMAIN taken' <=> k \in DOMAIN taken
      BY <1>1, <1>8
    <3> QED
      BY <1>2, <1>4, <2>3, <3>3, <3>4, CarriedFrame
  <2> QED
    BY <2>1, <2>2, <2>3
<1> QED
  BY <1>7, <1>8

LEMMA CarriedKept ==
  ASSUME SlotInv, SlotInv', TakenInTurn, SequencesReached, [Next]_vars,
         NEW k \in Nat, k < Enqueued
  PROVE  Carried(k)' = Carried(k)
<1>1. CASE ClientStep
  BY <1>1, CarriedClient
<1>2. ASSUME NEW t \in Workers, AttemptStep(t)
      PROVE  Carried(k)' = Carried(k)
  <2>1. CASE LoadsPos(t) \/ CasFails(t) \/ LoadsSequence(t)
    BY <2>1, CarriedLoad
  <2>2. CASE CasSucceeds(t)
    BY <2>2, CarriedClaim
  <2>3. CASE t \in Producers /\ WritesSlot(t)
    BY <2>3, CarriedWrite
  <2>4. CASE t \in Consumers /\ MovesOut(t)
    BY <2>4, CarriedMoveOut
  <2>5. CASE \/ t \in Producers /\ PublishesSlot(t)
             \/ t \in Consumers /\ FreesSlot(t)
    BY <2>5, CarriedEnds
  <2> QED
    BY <1>2, <2>1, <2>2, <2>3, <2>4, <2>5 DEF AttemptStep
<1> QED
  BY <1>1, <1>2, StepKinds

(***************************************************************************)
(* The positions move only when a ticket is won.                           *)
(***************************************************************************)
LEMMA PositionsUntouched ==
  ASSUME TypeInv, [Next]_vars
  PROVE  \/ \E t \in Workers : CasSucceeds(t)
         \/ \A x \in {EnqueuePos, DequeuePos} : mo'[x] = mo[x]
<1>1. CASE ClientStep
  BY <1>1, ClientStepOutside, OutsideIsQuiet DEF QuietStep
<1>2. ASSUME NEW t \in Workers, AttemptStep(t), ~CasSucceeds(t)
      PROVE  \A x \in {EnqueuePos, DequeuePos} : mo'[x] = mo[x]
  <2>1. CASE LoadsPos(t) \/ CasFails(t) \/ LoadsSequence(t)
    BY <2>1, LoadEffects
  <2>2. CASE WritesSlot(t) \/ MovesOut(t)
    BY <2>2, AccessIsQuiet DEF QuietStep
  <2>3. CASE \/ t \in Producers /\ PublishesSlot(t)
             \/ t \in Consumers /\ FreesSlot(t)
    <3>1. PICK v \in Nat : StoreRelease(t, Sequence(TicketSlot(t)), v)
      BY <2>3, TurnEnds
    <3>2. \A y \in Loc \ {Sequence(TicketSlot(t))} : mo'[y] = mo[y]
      BY <3>1, StoreFacts
    <3> QED
      BY <3>2, WorkerTypes, Locations, LocationsDiffer
  <2> QED
    BY <1>2, <2>1, <2>2, <2>3 DEF AttemptStep
<1> QED
  BY <1>1, <1>2, StepKinds

LEMMA PositionsKept ==
  ASSUME TypeInv, [Next]_vars
  PROVE  \/ \E t \in Workers : CasSucceeds(t)
         \/ Enqueued' = Enqueued /\ Dequeued' = Dequeued
BY PositionsUntouched DEF Enqueued, Dequeued, Latest, Newest

\* A ticket won is the next one of its side; the other side stays.
LEMMA ClaimMoves ==
  ASSUME TypeInv, NEW t \in Workers, CasSucceeds(t)
  PROVE  /\ t \in Producers => /\ ticket[t] = Enqueued
                               /\ Enqueued' = Enqueued + 1 /\ Dequeued' = Dequeued
         /\ t \in Consumers => /\ ticket[t] = Dequeued
                               /\ Dequeued' = Dequeued + 1 /\ Enqueued' = Enqueued
<1>1. /\ Latest(Pos(t)) = ticket[t] /\ Latest(Pos(t))' = ticket[t] + 1
      /\ \A y \in Loc \ {Pos(t)} : mo'[y] = mo[y]
  BY ClaimFacts
<1>2. t \in Consumers => t \notin Producers
  BY MpmcAssumption
<1>3. \A y \in {EnqueuePos, DequeuePos} : y # Pos(t) => Latest(y)' = Latest(y)
  BY <1>1, Locations DEF Latest, Newest
<1> QED
  BY <1>1, <1>2, <1>3, LocationsDiffer DEF Pos, Enqueued, Dequeued

-----------------------------------------------------------------------------
(***************************************************************************)
(* ElementsInv is inductive on top of SlotInv.                             *)
(***************************************************************************)
LEMMA ElementsInit == Init => ElementsInv
<1> SUFFICES ASSUME Init PROVE ElementsInv
  OBVIOUS
<1>1. Enqueued = 0 /\ Dequeued = 0
  <2>1. InitialValue(EnqueuePos) = 0 /\ InitialValue(DequeuePos) = 0
    BY DEF InitialValue, EnqueuePos, DequeuePos
  <2> QED
    BY <2>1, InitialMessages, Locations DEF Enqueued, Dequeued
<1>2. DOMAIN taken = {} /\ \A t \in Workers : pc[t] = "idle"
  BY DEF Init, Threads, Workers
<1>3. TakenInTurn
  BY <1>1, <1>2 DEF TakenInTurn, Workers
<1>4. SequencesReached /\ CarriedKnown
  BY <1>1 DEF SequencesReached, CarriedKnown
<1>5. PendingFresh /\ PendingApart
  BY <1>2 DEF PendingFresh, PendingApart, Pending, Workers
<1> QED
  BY <1>3, <1>4, <1>5 DEF ElementsInv

LEMMA SequencesReachedStep ==
  ASSUME SlotInv, SlotInv', SequencesReached, [Next]_vars
  PROVE  SequencesReached'
<1>t. TypeInv
  BY DEF SlotInv
<1>0. Enqueued \in Nat /\ Dequeued \in Nat
  BY <1>t, PositionTypes
<1> SUFFICES ASSUME NEW k \in Nat
             PROVE  /\ k < Enqueued' => FreeFor(k) <= Latest(Sequence(slot_index(k)))'
                    /\ k < Dequeued' => HoldsDataOf(k) <= Latest(Sequence(slot_index(k)))'
  BY DEF SequencesReached
<1> DEFINE x == Sequence(slot_index(k))
<1>1. Latest(x) \in Nat /\ Latest(x)' \in Nat /\ Latest(x) <= Latest(x)'
  BY <1>t, SlotIndexType, SequenceTypes, SequenceTypesThen, SequencesNeverFall
  DEF SlotInv
<1>2. FreeFor(k) \in Nat /\ HoldsDataOf(k) \in Nat
  BY DEF FreeFor, HoldsDataOf
<1>3. /\ k < Enqueued => FreeFor(k) <= Latest(x)'
      /\ k < Dequeued => HoldsDataOf(k) <= Latest(x)'
  BY <1>1, <1>2 DEF SequencesReached
<1>4. ASSUME NEW t \in Workers, CasSucceeds(t), ticket[t] = k
      PROVE  /\ t \in Producers => FreeFor(k) <= Latest(x)'
             /\ t \in Consumers => HoldsDataOf(k) <= Latest(x)'
  <2>1. pc'[t] = "slot" /\ ticket' = ticket
    BY <1>t, <1>4, ClaimFacts
  <2>2. (Latest(Sequence(TicketSlot(t))) = Expected(t))'
    BY <2>1 DEF SlotInv, Protocol, InTurn, InSlot
  <2>3. Latest(x)' = IF t \in Producers THEN FreeFor(k) ELSE HoldsDataOf(k)
    BY <1>4, <2>1, <2>2 DEF Expected, TicketSlot
  <2> QED
    BY <1>2, <2>3, MpmcAssumption
<1>5. CASE Enqueued' = Enqueued /\ Dequeued' = Dequeued
  BY <1>3, <1>5
<1>6. ASSUME NEW t \in Workers, CasSucceeds(t)
      PROVE  /\ k < Enqueued' => FreeFor(k) <= Latest(x)'
             /\ k < Dequeued' => HoldsDataOf(k) <= Latest(x)'
  <2>1. /\ t \in Producers => /\ ticket[t] = Enqueued
                              /\ Enqueued' = Enqueued + 1 /\ Dequeued' = Dequeued
        /\ t \in Consumers => /\ ticket[t] = Dequeued
                              /\ Dequeued' = Dequeued + 1 /\ Enqueued' = Enqueued
    BY <1>t, <1>6, ClaimMoves
  <2>2. CASE t \in Producers
    BY <1>0, <1>3, <1>4, <1>6, <2>1, <2>2
  <2>3. CASE t \in Consumers
    BY <1>0, <1>3, <1>4, <1>6, <2>1, <2>3
  <2> QED
    BY <2>2, <2>3 DEF Workers
<1> QED
  BY <1>t, <1>5, <1>6, PositionsKept

LEMMA TakersKept ==
  ASSUME TakenInTurn, taken' = taken, Dequeued' = Dequeued,
         \A c \in Consumers : (pc[c] = "slot" <=> pc'[c] = "slot"),
         \A c \in Consumers : pc[c] = "slot" => ticket'[c] = ticket[c]
  PROVE  TakenInTurn'
BY DEF TakenInTurn

LEMMA TakenInTurnStep ==
  ASSUME SlotInv, SlotInv', TakenInTurn, SequencesReached, [Next]_vars
  PROVE  TakenInTurn'
<1>t. TypeInv /\ \A u \in Workers : u \in Threads
  BY WorkerTypes DEF SlotInv
<1>0. Enqueued \in Nat /\ Dequeued \in Nat
  BY <1>t, PositionTypes
<1>c. \A c \in Consumers : c \in Workers /\ c \notin Producers
  BY MpmcAssumption DEF Workers
<1>1. CASE ClientStep
  <2>1. OutsideStep
    BY <1>1, <1>t, ClientStepOutside
  <2>2. taken' = taken
    BY <1>1
    DEF ClientStep, CallPush, EndProducer, PushChecksClosed, AsksClosed, CallPop,
        PopChecksClosed, MainThread, Joins, close, size, SizeLoadsTail, SizeLoadsHead,
        AllDone, vars, history
  <2>3. Dequeued' = Dequeued
    BY <2>1, Locations, LocationsDiffer DEF OutsideStep, Dequeued, Latest, Newest
  <2>4. \A c \in Consumers : (pc[c] = "slot" <=> pc'[c] = "slot") /\ ticket'[c] = ticket[c]
    BY <1>c, <2>1 DEF OutsideStep, Attempting
  <2> QED
    BY <2>2, <2>3, <2>4, TakersKept
<1>2. ASSUME NEW t \in Workers, LoadsPos(t) \/ CasFails(t) \/ LoadsSequence(t)
      PROVE  TakenInTurn'
  <2>1. /\ mo' = mo /\ ~InSlot(t) /\ ~InSlot(t)'
        /\ \A u \in Workers \ {t} : pc'[u] = pc[u] /\ ticket'[u] = ticket[u]
    BY <1>t, <1>2, LoadEffects
  <2>2. taken' = taken /\ Dequeued' = Dequeued
    BY <1>2, <2>1
    DEF LoadsPos, CasFails, LoadsSequence, history, Dequeued, Latest, Newest
  <2>3. \A c \in Consumers : /\ (pc[c] = "slot" <=> pc'[c] = "slot")
                             /\ pc[c] = "slot" => ticket'[c] = ticket[c]
    BY <1>c, <2>1 DEF InSlot
  <2> QED
    BY <2>2, <2>3, TakersKept
<1>3. ASSUME NEW t \in Workers, CasSucceeds(t)
      PROVE  TakenInTurn'
  <2>1. /\ t \in Producers => Dequeued' = Dequeued
        /\ t \in Consumers => ticket[t] = Dequeued /\ Dequeued' = Dequeued + 1
    BY <1>t, <1>3, ClaimMoves
  <2>2. taken' = taken /\ ticket' = ticket /\ pc[t] = "cas" /\ pc'[t] = "slot"
    BY <1>t, <1>3, ClaimFacts
  <2>3. \A c \in Consumers \ {t} : pc'[c] = pc[c]
    BY <1>t, <1>c, <1>3, AttemptFrame DEF AttemptStep
  <2>4. CASE t \in Producers
    <3>1. \A c \in Consumers : pc'[c] = pc[c]
      BY <1>c, <2>3, <2>4
    <3> QED
      BY <2>1, <2>2, <2>4, <3>1, TakersKept
  <2>5. CASE t \in Consumers
    <3>1. \A k \in DOMAIN taken : k \in Nat /\ k < Dequeued
      BY <1>t DEF TypeInv, TypeOK, HistoryType, TakenInTurn
    <3>2. \A k \in DOMAIN taken' : k < Dequeued'
      BY <1>0, <2>1, <2>2, <2>5, <3>1
    <3>3. \A c \in Consumers : pc'[c] = "slot" => ticket'[c] \notin DOMAIN taken'
      <4>1. ticket[t] \notin DOMAIN taken
        BY <1>0, <2>1, <2>5, <3>1
      <4> QED
        BY <2>2, <2>3, <4>1 DEF TakenInTurn
    <3>4. ASSUME NEW k \in Nat, k < Dequeued', k \notin DOMAIN taken'
          PROVE  \E c \in Consumers : pc'[c] = "slot" /\ ticket'[c] = k
      <4>1. CASE k = Dequeued
        BY <2>1, <2>2, <2>5, <4>1
      <4>2. CASE k # Dequeued
        <5>1. k < Dequeued /\ k \notin DOMAIN taken
          BY <1>0, <2>1, <2>2, <2>5, <3>4, <4>2
        <5>2. PICK c \in Consumers : pc[c] = "slot" /\ ticket[c] = k
          BY <5>1 DEF TakenInTurn
        <5> QED
          BY <2>2, <2>3, <5>2
      <4> QED
        BY <4>1, <4>2
    <3> QED
      BY <3>2, <3>3, <3>4 DEF TakenInTurn
  <2> QED
    BY <2>4, <2>5 DEF Workers
<1>4. ASSUME NEW p \in Producers, WritesSlot(p)
      PROVE  TakenInTurn'
  <2>1. p \in Workers /\ AttemptStep(p)
    BY <1>4 DEF Workers, AttemptStep
  <2>2. taken' = taken /\ ticket' = ticket
    BY <1>4 DEF WritesSlot, history
  <2>3. \A c \in Consumers : pc'[c] = pc[c]
    BY <1>t, <1>c, <2>1, AttemptFrame
  <2>4. Dequeued' = Dequeued
    BY <1>t, <1>4, <2>1, AccessIsQuiet DEF QuietStep, Dequeued, Latest, Newest
  <2> QED
    BY <2>2, <2>3, <2>4, TakersKept
<1>5. ASSUME NEW t \in Consumers, MovesOut(t)
      PROVE  TakenInTurn'
  <2>1. t \in Workers /\ AttemptStep(t)
    BY <1>5 DEF Workers, AttemptStep
  <2>2. /\ DOMAIN taken' = DOMAIN taken \cup {ticket[t]}
        /\ pc[t] = "slot" /\ pc'[t] = "publish" /\ ticket' = ticket
    BY <1>5, MoveOutFacts
  <2>3. \A c \in Consumers \ {t} : pc'[c] = pc[c]
    BY <1>t, <1>c, <2>1, AttemptFrame
  <2>4. Dequeued' = Dequeued
    BY <1>t, <1>5, <2>1, AccessIsQuiet DEF QuietStep, Dequeued, Latest, Newest
  <2>5. ticket[t] < Dequeued
    BY <2>2, TakerTicket DEF InSlot
  <2>6. \A c \in Consumers \ {t} : pc[c] = "slot" => ticket[c] # ticket[t]
    BY <1>c, <2>1, <2>2 DEF SlotInv, Protocol, TicketsDiffer, InSlot, Pos
  <2>7. \A k \in DOMAIN taken' : k < Dequeued'
    BY <2>2, <2>4, <2>5 DEF TakenInTurn
  <2>8. \A c \in Consumers : pc'[c] = "slot" => ticket'[c] \notin DOMAIN taken'
    BY <2>2, <2>3, <2>6 DEF TakenInTurn
  <2>9. ASSUME NEW k \in Nat, k < Dequeued', k \notin DOMAIN taken'
        PROVE  \E c \in Consumers : pc'[c] = "slot" /\ ticket'[c] = k
    <3>1. PICK c \in Consumers : pc[c] = "slot" /\ ticket[c] = k
      BY <2>2, <2>4, <2>9 DEF TakenInTurn
    <3> QED
      BY <2>2, <2>3, <2>9, <3>1
  <2> QED
    BY <2>7, <2>8, <2>9 DEF TakenInTurn
<1>6. ASSUME NEW t \in Workers, \/ t \in Producers /\ PublishesSlot(t)
                                \/ t \in Consumers /\ FreesSlot(t)
      PROVE  TakenInTurn'
  <2>1. AttemptStep(t)
    BY <1>6 DEF AttemptStep
  <2>2. taken' = taken /\ ticket' = ticket /\ pc[t] = "publish" /\ pc'[t] = "idle"
    BY <1>t, <1>6, TurnEnds
  <2>3. \A c \in Consumers \ {t} : pc'[c] = pc[c]
    BY <1>t, <1>c, <2>1, AttemptFrame
  <2>4. Dequeued' = Dequeued
    <3>1. PICK v \in Nat : StoreRelease(t, Sequence(TicketSlot(t)), v)
      BY <1>t, <1>6, TurnEnds
    <3>2. \A y \in Loc \ {Sequence(TicketSlot(t))} : mo'[y] = mo[y]
      BY <1>t, <3>1, StoreFacts
    <3> QED
      BY <1>t, <3>2, WorkerTypes, Locations, LocationsDiffer DEF Dequeued, Latest, Newest
  <2>5. \A c \in Consumers : (pc[c] = "slot" <=> pc'[c] = "slot")
    BY <2>2, <2>3
  <2> QED
    BY <2>2, <2>4, <2>5, TakersKept
<1> QED
  BY <1>1, <1>2, <1>3, <1>4, <1>5, <1>6, StepKinds DEF AttemptStep

\* Only a new call makes an element pending.
LEMMA PendingKept ==
  ASSUME TypeInv, [Next]_vars
  PROVE  \/ \E p \in Producers, o \in PushOps : CallPush(p, o)
         \/ /\ item' = item /\ calls' = calls
            /\ \A p \in Producers : Pending(p)' => Pending(p)
<1> DEFINE Kept == /\ item' = item /\ calls' = calls
                   /\ \A p \in Producers : Pending(p)' => Pending(p)
<1>t. LocalType /\ \A u \in Workers : u \in Threads /\ u # Main
  BY WorkerTypes, MpmcAssumption DEF TypeInv, TypeOK, Workers
<1>p. \A p \in Producers : p \in Workers /\ p \notin Consumers
  BY MpmcAssumption DEF Workers
<1>1. ASSUME NEW t \in Workers, AttemptStep(t) PROVE Kept
  <2>1. /\ item' = item /\ calls' = calls
        /\ pc[t] \in {"pos", "seq", "cas", "slot", "publish"}
        /\ \A u \in Workers \ {t} : pc'[u] = pc[u]
    BY <1>t, <1>1, AttemptFrame
  <2>2. pc[t] \in {"slot", "publish"} => pc'[t] \in {"publish", "idle"}
    BY <1>t, <1>1
    DEF AttemptStep, LoadsPos, LoadsSequence, CasFails, CasSucceeds, WritesSlot,
        PublishesSlot, MovesOut, FreesSlot, Goto, LocalType
  <2> QED
    BY <1>p, <2>1, <2>2 DEF Pending
<1>2. ASSUME NEW q \in Producers, EndProducer(q) \/ PushChecksClosed(q) \/ AsksClosed(q)
      PROVE  Kept
  <2>1. item' = item /\ calls' = calls /\ \A u \in Threads \ {q} : pc'[u] = pc[u]
    BY <1>t, <1>2 DEF EndProducer, PushChecksClosed, AsksClosed, Goto, LocalType
  <2>2. Pending(q)' => Pending(q)
    BY <1>t, <1>p, <1>2
    DEF EndProducer, PushChecksClosed, AsksClosed, Goto, LocalType, Pending
  <2> QED
    BY <1>t, <1>p, <2>1, <2>2 DEF Pending
<1>3. ASSUME NEW c \in Consumers,
             (\E o \in PopOps : CallPop(c, o)) \/ PopChecksClosed(c)
      PROVE  Kept
  <2>1. item' = item /\ calls' = calls /\ \A u \in Threads \ {c} : pc'[u] = pc[u]
    BY <1>t, <1>3 DEF CallPop, PopChecksClosed, Goto, LocalType
  <2> QED
    BY <1>t, <1>p, <2>1 DEF Pending
<1>4. CASE MainThread
  <2>1. item' = item /\ calls' = calls /\ \A u \in Threads \ {Main} : pc'[u] = pc[u]
    BY <1>t, <1>4
    DEF MainThread, Joins, close, size, SizeLoadsTail, SizeLoadsHead, Goto, local,
        LocalType
  <2> QED
    BY <1>t, <1>p, <2>1 DEF Pending
<1>5. CASE AllDone \/ UNCHANGED vars
  BY <1>5 DEF AllDone, vars, local, Pending
<1> QED
  BY <1>1, <1>2, <1>3, <1>4, <1>5, StepKinds DEF ClientStep

\* The claim gives the producer's element the ticket.
LEMMA ClaimCarries ==
  ASSUME SlotInv, SlotInv', NEW p \in Producers, CasSucceeds(p)
  PROVE  /\ Enqueued \in Nat /\ Enqueued' = Enqueued + 1 /\ Dequeued' = Dequeued
         /\ \A k \in Nat : k = Enqueued => Carried(k)' = item[p]
         /\ Pending(p) /\ ~Pending(p)' /\ item[p] \in Items
         /\ item' = item /\ calls' = calls
         /\ \A q \in Producers \ {p} : pc'[q] = pc[q]
         /\ mo'[Closed] = mo[Closed]
<1>t. TypeInv /\ p \in Workers /\ \A u \in Workers : u \in Threads
  BY WorkerTypes DEF SlotInv, Workers
<1>1. pc[p] = "cas" /\ pc'[p] = "slot" /\ ticket' = ticket
  BY <1>t, ClaimFacts
<1>2. ticket[p] = Enqueued /\ Enqueued' = Enqueued + 1 /\ Dequeued' = Dequeued
  BY <1>t, ClaimMoves
<1>3. /\ item' = item /\ calls' = calls /\ mo'[Closed] = mo[Closed]
      /\ \A q \in Producers \ {p} : pc'[q] = pc[q]
  BY <1>t, AttemptFrame DEF AttemptStep, Workers
<1>4. \A k \in Nat : k = Enqueued => Carried(k)' = item[p]
  <2> SUFFICES ASSUME NEW k \in Nat, k = Enqueued PROVE Carried(k)' = item[p]
    OBVIOUS
  <2>1. Writing(p, k)'
    BY <1>1, <1>2 DEF Writing
  <2> QED
    BY <1>3, <2>1, CarriedByWriterThen DEF SlotInv, Protocol
<1>5. item[p] \in Items /\ Enqueued \in Nat
  BY <1>t, <1>1, PositionTypes DEF TypeInv, ItemReady
<1> QED
  BY <1>1, <1>2, <1>3, <1>4, <1>5 DEF Pending

LEMMA ItemsStep ==
  ASSUME SlotInv, SlotInv', ElementsInv, [Next]_vars
  PROVE  CarriedKnown' /\ PendingFresh' /\ PendingApart'
<1>t. TypeInv /\ LocalType /\ \A u \in Workers : u \in Threads
  BY WorkerTypes DEF SlotInv, TypeInv, TypeOK
<1>0. Enqueued \in Nat /\ calls \in Nat /\ \A p \in Producers : item[p] \in Nat
  BY <1>t, PositionTypes, MpmcAssumption DEF LocalType
<1>k. \A k \in Nat : k < Enqueued => /\ Carried(k)' = Carried(k)
                                     /\ Carried(k) \in 1 .. calls
  BY CarriedKept DEF ElementsInv, CarriedKnown
<1>f. \A q \in Producers : Pending(q) =>
        /\ item[q] \in 1 .. calls
        /\ \A k \in Nat : k < Enqueued => Carried(k) # item[q]
  BY DEF ElementsInv, PendingFresh
<1>a. \A p, q \in Producers : Pending(p) /\ Pending(q) /\ p # q => item[p] # item[q]
  BY DEF ElementsInv, PendingApart
<1>1. ASSUME NEW p \in Producers, CasSucceeds(p)
      PROVE  CarriedKnown' /\ PendingFresh' /\ PendingApart'
  <2>1. /\ Enqueued' = Enqueued + 1
        /\ \A k \in Nat : k = Enqueued => Carried(k)' = item[p]
        /\ Pending(p) /\ ~Pending(p)'
        /\ item' = item /\ calls' = calls
        /\ \A q \in Producers \ {p} : pc'[q] = pc[q]
    BY <1>1, ClaimCarries
  <2>2. \A k \in Nat : k < Enqueued' => k < Enqueued \/ k = Enqueued
    BY <1>0, <2>1
  <2>3. CarriedKnown'
    BY <1>k, <1>f, <2>1, <2>2 DEF CarriedKnown
  <2>4. \A q \in Producers : Pending(q)' => Pending(q) /\ q # p
    BY <2>1 DEF Pending
  <2>5. PendingFresh'
    <3> SUFFICES ASSUME NEW q \in Producers, Pending(q)'
                 PROVE  /\ item[q] \in 1 .. calls
                        /\ \A k \in Nat : k < Enqueued' => Carried(k)' # item[q]
      BY <2>1 DEF PendingFresh
    <3>1. Pending(q) /\ q # p
      BY <2>4
    <3>2. ASSUME NEW k \in Nat, k < Enqueued' PROVE Carried(k)' # item[q]
      BY <1>k, <1>f, <1>a, <2>1, <2>2, <3>1, <3>2
    <3> QED
      BY <1>f, <3>1, <3>2
  <2>6. PendingApart'
    BY <1>a, <2>1, <2>4 DEF PendingApart
  <2> QED
    BY <2>3, <2>5, <2>6
<1>2. ASSUME NEW p \in Producers, NEW o \in PushOps, CallPush(p, o)
      PROVE  CarriedKnown' /\ PendingFresh' /\ PendingApart'
  <2>1. /\ calls' = calls + 1 /\ item'[p] = calls + 1
        /\ \A q \in Producers \ {p} : item'[q] = item[q] /\ pc'[q] = pc[q]
        /\ Enqueued' = Enqueued
    BY <1>t, <1>2 DEF CallPush, Goto, memory, LocalType, Enqueued, Latest, Newest, Workers
  <2>2. \A v \in 1 .. calls : v \in 1 .. calls' /\ v # calls + 1
    BY <1>0, <2>1
  <2>3. calls + 1 \in 1 .. calls'
    BY <1>0, <2>1
  <2>4. CarriedKnown'
    BY <1>k, <2>1, <2>2 DEF CarriedKnown
  <2>5. ASSUME NEW q \in Producers, Pending(q)'
        PROVE  \/ q = p /\ item'[q] = calls + 1
               \/ q # p /\ Pending(q) /\ item'[q] = item[q] /\ item[q] \in 1 .. calls
    BY <1>f, <2>1, <2>5 DEF Pending
  <2>6. PendingFresh'
    <3> SUFFICES ASSUME NEW q \in Producers, Pending(q)'
                 PROVE  /\ item'[q] \in 1 .. calls'
                        /\ \A k \in Nat : k < Enqueued' => Carried(k)' # item'[q]
      BY DEF PendingFresh
    <3>1. CASE q = p
      BY <1>k, <2>1, <2>2, <2>3, <2>5, <3>1
    <3>2. CASE q # p
      BY <1>k, <1>f, <2>1, <2>2, <2>5, <3>2
    <3> QED
      BY <3>1, <3>2
  <2>7. PendingApart'
    <3> SUFFICES ASSUME NEW q \in Producers, NEW r \in Producers,
                        Pending(q)', Pending(r)', q # r
                 PROVE  item'[q] # item'[r]
      BY DEF PendingApart
    <3> QED
      BY <1>a, <2>2, <2>5
  <2> QED
    BY <2>4, <2>6, <2>7
<1>3. ASSUME item' = item, calls' = calls, Enqueued' = Enqueued,
             \A p \in Producers : Pending(p)' => Pending(p)
      PROVE  CarriedKnown' /\ PendingFresh' /\ PendingApart'
  <2>1. CarriedKnown'
    BY <1>k, <1>3 DEF CarriedKnown
  <2>2. PendingFresh'
    BY <1>k, <1>f, <1>3 DEF PendingFresh
  <2>3. PendingApart'
    BY <1>a, <1>3 DEF PendingApart
  <2> QED
    BY <2>1, <2>2, <2>3
<1>4. (\E p \in Producers : CasSucceeds(p)) \/ Enqueued' = Enqueued
  BY <1>t, PositionsKept, ClaimMoves DEF Workers
<1> QED
  BY <1>t, <1>1, <1>2, <1>3, <1>4, PendingKept

LEMMA ElementsStep == SlotInv /\ ElementsInv /\ [Next]_vars => ElementsInv'
<1> SUFFICES ASSUME SlotInv, ElementsInv, [Next]_vars PROVE ElementsInv'
  OBVIOUS
<1>1. SlotInv' /\ TakenInTurn /\ SequencesReached
  BY SlotInvStep DEF ElementsInv
<1>2. TakenInTurn' /\ SequencesReached'
  BY <1>1, TakenInTurnStep, SequencesReachedStep
<1> QED
  BY <1>1, <1>2, ItemsStep DEF ElementsInv

-----------------------------------------------------------------------------
(***************************************************************************)
(* The refinement.  A producer's claim is the abstract push, a consumer's  *)
(* claim the abstract pop, and every other step but close() a stutter.     *)
(***************************************************************************)
Queue == [i \in 1 .. Enqueued - Dequeued |-> Carried(Dequeued + i - 1)]

Delivered == [i \in 1 .. Dequeued |-> Carried(i - 1)]

\* Neither changes while the positions stay.
LEMMA QueueKept ==
  ASSUME SlotInv, SlotInv', ElementsInv, [Next]_vars, Enqueued' = Enqueued,
         Dequeued' = Dequeued
  PROVE  Queue' = Queue /\ Delivered' = Delivered
<1>1. PICK d \in Nat, e \in Nat : d = Dequeued /\ e = Enqueued /\ d <= e
  BY PositionTypes DEF SlotInv, Protocol, WithinCapacity
<1>2. \A k \in Nat : k < e => Carried(k)' = Carried(k)
  BY <1>1, CarriedKept DEF ElementsInv
<1>3. \A i \in 1 .. e - d : d + i - 1 \in Nat /\ d + i - 1 < e
  BY <1>1
<1>4. \A i \in 1 .. d : i - 1 \in Nat /\ i - 1 < e
  BY <1>1
<1>5. Queue = [i \in 1 .. e - d |-> Carried(d + i - 1)]
  BY <1>1 DEF Queue
<1>6. Queue' = [i \in 1 .. e - d |-> Carried(d + i - 1)']
  BY <1>1 DEF Queue
<1>7. Delivered = [i \in 1 .. d |-> Carried(i - 1)]
  BY <1>1 DEF Delivered
<1>8. Delivered' = [i \in 1 .. d |-> Carried(i - 1)']
  BY <1>1 DEF Delivered
<1>9. \A i \in 1 .. e - d : Carried(d + i - 1)' = Carried(d + i - 1)
  BY <1>2, <1>3
<1>10. \A i \in 1 .. d : Carried(i - 1)' = Carried(i - 1)
  BY <1>2, <1>4
<1> QED
  BY <1>5, <1>6, <1>7, <1>8, <1>9, <1>10, Zenon

LEMMA ClaimPushes ==
  ASSUME SlotInv, SlotInv', ElementsInv, [Next]_vars, NEW p \in Producers,
         CasSucceeds(p)
  PROVE  /\ Len(Queue) < Capacity
         /\ Queue' = Append(Queue, item[p]) /\ Delivered' = Delivered
         /\ \A i \in DOMAIN Queue : Queue[i] # item[p]
         /\ \A i \in DOMAIN Delivered : Delivered[i] # item[p]
<1>1. PICK d \in Nat, e \in Nat, n \in Nat :
        d = Dequeued /\ e = Enqueued /\ d <= e /\ n = e - d
  <2>1. Dequeued \in Nat /\ Enqueued \in Nat /\ Dequeued <= Enqueued
    BY PositionTypes DEF SlotInv, Protocol, WithinCapacity
  <2>2. Enqueued - Dequeued \in Nat
    BY <2>1
  <2> QED
    BY <2>1, <2>2
<1>2. /\ Enqueued' = e + 1 /\ Dequeued' = d /\ Pending(p)
      /\ Carried(e)' = item[p]
  BY <1>1, ClaimCarries
<1>3. \A k \in Nat : k < e => /\ Carried(k)' = Carried(k)
                              /\ Carried(k) \in 1 .. calls
                              /\ Carried(k) # item[p]
  BY <1>1, <1>2, CarriedKept DEF ElementsInv, CarriedKnown, PendingFresh
<1>4. item[p] \in 1 .. calls
  BY <1>2 DEF ElementsInv, PendingFresh
<1>5. n < Capacity
  <2>1. Enqueued' <= Dequeued' + Capacity /\ Capacity \in Nat
    BY MpmcAssumption DEF SlotInv, Protocol, WithinCapacity
  <2> QED
    BY <1>1, <1>2, <2>1
<1>6. \A i \in 1 .. n : d + i - 1 \in Nat /\ d + i - 1 < e
  BY <1>1
<1>7. \A i \in 1 .. d : i - 1 \in Nat /\ i - 1 < e
  BY <1>1
<1>8. Queue = [i \in 1 .. n |-> Carried(d + i - 1)]
  BY <1>1 DEF Queue
<1>9. Queue' = [i \in 1 .. n + 1 |-> Carried(d + i - 1)']
  <2>1. Enqueued' - Dequeued' = n + 1 /\ Dequeued' = d
    BY <1>1, <1>2
  <2> QED
    BY <2>1 DEF Queue
<1>10. /\ Queue \in [1 .. n -> 1 .. calls]
       /\ \A i \in 1 .. n : Queue[i] = Carried(d + i - 1) /\ Queue[i] # item[p]
  BY <1>3, <1>6, <1>8
<1>11. \A i \in 1 .. n : Queue'[i] = Queue[i]
  <2> SUFFICES ASSUME NEW i \in 1 .. n PROVE Queue'[i] = Queue[i]
    OBVIOUS
  <2>1. i \in 1 .. n + 1
    BY <1>1
  <2>2. Queue'[i] = Carried(d + i - 1)'
    BY <1>9, <2>1
  <2> QED
    BY <1>3, <1>6, <1>10, <2>2
<1>12. Queue'[n + 1] = item[p]
  <2>1. n + 1 \in 1 .. n + 1 /\ d + (n + 1) - 1 = e
    BY <1>1
  <2>2. Queue'[n + 1] = Carried(d + (n + 1) - 1)'
    BY <1>9, <2>1
  <2> QED
    BY <1>2, <2>1, <2>2
<1>13. Queue' \in [1 .. n + 1 -> 1 .. calls]
  <2>1. \A i \in 1 .. n + 1 : i \in 1 .. n \/ i = n + 1
    BY <1>1
  <2>2. \A i \in 1 .. n + 1 : Queue'[i] \in 1 .. calls
    BY <1>4, <1>10, <1>11, <1>12, <2>1
  <2> QED
    BY <1>9, <2>2
<1>14. Len(Queue) = n /\ Queue' = Append(Queue, item[p])
  <2>1. PICK f \in [1 .. n -> 1 .. calls], g \in [1 .. n + 1 -> 1 .. calls] :
          f = Queue /\ g = Queue'
    BY <1>10, <1>13
  <2>2. (\A i \in 1 .. n : g[i] = f[i]) /\ g[n + 1] = item[p]
    BY <1>11, <1>12, <2>1
  <2>3. Len(f) = n /\ g = Append(f, item[p])
    BY <1>4, <2>2, AppendedSeq
  <2> QED
    BY <2>1, <2>3
<1>15. Delivered' = Delivered /\ \A i \in 1 .. d : Delivered[i] # item[p]
  <2>1. Delivered = [i \in 1 .. d |-> Carried(i - 1)]
    BY <1>1 DEF Delivered
  <2>2. Delivered' = [i \in 1 .. d |-> Carried(i - 1)']
    BY <1>2 DEF Delivered
  <2>3. \A i \in 1 .. d : Carried(i - 1)' = Carried(i - 1) /\ Carried(i - 1) # item[p]
    BY <1>3, <1>7
  <2> QED
    BY <2>1, <2>2, <2>3, Zenon
<1>16. DOMAIN Queue = 1 .. n /\ DOMAIN Delivered = 1 .. d
  BY <1>1, <1>8 DEF Delivered
<1> QED
  BY <1>5, <1>10, <1>14, <1>15, <1>16

LEMMA ClaimPops ==
  ASSUME SlotInv, SlotInv', ElementsInv, [Next]_vars, NEW c \in Consumers,
         CasSucceeds(c)
  PROVE  /\ Queue # <<>>
         /\ Delivered' = Append(Delivered, Head(Queue)) /\ Queue' = Tail(Queue)
<1>0. c \in Workers /\ TypeInv
  BY DEF Workers, SlotInv
<1>1. PICK d \in Nat, e \in Nat : d = Dequeued /\ e = Enqueued
  BY <1>0, PositionTypes
<1>2. Dequeued' = d + 1 /\ Enqueued' = e
  BY <1>0, <1>1, ClaimMoves
<1>3. d + 1 <= e
  BY <1>2 DEF SlotInv, Protocol, WithinCapacity
<1>4. PICK n \in Nat \ {0} : n = e - d /\ n - 1 = e - (d + 1)
  BY <1>1, <1>3
<1>5. \A k \in Nat : k < e => Carried(k)' = Carried(k) /\ Carried(k) \in 1 .. calls
  BY <1>1, CarriedKept DEF ElementsInv, CarriedKnown
<1>6. Queue = [i \in 1 .. n |-> Carried(d + i - 1)]
  BY <1>1, <1>4 DEF Queue
<1>7. Queue' = [i \in 1 .. n - 1 |-> Carried(d + 1 + i - 1)']
  BY <1>2, <1>4 DEF Queue
<1>8. \A i \in 1 .. n : d + i - 1 \in Nat /\ d + i - 1 < e
  BY <1>1, <1>4
<1>9. Queue \in [1 .. n -> 1 .. calls] /\ \A i \in 1 .. n : Queue[i] = Carried(d + i - 1)
  BY <1>5, <1>6, <1>8
<1>10. ASSUME NEW i \in 1 .. n - 1
       PROVE  Queue'[i] = Queue[i + 1] /\ Queue'[i] \in 1 .. calls
  <2>1. PICK j \in 1 .. n : j = i + 1 /\ d + 1 + i - 1 = d + j - 1
    BY <1>4
  <2>2. Queue'[i] = Carried(d + 1 + i - 1)'
    BY <1>7
  <2>3. Carried(d + j - 1)' = Carried(d + j - 1) /\ Carried(d + j - 1) \in 1 .. calls
    BY <1>5, <1>8
  <2>4. Queue[j] = Carried(d + j - 1)
    BY <1>9
  <2> QED
    BY <2>1, <2>2, <2>3, <2>4
<1>11. Queue' \in [1 .. n - 1 -> 1 .. calls]
  BY <1>7, <1>10
<1>12. Queue # <<>> /\ Head(Queue) = Queue[1] /\ Queue' = Tail(Queue)
  <2>1. PICK f \in [1 .. n -> 1 .. calls], g \in [1 .. n - 1 -> 1 .. calls] :
          f = Queue /\ g = Queue'
    BY <1>9, <1>11
  <2>2. \A i \in 1 .. n - 1 : g[i] = f[i + 1]
    BY <1>10, <2>1
  <2>3. f # <<>> /\ Head(f) = f[1] /\ g = Tail(f)
    BY <2>2, ShiftedSeq
  <2> QED
    BY <2>1, <2>3
<1>13. Queue[1] = Carried(d) /\ Carried(d) \in 1 .. calls /\ Carried(d)' = Carried(d)
  <2>1. 1 \in 1 .. n /\ d + 1 - 1 = d /\ d < e
    BY <1>1, <1>3, <1>4
  <2> QED
    BY <1>5, <1>9, <2>1
<1>14. \A i \in 1 .. d + 1 : i - 1 \in Nat /\ i - 1 < e
  BY <1>1, <1>3
<1>15. Delivered = [i \in 1 .. d |-> Carried(i - 1)]
  BY <1>1 DEF Delivered
<1>16. Delivered' = [i \in 1 .. d + 1 |-> Carried(i - 1)']
  BY <1>2 DEF Delivered
<1>17. \A i \in 1 .. d : i \in 1 .. d + 1
  BY <1>1
<1>18. Delivered \in [1 .. d -> 1 .. calls] /\ Delivered' \in [1 .. d + 1 -> 1 .. calls]
  BY <1>5, <1>14, <1>15, <1>16, <1>17
<1>19. \A i \in 1 .. d : Delivered'[i] = Delivered[i]
  BY <1>5, <1>14, <1>15, <1>16, <1>17
<1>20. Delivered'[d + 1] = Carried(d)
  <2>1. d + 1 \in 1 .. d + 1 /\ (d + 1) - 1 = d
    BY <1>1
  <2>2. Delivered'[d + 1] = Carried((d + 1) - 1)'
    BY <1>16, <2>1
  <2> QED
    BY <1>13, <2>1, <2>2
<1>21. Delivered' = Append(Delivered, Carried(d))
  <2>1. PICK f \in [1 .. d -> 1 .. calls], g \in [1 .. d + 1 -> 1 .. calls] :
          f = Delivered /\ g = Delivered'
    BY <1>18
  <2>2. (\A i \in 1 .. d : g[i] = f[i]) /\ g[d + 1] = Carried(d)
    BY <1>19, <1>20, <2>1
  <2>3. g = Append(f, Carried(d))
    BY <1>13, <2>2, AppendedSeq
  <2> QED
    BY <2>1, <2>3
<1> QED
  BY <1>12, <1>13, <1>21

LEMMA CloseFacts ==
  ASSUME TypeInv, close
  PROVE  /\ Latest(Closed)' = TRUE
         /\ Len(mo'[Closed]) = Len(mo[Closed]) + 1
         /\ \A k \in 1 .. Len(mo[Closed]) : mo'[Closed][k] = mo[Closed][k]
         /\ mo'[Closed][Len(mo[Closed]) + 1].view
              = [view[Main] EXCEPT ![Closed] = Len(mo[Closed]) + 1]
         /\ \A y \in Loc \ {Closed} : mo'[y] = mo[y]
         /\ \A u \in Threads \ {Main} : view'[u] = view[u]
<1> DEFINE m == Message(TRUE, [view[Main] EXCEPT ![Closed] = Len(mo[Closed]) + 1])
<1>t. MemoryType
  BY DEF TypeInv, TypeOK
<1>w. Main \in Threads /\ Closed \in Loc /\ TRUE \in Contents(Closed)
  BY Locations DEF Threads
<1>1. /\ m \in Messages(Contents(Closed)) /\ m.val = TRUE
      /\ m.view = [view[Main] EXCEPT ![Closed] = Len(mo[Closed]) + 1]
      /\ Put(Main, Closed, m)
  BY <1>t, <1>w, StoredMessages DEF close, StoreRelease, Message
<1> HIDE DEF m
<1>2. /\ Len(mo'[Closed]) = Len(mo[Closed]) + 1
      /\ mo'[Closed][Len(mo[Closed]) + 1] = m
      /\ \A k \in 1 .. Len(mo[Closed]) : mo'[Closed][k] = mo[Closed][k]
      /\ \A y \in Loc \ {Closed} : mo'[y] = mo[y]
      /\ \A u \in Threads \ {Main} : view'[u] = view[u]
  BY <1>t, <1>w, <1>1, PutFacts
<1> QED
  BY <1>1, <1>2 DEF Latest, Newest

LEMMA ClosedKept ==
  ASSUME TypeInv, [Next]_vars
  PROVE  close \/ mo'[Closed] = mo[Closed]
<1>1. ASSUME NEW t \in Workers, AttemptStep(t) PROVE mo'[Closed] = mo[Closed]
  BY <1>1, AttemptFrame
<1>2. ClientStep => close \/ mo'[Closed] = mo[Closed]
  BY DEF ClientStep, CallPush, EndProducer, PushChecksClosed, AsksClosed, CallPop,
         PopChecksClosed, MainThread, Joins, JoinThread, size, SizeLoadsTail,
         SizeLoadsHead, LoadRelaxed, LoadAcquire, AllDone, vars, memory
<1> QED
  BY <1>1, <1>2, StepKinds

LEMMA ContractSteps ==
  ASSUME SlotInv, SlotInv', ElementsInv, [Next]_vars
  PROVE  [Contract!Next]_(Contract!absVars)
<1> SUFFICES Contract!Next \/ UNCHANGED <<Queue, Delivered, Latest(Closed)>>
  BY DEF Contract!absVars, Queue, Delivered
<1>t. TypeInv
  BY DEF SlotInv
<1>1. ASSUME NEW p \in Producers, CasSucceeds(p)
      PROVE  Contract!Next
  <2>1. /\ Len(Queue) < Capacity
        /\ Queue' = Append(Queue, item[p]) /\ Delivered' = Delivered
        /\ \A i \in DOMAIN Queue : Queue[i] # item[p]
        /\ \A i \in DOMAIN Delivered : Delivered[i] # item[p]
    BY <1>1, ClaimPushes
  <2>2. item[p] \in Items /\ Latest(Closed)' = Latest(Closed)
    BY <1>1, ClaimCarries DEF Latest, Newest
  <2>3. item[p] \notin {Queue[i] : i \in DOMAIN Queue}
                         \cup {Delivered[i] : i \in DOMAIN Delivered}
    BY <2>1
  <2>4. Contract!Push(item[p])
    BY <2>1, <2>2, <2>3 DEF Contract!Push, Contract!Accepted, Queue, Delivered
  <2> QED
    BY <2>2, <2>4 DEF Contract!Next
<1>2. ASSUME NEW c \in Consumers, CasSucceeds(c)
      PROVE  Contract!Next
  <2>1. /\ Queue # <<>>
        /\ Delivered' = Append(Delivered, Head(Queue)) /\ Queue' = Tail(Queue)
    BY <1>2, ClaimPops
  <2>2. mo'[Closed] = mo[Closed]
    BY <1>t, <1>2, AttemptFrame DEF AttemptStep, Workers
  <2>3. Latest(Closed)' = Latest(Closed)
    BY <2>2 DEF Latest, Newest
  <2>4. Contract!Pop
    BY <2>1, <2>3 DEF Contract!Pop, Queue, Delivered
  <2> QED
    BY <2>4 DEF Contract!Next
<1>3. ASSUME Enqueued' = Enqueued, Dequeued' = Dequeued
      PROVE  Contract!Next \/ UNCHANGED <<Queue, Delivered, Latest(Closed)>>
  <2>1. Queue' = Queue /\ Delivered' = Delivered
    BY <1>3, QueueKept
  <2>2. CASE close
    <3>1. Latest(Closed)' = TRUE
      BY <1>t, <2>2, CloseFacts
    <3>2. Contract!Close
      BY <2>1, <3>1 DEF Contract!Close, Queue, Delivered
    <3> QED
      BY <3>2 DEF Contract!Next
  <2>3. CASE mo'[Closed] = mo[Closed]
    BY <2>1, <2>3 DEF Latest, Newest
  <2> QED
    BY <1>t, <2>2, <2>3, ClosedKept
<1> QED
  BY <1>t, <1>1, <1>2, <1>3, PositionsKept DEF Workers

(***************************************************************************)
(* MpmcQueue implements the contract, for every capacity, any number of    *)
(* producers, consumers and calls and any staleness: elements come out in  *)
(* the order in which try_enqueue() won their tickets, none lost, doubled  *)
(* or torn, what the consumer of a ticket moves out is what its producer   *)
(* pushed, and never more than Capacity tickets are open.                  *)
(***************************************************************************)
THEOREM MpmcImplementsContract == Spec => ImplementsContract
<1>1. Init => Contract!Init
  <2> SUFFICES ASSUME Init PROVE Contract!Init
    OBVIOUS
  <2>1. Enqueued = 0 /\ Dequeued = 0
    <3>1. InitialValue(EnqueuePos) = 0 /\ InitialValue(DequeuePos) = 0
      BY DEF InitialValue, EnqueuePos, DequeuePos
    <3> QED
      BY <3>1, InitialMessages, Locations DEF Enqueued, Dequeued
  <2>2. Latest(Closed) = FALSE
    <3>1. InitialValue(Closed) = FALSE
      BY DEF InitialValue, Closed
    <3> QED
      BY <3>1, InitialMessages, Locations
  <2> QED
    BY <2>1, <2>2 DEF Contract!Init
<1>2. Init => SlotInv /\ ElementsInv
  BY SlotInvInit, ElementsInit
<1>3. SlotInv /\ ElementsInv /\ [Next]_vars => (SlotInv /\ ElementsInv)'
  BY SlotInvStep, ElementsStep
<1>4. SlotInv /\ SlotInv' /\ ElementsInv /\ [Next]_vars
        => [Contract!Next]_(Contract!absVars)
  BY ContractSteps
<1> QED
  BY <1>1, <1>2, <1>3, <1>4, PTL DEF Spec, ImplementsContract, Contract!Spec

-----------------------------------------------------------------------------
(***************************************************************************)
(* What main knows.  A join hands main all that the ended thread knew, and *)
(* somebody knows the newest value of each position: who won the ticket.   *)
(***************************************************************************)
JoinedDone ==
  \A t \in joined :
    pc[t] = "done" /\ \A x \in Loc : view[t][x] <= view[Main][x]

PositionsKnown ==
  \A x \in {EnqueuePos, DequeuePos} :
    Len(mo[x]) = 1 \/ \E t \in Workers : UpToDate(t, x)

\* The last size() runs with everybody joined, and its tail is exact.
LastSize ==
  /\ pc[Main] \in {"final", "done"} => joined = Workers
  /\ pc[Main] = "final" => ticket[Main] = Enqueued
  /\ SizeExactWhenQuiescent

JoinInv == JoinedDone /\ PositionsKnown /\ LastSize

LEMMA JoinInit == Init => JoinInv
<1> SUFFICES ASSUME Init PROVE JoinInv
  OBVIOUS
<1>1. joined = {} /\ pc[Main] = "idle"
  BY DEF Init, Threads
<1>2. \A x \in Loc : Len(mo[x]) = 1
  BY InitialMessages
<1> QED
  BY <1>1, <1>2, Locations
  DEF JoinInv, JoinedDone, PositionsKnown, LastSize, SizeExactWhenQuiescent

\* Main's own state changes only in its own steps.
LEMMA MainKept ==
  ASSUME TypeInv, [Next]_vars
  PROVE  \/ size
         \/ \E t \in Workers : Joins(t)
         \/ /\ pc'[Main] = pc[Main] /\ ticket'[Main] = ticket[Main]
            /\ sizeRet' = sizeRet /\ joined' = joined
<1> DEFINE Kept == /\ pc'[Main] = pc[Main] /\ ticket'[Main] = ticket[Main]
                   /\ sizeRet' = sizeRet /\ joined' = joined
<1>t. LocalType /\ Main \in Threads /\ Main \notin Workers
  BY MpmcAssumption DEF TypeInv, TypeOK, Threads, Workers
<1>1. ASSUME NEW t \in Workers, AttemptStep(t) PROVE Kept
  BY <1>t, <1>1, AttemptFrame
<1>2. ASSUME NEW p \in Producers,
             \/ \E o \in PushOps : CallPush(p, o)
             \/ EndProducer(p) \/ PushChecksClosed(p) \/ AsksClosed(p)
      PROVE  Kept
  <2>1. p # Main
    BY <1>t DEF Workers
  <2> QED
    BY <1>t, <1>2, <2>1
    DEF CallPush, EndProducer, PushChecksClosed, AsksClosed, Goto, history, LocalType
<1>3. ASSUME NEW c \in Consumers,
             (\E o \in PopOps : CallPop(c, o)) \/ PopChecksClosed(c)
      PROVE  Kept
  <2>1. c # Main
    BY <1>t DEF Workers
  <2> QED
    BY <1>t, <1>3, <2>1 DEF CallPop, PopChecksClosed, Goto, history, LocalType
<1>4. close => Kept
  BY DEF close, local
<1>5. AllDone \/ UNCHANGED vars => Kept
  BY DEF AllDone, vars, local, history
<1> QED
  BY <1>1, <1>2, <1>3, <1>4, <1>5, StepKinds DEF ClientStep, MainThread, Workers

LEMMA JoinedDoneStep ==
  ASSUME SlotInv, JoinedDone, [Next]_vars
  PROVE  JoinedDone'
<1>t. TypeInv /\ MemoryType /\ ViewsKnown /\ joined \subseteq Workers
  BY DEF SlotInv, TypeInv, TypeOK, HistoryType
<1>w. Main \in Threads /\ Main \notin Workers /\ \A t \in Workers : t \in Threads
  BY MpmcAssumption DEF Threads, Workers
<1>v. \A u \in Threads : \A x \in Loc : view[u][x] \in Nat
  BY <1>t DEF MemoryType
<1>v2. \A u \in Threads : \A x \in Loc : view'[u][x] \in Nat
  <2>1. MemoryType'
    BY <1>t, TypeStep DEF TypeInv, TypeOK
  <2> QED
    BY <2>1 DEF MemoryType
<1>1. ASSUME NEW t \in joined
      PROVE  pc'[t] = "done" /\ \A x \in Loc : view'[t][x] <= view'[Main][x]
  <2>1. t \in Workers /\ pc[t] = "done" /\ \A x \in Loc : view[t][x] <= view[Main][x]
    BY <1>t DEF JoinedDone
  <2>2. pc'[t] = "done" /\ view'[t] = view[t]
    BY <1>t, <2>1, DoneStays
  <2>3. \A x \in Loc : view[Main][x] <= view'[Main][x]
    BY <1>t, <1>w, MemoryGrows
  <2> QED
    BY <1>w, <1>v, <1>v2, <2>1, <2>2, <2>3
<1>2. ASSUME NEW t \in Workers, Joins(t)
      PROVE  pc'[t] = "done" /\ \A x \in Loc : view'[t][x] <= view'[Main][x]
  <2>1. pc[t] = "done" /\ JoinThread(Main, t)
    BY <1>2 DEF Joins
  <2>2. pc'[t] = "done" /\ view'[t] = view[t]
    BY <1>t, <2>1, DoneStays
  <2>3. \A x \in Loc : view'[Main][x] >= view[t][x]
    BY <1>t, <1>w, <2>1, JoinThreadFacts
  <2> QED
    BY <1>w, <1>v, <1>v2, <2>2, <2>3
<1>3. joined' = joined \/ \E t \in Workers : Joins(t) /\ joined' = joined \cup {t}
  BY <1>t, MainKept DEF size, SizeLoadsTail, SizeLoadsHead, Joins, history
<1> QED
  BY <1>1, <1>2, <1>3 DEF JoinedDone

LEMMA PositionsKnownStep ==
  ASSUME SlotInv, SlotInv', PositionsKnown, [Next]_vars
  PROVE  PositionsKnown'
<1>t. TypeInv /\ MemoryType /\ MemoryType' /\ ViewsKnown /\ ViewsKnown'
  BY DEF SlotInv, TypeInv, TypeOK
<1>w. \A t \in Workers : t \in Threads
  BY DEF Threads, Workers
<1>1. ASSUME NEW x \in {EnqueuePos, DequeuePos}, mo'[x] = mo[x]
      PROVE  Len(mo'[x]) = 1 \/ \E t \in Workers : UpToDate(t, x)'
  <2>1. x \in Loc /\ Len(mo[x]) \in Nat
    BY <1>t, Locations, LatestType
  <2>2. ASSUME NEW t \in Workers, UpToDate(t, x) PROVE UpToDate(t, x)'
    <3>1. view[t][x] = Len(mo[x]) /\ view[t][x] <= view'[t][x]
      BY <1>t, <1>w, <2>1, <2>2, MemoryGrows DEF UpToDate
    <3>2. view'[t][x] \in Nat /\ view'[t][x] <= Len(mo'[x])
      BY <1>t, <1>w, <2>1 DEF MemoryType, ViewsKnown, Known
    <3>3. view'[t][x] = Len(mo'[x])
      BY <1>1, <2>1, <3>1, <3>2
    <3> QED
      BY <3>3 DEF UpToDate
  <2> QED
    BY <1>1, <2>2 DEF PositionsKnown
<1>2. ASSUME NEW t \in Workers, CasSucceeds(t) PROVE PositionsKnown'
  <2>1. UpToDate(t, Pos(t))' /\ \A y \in Loc \ {Pos(t)} : mo'[y] = mo[y]
    BY <1>t, <1>2, ClaimFacts
  <2>2. \A x \in {EnqueuePos, DequeuePos} : x # Pos(t) => mo'[x] = mo[x]
    BY <2>1, Locations
  <2>3. \A x \in {EnqueuePos, DequeuePos} : x = Pos(t) => UpToDate(t, x)'
    BY <2>1 DEF UpToDate, Pos
  <2> QED
    BY <1>1, <2>2, <2>3 DEF PositionsKnown
<1>3. CASE \A x \in {EnqueuePos, DequeuePos} : mo'[x] = mo[x]
  BY <1>1, <1>3 DEF PositionsKnown
<1> QED
  BY <1>t, <1>2, <1>3, PositionsUntouched

\* With everybody joined, main knows the newest value of each position, so a
\* load of it can return no other.
LEMMA MainReadsNewest ==
  ASSUME SlotInv, JoinedDone, PositionsKnown, joined = Workers,
         NEW x \in {EnqueuePos, DequeuePos}, NEW k \in Readable(Main, x)
  PROVE  mo[x][k].val = Latest(x)
<1>t. MemoryType /\ ViewsKnown
  BY DEF SlotInv, TypeInv, TypeOK
<1>w. Main \in Threads /\ x \in Loc /\ \A t \in Workers : t \in Threads
  BY Locations DEF Threads, Workers
<1>1. Len(mo[x]) \in Nat /\ view[Main][x] \in Nat \ {0} /\ view[Main][x] <= Len(mo[x])
  BY <1>t, <1>w, LatestType DEF MemoryType, ViewsKnown, Known
<1>2. view[Main][x] = Len(mo[x])
  <2>1. CASE Len(mo[x]) = 1
    BY <1>1, <2>1
  <2>2. ASSUME NEW t \in Workers, UpToDate(t, x) PROVE view[Main][x] = Len(mo[x])
    <3>1. view[t][x] = Len(mo[x]) /\ view[t][x] <= view[Main][x]
      BY <1>w, <2>2 DEF UpToDate, JoinedDone
    <3> QED
      BY <1>1, <3>1
  <2> QED
    BY <2>1, <2>2 DEF PositionsKnown
<1>3. k = Len(mo[x])
  BY <1>1, <1>2 DEF Readable
<1> QED
  BY <1>3 DEF Latest, Newest

LEMMA LastSizeStep ==
  ASSUME SlotInv, SlotInv', JoinInv, [Next]_vars
  PROVE  LastSize'
<1>t. TypeInv /\ LocalType /\ Main \in Threads
  BY DEF SlotInv, TypeInv, TypeOK, Threads
<1>0. /\ Enqueued \in Nat /\ Dequeued \in Nat /\ Capacity \in Nat
      /\ Dequeued <= Enqueued /\ Enqueued <= Dequeued + Capacity
  BY <1>t, PositionTypes, MpmcAssumption DEF SlotInv, Protocol, WithinCapacity
<1>j. JoinedDone /\ PositionsKnown /\ LastSize
  BY DEF JoinInv
<1>p. joined = Workers => Enqueued' = Enqueued /\ Dequeued' = Dequeued
  <2>1. ASSUME NEW t \in Workers, CasSucceeds(t), joined = Workers PROVE FALSE
    BY <1>j, <2>1 DEF CasSucceeds, JoinedDone
  <2> QED
    BY <1>t, <2>1, PositionsKept
<1>1. CASE /\ pc'[Main] = pc[Main] /\ ticket'[Main] = ticket[Main]
           /\ sizeRet' = sizeRet /\ joined' = joined
  BY <1>j, <1>p, <1>1 DEF LastSize, SizeExactWhenQuiescent
<1>2. ASSUME NEW t \in Workers, Joins(t) PROVE LastSize'
  BY <1>2 DEF Joins, local, LastSize, SizeExactWhenQuiescent
<1>3. CASE SizeLoadsTail
  <2>1. PICK k \in Readable(Main, EnqueuePos) :
          ticket' = [ticket EXCEPT ![Main] = mo[EnqueuePos][k].val]
    BY <1>3 DEF SizeLoadsTail
  <2>2. /\ joined' = joined /\ ticket'[Main] = mo[EnqueuePos][k].val
        /\ pc'[Main] = IF joined = Workers THEN "final" ELSE "size"
    BY <1>t, <1>3, <2>1 DEF SizeLoadsTail, Goto, history, LocalType, Workers
  <2>3. joined = Workers => ticket'[Main] = Enqueued
    BY <1>j, <2>2, MainReadsNewest DEF Enqueued
  <2> QED
    BY <1>p, <2>2, <2>3 DEF LastSize, SizeExactWhenQuiescent
<1>4. CASE SizeLoadsHead
  <2>1. PICK k \in Readable(Main, DequeuePos) :
          sizeRet' = Clamp(ticket[Main] - mo[DequeuePos][k].val)
    BY <1>4 DEF SizeLoadsHead
  <2>2. /\ joined' = joined /\ pc[Main] \in {"size", "final"}
        /\ pc'[Main] = IF pc[Main] = "final" THEN "done" ELSE "idle"
    BY <1>t, <1>4 DEF SizeLoadsHead, Goto, LocalType
  <2>3. CASE pc[Main] = "final"
    <3>1. joined = Workers /\ ticket[Main] = Enqueued
      BY <1>j, <2>3 DEF LastSize
    <3>2. mo[DequeuePos][k].val = Dequeued
      BY <1>j, <3>1, MainReadsNewest DEF Dequeued
    <3>3. sizeRet' = Clamp(Enqueued - Dequeued)
      BY <2>1, <3>1, <3>2
    <3>4. sizeRet' = Enqueued - Dequeued
      BY <1>0, <3>3 DEF Clamp
    <3> QED
      BY <1>p, <2>2, <2>3, <3>1, <3>4 DEF LastSize, SizeExactWhenQuiescent
  <2>4. CASE pc[Main] # "final"
    BY <2>2, <2>4 DEF LastSize, SizeExactWhenQuiescent
  <2> QED
    BY <2>3, <2>4
<1> QED
  BY <1>t, <1>1, <1>2, <1>3, <1>4, MainKept DEF size

LEMMA JoinStep == SlotInv /\ JoinInv /\ [Next]_vars => JoinInv'
<1> SUFFICES ASSUME SlotInv, JoinInv, [Next]_vars PROVE JoinInv'
  OBVIOUS
<1>1. SlotInv' /\ JoinedDone'
  BY SlotInvStep, JoinedDoneStep DEF JoinInv
<1>2. PositionsKnown'
  BY <1>1, PositionsKnownStep DEF JoinInv
<1> QED
  BY <1>1, <1>2, LastSizeStep DEF JoinInv

(***************************************************************************)
(* size() is exact once main has joined everybody: its two relaxed loads   *)
(* are ordered by the joins alone, and nothing is clamped away.            *)
(***************************************************************************)
THEOREM MpmcSizeExact == Spec => []SizeExactWhenQuiescent
<1>1. Init => SlotInv /\ JoinInv
  BY SlotInvInit, JoinInit
<1>2. SlotInv /\ JoinInv /\ [Next]_vars => (SlotInv /\ JoinInv)'
  BY SlotInvStep, JoinStep
<1>3. JoinInv => SizeExactWhenQuiescent
  BY DEF JoinInv, LastSize
<1> QED
  BY <1>1, <1>2, <1>3, PTL DEF Spec

-----------------------------------------------------------------------------
(***************************************************************************)
(* What a close hands on.  The sequence of a slot with data was stored by  *)
(* a producer, main knows the stores of the producers it joined, an        *)
(* orderly close puts them into its message, and the acquire load before   *)
(* the last attempt of a pop() takes them out of it.                       *)
(***************************************************************************)
SequencesSorted ==
  \A i \in Slots : \A j, l \in 1 .. Len(mo[Sequence(i)]) :
    j < l => mo[Sequence(i)][j].val < mo[Sequence(i)][l].val

\* Ticket k has been published.
Published(k) ==
  \E j \in 1 .. Len(mo[Sequence(slot_index(k))]) :
    mo[Sequence(slot_index(k))][j].val = HoldsDataOf(k)

PublishedOrInSlot ==
  \A k \in Nat : k < Enqueued =>
    Published(k) \/ \E p \in Producers : InSlot(p) /\ ticket[p] = k

KnownToProducers ==
  \A i \in Slots : \A j \in 1 .. Len(mo[Sequence(i)]) : \A k \in Nat :
    mo[Sequence(i)][j].val = HoldsDataOf(k) =>
      \E p \in Producers : j <= view[p][Sequence(i)]

\* v knows every store of a sequence that a producer knows.
KnowsProducers(v) ==
  \A p \in Producers : \A i \in Slots : view[p][Sequence(i)] <= v[Sequence(i)]

CloseKnows ==
  /\ orderly => Producers \subseteq joined /\ Latest(Closed) = TRUE
  /\ \A j \in 1 .. Len(mo[Closed]) : mo[Closed][j].val = TRUE =>
       /\ Latest(Closed) = TRUE
       /\ orderly => KnowsProducers(mo[Closed][j].view)

LastKnows ==
  \A c \in Consumers :
    /\ op[c] = "last" \/ pc[c] = "done" => Latest(Closed) = TRUE
    /\ op[c] = "last" /\ orderly => KnowsProducers(view[c])

CloseInv ==
  /\ SequencesSorted /\ PublishedOrInSlot /\ KnownToProducers
  /\ CloseKnows /\ LastKnows /\ DrainedWhenPopFails

LEMMA CloseInit == Init => CloseInv
<1> SUFFICES ASSUME Init PROVE CloseInv
  OBVIOUS
<1>1. Enqueued = 0
  <2>1. InitialValue(EnqueuePos) = 0
    BY DEF InitialValue, EnqueuePos
  <2> QED
    BY <2>1, InitialMessages, Locations DEF Enqueued
<1>2. \A i \in Slots : Len(mo[Sequence(i)]) = 1 /\ mo[Sequence(i)][1].val = FreeFor(i)
  <2>1. \A i \in Slots : InitialValue(Sequence(i)) = FreeFor(i)
    BY DEF InitialValue, Sequence
  <2> QED
    BY <2>1, InitialMessages, Locations
<1>3. Len(mo[Closed]) = 1 /\ mo[Closed][1].val = FALSE /\ orderly = FALSE
  <2>1. InitialValue(Closed) = FALSE
    BY DEF InitialValue, Closed
  <2> QED
    BY <2>1, InitialMessages, Locations DEF Init
<1>4. \A c \in Consumers : op[c] = "none" /\ pc[c] = "idle"
  BY DEF Init, Threads
<1>5. SequencesSorted
  BY <1>2 DEF SequencesSorted
<1>6. PublishedOrInSlot
  BY <1>1 DEF PublishedOrInSlot
<1>7. KnownToProducers
  <2> SUFFICES ASSUME NEW i \in Slots, NEW k \in Nat, FreeFor(i) = HoldsDataOf(k)
               PROVE  FALSE
    BY <1>2 DEF KnownToProducers
  <2> QED
    BY MpmcAssumption DEF FreeFor, HoldsDataOf, Slots
<1>8. CloseKnows /\ LastKnows /\ DrainedWhenPopFails
  BY <1>3, <1>4 DEF CloseKnows, LastKnows, DrainedWhenPopFails
<1> QED
  BY <1>5, <1>6, <1>7, <1>8 DEF CloseInv

LEMMA SequencesSortedStep ==
  ASSUME SlotInv, SlotInv', SequencesSorted, [Next]_vars
  PROVE  SequencesSorted'
<1> SUFFICES ASSUME NEW i \in Slots, NEW j \in 1 .. Len(mo'[Sequence(i)]),
                    NEW l \in 1 .. Len(mo'[Sequence(i)]), j < l
             PROVE  mo'[Sequence(i)][j].val < mo'[Sequence(i)][l].val
  BY DEF SequencesSorted
<1> DEFINE x == Sequence(i)
<1>1. x \in Loc /\ Len(mo[x]) \in Nat \ {0} /\ Len(mo'[x]) \in Nat \ {0}
  BY SequenceTypes, SequenceTypesThen DEF SlotInv
<1>2. /\ Len(mo[x]) <= Len(mo'[x]) /\ Len(mo'[x]) <= Len(mo[x]) + 1
      /\ \A k \in 1 .. Len(mo[x]) : mo'[x][k] = mo[x][k]
  BY <1>1, MemoryGrows DEF SlotInv
<1>3. CASE l = Len(mo'[x])
  <2>1. j \in 1 .. Len(mo'[x]) - 1
    BY <1>1, <1>3
  <2>2. mo'[x][j].val < Latest(x)'
    BY <2>1 DEF SlotInv, Protocol, SequencesGrow
  <2> QED
    BY <1>3, <2>2 DEF Latest, Newest
<1>4. CASE l # Len(mo'[x])
  <2>1. j \in 1 .. Len(mo[x]) /\ l \in 1 .. Len(mo[x])
    BY <1>1, <1>2, <1>4
  <2>2. mo[x][j].val < mo[x][l].val
    BY <2>1 DEF SequencesSorted
  <2> QED
    BY <1>2, <2>1, <2>2
<1> QED
  BY <1>3, <1>4

\* Sequences change only when a turn ends.
LEMMA SequencesKept ==
  ASSUME TypeInv, [Next]_vars
  PROVE  \/ \E t \in Workers : \/ t \in Producers /\ PublishesSlot(t)
                               \/ t \in Consumers /\ FreesSlot(t)
         \/ \A i \in Slots : mo'[Sequence(i)] = mo[Sequence(i)]
<1>1. CASE ClientStep
  BY <1>1, ClientStepOutside, OutsideIsQuiet DEF QuietStep
<1>2. ASSUME NEW t \in Workers, LoadsPos(t) \/ CasFails(t) \/ LoadsSequence(t)
      PROVE  \A i \in Slots : mo'[Sequence(i)] = mo[Sequence(i)]
  BY <1>2, LoadEffects
<1>3. ASSUME NEW t \in Workers, CasSucceeds(t)
      PROVE  \A i \in Slots : mo'[Sequence(i)] = mo[Sequence(i)]
  BY <1>3, ClaimFacts, WorkerTypes, Locations, LocationsDiffer
<1>4. ASSUME NEW t \in Workers, WritesSlot(t) \/ MovesOut(t)
      PROVE  \A i \in Slots : mo'[Sequence(i)] = mo[Sequence(i)]
  BY <1>4, AccessIsQuiet DEF QuietStep
<1> QED
  BY <1>1, <1>2, <1>3, <1>4, StepKinds DEF AttemptStep

\* A producer leaves its slot only by publishing it.
LEMMA WriterStays ==
  ASSUME TypeInv, [Next]_vars, NEW p \in Producers, InSlot(p)
  PROVE  PublishesSlot(p) \/ (InSlot(p)' /\ ticket'[p] = ticket[p])
<1>t. LocalType /\ p \in Workers /\ p \in Threads /\ p \notin Consumers
  BY MpmcAssumption DEF TypeInv, TypeOK, Workers, Threads
<1>1. CASE ClientStep
  BY <1>t, <1>1, ClientStepOutside DEF OutsideStep, Attempting, InSlot
<1>2. ASSUME NEW t \in Workers \ {p}, AttemptStep(t)
      PROVE  InSlot(p)' /\ ticket'[p] = ticket[p]
  BY <1>t, <1>2, AttemptFrame DEF InSlot
<1>3. ASSUME AttemptStep(p)
      PROVE  PublishesSlot(p) \/ (InSlot(p)' /\ ticket'[p] = ticket[p])
  BY <1>t, <1>3
  DEF AttemptStep, LoadsPos, LoadsSequence, CasFails, CasSucceeds, WritesSlot, Goto,
      InSlot, LocalType
<1> QED
  BY <1>1, <1>2, <1>3, StepKinds

LEMMA PublishedStep ==
  ASSUME SlotInv, SlotInv', PublishedOrInSlot, [Next]_vars
  PROVE  PublishedOrInSlot'
<1>t. TypeInv
  BY DEF SlotInv
<1>0. Enqueued \in Nat
  BY <1>t, PositionTypes
<1> SUFFICES ASSUME NEW k \in Nat, k < Enqueued'
             PROVE  Published(k)' \/ \E p \in Producers : InSlot(p)' /\ ticket'[p] = k
  BY DEF PublishedOrInSlot
<1> DEFINE x == Sequence(slot_index(k))
<1>1. x \in Loc /\ Len(mo[x]) \in Nat /\ Len(mo'[x]) \in Nat
  BY <1>t, SlotIndexType, SequenceTypes, SequenceTypesThen DEF SlotInv
<1>2. CASE k < Enqueued /\ Published(k)
  <2>1. Len(mo[x]) <= Len(mo'[x]) /\ \A j \in 1 .. Len(mo[x]) : mo'[x][j] = mo[x][j]
    BY <1>1, MemoryGrows DEF SlotInv
  <2>2. PICK j \in 1 .. Len(mo[x]) : mo[x][j].val = HoldsDataOf(k)
    BY <1>2 DEF Published
  <2>3. j \in 1 .. Len(mo'[x]) /\ mo'[x][j].val = HoldsDataOf(k)
    BY <1>1, <2>1, <2>2
  <2> QED
    BY <2>3 DEF Published
<1>3. ASSUME NEW p \in Producers, InSlot(p), ticket[p] = k
      PROVE  Published(k)' \/ \E q \in Producers : InSlot(q)' /\ ticket'[q] = k
  <2>1. CASE InSlot(p)' /\ ticket'[p] = ticket[p]
    BY <1>3, <2>1
  <2>2. CASE PublishesSlot(p)
    <3>1. p \in Workers /\ HoldsDataOf(k) \in Nat /\ Sequence(TicketSlot(p)) = x
      BY <1>3 DEF Workers, HoldsDataOf, FreeFor, TicketSlot
    <3>2. StoreRelease(p, Sequence(TicketSlot(p)), HoldsDataOf(k))
      BY <1>3, <2>2 DEF PublishesSlot
    <3>3. Len(mo'[x]) = Len(mo[x]) + 1 /\ mo'[x][Len(mo[x]) + 1].val = HoldsDataOf(k)
      BY <1>t, <3>1, <3>2, StoreFacts
    <3>4. Len(mo[x]) + 1 \in 1 .. Len(mo'[x])
      BY <1>1, <3>3
    <3> QED
      BY <3>3, <3>4 DEF Published
  <2> QED
    BY <1>t, <1>3, <2>1, <2>2, WriterStays
<1>4. CASE ~(k < Enqueued)
  <2>1. PICK t \in Workers : CasSucceeds(t)
    BY <1>t, <1>4, PositionsKept
  <2>2. t \in Producers /\ ticket[t] = k
    <3>1. /\ t \in Producers => ticket[t] = Enqueued /\ Enqueued' = Enqueued + 1
          /\ t \in Consumers => Enqueued' = Enqueued
      BY <1>t, <2>1, ClaimMoves
    <3> QED
      BY <1>0, <1>4, <3>1 DEF Workers
  <2>3. pc'[t] = "slot" /\ ticket' = ticket
    BY <1>t, <2>1, ClaimFacts
  <2> QED
    BY <2>2, <2>3 DEF InSlot
<1> QED
  BY <1>2, <1>3, <1>4 DEF PublishedOrInSlot

LEMMA KnownToProducersStep ==
  ASSUME SlotInv, SlotInv', KnownToProducers, [Next]_vars
  PROVE  KnownToProducers'
<1>t. TypeInv /\ MemoryType /\ MemoryType'
  BY DEF SlotInv, TypeInv, TypeOK
<1>w. \A p \in Producers : p \in Workers /\ p \in Threads
  BY DEF Workers, Threads
<1> SUFFICES ASSUME NEW i \in Slots, NEW j \in 1 .. Len(mo'[Sequence(i)]), NEW k \in Nat,
                    mo'[Sequence(i)][j].val = HoldsDataOf(k)
             PROVE  \E p \in Producers : j <= view'[p][Sequence(i)]
  BY DEF KnownToProducers
<1> DEFINE x == Sequence(i)
<1>1. x \in Loc /\ Len(mo[x]) \in Nat /\ Len(mo'[x]) \in Nat
  BY <1>t, SequenceTypes, SequenceTypesThen DEF SlotInv
<1>2. /\ Len(mo'[x]) <= Len(mo[x]) + 1
      /\ \A l \in 1 .. Len(mo[x]) : mo'[x][l] = mo[x][l]
      /\ \A p \in Producers : view[p][x] <= view'[p][x]
  BY <1>1, <1>w, MemoryGrows DEF SlotInv
<1>v. \A p \in Producers : view[p][x] \in Nat /\ view'[p][x] \in Nat
  BY <1>t, <1>1, <1>w DEF MemoryType
<1>3. CASE j \in 1 .. Len(mo[x])
  <2>1. PICK p \in Producers : j <= view[p][x]
    BY <1>2, <1>3 DEF KnownToProducers
  <2>2. j <= view'[p][x]
    BY <1>2, <1>v, <2>1
  <2> QED
    BY <2>2
<1>4. CASE j \notin 1 .. Len(mo[x])
  <2>1. j = Len(mo[x]) + 1 /\ mo'[x] # mo[x]
    BY <1>1, <1>2, <1>4
  <2>2. PICK t \in Workers : \/ t \in Producers /\ PublishesSlot(t)
                             \/ t \in Consumers /\ FreesSlot(t)
    BY <1>t, <2>1, SequencesKept
  <2>3. PICK v \in Nat : /\ StoreRelease(t, Sequence(TicketSlot(t)), v)
                         /\ t \in Consumers => v = FreeFor(ticket[t] + Capacity)
    BY <1>t, <2>2, TurnEnds
  <2>4. /\ mo'[Sequence(TicketSlot(t))][Len(mo[Sequence(TicketSlot(t))]) + 1].val = v
        /\ view'[t][Sequence(TicketSlot(t))] = Len(mo[Sequence(TicketSlot(t))]) + 1
        /\ \A y \in Loc \ {Sequence(TicketSlot(t))} : mo'[y] = mo[y]
    BY <1>t, <2>3, StoreFacts
  <2>5. x = Sequence(TicketSlot(t))
    BY <1>1, <2>1, <2>4
  <2>6. v = HoldsDataOf(k) /\ view'[t][x] = j
    BY <2>1, <2>4, <2>5
  <2>7. t \notin Consumers
    <3> SUFFICES ASSUME t \in Consumers PROVE FALSE
      OBVIOUS
    <3>1. HoldsDataOf(k) = FreeFor(ticket[t] + Capacity) /\ ticket[t] \in Nat
      BY <1>t, <2>3, <2>6, WorkerTypes
    <3> QED
      BY <3>1, MpmcAssumption DEF HoldsDataOf, FreeFor
  <2>8. t \in Producers /\ j <= view'[t][x]
    BY <1>v, <2>6, <2>7 DEF Workers
  <2> QED
    BY <2>8
<1> QED
  BY <1>3, <1>4

\* After an orderly close nothing that the producers know changes any more.
LEMMA ProducersFrozen ==
  ASSUME SlotInv, JoinedDone, Producers \subseteq joined, [Next]_vars
  PROVE  /\ \A p \in Producers : pc[p] = "done" /\ view'[p] = view[p]
         /\ \A v : KnowsProducers(v) => KnowsProducers(v)'
<1>1. \A p \in Producers : p \in Workers /\ pc[p] = "done"
  BY DEF JoinedDone, Workers
<1>2. \A p \in Producers : view'[p] = view[p]
  BY <1>1, DoneStays DEF SlotInv
<1> QED
  BY <1>1, <1>2 DEF KnowsProducers

\* Main closes once; only the close says whether it was orderly.
LEMMA OrderlyKept ==
  ASSUME TypeInv, [Next]_vars
  PROVE  close \/ (orderly' = orderly /\ mo'[Closed] = mo[Closed])
<1>1. ASSUME NEW t \in Workers, AttemptStep(t) PROVE orderly' = orderly
  BY <1>1, AttemptFrame
<1>2. ClientStep => close \/ orderly' = orderly
  BY DEF ClientStep, CallPush, EndProducer, PushChecksClosed, AsksClosed, CallPop,
         PopChecksClosed, MainThread, Joins, size, SizeLoadsTail, SizeLoadsHead,
         AllDone, vars, history
<1> QED
  BY <1>1, <1>2, ClosedKept, StepKinds

LEMMA CloseKnowsStep ==
  ASSUME SlotInv, JoinedDone, CloseKnows, [Next]_vars
  PROVE  CloseKnows'
<1>t. TypeInv /\ MemoryType
  BY DEF SlotInv, TypeInv, TypeOK
<1>0. Closed \in Loc /\ Len(mo[Closed]) \in Nat \ {0}
  BY <1>t, Locations, LatestType
<1>1. CASE close
  <2>1. /\ Latest(Closed) = FALSE /\ joined' = joined
        /\ orderly' = (Producers \subseteq joined)
    BY <1>1 DEF close
  <2>2. /\ Latest(Closed)' = TRUE
        /\ Len(mo'[Closed]) = Len(mo[Closed]) + 1
        /\ \A k \in 1 .. Len(mo[Closed]) : mo'[Closed][k] = mo[Closed][k]
        /\ mo'[Closed][Len(mo[Closed]) + 1].view
             = [view[Main] EXCEPT ![Closed] = Len(mo[Closed]) + 1]
    BY <1>t, <1>1, CloseFacts
  <2>3. \A j \in 1 .. Len(mo[Closed]) : mo'[Closed][j].val # TRUE
    BY <2>1, <2>2 DEF CloseKnows
  <2>4. ASSUME orderly', NEW p \in Producers, NEW i \in Slots
        PROVE  view'[p][Sequence(i)]
                 <= mo'[Closed][Len(mo[Closed]) + 1].view[Sequence(i)]
    <3> DEFINE w == [view[Main] EXCEPT ![Closed] = Len(mo[Closed]) + 1]
    <3>1. Producers \subseteq joined
      BY <2>1, <2>4
    <3>2. Sequence(i) \in Loc /\ w[Sequence(i)] = view[Main][Sequence(i)]
      BY <1>t, Locations, LocationsDiffer DEF MemoryType, Threads
    <3>3. view[p][Sequence(i)] <= w[Sequence(i)]
      BY <3>1, <3>2 DEF JoinedDone
    <3> HIDE DEF w
    <3>4. view'[p] = view[p]
      BY <3>1, ProducersFrozen
    <3>5. mo'[Closed][Len(mo[Closed]) + 1].view = w
      BY <2>2 DEF w
    <3> QED
      BY <3>3, <3>4, <3>5
  <2>5. \A j \in 1 .. Len(mo'[Closed]) :
          j \in 1 .. Len(mo[Closed]) \/ j = Len(mo[Closed]) + 1
    BY <1>0, <2>2
  <2>6. ASSUME NEW j \in 1 .. Len(mo'[Closed]), mo'[Closed][j].val = TRUE, orderly'
        PROVE  \A p \in Producers : \A i \in Slots :
                 view'[p][Sequence(i)] <= mo'[Closed][j].view[Sequence(i)]
    <3>1. j = Len(mo[Closed]) + 1
      BY <2>3, <2>5, <2>6
    <3> QED
      BY <2>4, <2>6, <3>1
  <2>7. orderly' => Producers \subseteq joined'
    BY <2>1
  <2> QED
    BY <2>2, <2>6, <2>7 DEF CloseKnows, KnowsProducers
<1>2. CASE orderly' = orderly /\ mo'[Closed] = mo[Closed]
  <2>1. Latest(Closed)' = Latest(Closed)
    BY <1>2 DEF Latest, Newest
  <2>2. orderly => Producers \subseteq joined'
    <3>1. joined' = joined \/ \E t \in Workers : Joins(t)
      BY <1>t, MainKept DEF size, SizeLoadsTail, SizeLoadsHead, history
    <3>2. joined \subseteq joined'
      BY <3>1 DEF Joins
    <3> QED
      BY <3>2 DEF CloseKnows
  <2>3. ASSUME NEW j \in 1 .. Len(mo[Closed]), mo[Closed][j].val = TRUE, orderly
        PROVE  KnowsProducers(mo[Closed][j].view)'
    <3>1. \A p \in Producers : view'[p] = view[p]
      BY <2>3, ProducersFrozen DEF CloseKnows
    <3>2. KnowsProducers(mo[Closed][j].view)
      BY <2>3 DEF CloseKnows
    <3> QED
      BY <1>2, <3>1, <3>2 DEF KnowsProducers
  <2>4. ASSUME NEW j \in 1 .. Len(mo'[Closed]), mo'[Closed][j].val = TRUE
        PROVE  /\ Latest(Closed)' = TRUE
               /\ orderly' => KnowsProducers(mo[Closed][j].view)'
    BY <1>2, <2>1, <2>3, <2>4 DEF CloseKnows
  <2>5. orderly' => Producers \subseteq joined' /\ Latest(Closed)' = TRUE
    BY <1>2, <2>1, <2>2 DEF CloseKnows
  <2> QED
    BY <2>4, <2>5 DEF CloseKnows
<1> QED
  BY <1>t, <1>1, <1>2, OrderlyKept

\* A consumer comes to its last attempt only by reading that the queue was
\* closed, and ends only when that attempt finds its slot without data.
LEMMA LastOnlyAfterClose ==
  ASSUME TypeInv, [Next]_vars, NEW c \in Consumers, op'[c] = "last"
  PROVE  op[c] = "last" \/ PopChecksClosed(c)
<1>t. LocalType /\ c \in Threads /\ c \in Workers /\ c \notin Producers
  BY MpmcAssumption DEF TypeInv, TypeOK, Threads, Workers
<1>1. ASSUME NEW t \in Workers, AttemptStep(t) PROVE op[c] = "last"
  BY <1>1, AttemptFrame
<1>2. ASSUME NEW p \in Producers, NEW o, CallPush(p, o) PROVE op[c] = "last"
  BY <1>t, <1>2 DEF CallPush, LocalType
<1>3. ASSUME NEW d \in Consumers, NEW o \in PopOps, CallPop(d, o) PROVE op[c] = "last"
  <2>1. o # "last"
    BY MpmcAssumption
  <2> QED
    BY <1>t, <1>3, <2>1 DEF CallPop, LocalType
<1>4. ASSUME NEW d \in Consumers \ {c}, PopChecksClosed(d) PROVE op[c] = "last"
  BY <1>t, <1>4 DEF PopChecksClosed, LocalType
<1>5. ASSUME NEW p \in Producers, EndProducer(p) \/ PushChecksClosed(p) \/ AsksClosed(p)
      PROVE  op[c] = "last"
  BY <1>5 DEF EndProducer, PushChecksClosed, AsksClosed
<1>6. MainThread \/ AllDone \/ UNCHANGED vars => op[c] = "last"
  BY DEF MainThread, Joins, close, size, SizeLoadsTail, SizeLoadsHead, AllDone, vars, local
<1> QED
  BY <1>1, <1>2, <1>3, <1>4, <1>5, <1>6, StepKinds DEF ClientStep

LEMMA ConsumerEnds ==
  ASSUME TypeInv, [Next]_vars, NEW c \in Consumers, pc[c] # "done", pc'[c] = "done"
  PROVE  /\ pc[c] = "seq" /\ op[c] = "last" /\ mo' = mo /\ orderly' = orderly
         /\ \E k \in Readable(c, Sequence(TicketSlot(c))) :
              mo[Sequence(TicketSlot(c))][k].val < HoldsDataOf(ticket[c])
<1>t. MemoryType /\ LocalType /\ c \in Threads /\ c \in Workers /\ c \notin Producers
      /\ c # Main
  BY MpmcAssumption DEF TypeInv, TypeOK, Threads, Workers
<1>w. ticket[c] \in Nat /\ TicketSlot(c) \in Slots
  BY <1>t, WorkerTypes
<1>1. ASSUME NEW t \in Workers \ {c}, AttemptStep(t) PROVE FALSE
  BY <1>t, <1>1, AttemptFrame
<1>2. ASSUME NEW p \in Producers,
             \/ \E o \in PushOps : CallPush(p, o)
             \/ EndProducer(p) \/ PushChecksClosed(p) \/ AsksClosed(p)
      PROVE  FALSE
  BY <1>t, <1>2
  DEF CallPush, EndProducer, PushChecksClosed, AsksClosed, Goto, LocalType
<1>3. ASSUME NEW d \in Consumers,
             (\E o \in PopOps : CallPop(d, o)) \/ PopChecksClosed(d)
      PROVE  FALSE
  BY <1>t, <1>3 DEF CallPop, PopChecksClosed, Goto, LocalType
<1>4. MainThread \/ AllDone \/ UNCHANGED vars => FALSE
  BY <1>t
  DEF MainThread, Joins, close, size, SizeLoadsTail, SizeLoadsHead, Goto, AllDone,
      vars, local, LocalType
<1>5. ASSUME AttemptStep(c) PROVE LoadsSequence(c)
  BY <1>t, <1>5
  DEF AttemptStep, LoadsPos, CasFails, CasSucceeds, MovesOut, FreesSlot, Goto, LocalType
<1>6. LoadsSequence(c)
  BY <1>1, <1>2, <1>3, <1>4, <1>5, StepKinds DEF ClientStep
<1>7. PICK k \in Readable(c, Sequence(TicketSlot(c))) :
        pc'[c] = Classify(c, mo[Sequence(TicketSlot(c))][k].val - Expected(c))
  BY <1>t, <1>6 DEF LoadsSequence, Goto, LocalType
<1>8. mo[Sequence(TicketSlot(c))][k].val \in Nat
  BY <1>t, <1>w, Locations, ReadableType
<1>9. Expected(c) = HoldsDataOf(ticket[c]) /\ HoldsDataOf(ticket[c]) \in Nat
  BY <1>t, <1>w DEF Expected, HoldsDataOf, FreeFor
<1>10. PICK dif \in Int : dif = mo[Sequence(TicketSlot(c))][k].val - HoldsDataOf(ticket[c])
  BY <1>8, <1>9
<1>11. Classify(c, dif) = "done"
  BY <1>7, <1>9, <1>10
<1>12. dif < 0 /\ op[c] = "last"
  BY <1>11 DEF Classify, AfterFailure
<1>13. mo[Sequence(TicketSlot(c))][k].val < HoldsDataOf(ticket[c])
  BY <1>8, <1>9, <1>10, <1>12
<1>14. pc[c] = "seq" /\ mo' = mo /\ orderly' = orderly
  BY <1>6 DEF LoadsSequence, LoadAcquire, history
<1> QED
  BY <1>12, <1>13, <1>14

LEMMA LastKnowsStep ==
  ASSUME SlotInv, SlotInv', JoinedDone, CloseKnows, LastKnows, [Next]_vars
  PROVE  LastKnows'
<1>t. TypeInv /\ MemoryType /\ MemoryType'
  BY DEF SlotInv, TypeInv, TypeOK
<1> SUFFICES ASSUME NEW c \in Consumers
             PROVE  /\ op'[c] = "last" \/ pc'[c] = "done" => Latest(Closed)' = TRUE
                    /\ op'[c] = "last" /\ orderly' => KnowsProducers(view[c])'
  BY DEF LastKnows
<1>w. c \in Threads /\ Closed \in Loc /\ \A p \in Producers : p \in Threads
  BY Locations DEF Threads
<1>c. Latest(Closed) = TRUE =>
        orderly' = orderly /\ mo'[Closed] = mo[Closed] /\ Latest(Closed)' = TRUE
  <2>1. Latest(Closed) = TRUE => ~close
    BY DEF close
  <2> QED
    BY <1>t, <2>1, OrderlyKept DEF Latest, Newest
<1>1. CASE op[c] = "last"
  <2>1. Latest(Closed) = TRUE
    BY <1>1 DEF LastKnows
  <2>2. ASSUME orderly' PROVE KnowsProducers(view[c])'
    <3>1. orderly /\ Producers \subseteq joined /\ KnowsProducers(view[c])
      BY <1>1, <1>c, <2>1, <2>2 DEF CloseKnows, LastKnows
    <3>2. \A p \in Producers : view'[p] = view[p]
      BY <3>1, ProducersFrozen
    <3>3. \A x \in Loc : view[c][x] <= view'[c][x]
      BY <1>w, MemoryGrows DEF SlotInv
    <3>4. ASSUME NEW p \in Producers, NEW i \in Slots
          PROVE  view'[p][Sequence(i)] <= view'[c][Sequence(i)]
      <4>1. /\ Sequence(i) \in Loc /\ view[p][Sequence(i)] \in Nat
            /\ view[c][Sequence(i)] \in Nat /\ view'[c][Sequence(i)] \in Nat
        BY <1>t, <1>w, Locations DEF MemoryType
      <4>2. view[p][Sequence(i)] <= view[c][Sequence(i)]
        BY <3>1 DEF KnowsProducers
      <4> QED
        BY <3>2, <3>3, <4>1, <4>2
    <3> QED
      BY <3>4 DEF KnowsProducers
  <2> QED
    BY <1>c, <2>1, <2>2
<1>2. CASE PopChecksClosed(c)
  <2>1. PICK k \in Readable(c, Closed) :
          /\ LoadAcquire(c, Closed, k)
          /\ op' = [op EXCEPT ![c] = IF mo[Closed][k].val THEN "last" ELSE @]
    BY <1>2 DEF PopChecksClosed
  <2>2. k \in 1 .. Len(mo[Closed]) /\ mo[Closed][k].val \in BOOLEAN
    BY <1>t, <1>w, Locations, ReadableType
  <2>3. op'[c] = IF mo[Closed][k].val THEN "last" ELSE op[c]
    BY <1>t, <1>w, <2>1 DEF TypeInv, TypeOK, LocalType
  <2>4. pc'[c] # "done" /\ mo' = mo /\ orderly' = orderly
    BY <1>t, <1>w, <1>2
    DEF PopChecksClosed, LoadAcquire, Goto, history, TypeInv, TypeOK, LocalType
  <2>5. CASE op[c] # "last" /\ op'[c] = "last"
    <3>1. mo[Closed][k].val = TRUE
      BY <2>2, <2>3, <2>5
    <3>2. Latest(Closed) = TRUE /\ (orderly => KnowsProducers(mo[Closed][k].view))
      BY <2>2, <3>1 DEF CloseKnows
    <3>3. ASSUME orderly' PROVE KnowsProducers(view[c])'
      <4>1. Producers \subseteq joined /\ KnowsProducers(mo[Closed][k].view)
        BY <2>4, <3>2, <3>3 DEF CloseKnows
      <4>2. \A p \in Producers : view'[p] = view[p]
        BY <4>1, ProducersFrozen
      <4>3. \A x \in Loc : view'[c][x] >= mo[Closed][k].view[x]
        BY <1>t, <1>w, <2>1, AcquireFacts
      <4>4. ASSUME NEW p \in Producers, NEW i \in Slots
            PROVE  view'[p][Sequence(i)] <= view'[c][Sequence(i)]
        <5>a. Sequence(i) \in Loc /\ Closed \in Loc
          BY Locations
        <5>b. mo[Closed][k].view \in [Loc -> Nat]
          BY <1>t, <2>2, <5>a, LatestType
        <5>c. mo[Closed][k].view[Sequence(i)] \in Nat
          BY <5>a, <5>b
        <5>d. view[p][Sequence(i)] \in Nat
          BY <1>t, <5>a DEF MemoryType, Threads, Workers
        <5>e. view'[c][Sequence(i)] \in Nat
          BY <1>t, <1>w, <5>a DEF MemoryType
        <5>1. /\ Sequence(i) \in Loc /\ view[p][Sequence(i)] \in Nat
              /\ view'[c][Sequence(i)] \in Nat
              /\ mo[Closed][k].view[Sequence(i)] \in Nat
          BY <5>a, <5>c, <5>d, <5>e
        <5>2. view[p][Sequence(i)] <= mo[Closed][k].view[Sequence(i)]
          BY <4>1 DEF KnowsProducers
        <5>3. view'[c][Sequence(i)] >= mo[Closed][k].view[Sequence(i)]
          BY <4>3, <5>1
        <5> QED
          BY <4>2, <5>1, <5>2, <5>3
      <4> QED
        BY <4>4 DEF KnowsProducers
    <3> QED
      BY <1>c, <3>2, <3>3
  <2>6. CASE op'[c] # "last"
    BY <2>4, <2>6
  <2> QED
    BY <1>1, <2>5, <2>6
<1>3. CASE op'[c] # "last"
  <2>1. CASE pc[c] = "done"
    BY <1>c, <1>3, <2>1 DEF LastKnows
  <2>2. CASE pc[c] # "done" /\ pc'[c] = "done"
    BY <1>t, <1>1, <2>2, ConsumerEnds
  <2> QED
    BY <1>3, <2>1, <2>2
<1> QED
  BY <1>t, <1>1, <1>2, <1>3, LastOnlyAfterClose

LEMMA DrainedStep ==
  ASSUME SlotInv, SlotInv', JoinedDone, CloseInv, [Next]_vars
  PROVE  DrainedWhenPopFails'
<1> SUFFICES ASSUME orderly', NEW c \in Consumers, pc'[c] = "done"
             PROVE  Dequeued' = Enqueued'
  BY DEF DrainedWhenPopFails
<1>t. TypeInv /\ MemoryType /\ c \in Workers /\ c \in Threads /\ c \notin Producers
  BY MpmcAssumption DEF SlotInv, TypeInv, TypeOK, Workers, Threads
<1>0. /\ Enqueued \in Nat /\ Dequeued \in Nat
      /\ Dequeued <= Enqueued /\ Dequeued' <= Enqueued'
  BY <1>t, PositionTypes DEF SlotInv, Protocol, WithinCapacity
<1>i. CloseKnows /\ LastKnows /\ PublishedOrInSlot /\ KnownToProducers /\ SequencesSorted
  BY DEF CloseInv
<1>1. CASE pc[c] = "done"
  <2>1. Latest(Closed) = TRUE
    BY <1>i, <1>1 DEF LastKnows
  <2>2. orderly
    BY <1>t, <2>1, OrderlyKept DEF close
  <2>3. Dequeued = Enqueued /\ Producers \subseteq joined
    BY <1>i, <1>1, <2>2 DEF CloseInv, DrainedWhenPopFails, CloseKnows
  <2>4. ASSUME NEW t \in Workers, CasSucceeds(t) PROVE FALSE
    <3>1. t \notin Producers
      BY <2>3, <2>4 DEF CasSucceeds, JoinedDone
    <3>2. Dequeued' = Dequeued + 1 /\ Enqueued' = Enqueued
      BY <1>t, <2>4, <3>1, ClaimMoves DEF Workers
    <3> QED
      BY <1>0, <2>3, <3>2
  <2> QED
    BY <1>t, <2>3, <2>4, PositionsKept
<1>2. CASE pc[c] # "done"
  <2> DEFINE x == Sequence(TicketSlot(c))
             n == ticket[c]
  <2>1. /\ pc[c] = "seq" /\ op[c] = "last" /\ mo' = mo /\ orderly' = orderly
        /\ \E k \in Readable(c, x) : mo[x][k].val < HoldsDataOf(n)
    BY <1>t, <1>2, ConsumerEnds
  <2>2. PICK k \in Readable(c, x) : mo[x][k].val < HoldsDataOf(n)
    BY <2>1
  <2>3. /\ n \in Nat /\ TicketSlot(c) \in Slots /\ x = Sequence(slot_index(n))
        /\ slot_index(n) \in Slots /\ HoldsDataOf(n) \in Nat
    BY <1>t, WorkerTypes DEF TicketSlot, HoldsDataOf, FreeFor
  <2>4. /\ x \in Loc /\ Len(mo[x]) \in Nat
        /\ \A j \in 1 .. Len(mo[x]) : mo[x][j].val \in Nat
    BY <1>t, <2>3, SequenceTypes
  <2>5. k \in 1 .. Len(mo[x]) /\ view[c][x] <= k /\ view[c][x] \in Nat
    BY <1>t, <2>4, ReadableType DEF Readable, MemoryType
  <2>6. n <= Dequeued
    BY <1>t, <2>1 DEF SlotInv, Protocol, TicketsHandedOut, Pos, Dequeued
  <2>7. Producers \subseteq joined /\ KnowsProducers(view[c])
    BY <1>i, <2>1 DEF CloseKnows, LastKnows
  <2>8. ~(n < Enqueued)
    <3> SUFFICES ASSUME n < Enqueued PROVE FALSE
      OBVIOUS
    <3>1. \A p \in Producers : ~InSlot(p)
      BY <2>7, ProducersFrozen DEF InSlot
    <3>2. Published(n)
      BY <1>i, <2>3, <3>1 DEF PublishedOrInSlot
    <3>3. PICK j \in 1 .. Len(mo[x]) : mo[x][j].val = HoldsDataOf(n)
      BY <2>3, <3>2 DEF Published
    <3>4. PICK p \in Producers : j <= view[p][x]
      BY <1>i, <2>3, <3>3 DEF KnownToProducers
    <3>5. view[p][x] <= view[c][x] /\ view[p][x] \in Nat
      BY <1>t, <2>3, <2>4, <2>7 DEF KnowsProducers, MemoryType, Threads
    <3>6. j <= k
      BY <2>4, <2>5, <3>4, <3>5
    <3>7. j < k => mo[x][j].val < mo[x][k].val
      BY <1>i, <2>3, <2>5 DEF SequencesSorted
    <3>8. mo[x][j].val \in Nat /\ mo[x][k].val \in Nat
      BY <2>4, <2>5
    <3> QED
      BY <2>2, <2>3, <2>4, <2>5, <3>3, <3>6, <3>7, <3>8
  <2>9. Dequeued = Enqueued
    BY <1>0, <2>3, <2>6, <2>8
  <2> QED
    BY <2>1, <2>9 DEF Dequeued, Enqueued, Latest, Newest
<1> QED
  BY <1>1, <1>2

LEMMA CloseStep == SlotInv /\ JoinInv /\ CloseInv /\ [Next]_vars => CloseInv'
<1> SUFFICES ASSUME SlotInv, JoinInv, CloseInv, [Next]_vars PROVE CloseInv'
  OBVIOUS
<1>1. SlotInv' /\ JoinedDone
  BY SlotInvStep DEF JoinInv
<1>2. SequencesSorted' /\ PublishedOrInSlot' /\ KnownToProducers'
  BY <1>1, SequencesSortedStep, PublishedStep, KnownToProducersStep DEF CloseInv
<1>3. CloseKnows' /\ LastKnows'
  BY <1>1, CloseKnowsStep, LastKnowsStep DEF CloseInv
<1>4. DrainedWhenPopFails'
  BY <1>1, DrainedStep
<1> QED
  BY <1>2, <1>3, <1>4 DEF CloseInv

(***************************************************************************)
(* If main closes after joining the producers, a pop() that returns false  *)
(* leaves no element behind, although the loads of its last attempt may be *)
(* stale: what the acquire load of closed_ brings is enough.               *)
(***************************************************************************)
THEOREM MpmcDrained == Spec => []DrainedWhenPopFails
<1>1. Init => SlotInv /\ JoinInv /\ CloseInv
  BY SlotInvInit, JoinInit, CloseInit
<1>2. SlotInv /\ JoinInv /\ CloseInv /\ [Next]_vars => (SlotInv /\ JoinInv /\ CloseInv)'
  BY SlotInvStep, JoinStep, CloseStep
<1>3. CloseInv => DrainedWhenPopFails
  BY DEF CloseInv
<1> QED
  BY <1>1, <1>2, <1>3, PTL DEF Spec

============================================================================
