-------------------------- MODULE MpmcQueueProofs --------------------------
(***************************************************************************)
(* Theorems about MpmcQueue, for every capacity, any number of threads and *)
(* calls and any staleness of the loads.                                   *)
(***************************************************************************)
EXTENDS MpmcQueue, TLAPS

-----------------------------------------------------------------------------
(***************************************************************************)
(* The locations and what they hold.                                       *)
(***************************************************************************)
LEMMA Locations ==
  /\ EnqueuePos \in Loc /\ Contents(EnqueuePos) = Nat
  /\ DequeuePos \in Loc /\ Contents(DequeuePos) = Nat
  /\ Closed \in Loc /\ Contents(Closed) = BOOLEAN
  /\ \A i \in Slots :
       /\ Sequence(i) \in Loc /\ Contents(Sequence(i)) = Nat
       /\ Value(i) \in Loc /\ Contents(Value(i)) = Items \cup {Empty}
BY DEF Loc, EnqueuePos, DequeuePos, Closed, Sequence, Value, Contents

LEMMA SlotIndexType ==
  ASSUME NEW k \in Nat
  PROVE  slot_index(k) \in Slots
BY MpmcAssumption DEF slot_index, Slots

LEMMA JoinType ==
  ASSUME NEW v \in [Loc -> Nat \ {0}], NEW w \in [Loc -> Nat]
  PROVE  Join(v, w) \in [Loc -> Nat \ {0}]
BY DEF Join

(***************************************************************************)
(* The memory operations keep the memory's type.                           *)
(***************************************************************************)
LEMMA ReadableType ==
  ASSUME MemoryType, NEW t \in Threads, NEW x \in Loc, NEW k \in Readable(t, x)
  PROVE  /\ k \in 1 .. Len(mo[x])
         /\ mo[x][k] \in Messages(Contents(x))
         /\ mo[x][k].val \in Contents(x)
         /\ mo[x][k].view \in [Loc -> Nat]
<1>1. mo[x] \in Seq(Messages(Contents(x))) /\ view[t][x] \in Nat \ {0}
  BY DEF MemoryType
<1>2. k \in 1 .. Len(mo[x])
  BY <1>1 DEF Readable
<1>3. mo[x][k] \in Messages(Contents(x))
  BY <1>1, <1>2
<1> QED
  BY <1>2, <1>3 DEF Messages

LEMMA LoadRelaxedType ==
  ASSUME MemoryType, NEW t \in Threads, NEW x \in Loc, NEW k \in Readable(t, x),
         LoadRelaxed(t, x, k)
  PROVE  MemoryType'
<1>1. k \in Nat \ {0}
  BY ReadableType
<1> QED
  BY <1>1 DEF MemoryType, LoadRelaxed

LEMMA LoadAcquireType ==
  ASSUME MemoryType, NEW t \in Threads, NEW x \in Loc, NEW k \in Readable(t, x),
         LoadAcquire(t, x, k)
  PROVE  MemoryType'
<1> DEFINE v == [view[t] EXCEPT ![x] = k]
<1>1. k \in Nat \ {0} /\ mo[x][k].view \in [Loc -> Nat]
  BY ReadableType
<1>2. v \in [Loc -> Nat \ {0}]
  BY <1>1 DEF MemoryType
<1>3. Join(v, mo[x][k].view) \in [Loc -> Nat \ {0}]
  BY <1>1, <1>2, JoinType
<1>4. view' = [view EXCEPT ![t] = Join(v, mo[x][k].view)] /\ mo' = mo
  BY DEF LoadAcquire, MemoryType
<1> QED
  BY <1>3, <1>4 DEF MemoryType

LEMMA PutType ==
  ASSUME MemoryType, NEW t \in Threads, NEW x \in Loc,
         NEW m \in Messages(Contents(x)), Put(t, x, m)
  PROVE  MemoryType'
<1>1. mo[x] \in Seq(Messages(Contents(x)))
  BY DEF MemoryType
<1>2. Append(mo[x], m) \in Seq(Messages(Contents(x))) \ {<<>>}
  BY <1>1
<1>3. Len(mo[x]) + 1 \in Nat \ {0}
  BY <1>1
<1>4. DOMAIN mo' = Loc /\ \A y \in Loc : mo'[y] \in Seq(Messages(Contents(y))) \ {<<>>}
  BY <1>2 DEF MemoryType, Put
<1>5. view' \in [Threads -> [Loc -> Nat \ {0}]]
  BY <1>3 DEF MemoryType, Put
<1> QED
  BY <1>4, <1>5 DEF MemoryType

LEMMA StoreReleaseType ==
  ASSUME MemoryType, NEW t \in Threads, NEW x \in Loc, NEW v \in Contents(x),
         StoreRelease(t, x, v)
  PROVE  MemoryType'
<1> DEFINE w == [view[t] EXCEPT ![x] = Len(mo[x]) + 1]
<1>1. Len(mo[x]) \in Nat
  BY DEF MemoryType
<1>2. w \in [Loc -> Nat]
  BY <1>1 DEF MemoryType
<1>3. Message(v, w) \in Messages(Contents(x))
  BY <1>2 DEF Message, Messages
<1> QED
  BY <1>3, PutType DEF StoreRelease

LEMMA ExchangeRelaxedType ==
  ASSUME MemoryType, NEW t \in Threads, NEW x \in Loc, NEW v \in Contents(x),
         ExchangeRelaxed(t, x, v)
  PROVE  MemoryType'
<1>1. mo[x] \in Seq(Messages(Contents(x))) /\ mo[x] # <<>>
  BY DEF MemoryType
<1>2. Newest(x) \in Messages(Contents(x))
  BY <1>1 DEF Newest
<1>3. Message(v, Newest(x).view) \in Messages(Contents(x))
  BY <1>2 DEF Message, Messages
<1> QED
  BY <1>3, PutType DEF ExchangeRelaxed

LEMMA AccessType ==
  ASSUME MemoryType, NEW t \in Threads, NEW x \in Loc, NEW v \in Contents(x),
         Access(t, x, v)
  PROVE  MemoryType'
<1>1. NoView \in [Loc -> Nat]
  BY DEF NoView, MemoryType
<1>2. Message(v, NoView) \in Messages(Contents(x))
  BY <1>1 DEF Message, Messages
<1> QED
  BY <1>2, PutType DEF Access

LEMMA JoinThreadType ==
  ASSUME MemoryType, NEW t \in Threads, NEW u \in Threads, JoinThread(t, u)
  PROVE  MemoryType'
<1>1. Join(view[t], view[u]) \in [Loc -> Nat \ {0}]
  BY DEF MemoryType, Join
<1>2. view' = [view EXCEPT ![t] = Join(view[t], view[u])] /\ mo' = mo
  BY DEF JoinThread, MemoryType
<1> QED
  BY <1>1, <1>2 DEF MemoryType

-----------------------------------------------------------------------------
(***************************************************************************)
(* Type correctness.  A producer's element is a real one from the call to  *)
(* the write of the slot, which is what makes the type inductive.          *)
(***************************************************************************)
ItemReady ==
  \A p \in Producers :
    pc[p] \in {"closed", "pos", "seq", "cas", "slot"} => item[p] \in Items

TypeInv == TypeOK /\ ItemReady

LEMMA TypeInit == Init => TypeInv
<1> SUFFICES ASSUME Init PROVE TypeInv
  OBVIOUS
<1>1. \A x \in Loc : InitialValue(x) \in Contents(x)
  <2>1. InitialValue(EnqueuePos) = 0 /\ InitialValue(DequeuePos) = 0
    BY DEF InitialValue, EnqueuePos, DequeuePos
  <2>c. InitialValue(Closed) \in BOOLEAN
    BY DEF InitialValue, Closed
  <2>2. \A i \in Slots :
          InitialValue(Sequence(i)) = FreeFor(i) /\ InitialValue(Value(i)) = Empty
    BY DEF InitialValue, Sequence, Value
  <2>3. \A i \in Slots : FreeFor(i) \in Nat
    BY MpmcAssumption DEF FreeFor, Slots
  <2> QED
    BY <2>1, <2>c, <2>2, <2>3, Locations DEF Loc
<1>2. \A x \in Loc : Message(InitialValue(x), [y \in Loc |-> 1]) \in Messages(Contents(x))
  BY <1>1 DEF Message, Messages
<1>3. MemoryType
  BY <1>2 DEF Init, MemoryType
<1>4. LocalType
  BY MpmcAssumption DEF Init, LocalType
<1>5. HistoryType
  <2>1. DOMAIN taken \subseteq Nat
    BY DEF Init
  <2>2. joined = {} /\ orderly = FALSE /\ sizeRet = 0
    BY DEF Init
  <2>3. joined \subseteq Workers /\ sizeRet \in 0 .. Capacity
    BY <2>2, MpmcAssumption
  <2>4. orderly \in BOOLEAN
    BY <2>2
  <2> QED
    BY <2>1, <2>3, <2>4 DEF HistoryType
<1>6. ItemReady
  BY DEF Init, ItemReady, Threads
<1> QED
  BY <1>3, <1>4, <1>5, <1>6 DEF TypeInv, TypeOK

LEMMA TypeStep == TypeInv /\ [Next]_vars => TypeInv'
<1> SUFFICES ASSUME TypeInv, [Next]_vars PROVE TypeInv'
  OBVIOUS
<1>t. MemoryType /\ LocalType /\ HistoryType /\ ItemReady
  BY DEF TypeInv, TypeOK
<1> USE MpmcAssumption
<1>1. ASSUME NEW p \in Producers, NEW o \in PushOps, CallPush(p, o)
      PROVE  TypeInv'
  <2>1. MemoryType'
    BY <1>t, <1>1 DEF CallPush, memory, MemoryType
  <2>2. LocalType'
    <3>1. o \in {"push", "try_push"} /\ calls + 1 \in 0 .. Calls
      BY <1>t, <1>1 DEF CallPush, LocalType
    <3> QED
      BY <1>t, <1>1, <3>1 DEF CallPush, Goto, LocalType
  <2>3. HistoryType'
    BY <1>t, <1>1 DEF CallPush, history, HistoryType
  <2>4. ItemReady'
    BY <1>t, <1>1 DEF CallPush, Goto, LocalType, ItemReady, Items, Threads
  <2> QED
    BY <2>1, <2>2, <2>3, <2>4 DEF TypeInv, TypeOK
<1>2. ASSUME NEW c \in Consumers, NEW o \in PopOps, CallPop(c, o)
      PROVE  TypeInv'
  <2>1. MemoryType'
    BY <1>t, <1>2 DEF CallPop, memory, MemoryType
  <2>2. LocalType'
    BY <1>t, <1>2 DEF CallPop, Goto, LocalType
  <2>3. HistoryType'
    BY <1>t, <1>2 DEF CallPop, history, HistoryType
  <2>4. ItemReady'
    BY <1>t, <1>2 DEF CallPop, Goto, LocalType, ItemReady, Threads
  <2> QED
    BY <2>1, <2>2, <2>3, <2>4 DEF TypeInv, TypeOK
<1>3. ASSUME NEW p \in Producers, EndProducer(p)
      PROVE  TypeInv'
  <2>1. MemoryType'
    BY <1>t, <1>3 DEF EndProducer, memory, MemoryType
  <2>2. LocalType'
    BY <1>t, <1>3 DEF EndProducer, Goto, LocalType
  <2>3. HistoryType'
    BY <1>t, <1>3 DEF EndProducer, history, HistoryType
  <2>4. ItemReady'
    BY <1>t, <1>3 DEF EndProducer, Goto, LocalType, ItemReady, Threads
  <2> QED
    BY <2>1, <2>2, <2>3, <2>4 DEF TypeInv, TypeOK
<1>4. ASSUME NEW p \in Producers, PushChecksClosed(p)
      PROVE  TypeInv'
  <2>1. MemoryType'
    BY <1>t, <1>4, LoadRelaxedType, Locations DEF PushChecksClosed, Threads
  <2>2. LocalType'
    BY <1>t, <1>4 DEF PushChecksClosed, Goto, LocalType
  <2>3. HistoryType'
    BY <1>t, <1>4 DEF PushChecksClosed, history, HistoryType
  <2>4. ItemReady'
    BY <1>t, <1>4 DEF PushChecksClosed, Goto, LocalType, ItemReady, Threads
  <2> QED
    BY <2>1, <2>2, <2>3, <2>4 DEF TypeInv, TypeOK
<1>5. ASSUME NEW p \in Producers, AsksClosed(p)
      PROVE  TypeInv'
  <2>1. MemoryType'
    BY <1>t, <1>5, LoadAcquireType, Locations DEF AsksClosed, Threads
  <2>2. LocalType'
    BY <1>t, <1>5 DEF AsksClosed, Goto, LocalType
  <2>3. HistoryType'
    BY <1>t, <1>5 DEF AsksClosed, history, HistoryType
  <2>4. ItemReady'
    BY <1>t, <1>5 DEF AsksClosed, Goto, LocalType, ItemReady, Threads
  <2> QED
    BY <2>1, <2>2, <2>3, <2>4 DEF TypeInv, TypeOK
<1>6. ASSUME NEW c \in Consumers, PopChecksClosed(c)
      PROVE  TypeInv'
  <2>1. MemoryType'
    BY <1>t, <1>6, LoadAcquireType, Locations DEF PopChecksClosed, Threads
  <2>2. LocalType'
    <3>1. PICK o \in {"last", op[c]}, l \in {"idle", "pos"} :
            op' = [op EXCEPT ![c] = o] /\ pc' = [pc EXCEPT ![c] = l]
      BY <1>6 DEF PopChecksClosed, Goto
    <3>2. o \in {"none", "push", "try_push", "pop", "try_pop", "last"}
      BY <1>t, <3>1 DEF LocalType, Threads
    <3> QED
      BY <1>t, <1>6, <3>1, <3>2 DEF PopChecksClosed, LocalType
  <2>3. HistoryType'
    BY <1>t, <1>6 DEF PopChecksClosed, history, HistoryType
  <2>4. ItemReady'
    BY <1>t, <1>6 DEF PopChecksClosed, Goto, LocalType, ItemReady, Threads
  <2> QED
    BY <2>1, <2>2, <2>3, <2>4 DEF TypeInv, TypeOK
<1>7. ASSUME NEW t \in Workers, LoadsPos(t) \/ CasFails(t)
      PROVE  TypeInv'
  <2>1. PICK k \in Readable(t, Pos(t)) :
          /\ LoadRelaxed(t, Pos(t), k)
          /\ ticket' = [ticket EXCEPT ![t] = mo[Pos(t)][k].val]
    BY <1>7 DEF LoadsPos, CasFails
  <2>2. Pos(t) \in Loc /\ Contents(Pos(t)) = Nat /\ t \in Threads
    BY Locations DEF Pos, Threads, Workers
  <2>3. MemoryType'
    BY <1>t, <2>1, <2>2, LoadRelaxedType
  <2>4. mo[Pos(t)][k].val \in Nat
    BY <1>t, <2>2, ReadableType
  <2>5. LocalType'
    BY <1>t, <1>7, <2>1, <2>4 DEF LoadsPos, CasFails, Goto, LocalType
  <2>6. HistoryType'
    BY <1>t, <1>7 DEF LoadsPos, CasFails, history, HistoryType
  <2>7. ItemReady'
    BY <1>t, <1>7 DEF LoadsPos, CasFails, Goto, LocalType, ItemReady, Threads
  <2> QED
    BY <2>3, <2>5, <2>6, <2>7 DEF TypeInv, TypeOK
<1>8. ASSUME NEW t \in Workers, LoadsSequence(t)
      PROVE  TypeInv'
  <2> DEFINE x == Sequence(TicketSlot(t))
  <2>1. PICK k \in Readable(t, x) :
          /\ LoadAcquire(t, x, k)
          /\ Goto(t, Classify(t, mo[x][k].val - Expected(t)))
    BY <1>8 DEF LoadsSequence
  <2>2. x \in Loc /\ Contents(x) = Nat /\ t \in Threads
    BY <1>t, Locations, SlotIndexType DEF Threads, Workers, TicketSlot, LocalType
  <2>3. MemoryType'
    BY <1>t, <2>1, <2>2, LoadAcquireType
  <2>4. mo[x][k].val - Expected(t) \in Int
    BY <1>t, <2>2, ReadableType DEF Expected, FreeFor, HoldsDataOf, LocalType
  <2>5. Classify(t, mo[x][k].val - Expected(t))
          \in {"cas", "pos", "asks", "done", "closed"}
    BY <2>4 DEF Classify, AfterFailure
  <2>6. LocalType'
    BY <1>t, <1>8, <2>1, <2>2, <2>5 DEF LoadsSequence, Goto, LocalType
  <2>7. HistoryType'
    BY <1>t, <1>8 DEF LoadsSequence, history, HistoryType
  <2>8. ItemReady'
    BY <1>t, <1>8, <2>1, <2>5 DEF LoadsSequence, Goto, LocalType, ItemReady, Threads
  <2> QED
    BY <2>3, <2>6, <2>7, <2>8 DEF TypeInv, TypeOK
<1>9. ASSUME NEW t \in Workers, CasSucceeds(t)
      PROVE  TypeInv'
  <2>1. Pos(t) \in Loc /\ Contents(Pos(t)) = Nat /\ t \in Threads
    BY Locations DEF Pos, Threads, Workers
  <2>2. MemoryType'
    BY <1>t, <1>9, <2>1, ExchangeRelaxedType DEF CasSucceeds, LocalType
  <2>3. LocalType'
    BY <1>t, <1>9 DEF CasSucceeds, Goto, LocalType
  <2>4. HistoryType'
    BY <1>t, <1>9 DEF CasSucceeds, history, HistoryType
  <2>5. ItemReady'
    BY <1>t, <1>9 DEF CasSucceeds, Goto, LocalType, ItemReady, Threads
  <2> QED
    BY <2>2, <2>3, <2>4, <2>5 DEF TypeInv, TypeOK
<1>10. ASSUME NEW p \in Producers, WritesSlot(p)
       PROVE  TypeInv'
  <2>1. /\ Value(TicketSlot(p)) \in Loc
        /\ Contents(Value(TicketSlot(p))) = Items \cup {Empty}
        /\ p \in Threads
    BY <1>t, Locations, SlotIndexType DEF Threads, TicketSlot, LocalType
  <2>2. item[p] \in Items
    BY <1>t, <1>10 DEF WritesSlot, ItemReady
  <2>3. MemoryType'
    BY <1>t, <1>10, <2>1, <2>2, AccessType DEF WritesSlot
  <2>4. LocalType'
    BY <1>t, <1>10 DEF WritesSlot, Goto, LocalType
  <2>5. HistoryType'
    BY <1>t, <1>10 DEF WritesSlot, history, HistoryType
  <2>6. ItemReady'
    BY <1>t, <1>10 DEF WritesSlot, Goto, LocalType, ItemReady, Threads
  <2> QED
    BY <2>3, <2>4, <2>5, <2>6 DEF TypeInv, TypeOK
<1>11. ASSUME NEW p \in Producers, PublishesSlot(p)
       PROVE  TypeInv'
  <2>1. /\ Sequence(TicketSlot(p)) \in Loc
        /\ Contents(Sequence(TicketSlot(p))) = Nat
        /\ p \in Threads
    BY <1>t, Locations, SlotIndexType DEF Threads, TicketSlot, LocalType
  <2>2. HoldsDataOf(ticket[p]) \in Nat
    BY <1>t, <2>1 DEF HoldsDataOf, FreeFor, LocalType
  <2>3. MemoryType'
    BY <1>t, <1>11, <2>1, <2>2, StoreReleaseType DEF PublishesSlot
  <2>4. LocalType'
    BY <1>t, <1>11 DEF PublishesSlot, Goto, LocalType
  <2>5. HistoryType'
    BY <1>t, <1>11 DEF PublishesSlot, history, HistoryType
  <2>6. ItemReady'
    BY <1>t, <1>11 DEF PublishesSlot, Goto, LocalType, ItemReady, Threads
  <2> QED
    BY <2>3, <2>4, <2>5, <2>6 DEF TypeInv, TypeOK
<1>12. ASSUME NEW c \in Consumers, MovesOut(c)
       PROVE  TypeInv'
  <2>1. /\ Value(TicketSlot(c)) \in Loc
        /\ Contents(Value(TicketSlot(c))) = Items \cup {Empty}
        /\ c \in Threads /\ ticket[c] \in Nat
    BY <1>t, Locations, SlotIndexType DEF Threads, TicketSlot, LocalType
  <2>2. MemoryType'
    BY <1>t, <1>12, <2>1, AccessType DEF MovesOut
  <2>3. LocalType'
    BY <1>t, <1>12 DEF MovesOut, Goto, LocalType
  <2>4. HistoryType'
    BY <1>t, <1>12, <2>1 DEF MovesOut, HistoryType
  <2>5. ItemReady'
    BY <1>t, <1>12 DEF MovesOut, Goto, LocalType, ItemReady, Threads
  <2> QED
    BY <2>2, <2>3, <2>4, <2>5 DEF TypeInv, TypeOK
<1>13. ASSUME NEW c \in Consumers, FreesSlot(c)
       PROVE  TypeInv'
  <2>1. /\ Sequence(TicketSlot(c)) \in Loc
        /\ Contents(Sequence(TicketSlot(c))) = Nat
        /\ c \in Threads
    BY <1>t, Locations, SlotIndexType DEF Threads, TicketSlot, LocalType
  <2>2. FreeFor(ticket[c] + Capacity) \in Nat
    BY <1>t, <2>1 DEF FreeFor, LocalType
  <2>3. MemoryType'
    BY <1>t, <1>13, <2>1, <2>2, StoreReleaseType DEF FreesSlot
  <2>4. LocalType'
    BY <1>t, <1>13 DEF FreesSlot, Goto, LocalType
  <2>5. HistoryType'
    BY <1>t, <1>13 DEF FreesSlot, history, HistoryType
  <2>6. ItemReady'
    BY <1>t, <1>13 DEF FreesSlot, Goto, LocalType, ItemReady, Threads
  <2> QED
    BY <2>3, <2>4, <2>5, <2>6 DEF TypeInv, TypeOK
<1>14. ASSUME NEW t \in Producers \cup Consumers, Joins(t)
       PROVE  TypeInv'
  <2>1. MemoryType'
    BY <1>t, <1>14, JoinThreadType DEF Joins, Threads
  <2>2. LocalType'
    BY <1>t, <1>14 DEF Joins, local, LocalType
  <2>3. HistoryType'
    BY <1>t, <1>14 DEF Joins, HistoryType, Workers
  <2>4. ItemReady'
    BY <1>t, <1>14 DEF Joins, local, ItemReady
  <2> QED
    BY <2>1, <2>2, <2>3, <2>4 DEF TypeInv, TypeOK
<1>15. ASSUME close
       PROVE  TypeInv'
  <2>1. MemoryType'
    BY <1>t, <1>15, StoreReleaseType, Locations DEF close, Threads
  <2>2. LocalType'
    BY <1>t, <1>15 DEF close, local, LocalType
  <2>3. HistoryType'
    BY <1>t, <1>15 DEF close, HistoryType
  <2>4. ItemReady'
    BY <1>t, <1>15 DEF close, local, ItemReady
  <2> QED
    BY <2>1, <2>2, <2>3, <2>4 DEF TypeInv, TypeOK
<1>16. ASSUME SizeLoadsTail
       PROVE  TypeInv'
  <2>1. PICK k \in Readable(Main, EnqueuePos) :
          /\ LoadRelaxed(Main, EnqueuePos, k)
          /\ ticket' = [ticket EXCEPT ![Main] = mo[EnqueuePos][k].val]
    BY <1>16 DEF SizeLoadsTail
  <2>2. MemoryType' /\ mo[EnqueuePos][k].val \in Nat
    BY <1>t, <2>1, LoadRelaxedType, ReadableType, Locations DEF Threads
  <2>3. LocalType'
    BY <1>t, <1>16, <2>1, <2>2 DEF SizeLoadsTail, Goto, LocalType
  <2>4. HistoryType'
    BY <1>t, <1>16 DEF SizeLoadsTail, history, HistoryType
  <2>5. ItemReady'
    BY <1>t, <1>16 DEF SizeLoadsTail, Goto, LocalType, ItemReady, Threads
  <2> QED
    BY <2>2, <2>3, <2>4, <2>5 DEF TypeInv, TypeOK
<1>17. ASSUME SizeLoadsHead
       PROVE  TypeInv'
  <2>1. PICK k \in Readable(Main, DequeuePos) :
          /\ LoadRelaxed(Main, DequeuePos, k)
          /\ sizeRet' = Clamp(ticket[Main] - mo[DequeuePos][k].val)
    BY <1>17 DEF SizeLoadsHead
  <2>2. MemoryType' /\ mo[DequeuePos][k].val \in Nat
    BY <1>t, <2>1, LoadRelaxedType, ReadableType, Locations DEF Threads
  <2>3. LocalType'
    BY <1>t, <1>17 DEF SizeLoadsHead, Goto, LocalType
  <2>4. ticket[Main] \in Nat
    BY <1>t DEF LocalType, Threads
  <2>5. HistoryType'
    BY <1>t, <1>17, <2>1, <2>2, <2>4 DEF SizeLoadsHead, HistoryType, Clamp
  <2>6. ItemReady'
    BY <1>t, <1>17 DEF SizeLoadsHead, Goto, LocalType, ItemReady, Threads
  <2> QED
    BY <2>2, <2>3, <2>5, <2>6 DEF TypeInv, TypeOK
<1>18. CASE UNCHANGED vars
  BY <1>t, <1>18
  DEF vars, memory, local, history, TypeInv, TypeOK, MemoryType, LocalType,
      HistoryType, ItemReady
<1> QED
  BY <1>1, <1>2, <1>3, <1>4, <1>5, <1>6, <1>7, <1>8, <1>9, <1>10, <1>11, <1>12,
     <1>13, <1>14, <1>15, <1>16, <1>17, <1>18
  DEF Next, Producer, Consumer, MainThread, AllDone, try_enqueue, try_dequeue,
      size, Workers

(***************************************************************************)
(* Every variable keeps its type, and size() returns a number from 0 to    *)
(* the capacity however stale and torn its two loads are.                  *)
(***************************************************************************)
THEOREM TypeCorrect == Spec => []TypeOK
<1>1. TypeInv => TypeOK
  BY DEF TypeInv
<1> QED
  BY <1>1, TypeInit, TypeStep, PTL DEF Spec
=============================================================================
