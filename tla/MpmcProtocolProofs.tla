------------------------ MODULE MpmcProtocolProofs ------------------------
(***************************************************************************)
(* The slot protocol of MpmcQueue, for every capacity, any number of       *)
(* threads and calls and any staleness of the loads: no ticket is claimed  *)
(* out of turn, the stores of a sequence are ordered, no plain access to a *)
(* slot is a data race, and a ticket is given up only when it is gone.     *)
(*                                                                         *)
(* The invariant comes in layers, each inductive on top of the ones before *)
(* it: what the views know (ViewsKnown), the values of the two positions   *)
(* (TicketsInOrder), who is in which slot (Protocol), and what a sequence  *)
(* tells about the value of its slot (Handover).                           *)
(***************************************************************************)
EXTENDS MpmcQueueProofs

-----------------------------------------------------------------------------
(***************************************************************************)
(* Tickets of one slot are at least a lap apart.                           *)
(***************************************************************************)
LEMMA Multiples ==
  ASSUME NEW n \in Nat \ {0}, NEW a \in Nat, NEW b \in Nat, a < b
  PROVE  n * a + n <= n * b
<1>1. PICK d \in Nat : b = a + 1 + d
  <2>1. b - a - 1 \in Nat
    OBVIOUS
  <2> QED
    BY <2>1
<1>2. n * b = n * a + n + n * d /\ n * d \in Nat
  BY <1>1
<1> QED
  BY <1>2

LEMMA DivMod ==
  ASSUME NEW n \in Nat \ {0}, NEW k \in Nat
  PROVE  k = n * (k \div n) + (k % n) /\ k \div n \in Nat /\ k % n \in 0 .. n - 1
OBVIOUS

LEMMA SlotOfNextLap ==
  ASSUME NEW k \in Nat
  PROVE  slot_index(k + Capacity) = slot_index(k)
<1> DEFINE n == Capacity
           q == k \div n
           s == (k + n) \div n
<1>0. n \in Nat \ {0}
  BY MpmcAssumption
<1>1. k = n * q + (k % n) /\ q \in Nat /\ k % n \in 0 .. n - 1
  BY <1>0, DivMod, Zenon
<1>2. k + n = n * s + ((k + n) % n) /\ s \in Nat /\ (k + n) % n \in 0 .. n - 1
  <2>1. k + n \in Nat
    BY <1>0
  <2> QED
    BY <1>0, <2>1, DivMod, Zenon
<1> HIDE DEF n, q, s
<1>3. n * (q + 1) = n * q + n /\ n * q \in Nat /\ n * s \in Nat
  BY <1>0, <1>1, <1>2
<1>4. ~(s < q + 1)
  <2> SUFFICES ASSUME s < q + 1 PROVE FALSE
    OBVIOUS
  <2>1. n * s + n <= n * (q + 1)
    BY <1>0, <1>1, <1>2, Multiples
  <2> QED
    BY <2>1, <1>0, <1>1, <1>2, <1>3
<1>5. ~(q + 1 < s)
  <2> SUFFICES ASSUME q + 1 < s PROVE FALSE
    OBVIOUS
  <2>1. n * (q + 1) + n <= n * s
    BY <1>0, <1>1, <1>2, Multiples
  <2> QED
    BY <2>1, <1>0, <1>1, <1>2, <1>3
<1>6. (k + n) % n = k % n
  <2>1. s = q + 1
    BY <1>1, <1>2, <1>4, <1>5
  <2> QED
    BY <2>1, <1>0, <1>1, <1>2, <1>3
<1> QED
  BY <1>6 DEF slot_index, n

LEMMA NextLap ==
  ASSUME NEW k \in Nat, NEW u \in Nat, slot_index(k) = slot_index(u), k < u
  PROVE  k + Capacity <= u
<1> DEFINE n == Capacity
           q == k \div n
           s == u \div n
<1>0. n \in Nat \ {0} /\ k % n = u % n
  BY MpmcAssumption DEF slot_index
<1>1. k = n * q + (k % n) /\ q \in Nat /\ k % n \in 0 .. n - 1
  BY <1>0, DivMod, Zenon
<1>2. u = n * s + (u % n) /\ s \in Nat
  BY <1>0, DivMod, Zenon
<1> HIDE DEF n, q, s
<1>3. n * q \in Nat /\ n * s \in Nat
  BY <1>0, <1>1, <1>2
<1>4. q < s
  <2>1. q = s => k = u
    BY <1>0, <1>1, <1>2
  <2>2. s < q => n * s + n <= n * q
    BY <1>0, <1>1, <1>2, Multiples
  <2> QED
    BY <2>1, <2>2, <1>0, <1>1, <1>2, <1>3
<1>5. n * q + n <= n * s
  BY <1>0, <1>1, <1>2, <1>4, Multiples
<1>6. k + n <= u
  BY <1>0, <1>1, <1>2, <1>3, <1>5
<1> QED
  BY <1>6 DEF n

LEMMA FirstLap ==
  ASSUME NEW i \in Slots
  PROVE  i \in Nat /\ i < Capacity /\ slot_index(i) = i
BY MpmcAssumption DEF Slots, slot_index

LEMMA LocationsDiffer ==
  /\ EnqueuePos # DequeuePos /\ EnqueuePos # Closed /\ DequeuePos # Closed
  /\ \A i \in Slots :
       /\ Sequence(i) \notin {EnqueuePos, DequeuePos, Closed}
       /\ Value(i) \notin {EnqueuePos, DequeuePos, Closed}
  /\ \A i, j \in Slots :
       /\ Sequence(i) # Value(j)
       /\ i # j => Sequence(i) # Sequence(j) /\ Value(i) # Value(j)
BY DEF EnqueuePos, DequeuePos, Closed, Sequence, Value

-----------------------------------------------------------------------------
(***************************************************************************)
(* What the memory operations do.                                          *)
(***************************************************************************)
LEMMA LatestType ==
  ASSUME MemoryType, NEW x \in Loc
  PROVE  /\ Len(mo[x]) \in Nat \ {0}
         /\ Newest(x) \in Messages(Contents(x))
         /\ Latest(x) \in Contents(x)
         /\ \A k \in 1 .. Len(mo[x]) :
              mo[x][k].val \in Contents(x) /\ mo[x][k].view \in [Loc -> Nat]
<1>1. mo[x] \in Seq(Messages(Contents(x))) /\ mo[x] # <<>>
  BY DEF MemoryType
<1>2. Len(mo[x]) \in Nat \ {0}
  BY <1>1
<1>3. \A k \in 1 .. Len(mo[x]) : mo[x][k] \in Messages(Contents(x))
  BY <1>1
<1> QED
  BY <1>2, <1>3 DEF Newest, Latest, Messages

LEMMA PutFacts ==
  ASSUME MemoryType, NEW t \in Threads, NEW x \in Loc,
         NEW m \in Messages(Contents(x)), Put(t, x, m)
  PROVE  /\ Len(mo'[x]) = Len(mo[x]) + 1
         /\ mo'[x][Len(mo[x]) + 1] = m
         /\ \A k \in 1 .. Len(mo[x]) : mo'[x][k] = mo[x][k]
         /\ \A y \in Loc \ {x} : mo'[y] = mo[y]
         /\ view'[t][x] = Len(mo[x]) + 1
         /\ \A y \in Loc \ {x} : view'[t][y] = view[t][y]
         /\ \A u \in Threads \ {t} : view'[u] = view[u]
<1>1. mo[x] \in Seq(Messages(Contents(x)))
  BY DEF MemoryType
<1>2. mo'[x] = Append(mo[x], m) /\ \A y \in Loc \ {x} : mo'[y] = mo[y]
  BY DEF MemoryType, Put
<1>3. /\ view'[t][x] = Len(mo[x]) + 1
      /\ \A y \in Loc \ {x} : view'[t][y] = view[t][y]
      /\ \A u \in Threads \ {t} : view'[u] = view[u]
  BY DEF MemoryType, Put
<1> QED
  BY <1>1, <1>2, <1>3

\* The messages the stores put at the end of a modification order.
LEMMA StoredMessages ==
  ASSUME MemoryType, NEW t \in Threads, NEW x \in Loc, NEW v \in Contents(x)
  PROVE  /\ Message(v, [view[t] EXCEPT ![x] = Len(mo[x]) + 1])
              \in Messages(Contents(x))
         /\ Message(v, Newest(x).view) \in Messages(Contents(x))
         /\ Message(v, NoView) \in Messages(Contents(x))
<1>1. [view[t] EXCEPT ![x] = Len(mo[x]) + 1] \in [Loc -> Nat]
  BY LatestType DEF MemoryType
<1>2. Newest(x).view \in [Loc -> Nat]
  BY LatestType DEF Messages
<1>3. NoView \in [Loc -> Nat]
  BY DEF NoView, MemoryType
<1> QED
  BY <1>1, <1>2, <1>3 DEF Message, Messages

LEMMA RelaxedFacts ==
  ASSUME MemoryType, NEW t \in Threads, NEW x \in Loc, NEW k \in Readable(t, x),
         LoadRelaxed(t, x, k)
  PROVE  /\ mo' = mo
         /\ view'[t][x] = k
         /\ \A y \in Loc \ {x} : view'[t][y] = view[t][y]
         /\ \A u \in Threads \ {t} : view'[u] = view[u]
BY DEF MemoryType, LoadRelaxed

LEMMA JoinFacts ==
  ASSUME NEW v \in [Loc -> Nat], NEW w \in [Loc -> Nat], NEW y \in Loc
  PROVE  /\ Join(v, w)[y] >= v[y]
         /\ Join(v, w)[y] >= w[y]
         /\ Join(v, w)[y] \in {v[y], w[y]}
BY DEF Join

LEMMA AcquireFacts ==
  ASSUME MemoryType, NEW t \in Threads, NEW x \in Loc, NEW k \in Readable(t, x),
         LoadAcquire(t, x, k)
  PROVE  /\ mo' = mo
         /\ \A u \in Threads \ {t} : view'[u] = view[u]
         /\ \A y \in Loc : view'[t][y] >= mo[x][k].view[y]
         /\ view'[t][x] >= k /\ view'[t][x] \in {k, mo[x][k].view[x]}
         /\ \A y \in Loc \ {x} :
              /\ view'[t][y] >= view[t][y]
              /\ view'[t][y] \in {view[t][y], mo[x][k].view[y]}
<1> DEFINE v == [view[t] EXCEPT ![x] = k]
           w == mo[x][k].view
<1>1. k \in Nat /\ w \in [Loc -> Nat]
  BY ReadableType
<1>2. v \in [Loc -> Nat] /\ v[x] = k /\ \A y \in Loc \ {x} : v[y] = view[t][y]
  BY <1>1 DEF MemoryType
<1>3. /\ mo' = mo /\ view'[t] = Join(v, w)
      /\ \A u \in Threads \ {t} : view'[u] = view[u]
  BY DEF MemoryType, LoadAcquire
<1> HIDE DEF v, w
<1>4. \A y \in Loc : /\ view'[t][y] >= v[y] /\ view'[t][y] >= w[y]
                     /\ view'[t][y] \in {v[y], w[y]}
  BY <1>1, <1>2, <1>3, JoinFacts
<1>5. /\ \A y \in Loc : view'[t][y] >= w[y]
      /\ view'[t][x] >= k /\ view'[t][x] \in {k, w[x]}
      /\ \A y \in Loc \ {x} :
              view'[t][y] >= view[t][y] /\ view'[t][y] \in {view[t][y], w[y]}
  BY <1>2, <1>4
<1> QED
  BY <1>3, <1>5 DEF w

LEMMA JoinThreadFacts ==
  ASSUME MemoryType, NEW t \in Threads, NEW u \in Threads, JoinThread(t, u)
  PROVE  /\ mo' = mo
         /\ \A s \in Threads \ {t} : view'[s] = view[s]
         /\ \A y \in Loc : /\ view'[t][y] >= view[t][y]
                           /\ view'[t][y] >= view[u][y]
                           /\ view'[t][y] \in {view[t][y], view[u][y]}
<1>1. view[t] \in [Loc -> Nat] /\ view[u] \in [Loc -> Nat]
  BY DEF MemoryType
<1>2. /\ mo' = mo /\ view'[t] = Join(view[t], view[u])
      /\ \A s \in Threads \ {t} : view'[s] = view[s]
  BY DEF MemoryType, JoinThread
<1> QED
  BY <1>1, <1>2, JoinFacts

(***************************************************************************)
(* Every step is one memory operation, or leaves the memory alone.         *)
(***************************************************************************)
MemoryStep ==
  \/ UNCHANGED memory
  \/ \E t \in Threads, x \in {EnqueuePos, DequeuePos, Closed} :
       \E k \in Readable(t, x) : LoadRelaxed(t, x, k)
  \/ \E t \in Threads, x \in Loc : \E k \in Readable(t, x) : LoadAcquire(t, x, k)
  \/ \E t \in Threads : StoreRelease(t, Closed, TRUE)
  \/ \E t \in Workers : /\ pc[t] = "publish"
                        /\ \E v \in Nat : StoreRelease(t, Sequence(TicketSlot(t)), v)
  \/ \E t \in Workers, x \in {EnqueuePos, DequeuePos} :
       ExchangeRelaxed(t, x, Latest(x) + 1)
  \/ \E t \in Workers, i \in Slots : \E v \in Items \cup {Empty} :
       Access(t, Value(i), v)
  \/ \E t, u \in Threads : JoinThread(t, u)

LEMMA NextIsMemoryStep == TypeInv /\ [Next]_vars => MemoryStep
<1> SUFFICES ASSUME TypeInv, [Next]_vars PROVE MemoryStep
  OBVIOUS
<1>t. MemoryType /\ LocalType /\ ItemReady
  BY DEF TypeInv, TypeOK
<1>s. \A t \in Threads :
        /\ ticket[t] \in Nat /\ TicketSlot(t) \in Slots
        /\ Pos(t) \in {EnqueuePos, DequeuePos}
  BY <1>t, SlotIndexType DEF LocalType, TicketSlot, Pos
<1>1. CASE \/ \E p \in Producers, o \in PushOps : CallPush(p, o)
           \/ \E c \in Consumers, o \in PopOps : CallPop(c, o)
           \/ \E p \in Producers : EndProducer(p)
           \/ AllDone \/ UNCHANGED vars
  BY <1>1 DEF CallPush, CallPop, EndProducer, AllDone, vars, MemoryStep, memory
<1>2. ASSUME NEW p \in Producers, PushChecksClosed(p) PROVE MemoryStep
  BY <1>2 DEF PushChecksClosed, MemoryStep, Threads
<1>3. ASSUME NEW t \in Workers, AsksClosed(t) \/ PopChecksClosed(t)
      PROVE  MemoryStep
  BY <1>3, Locations DEF AsksClosed, PopChecksClosed, MemoryStep, Threads, Workers
<1>4. ASSUME NEW t \in Workers, LoadsPos(t) \/ CasFails(t) PROVE MemoryStep
  BY <1>4, <1>s DEF LoadsPos, CasFails, MemoryStep, Threads, Workers
<1>5. ASSUME NEW t \in Workers, LoadsSequence(t) PROVE MemoryStep
  BY <1>5, <1>s, Locations DEF LoadsSequence, MemoryStep, Threads, Workers
<1>6. ASSUME NEW t \in Workers, CasSucceeds(t) PROVE MemoryStep
  <2>1. t \in Workers /\ Pos(t) \in {EnqueuePos, DequeuePos}
    BY <1>s DEF Threads, Workers
  <2>2. ExchangeRelaxed(t, Pos(t), Latest(Pos(t)) + 1)
    BY <1>6 DEF CasSucceeds
  <2> QED
    BY <2>1, <2>2, Zenon DEF MemoryStep
<1>7. ASSUME NEW p \in Producers, WritesSlot(p) PROVE MemoryStep
  BY <1>t, <1>7, <1>s DEF WritesSlot, MemoryStep, ItemReady, Threads, Workers
<1>8. ASSUME NEW p \in Producers, PublishesSlot(p) PROVE MemoryStep
  <2>1. p \in Workers /\ HoldsDataOf(ticket[p]) \in Nat
    BY <1>s DEF Threads, Workers, HoldsDataOf, FreeFor
  <2> QED
    BY <1>8, <2>1 DEF PublishesSlot, MemoryStep
<1>9. ASSUME NEW c \in Consumers, MovesOut(c) PROVE MemoryStep
  BY <1>9, <1>s DEF MovesOut, MemoryStep, Threads, Workers
<1>10. ASSUME NEW c \in Consumers, FreesSlot(c) PROVE MemoryStep
  <2>1. c \in Workers /\ FreeFor(ticket[c] + Capacity) \in Nat
    BY <1>s, MpmcAssumption DEF Threads, Workers, FreeFor
  <2> QED
    BY <1>10, <2>1 DEF FreesSlot, MemoryStep
<1>11. ASSUME NEW t \in Workers, Joins(t) PROVE MemoryStep
  BY <1>11 DEF Joins, MemoryStep, Threads, Workers
<1>12. CASE close
  BY <1>12 DEF close, MemoryStep, Threads
<1>13. CASE size
  BY <1>13 DEF size, SizeLoadsTail, SizeLoadsHead, MemoryStep, Threads
<1> QED
  BY <1>1, <1>2, <1>3, <1>4, <1>5, <1>6, <1>7, <1>8, <1>9, <1>10, <1>11, <1>12,
     <1>13
  DEF Next, Producer, Consumer, MainThread, try_enqueue, try_dequeue, Workers

-----------------------------------------------------------------------------
(***************************************************************************)
(* First layer: no view is ahead of the modification orders, and a message *)
(* knows no later message of its own location.                             *)
(***************************************************************************)
Known(v) == \A y \in Loc : v[y] <= Len(mo[y])

ViewsKnown ==
  /\ \A t \in Threads : Known(view[t])
  /\ \A x \in Loc : \A k \in 1 .. Len(mo[x]) :
       Known(mo[x][k].view) /\ mo[x][k].view[x] <= k

LEMMA PutKnown ==
  ASSUME MemoryType, ViewsKnown, NEW t \in Threads, NEW x \in Loc,
         NEW m \in Messages(Contents(x)), Put(t, x, m),
         m.view[x] <= Len(mo[x]) + 1,
         \A y \in Loc \ {x} : m.view[y] <= Len(mo[y])
  PROVE  ViewsKnown'
<1>0. \A y \in Loc : Len(mo[y]) \in Nat
  BY LatestType
<1>1. /\ Len(mo'[x]) = Len(mo[x]) + 1
      /\ mo'[x][Len(mo[x]) + 1] = m
      /\ \A k \in 1 .. Len(mo[x]) : mo'[x][k] = mo[x][k]
      /\ \A y \in Loc \ {x} : mo'[y] = mo[y]
  BY PutFacts
<1>2. /\ view'[t][x] = Len(mo[x]) + 1
      /\ \A y \in Loc \ {x} : view'[t][y] = view[t][y]
      /\ \A u \in Threads \ {t} : view'[u] = view[u]
  BY PutFacts
<1>3. \A u \in Threads : \A y \in Loc : view[u][y] \in Nat /\ view[u][y] <= Len(mo[y])
  BY DEF ViewsKnown, Known, MemoryType
<1>4. \A u \in Threads : \A y \in Loc : view'[u][y] <= Len(mo'[y])
  BY <1>0, <1>1, <1>2, <1>3
<1>5. \A z \in Loc : \A k \in 1 .. Len(mo[z]) :
        /\ mo[z][k].view[z] <= k
        /\ \A y \in Loc : mo[z][k].view[y] \in Nat /\ mo[z][k].view[y] <= Len(mo[y])
  BY LatestType DEF ViewsKnown, Known
<1>6. ASSUME NEW z \in Loc, NEW k \in 1 .. Len(mo'[z])
      PROVE  /\ mo'[z][k].view[z] <= k
             /\ \A y \in Loc : mo'[z][k].view[y] <= Len(mo'[y])
  <2>1. CASE z = x /\ k = Len(mo[x]) + 1
    BY <1>0, <1>1, <2>1
  <2>2. CASE ~(z = x /\ k = Len(mo[x]) + 1)
    <3>1. k \in 1 .. Len(mo[z]) /\ mo'[z][k] = mo[z][k]
      BY <1>0, <1>1, <2>2
    <3>2. /\ mo[z][k].view[z] <= k
          /\ \A y \in Loc : mo[z][k].view[y] \in Nat /\ mo[z][k].view[y] <= Len(mo[y])
      BY <1>5, <3>1, Zenon
    <3>3. ASSUME NEW y \in Loc PROVE mo[z][k].view[y] <= Len(mo'[y])
      <4>1. Len(mo'[y]) = Len(mo[y]) \/ Len(mo'[y]) = Len(mo[y]) + 1
        BY <1>1
      <4> QED
        BY <1>0, <3>2, <4>1
    <3> QED
      BY <3>1, <3>2, <3>3, Zenon
  <2> QED
    BY <2>1, <2>2
<1> QED
  BY <1>4, <1>6 DEF ViewsKnown, Known

\* Every location starts with one message, which knows the first messages.
LEMMA InitialMessages ==
  ASSUME Init, NEW x \in Loc
  PROVE  /\ Len(mo[x]) = 1
         /\ mo[x][1].val = InitialValue(x) /\ Latest(x) = InitialValue(x)
         /\ mo[x][1].view = [y \in Loc |-> 1]
<1> DEFINE m == Message(InitialValue(x), [y \in Loc |-> 1])
<1>1. mo[x] = <<m>>
  BY DEF Init
<1>2. m.val = InitialValue(x) /\ m.view = [y \in Loc |-> 1]
  BY DEF Message
<1> HIDE DEF m
<1>3. Len(mo[x]) = 1 /\ mo[x][1] = m
  BY <1>1
<1> QED
  BY <1>2, <1>3 DEF Latest, Newest

LEMMA ViewsKnownInit == Init => ViewsKnown
<1> SUFFICES ASSUME Init PROVE ViewsKnown
  OBVIOUS
<1>2. \A x \in Loc : Len(mo[x]) = 1 /\ mo[x][1].view = [y \in Loc |-> 1]
  BY InitialMessages
<1>3. \A t \in Threads : view[t] = [y \in Loc |-> 1]
  BY DEF Init
<1> QED
  BY <1>2, <1>3 DEF ViewsKnown, Known

LEMMA ViewsKnownStep == TypeInv /\ ViewsKnown /\ [Next]_vars => ViewsKnown'
<1> SUFFICES ASSUME TypeInv, ViewsKnown, MemoryStep PROVE ViewsKnown'
  BY NextIsMemoryStep
<1>t. MemoryType
  BY DEF TypeInv, TypeOK
<1>0. \A y \in Loc : Len(mo[y]) \in Nat \ {0}
  BY <1>t, LatestType
<1>v. \A u \in Threads : \A y \in Loc : view[u][y] \in Nat /\ view[u][y] <= Len(mo[y])
  BY <1>t DEF ViewsKnown, Known, MemoryType
<1>m. \A z \in Loc : \A k \in 1 .. Len(mo[z]) :
        /\ mo[z][k].view[z] <= k
        /\ \A y \in Loc : mo[z][k].view[y] \in Nat /\ mo[z][k].view[y] <= Len(mo[y])
  BY <1>t, LatestType DEF ViewsKnown, Known
<1>1. CASE UNCHANGED memory
  BY <1>1 DEF memory, ViewsKnown, Known
<1>2. ASSUME NEW t \in Threads, NEW x \in Loc, NEW k \in Readable(t, x),
             LoadRelaxed(t, x, k)
      PROVE  ViewsKnown'
  <2>1. k <= Len(mo[x])
    BY <1>t, <1>0, ReadableType
  <2>2. /\ mo' = mo /\ view'[t][x] = k
        /\ \A y \in Loc \ {x} : view'[t][y] = view[t][y]
        /\ \A u \in Threads \ {t} : view'[u] = view[u]
    BY <1>t, <1>2, RelaxedFacts
  <2>3. \A u \in Threads : \A y \in Loc : view'[u][y] <= Len(mo'[y])
    BY <1>v, <2>1, <2>2
  <2> QED
    BY <2>2, <2>3 DEF ViewsKnown, Known
<1>3. ASSUME NEW t \in Threads, NEW x \in Loc, NEW k \in Readable(t, x),
             LoadAcquire(t, x, k)
      PROVE  ViewsKnown'
  <2>1. k \in 1 .. Len(mo[x])
    BY <1>t, ReadableType
  <2>2. /\ mo' = mo
        /\ \A u \in Threads \ {t} : view'[u] = view[u]
        /\ view'[t][x] \in {k, mo[x][k].view[x]}
        /\ \A y \in Loc \ {x} : view'[t][y] \in {view[t][y], mo[x][k].view[y]}
    BY <1>t, <1>3, AcquireFacts
  <2>3. \A y \in Loc : view'[t][y] <= Len(mo[y])
    BY <1>0, <1>v, <1>m, <2>1, <2>2
  <2>4. \A u \in Threads : \A y \in Loc : view'[u][y] <= Len(mo'[y])
    BY <1>v, <2>2, <2>3
  <2> QED
    BY <2>2, <2>4 DEF ViewsKnown, Known
<1>4. ASSUME NEW t \in Threads, NEW x \in Loc, NEW v \in Contents(x),
             StoreRelease(t, x, v)
      PROVE  ViewsKnown'
  <2> DEFINE w == [view[t] EXCEPT ![x] = Len(mo[x]) + 1]
  <2>1. w[x] = Len(mo[x]) + 1 /\ \A y \in Loc \ {x} : w[y] <= Len(mo[y])
    BY <1>t, <1>v DEF MemoryType
  <2>2. Message(v, w) \in Messages(Contents(x)) /\ Message(v, w).view = w
    BY <1>t, StoredMessages DEF Message
  <2>3. w[x] <= Len(mo[x]) + 1
    BY <1>0, <2>1
  <2>4. Put(t, x, Message(v, w))
    BY <1>4 DEF StoreRelease
  <2> HIDE DEF w
  <2> QED
    BY <1>t, <2>1, <2>2, <2>3, <2>4, PutKnown
<1>5. ASSUME NEW t \in Threads, NEW x \in Loc, NEW v \in Contents(x),
             ExchangeRelaxed(t, x, v)
      PROVE  ViewsKnown'
  <2> DEFINE w == Newest(x).view
  <2>1. w[x] <= Len(mo[x]) + 1 /\ \A y \in Loc \ {x} : w[y] <= Len(mo[y])
    BY <1>0, <1>m DEF Newest
  <2>2. Message(v, w) \in Messages(Contents(x)) /\ Message(v, w).view = w
    BY <1>t, StoredMessages DEF Message
  <2>3. Put(t, x, Message(v, w))
    BY <1>5 DEF ExchangeRelaxed
  <2> HIDE DEF w
  <2> QED
    BY <1>t, <2>1, <2>2, <2>3, PutKnown
<1>6. ASSUME NEW t \in Threads, NEW x \in Loc, NEW v \in Contents(x),
             Access(t, x, v)
      PROVE  ViewsKnown'
  <2>1. \A y \in Loc : NoView[y] = 0
    BY <1>t DEF NoView, MemoryType
  <2>2. Message(v, NoView) \in Messages(Contents(x)) /\ Message(v, NoView).view = NoView
    BY <1>t, StoredMessages DEF Message
  <2>3. NoView[x] <= Len(mo[x]) + 1 /\ \A y \in Loc \ {x} : NoView[y] <= Len(mo[y])
    BY <1>0, <2>1
  <2> QED
    BY <1>t, <1>6, <2>2, <2>3, PutKnown DEF Access
<1>7. ASSUME NEW t \in Threads, NEW u \in Threads, JoinThread(t, u)
      PROVE  ViewsKnown'
  <2>1. /\ mo' = mo
        /\ \A s \in Threads \ {t} : view'[s] = view[s]
        /\ \A y \in Loc : view'[t][y] \in {view[t][y], view[u][y]}
    BY <1>t, <1>7, JoinThreadFacts
  <2>2. \A s \in Threads : \A y \in Loc : view'[s][y] <= Len(mo'[y])
    BY <1>v, <2>1
  <2> QED
    BY <2>1, <2>2 DEF ViewsKnown, Known
<1>8. \A t \in Workers : t \in Threads /\ TicketSlot(t) \in Slots
  BY SlotIndexType DEF TypeInv, TypeOK, LocalType, TicketSlot, Threads, Workers
<1>9. \A x \in {EnqueuePos, DequeuePos} : Latest(x) + 1 \in Contents(x)
  <2>1. Latest(EnqueuePos) \in Nat /\ Latest(DequeuePos) \in Nat
    BY <1>t, LatestType, Locations
  <2> QED
    BY <2>1, Locations
<1> QED
  BY <1>1, <1>2, <1>3, <1>4, <1>5, <1>6, <1>7, <1>8, <1>9, Locations DEF MemoryStep

-----------------------------------------------------------------------------
(***************************************************************************)
(* Second layer: a position counts its own changes.                        *)
(***************************************************************************)
TicketsInOrder ==
  \A x \in {EnqueuePos, DequeuePos} :
    \A k \in 1 .. Len(mo[x]) : mo[x][k].val = k - 1

LEMMA TicketsInOrderInit == Init => TicketsInOrder
<1> SUFFICES ASSUME Init, NEW x \in {EnqueuePos, DequeuePos}
             PROVE  \A k \in 1 .. Len(mo[x]) : mo[x][k].val = k - 1
  BY DEF TicketsInOrder
<1>1. x \in Loc /\ InitialValue(x) = 0
  <2>1. InitialValue(EnqueuePos) = 0 /\ InitialValue(DequeuePos) = 0
    BY DEF InitialValue, EnqueuePos, DequeuePos
  <2> QED
    BY <2>1, Locations
<1>2. Len(mo[x]) = 1 /\ mo[x][1].val = 0
  BY <1>1, InitialMessages
<1> QED
  BY <1>2

LEMMA TicketsInOrderStep ==
  TypeInv /\ TicketsInOrder /\ [Next]_vars => TicketsInOrder'
<1> SUFFICES ASSUME TypeInv, TicketsInOrder, MemoryStep,
                    NEW x \in {EnqueuePos, DequeuePos}
             PROVE  \A k \in 1 .. Len(mo'[x]) : mo'[x][k].val = k - 1
  BY NextIsMemoryStep DEF TicketsInOrder
<1>t. MemoryType
  BY DEF TypeInv, TypeOK
<1>x. x \in Loc /\ Contents(x) = Nat
  BY Locations
<1>0. Len(mo[x]) \in Nat \ {0} /\ \A k \in 1 .. Len(mo[x]) : mo[x][k].val = k - 1
  BY <1>t, <1>x, LatestType DEF TicketsInOrder
<1>w. \A t \in Workers : t \in Threads /\ TicketSlot(t) \in Slots
  BY SlotIndexType DEF TypeInv, TypeOK, LocalType, TicketSlot, Threads, Workers
<1>1. CASE mo'[x] = mo[x]
  BY <1>0, <1>1
<1>2. ASSUME NEW t \in Workers, ExchangeRelaxed(t, x, Latest(x) + 1)
      PROVE  \A k \in 1 .. Len(mo'[x]) : mo'[x][k].val = k - 1
  <2> DEFINE m == Message(Latest(x) + 1, Newest(x).view)
  <2>1. Latest(x) = Len(mo[x]) - 1
    BY <1>0 DEF Latest, Newest
  <2>2. m \in Messages(Contents(x)) /\ m.val = Len(mo[x])
    <3>1. t \in Threads /\ Latest(x) + 1 \in Contents(x)
      BY <1>w, <1>x, <1>0, <2>1
    <3>2. m \in Messages(Contents(x))
      BY <1>t, <1>x, <3>1, StoredMessages
    <3>3. m.val = Latest(x) + 1
      BY DEF Message
    <3> QED
      BY <1>0, <2>1, <3>2, <3>3
  <2>3. Put(t, x, m)
    BY <1>2 DEF ExchangeRelaxed
  <2> HIDE DEF m
  <2>4. /\ Len(mo'[x]) = Len(mo[x]) + 1
        /\ mo'[x][Len(mo[x]) + 1] = m
        /\ \A k \in 1 .. Len(mo[x]) : mo'[x][k] = mo[x][k]
    <3>1. t \in Threads /\ x \in Loc /\ m \in Messages(Contents(x)) /\ Put(t, x, m)
      BY <1>w, <1>x, <2>2, <2>3
    <3> QED
      BY <1>t, <3>1, PutFacts
  <2> SUFFICES ASSUME NEW k \in 1 .. Len(mo'[x]) PROVE mo'[x][k].val = k - 1
    OBVIOUS
  <2>5. CASE k = Len(mo[x]) + 1
    BY <1>0, <2>2, <2>4, <2>5
  <2>6. CASE k # Len(mo[x]) + 1
    <3>1. k \in 1 .. Len(mo[x])
      BY <1>0, <2>4, <2>6
    <3> QED
      BY <1>0, <2>4, <3>1, Zenon
  <2> QED
    BY <2>5, <2>6
<1>3. ASSUME NEW t \in Threads, NEW y \in Loc \ {x}, NEW m, Put(t, y, m)
      PROVE  mo'[x] = mo[x]
  BY <1>t, <1>x, <1>3 DEF Put, MemoryType
<1> QED
  BY <1>1, <1>2, <1>3, <1>w, Locations, LocationsDiffer
  DEF MemoryStep, memory, LoadRelaxed, LoadAcquire, JoinThread, StoreRelease,
      ExchangeRelaxed, Access

-----------------------------------------------------------------------------
(***************************************************************************)
(* Third layer: who is in which slot, and what the sequences say of it.    *)
(***************************************************************************)
\* A ticket in hand was read from its position; one that was won is past.
TicketsHandedOut ==
  \A t \in Workers :
    /\ pc[t] \in {"seq", "cas"} => ticket[t] <= Latest(Pos(t))
    /\ InSlot(t) => ticket[t] < Latest(Pos(t))

TicketsDiffer ==
  \A t, u \in Workers :
    InSlot(t) /\ InSlot(u) /\ Pos(t) = Pos(u) /\ t # u => ticket[t] # ticket[u]

\* At most Capacity tickets separate the two positions.
WithinCapacity == Dequeued <= Enqueued /\ Enqueued <= Dequeued + Capacity

\* v says of slot i that it is free for, or holds the data of, a ticket of its
\* own that the other side's position licenses.
SlotState(i, v) ==
  \E k \in Nat :
    /\ slot_index(k) = i
    /\ \/ v = FreeFor(k) /\ k < Dequeued + Capacity
       \/ v = HoldsDataOf(k) /\ k < Enqueued

SlotStates == \A i \in Slots : SlotState(i, Latest(Sequence(i)))

SequencesGrow ==
  \A i \in Slots : \A k \in 1 .. Len(mo[Sequence(i)]) - 1 :
    mo[Sequence(i)][k].val < Latest(Sequence(i))

\* A thread about to race for its ticket has seen its slot ready.
SeenReady ==
  \A t \in Workers : pc[t] = "cas" =>
    LET x == Sequence(TicketSlot(t)) IN mo[x][view[t][x]].val = Expected(t)

\* A thread in a slot finds the sequence that is its turn.
InTurn ==
  \A t \in Workers : InSlot(t) => Latest(Sequence(TicketSlot(t))) = Expected(t)

Protocol ==
  /\ TicketsHandedOut
  /\ TicketsDiffer
  /\ WithinCapacity
  /\ SlotStates
  /\ SequencesGrow
  /\ SeenReady
  /\ InTurn
  /\ StoresInOrder

\* The threads between the load of a position and the end of their attempt.
Attempting(t) == pc[t] \in {"seq", "cas", "slot", "publish"}

LEMMA WorkerTypes ==
  ASSUME TypeInv, NEW t \in Workers
  PROVE  /\ t \in Threads /\ ticket[t] \in Nat /\ TicketSlot(t) \in Slots
         /\ Expected(t) \in Nat
         /\ Pos(t) \in {EnqueuePos, DequeuePos} /\ Pos(t) \in Loc
         /\ Latest(Pos(t)) \in Nat
<1>1. t \in Threads /\ ticket[t] \in Nat
  BY DEF TypeInv, TypeOK, LocalType, Threads, Workers
<1>2. Expected(t) \in Nat
  BY <1>1 DEF Expected, HoldsDataOf, FreeFor
<1>3. Pos(t) \in {EnqueuePos, DequeuePos} /\ Pos(t) \in Loc /\ Contents(Pos(t)) = Nat
  BY Locations DEF Pos
<1>4. Latest(Pos(t)) \in Nat
  BY <1>3, LatestType DEF TypeInv, TypeOK
<1> QED
  BY <1>1, <1>2, <1>3, <1>4, SlotIndexType DEF TicketSlot

LEMMA SequenceTypes ==
  ASSUME TypeInv, NEW i \in Slots
  PROVE  /\ Sequence(i) \in Loc /\ Len(mo[Sequence(i)]) \in Nat \ {0}
         /\ Latest(Sequence(i)) \in Nat
         /\ \A k \in 1 .. Len(mo[Sequence(i)]) : mo[Sequence(i)][k].val \in Nat
BY LatestType, Locations DEF TypeInv, TypeOK

LEMMA PositionTypes ==
  ASSUME TypeInv
  PROVE  Enqueued \in Nat /\ Dequeued \in Nat
BY LatestType, Locations DEF TypeInv, TypeOK, Enqueued, Dequeued

(***************************************************************************)
(* The heart of the protocol.  While a ticket is the position of its side, *)
(* the sequence of its slot has not passed what the ticket's owner expects *)
(* of it: to pass it, a thread of its side must have won the ticket, or    *)
(* the other side be more than a lap away.                                 *)
(***************************************************************************)
LEMMA NotPassed ==
  ASSUME TypeInv, WithinCapacity, SlotStates,
         NEW t \in Workers, ticket[t] = Latest(Pos(t))
  PROVE  Latest(Sequence(TicketSlot(t))) <= Expected(t)
<1> DEFINE i == TicketSlot(t)
           k == ticket[t]
<1>1. k \in Nat /\ i \in Slots /\ i = slot_index(k)
  BY WorkerTypes DEF TicketSlot
<1>2. Enqueued \in Nat /\ Dequeued \in Nat /\ Capacity \in Nat \ {0}
  BY PositionTypes, MpmcAssumption
<1>3. PICK u \in Nat :
        /\ slot_index(u) = i
        /\ \/ Latest(Sequence(i)) = FreeFor(u) /\ u < Dequeued + Capacity
           \/ Latest(Sequence(i)) = HoldsDataOf(u) /\ u < Enqueued
  BY <1>1 DEF SlotStates, SlotState
<1>4. k < u => k + Capacity <= u
  BY <1>1, <1>3, NextLap
<1>5. Dequeued <= Enqueued /\ Enqueued <= Dequeued + Capacity
  BY DEF WithinCapacity
<1> HIDE DEF i, k
<1>6. CASE t \in Producers
  <2>1. k = Enqueued /\ Expected(t) = FreeFor(k)
    BY <1>6 DEF Pos, Enqueued, Expected, k
  <2>2. Latest(Sequence(i)) <= FreeFor(k)
    BY <1>1, <1>2, <1>3, <1>4, <1>5, <2>1 DEF FreeFor, HoldsDataOf
  <2> QED
    BY <2>1, <2>2 DEF i
<1>7. CASE t \notin Producers
  <2>1. k = Dequeued /\ Expected(t) = HoldsDataOf(k)
    BY <1>7 DEF Pos, Dequeued, Expected, k
  <2>2. Latest(Sequence(i)) <= HoldsDataOf(k)
    BY <1>1, <1>2, <1>3, <1>4, <1>5, <2>1 DEF FreeFor, HoldsDataOf
  <2> QED
    BY <2>1, <2>2 DEF i
<1> QED
  BY <1>6, <1>7

\* A thread in a slot is alone there.
LEMMA AloneInSlot ==
  ASSUME TypeInv, TicketsDiffer, InTurn, NEW t \in Workers, NEW u \in Workers,
         InSlot(t), InSlot(u), t # u
  PROVE  TicketSlot(t) # TicketSlot(u)
<1> SUFFICES ASSUME TicketSlot(t) = TicketSlot(u) PROVE FALSE
  OBVIOUS
<1>1. Expected(t) = Expected(u)
  BY DEF InTurn
<1>2. ticket[t] \in Nat /\ ticket[u] \in Nat
  BY WorkerTypes
<1>3. (t \in Producers <=> u \in Producers) /\ ticket[t] = ticket[u]
  BY <1>1, <1>2 DEF Expected, FreeFor, HoldsDataOf
<1>4. Pos(t) = Pos(u)
  BY <1>3 DEF Pos
<1> QED
  BY <1>3, <1>4 DEF TicketsDiffer

LEMMA ProtocolInit == Init => Protocol
<1> SUFFICES ASSUME Init PROVE Protocol
  OBVIOUS
<1>1. \A t \in Workers : pc[t] = "idle"
  BY DEF Init, Threads, Workers
<1>2. Enqueued = 0 /\ Dequeued = 0
  <2>1. InitialValue(EnqueuePos) = 0 /\ InitialValue(DequeuePos) = 0
    BY DEF InitialValue, EnqueuePos, DequeuePos
  <2> QED
    BY <2>1, InitialMessages, Locations DEF Enqueued, Dequeued
<1>3. \A i \in Slots : Len(mo[Sequence(i)]) = 1 /\ Latest(Sequence(i)) = FreeFor(i)
  <2>1. \A i \in Slots : InitialValue(Sequence(i)) = FreeFor(i)
    BY DEF InitialValue, Sequence
  <2> QED
    BY <2>1, InitialMessages, Locations
<1>4. TicketsHandedOut /\ TicketsDiffer /\ SeenReady /\ InTurn /\ StoresInOrder
  BY <1>1 DEF TicketsHandedOut, TicketsDiffer, SeenReady, InTurn, StoresInOrder, InSlot
<1>5. WithinCapacity
  BY <1>2, MpmcAssumption DEF WithinCapacity
<1>6. SlotStates
  <2> SUFFICES ASSUME NEW i \in Slots PROVE SlotState(i, FreeFor(i))
    BY <1>3 DEF SlotStates
  <2>1. i \in Nat /\ slot_index(i) = i /\ i < Dequeued + Capacity
    BY <1>2, FirstLap, MpmcAssumption
  <2> QED
    BY <2>1 DEF SlotState
<1>7. SequencesGrow
  <2> SUFFICES ASSUME NEW i \in Slots, NEW k \in 1 .. Len(mo[Sequence(i)]) - 1
               PROVE  FALSE
    BY DEF SequencesGrow
  <2>1. Len(mo[Sequence(i)]) = 1
    BY <1>3
  <2> QED
    BY <2>1
<1> QED
  BY <1>4, <1>5, <1>6, <1>7 DEF Protocol

(***************************************************************************)
(* The steps outside an attempt: they touch no position, sequence or slot, *)
(* and no thread that is in an attempt.                                    *)
(***************************************************************************)
OutsideStep ==
  /\ \A x \in Loc \ {Closed} : mo'[x] = mo[x]
  /\ \A t \in Workers :
       /\ ticket'[t] = ticket[t]
       /\ Attempting(t) \/ Attempting(t)' => pc'[t] = pc[t] /\ view'[t] = view[t]

ClientStep ==
  \/ \E p \in Producers : \/ \E o \in PushOps : CallPush(p, o)
                          \/ EndProducer(p) \/ PushChecksClosed(p) \/ AsksClosed(p)
  \/ \E c \in Consumers : (\E o \in PopOps : CallPop(c, o)) \/ PopChecksClosed(c)
  \/ MainThread \/ AllDone \/ UNCHANGED vars

LEMMA ClientStepOutside ==
  ASSUME TypeInv, ClientStep
  PROVE  OutsideStep
<1>t. MemoryType /\ LocalType
  BY DEF TypeInv, TypeOK
<1>m. Main \notin Workers /\ \A t \in Workers : t \in Threads
  BY MpmcAssumption DEF Workers, Threads
<1>1. ASSUME NEW p \in Producers, NEW o, CallPush(p, o) PROVE OutsideStep
  BY <1>t, <1>m, <1>1
  DEF CallPush, Goto, OutsideStep, Attempting, memory, LocalType, Threads
<1>2. ASSUME NEW p \in Producers, EndProducer(p) PROVE OutsideStep
  BY <1>t, <1>m, <1>2
  DEF EndProducer, Goto, OutsideStep, Attempting, memory, LocalType, Threads
<1>3. ASSUME NEW p \in Producers, PushChecksClosed(p) PROVE OutsideStep
  <2>1. PICK k \in Readable(p, Closed) :
          /\ LoadRelaxed(p, Closed, k)
          /\ Goto(p, IF ~mo[Closed][k].val THEN "pos"
                     ELSE IF op[p] = "push" THEN "done" ELSE "asks")
    BY <1>3 DEF PushChecksClosed
  <2>2. mo' = mo /\ \A u \in Threads \ {p} : view'[u] = view[u]
    BY <1>t, <2>1 DEF LoadRelaxed, MemoryType
  <2>3. /\ pc[p] = "closed" /\ pc'[p] \in {"pos", "done", "asks"}
        /\ ticket' = ticket /\ \A u \in Threads \ {p} : pc'[u] = pc[u]
    BY <1>t, <1>3, <2>1 DEF PushChecksClosed, Goto, LocalType, Threads
  <2> QED
    BY <1>m, <2>2, <2>3 DEF OutsideStep, Attempting
<1>4. ASSUME NEW t \in Workers, AsksClosed(t) \/ PopChecksClosed(t)
      PROVE  OutsideStep
  <2>1. PICK k \in Readable(t, Closed) : LoadAcquire(t, Closed, k)
    BY <1>4 DEF AsksClosed, PopChecksClosed
  <2>2. mo' = mo /\ \A u \in Threads \ {t} : view'[u] = view[u]
    BY <1>t, <2>1 DEF LoadAcquire, MemoryType
  <2>3. /\ pc[t] \in {"closed", "asks"} /\ pc'[t] \in {"pos", "done", "idle"}
        /\ ticket' = ticket /\ \A u \in Threads \ {t} : pc'[u] = pc[u]
    BY <1>t, <1>m, <1>4 DEF AsksClosed, PopChecksClosed, Goto, LocalType
  <2> QED
    BY <1>m, <2>2, <2>3 DEF OutsideStep, Attempting
<1>5. ASSUME NEW c \in Consumers, NEW o, CallPop(c, o) PROVE OutsideStep
  BY <1>t, <1>m, <1>5
  DEF CallPop, Goto, OutsideStep, Attempting, memory, LocalType, Threads
<1>6. ASSUME NEW t \in Workers, Joins(t) PROVE OutsideStep
  <2>1. mo' = mo /\ \A u \in Threads \ {Main} : view'[u] = view[u]
    BY <1>t, <1>6 DEF Joins, JoinThread, MemoryType
  <2>2. pc' = pc /\ ticket' = ticket
    BY <1>6 DEF Joins, local
  <2> QED
    BY <1>m, <2>1, <2>2 DEF OutsideStep
<1>7. CASE close
  <2>1. /\ \A x \in Loc \ {Closed} : mo'[x] = mo[x]
        /\ \A u \in Threads \ {Main} : view'[u] = view[u]
    BY <1>t, <1>7 DEF close, StoreRelease, Put, MemoryType
  <2>2. pc' = pc /\ ticket' = ticket
    BY <1>7 DEF close, local
  <2> QED
    BY <1>m, <2>1, <2>2 DEF OutsideStep
<1>8. CASE size
  <2>1. mo' = mo /\ \A u \in Threads \ {Main} : view'[u] = view[u]
    BY <1>t, <1>8 DEF size, SizeLoadsTail, SizeLoadsHead, LoadRelaxed, MemoryType
  <2>2. \A u \in Threads \ {Main} : pc'[u] = pc[u] /\ ticket'[u] = ticket[u]
    BY <1>t, <1>8 DEF size, SizeLoadsTail, SizeLoadsHead, Goto, LocalType
  <2> QED
    BY <1>m, <2>1, <2>2 DEF OutsideStep
<1>9. CASE AllDone \/ UNCHANGED vars
  BY <1>9 DEF AllDone, vars, memory, local, OutsideStep
<1> QED
  BY <1>1, <1>2, <1>3, <1>4, <1>5, <1>6, <1>7, <1>8, <1>9
  DEF ClientStep, MainThread, Workers

(***************************************************************************)
(* These steps, and the plain accesses to a slot by the thread that is in  *)
(* it, are quiet: positions and sequences stay, and so does all that is    *)
(* said of the threads in an attempt.                                      *)
(***************************************************************************)
QuietStep ==
  /\ \A x \in {EnqueuePos, DequeuePos} : mo'[x] = mo[x]
  /\ \A i \in Slots : mo'[Sequence(i)] = mo[Sequence(i)]
  /\ \A t \in Workers :
       /\ ticket'[t] = ticket[t]
       /\ Attempting(t)' =>
            /\ pc'[t] = pc[t] \/ (InSlot(t) /\ InSlot(t)')
            /\ \A i \in Slots : view'[t][Sequence(i)] = view[t][Sequence(i)]

LEMMA OutsideIsQuiet ==
  ASSUME OutsideStep
  PROVE  QuietStep
BY Locations, LocationsDiffer DEF OutsideStep, QuietStep

LEMMA AccessIsQuiet ==
  ASSUME TypeInv, NEW t \in Workers, WritesSlot(t) \/ MovesOut(t)
  PROVE  QuietStep
<1>t. MemoryType /\ LocalType
  BY DEF TypeInv, TypeOK
<1>w. TicketSlot(t) \in Slots /\ \A u \in Workers : u \in Threads
  BY WorkerTypes
<1>1. /\ \A y \in Loc \ {Value(TicketSlot(t))} : mo'[y] = mo[y]
      /\ \A y \in Loc \ {Value(TicketSlot(t))} : view'[t][y] = view[t][y]
      /\ \A u \in Threads \ {t} : view'[u] = view[u]
  BY <1>t, <1>w DEF WritesSlot, MovesOut, Access, Put, MemoryType
<1>2. /\ ticket' = ticket /\ pc[t] = "slot" /\ pc'[t] = "publish"
      /\ \A u \in Workers \ {t} : pc'[u] = pc[u]
  BY <1>t, <1>w DEF WritesSlot, MovesOut, Goto, LocalType
<1>3. /\ \A x \in {EnqueuePos, DequeuePos} : mo'[x] = mo[x]
      /\ \A i \in Slots : mo'[Sequence(i)] = mo[Sequence(i)]
      /\ \A i \in Slots, u \in Workers : view'[u][Sequence(i)] = view[u][Sequence(i)]
  BY <1>w, <1>1, Locations, LocationsDiffer
<1> QED
  BY <1>2, <1>3 DEF QuietStep, InSlot

LEMMA ProtocolQuiet ==
  ASSUME TypeInv, Protocol, QuietStep
  PROVE  Protocol'
<1>0. /\ \A x \in {EnqueuePos, DequeuePos} : mo'[x] = mo[x]
      /\ \A i \in Slots : mo'[Sequence(i)] = mo[Sequence(i)]
  BY DEF QuietStep
<1>1. /\ Enqueued' = Enqueued /\ Dequeued' = Dequeued
      /\ \A i \in Slots : Latest(Sequence(i))' = Latest(Sequence(i))
      /\ \A t \in Workers : Latest(Pos(t))' = Latest(Pos(t))
  BY <1>0 DEF Enqueued, Dequeued, Latest, Newest, Pos
<1>2. ASSUME NEW t \in Workers
      PROVE  /\ ticket'[t] = ticket[t] /\ TicketSlot(t)' = TicketSlot(t)
             /\ Expected(t)' = Expected(t)
             /\ TicketSlot(t) \in Slots
             /\ Attempting(t)' =>
                  /\ pc'[t] = pc[t] \/ (InSlot(t) /\ InSlot(t)')
                  /\ \A i \in Slots : view'[t][Sequence(i)] = view[t][Sequence(i)]
  BY WorkerTypes DEF QuietStep, TicketSlot, Expected
<1>3. \A t \in Workers :
        InSlot(t)' => InSlot(t) /\ \A i \in Slots : view'[t][Sequence(i)] = view[t][Sequence(i)]
  BY <1>2 DEF InSlot, Attempting
<1>4. TicketsHandedOut'
  BY <1>1, <1>2, <1>3 DEF Protocol, TicketsHandedOut, Attempting, InSlot
<1>5. TicketsDiffer'
  BY <1>2, <1>3 DEF Protocol, TicketsDiffer, Pos
<1>6. WithinCapacity'
  BY <1>1 DEF Protocol, WithinCapacity
<1>7. SlotStates'
  BY <1>1 DEF Protocol, SlotStates, SlotState
<1>8. SequencesGrow'
  BY <1>0, <1>1 DEF Protocol, SequencesGrow
<1>9. SeenReady'
  <2> SUFFICES ASSUME NEW t \in Workers, pc'[t] = "cas"
               PROVE  (LET x == Sequence(TicketSlot(t))
                       IN  mo[x][view[t][x]].val = Expected(t))'
    BY DEF SeenReady
  <2>1. pc[t] = "cas" /\ \A i \in Slots : view'[t][Sequence(i)] = view[t][Sequence(i)]
    BY <1>2 DEF Attempting, InSlot
  <2>2. LET x == Sequence(TicketSlot(t)) IN mo[x][view[t][x]].val = Expected(t)
    BY <2>1 DEF Protocol, SeenReady
  <2> QED
    BY <1>0, <1>2, <2>1, <2>2
<1>10. InTurn'
  BY <1>1, <1>2, <1>3 DEF Protocol, InTurn
<1>11. StoresInOrder'
  BY <1>0, <1>2, <1>3 DEF Protocol, StoresInOrder, UpToDate
<1> QED
  BY <1>4, <1>5, <1>6, <1>7, <1>8, <1>9, <1>10, <1>11 DEF Protocol

(***************************************************************************)
(* The loads of an attempt, and a lost race.                               *)
(***************************************************************************)
LEMMA LoadEffects ==
  ASSUME TypeInv, NEW t \in Workers,
         LoadsPos(t) \/ CasFails(t) \/ LoadsSequence(t)
  PROVE  /\ mo' = mo
         /\ \A u \in Workers \ {t} :
              pc'[u] = pc[u] /\ view'[u] = view[u] /\ ticket'[u] = ticket[u]
         /\ ~InSlot(t) /\ ~InSlot(t)'
         /\ pc'[t] = "cas" => LoadsSequence(t)
<1>t. MemoryType /\ LocalType
  BY DEF TypeInv, TypeOK
<1>w. \A u \in Workers : u \in Threads /\ TicketSlot(u) \in Slots
  BY WorkerTypes
<1>1. mo' = mo /\ ~InSlot(t)
  BY DEF LoadsPos, CasFails, LoadsSequence, LoadRelaxed, LoadAcquire, InSlot
<1>2. \A u \in Workers \ {t} :
        pc'[u] = pc[u] /\ view'[u] = view[u] /\ ticket'[u] = ticket[u]
  BY <1>t, <1>w DEF LoadsPos, CasFails, LoadsSequence, LoadRelaxed, LoadAcquire,
                    Goto, LocalType, MemoryType
<1>3. CASE LoadsPos(t) \/ CasFails(t)
  <2>1. pc'[t] = "seq"
    BY <1>t, <1>w, <1>3 DEF LoadsPos, CasFails, Goto, LocalType
  <2> QED
    BY <1>1, <1>2, <2>1 DEF InSlot
<1>4. CASE LoadsSequence(t)
  <2>1. PICK k \in Readable(t, Sequence(TicketSlot(t))) :
          pc'[t] = Classify(t, mo[Sequence(TicketSlot(t))][k].val - Expected(t))
    BY <1>t, <1>w, <1>4 DEF LoadsSequence, Goto, LocalType
  <2>2. mo[Sequence(TicketSlot(t))][k].val - Expected(t) \in Int
    BY <1>t, <1>w, WorkerTypes, Locations, ReadableType
  <2>3. pc'[t] \in {"cas", "pos", "asks", "done", "closed"}
    BY <2>1, <2>2 DEF Classify, AfterFailure
  <2> QED
    BY <1>1, <1>2, <1>4, <2>3 DEF InSlot
<1> QED
  BY <1>3, <1>4

LEMMA ProtocolLoad ==
  ASSUME TypeInv, TicketsInOrder, ViewsKnown, Protocol, NEW t \in Workers,
         LoadsPos(t) \/ CasFails(t) \/ LoadsSequence(t)
  PROVE  Protocol'
<1>t. MemoryType /\ LocalType
  BY DEF TypeInv, TypeOK
<1>w. \A u \in Workers :
        /\ u \in Threads /\ ticket[u] \in Nat /\ TicketSlot(u) \in Slots
        /\ Pos(u) \in {EnqueuePos, DequeuePos} /\ Pos(u) \in Loc
  BY WorkerTypes
<1>0. mo' = mo
  BY LoadEffects
<1>1. \A u \in Workers \ {t} :
        pc'[u] = pc[u] /\ view'[u] = view[u] /\ ticket'[u] = ticket[u]
  BY LoadEffects
<1>2. pc'[t] \in {"seq", "cas"} => ticket'[t] <= Latest(Pos(t))
  <2>1. CASE LoadsPos(t) \/ CasFails(t)
    <3>1. PICK k \in Readable(t, Pos(t)) : ticket'[t] = mo[Pos(t)][k].val
      BY <1>t, <1>w, <2>1 DEF LoadsPos, CasFails, LocalType
    <3>2. k \in 1 .. Len(mo[Pos(t)]) /\ Len(mo[Pos(t)]) \in Nat
      BY <1>t, <1>w, ReadableType, LatestType
    <3>3. \A j \in 1 .. Len(mo[Pos(t)]) : mo[Pos(t)][j].val = j - 1
      BY <1>w, Zenon DEF TicketsInOrder
    <3>4. Len(mo[Pos(t)]) \in 1 .. Len(mo[Pos(t)])
      BY <3>2
    <3>5. ticket'[t] = k - 1 /\ Latest(Pos(t)) = Len(mo[Pos(t)]) - 1
      BY <3>1, <3>2, <3>3, <3>4 DEF Latest, Newest
    <3> QED
      BY <3>2, <3>5
  <2>2. CASE LoadsSequence(t)
    BY <2>2 DEF LoadsSequence, Protocol, TicketsHandedOut
  <2> QED
    BY <2>1, <2>2
<1>3. ~InSlot(t)' /\ (pc'[t] = "cas" => LoadsSequence(t))
  BY LoadEffects
<1>4. ASSUME pc'[t] = "cas"
      PROVE  (LET x == Sequence(TicketSlot(t))
              IN  mo[x][view[t][x]].val = Expected(t))'
  <2> DEFINE x == Sequence(TicketSlot(t))
  <2>1. PICK k \in Readable(t, x) :
          LoadAcquire(t, x, k) /\ pc'[t] = Classify(t, mo[x][k].val - Expected(t))
    BY <1>t, <1>w, <1>3, <1>4 DEF LoadsSequence, Goto, LocalType
  <2>2. x \in Loc /\ Contents(x) = Nat /\ Expected(t) \in Nat
    BY <1>w, Locations, WorkerTypes
  <2>3. k \in 1 .. Len(mo[x]) /\ mo[x][k].val \in Nat /\ mo[x][k].view \in [Loc -> Nat]
    BY <1>t, <1>w, <2>2, ReadableType
  <2>4. mo[x][k].val = Expected(t)
    BY <1>4, <2>1, <2>2, <2>3 DEF Classify, AfterFailure
  <2>5. view'[t][x] = k
    <3>1. mo[x][k].view[x] <= k /\ mo[x][k].view[x] \in Nat
      BY <2>2, <2>3 DEF ViewsKnown
    <3>2. view'[t][x] >= k /\ view'[t][x] \in {k, mo[x][k].view[x]}
      BY <1>t, <1>w, <2>1, <2>2, AcquireFacts
    <3> QED
      BY <2>3, <3>1, <3>2
  <2>6. ticket' = ticket
    BY <1>3, <1>4 DEF LoadsSequence
  <2>7. TicketSlot(t)' = TicketSlot(t) /\ Expected(t)' = Expected(t)
    BY <2>6 DEF TicketSlot, Expected
  <2> QED
    BY <1>0, <2>4, <2>5, <2>7
<1>5. /\ Enqueued' = Enqueued /\ Dequeued' = Dequeued
      /\ \A i \in Slots : Latest(Sequence(i))' = Latest(Sequence(i))
      /\ \A u \in Workers : Latest(Pos(u))' = Latest(Pos(u))
  BY <1>0 DEF Enqueued, Dequeued, Latest, Newest, Pos
<1>6. \A u \in Workers \ {t} : TicketSlot(u)' = TicketSlot(u) /\ Expected(u)' = Expected(u)
  BY <1>1 DEF TicketSlot, Expected
<1>7. \A u \in Workers : InSlot(u)' => u # t /\ InSlot(u)
  BY <1>1, <1>3 DEF InSlot
<1>8. TicketsHandedOut'
  BY <1>1, <1>2, <1>5, <1>7 DEF Protocol, TicketsHandedOut
<1>9. TicketsDiffer'
  BY <1>1, <1>7 DEF Protocol, TicketsDiffer, Pos
<1>10. WithinCapacity' /\ SlotStates' /\ SequencesGrow'
  BY <1>0, <1>5
  DEF Protocol, WithinCapacity, SlotStates, SlotState, SequencesGrow
<1>11. SeenReady'
  <2> SUFFICES ASSUME NEW u \in Workers \ {t}, pc'[u] = "cas"
               PROVE  (LET x == Sequence(TicketSlot(u))
                       IN  mo[x][view[u][x]].val = Expected(u))'
    BY <1>4 DEF SeenReady
  <2>1. LET x == Sequence(TicketSlot(u)) IN mo[x][view[u][x]].val = Expected(u)
    BY <1>1 DEF Protocol, SeenReady
  <2> QED
    BY <1>0, <1>1, <1>6, <2>1
<1>12. InTurn'
  BY <1>w, <1>5, <1>6, <1>7 DEF Protocol, InTurn
<1>13. StoresInOrder'
  BY <1>0, <1>1, <1>6, <1>7 DEF Protocol, StoresInOrder, UpToDate
<1> QED
  BY <1>8, <1>9, <1>10, <1>11, <1>12, <1>13 DEF Protocol

(***************************************************************************)
(* A won race.                                                             *)
(***************************************************************************)
LEMMA ProtocolClaim ==
  ASSUME TypeInv, ViewsKnown, Protocol, NEW t \in Workers, CasSucceeds(t)
  PROVE  Protocol'
<1> DEFINE k == ticket[t]
           i == TicketSlot(t)
           x == Sequence(i)
<1>t. MemoryType /\ LocalType
  BY DEF TypeInv, TypeOK
<1>w. \A u \in Workers :
        /\ u \in Threads /\ ticket[u] \in Nat /\ TicketSlot(u) \in Slots
        /\ Pos(u) \in {EnqueuePos, DequeuePos} /\ Pos(u) \in Loc
        /\ Latest(Pos(u)) \in Nat
  BY WorkerTypes
<1>p. Enqueued \in Nat /\ Dequeued \in Nat /\ Capacity \in Nat \ {0}
  BY PositionTypes, MpmcAssumption
\* The claim is in turn, and the claimer has seen the newest sequence.
<1>1. Latest(x) = Expected(t) /\ view[t][x] = Len(mo[x])
  <2>1. mo[x][view[t][x]].val = Expected(t)
    BY DEF CasSucceeds, Protocol, SeenReady
  <2>2. x \in Loc /\ Len(mo[x]) \in Nat \ {0} /\ Latest(x) \in Nat /\ Expected(t) \in Nat
    BY <1>w, SequenceTypes, WorkerTypes
  <2>3. view[t][x] \in 1 .. Len(mo[x])
    BY <1>t, <1>w, <2>2 DEF ViewsKnown, Known, MemoryType
  <2>4. Latest(x) <= Expected(t)
    BY NotPassed DEF CasSucceeds, Protocol
  <2>5. view[t][x] # Len(mo[x]) => mo[x][view[t][x]].val < Latest(x)
    BY <1>w, <2>2, <2>3 DEF Protocol, SequencesGrow
  <2>6. view[t][x] = Len(mo[x])
    BY <2>1, <2>2, <2>4, <2>5
  <2> QED
    BY <2>1, <2>6 DEF Latest, Newest
<1>2. PICK m : m \in Messages(Contents(Pos(t))) /\ m.val = k + 1 /\ Put(t, Pos(t), m)
  <2> DEFINE m == Message(k + 1, Newest(Pos(t)).view)
  <2>1. k + 1 \in Contents(Pos(t))
    BY <1>w, Locations
  <2>2. m \in Messages(Contents(Pos(t)))
    BY <1>t, <1>w, <2>1, StoredMessages
  <2>3. m.val = k + 1
    BY DEF Message
  <2>4. Put(t, Pos(t), m)
    BY DEF CasSucceeds, ExchangeRelaxed
  <2> QED
    BY <2>2, <2>3, <2>4
<1>3. /\ Len(mo'[Pos(t)]) = Len(mo[Pos(t)]) + 1
      /\ mo'[Pos(t)][Len(mo[Pos(t)]) + 1] = m
      /\ \A y \in Loc \ {Pos(t)} : mo'[y] = mo[y]
      /\ \A y \in Loc \ {Pos(t)} : view'[t][y] = view[t][y]
      /\ \A u \in Threads \ {t} : view'[u] = view[u]
  BY <1>t, <1>w, <1>2, PutFacts
<1>4. /\ ticket' = ticket /\ pc[t] = "cas" /\ pc'[t] = "slot"
      /\ \A u \in Workers \ {t} : pc'[u] = pc[u]
      /\ Latest(Pos(t)) = k
  BY <1>t, <1>w DEF CasSucceeds, Goto, LocalType
<1>5. \A j \in Slots : /\ mo'[Sequence(j)] = mo[Sequence(j)]
                       /\ Latest(Sequence(j))' = Latest(Sequence(j))
  BY <1>w, <1>3, Locations, LocationsDiffer DEF Latest, Newest
<1>6. \A u \in Workers :
        Latest(Pos(u))' = IF Pos(u) = Pos(t) THEN k + 1 ELSE Latest(Pos(u))
  BY <1>w, <1>2, <1>3 DEF Latest, Newest, Pos
<1>7. \A u \in Workers : TicketSlot(u)' = TicketSlot(u) /\ Expected(u)' = Expected(u)
  BY <1>4 DEF TicketSlot, Expected
<1>8. InSlot(t)' /\ \A u \in Workers \ {t} : InSlot(u)' <=> InSlot(u)
  BY <1>4 DEF InSlot
<1>9. TicketsHandedOut'
  BY <1>w, <1>4, <1>6, <1>8 DEF Protocol, TicketsHandedOut, InSlot, Pos
<1>10. TicketsDiffer'
  <2>1. \A u \in Workers \ {t} : InSlot(u) /\ Pos(u) = Pos(t) => ticket[u] # k
    BY <1>w, <1>4 DEF Protocol, TicketsHandedOut
  <2> QED
    BY <1>4, <1>8, <2>1 DEF Protocol, TicketsDiffer, Pos
<1>e. t \in Producers => Enqueued' = k + 1 /\ Enqueued = k /\ Dequeued' = Dequeued
  <2> SUFFICES ASSUME t \in Producers
               PROVE  Enqueued' = k + 1 /\ Enqueued = k /\ Dequeued' = Dequeued
    OBVIOUS
  <2>1. Pos(t) = EnqueuePos
    BY DEF Pos
  <2>2. Enqueued' = k + 1 /\ Enqueued = k
    BY <1>2, <1>3, <1>4, <2>1 DEF Enqueued, Latest, Newest
  <2>3. Dequeued' = Dequeued
    BY <1>3, <2>1, Locations, LocationsDiffer DEF Dequeued, Latest, Newest
  <2> QED
    BY <2>2, <2>3
<1>d. t \notin Producers => Dequeued' = k + 1 /\ Dequeued = k /\ Enqueued' = Enqueued
  <2> SUFFICES ASSUME t \notin Producers
               PROVE  Dequeued' = k + 1 /\ Dequeued = k /\ Enqueued' = Enqueued
    OBVIOUS
  <2>1. Pos(t) = DequeuePos
    BY DEF Pos
  <2>2. Dequeued' = k + 1 /\ Dequeued = k
    BY <1>2, <1>3, <1>4, <2>1 DEF Dequeued, Latest, Newest
  <2>3. Enqueued' = Enqueued
    BY <1>3, <2>1, Locations, LocationsDiffer DEF Enqueued, Latest, Newest
  <2> QED
    BY <2>2, <2>3
\* The slot's state licenses the new distance of the two positions.
<1>11. WithinCapacity'
  <2>1. PICK u \in Nat :
          /\ slot_index(u) = i
          /\ \/ Latest(x) = FreeFor(u) /\ u < Dequeued + Capacity
             \/ Latest(x) = HoldsDataOf(u) /\ u < Enqueued
    BY <1>w DEF Protocol, SlotStates, SlotState
  <2>2. Dequeued <= Enqueued /\ Enqueued <= Dequeued + Capacity
    BY DEF Protocol, WithinCapacity
  <2>3. CASE t \in Producers
    <3>1. k < Dequeued + Capacity
      BY <1>1, <1>w, <2>1, <2>3 DEF Expected, FreeFor, HoldsDataOf
    <3> HIDE DEF k
    <3> QED
      BY <1>p, <1>e, <2>2, <2>3, <3>1 DEF WithinCapacity
  <2>4. CASE t \notin Producers
    <3>1. k < Enqueued
      BY <1>1, <1>w, <2>1, <2>4 DEF Expected, FreeFor, HoldsDataOf
    <3> HIDE DEF k
    <3> QED
      BY <1>p, <1>d, <2>2, <2>4, <3>1 DEF WithinCapacity
  <2> QED
    BY <2>3, <2>4
<1>12. SlotStates'
  <2> SUFFICES ASSUME NEW j \in Slots PROVE SlotState(j, Latest(Sequence(j)))'
    BY DEF SlotStates
  <2>1. PICK u \in Nat :
          /\ slot_index(u) = j
          /\ \/ Latest(Sequence(j)) = FreeFor(u) /\ u < Dequeued + Capacity
             \/ Latest(Sequence(j)) = HoldsDataOf(u) /\ u < Enqueued
    BY DEF Protocol, SlotStates, SlotState
  <2>2. /\ u < Dequeued + Capacity => u < Dequeued' + Capacity
        /\ u < Enqueued => u < Enqueued'
    <3> HIDE DEF k
    <3> QED
      BY <1>p, <1>e, <1>d
  <2> QED
    BY <1>5, <2>1, <2>2 DEF SlotState
<1>13. SequencesGrow'
  BY <1>5 DEF Protocol, SequencesGrow
<1>14. SeenReady'
  <2> SUFFICES ASSUME NEW u \in Workers \ {t}, pc'[u] = "cas"
               PROVE  (LET y == Sequence(TicketSlot(u))
                       IN  mo[y][view[u][y]].val = Expected(u))'
    BY <1>4 DEF SeenReady
  <2>1. LET y == Sequence(TicketSlot(u)) IN mo[y][view[u][y]].val = Expected(u)
    BY <1>4 DEF Protocol, SeenReady
  <2> QED
    BY <1>w, <1>3, <1>5, <1>7, <2>1
<1>15. InTurn'
  BY <1>w, <1>1, <1>5, <1>7, <1>8 DEF Protocol, InTurn
<1>16. StoresInOrder'
  <2>1. view'[t][x] = view[t][x]
    BY <1>w, <1>3, Locations, LocationsDiffer
  <2> QED
    BY <1>w, <1>1, <1>3, <1>5, <1>7, <1>8, <2>1 DEF Protocol, StoresInOrder, UpToDate
<1> QED
  BY <1>9, <1>10, <1>11, <1>12, <1>13, <1>14, <1>15, <1>16 DEF Protocol

(***************************************************************************)
(* The end of an attempt: the thread in the slot stores a later sequence.  *)
(***************************************************************************)
LEMMA ProtocolStore ==
  ASSUME TypeInv, ViewsKnown, Protocol, NEW t \in Workers, NEW v \in Nat,
         pc[t] = "publish", pc' = [pc EXCEPT ![t] = "idle"], ticket' = ticket,
         StoreRelease(t, Sequence(TicketSlot(t)), v),
         Expected(t) < v, SlotState(TicketSlot(t), v)
  PROVE  Protocol'
<1> DEFINE i == TicketSlot(t)
           x == Sequence(i)
<1>t. MemoryType /\ LocalType
  BY DEF TypeInv, TypeOK
<1>w. \A u \in Workers :
        /\ u \in Threads /\ ticket[u] \in Nat /\ TicketSlot(u) \in Slots
        /\ Pos(u) \in {EnqueuePos, DequeuePos}
  BY WorkerTypes
<1>x. /\ i \in Slots /\ x \in Loc /\ Contents(x) = Nat
      /\ Len(mo[x]) \in Nat \ {0} /\ Latest(x) \in Nat
  BY <1>w, SequenceTypes, Locations
<1>1. PICK m : m \in Messages(Contents(x)) /\ m.val = v /\ Put(t, x, m)
  <2> DEFINE m == Message(v, [view[t] EXCEPT ![x] = Len(mo[x]) + 1])
  <2>1. m \in Messages(Contents(x))
    BY <1>t, <1>w, <1>x, StoredMessages
  <2>2. m.val = v
    BY DEF Message
  <2>3. Put(t, x, m)
    BY DEF StoreRelease
  <2> QED
    BY <2>1, <2>2, <2>3
<1>2. /\ Len(mo'[x]) = Len(mo[x]) + 1
      /\ mo'[x][Len(mo[x]) + 1] = m
      /\ \A k \in 1 .. Len(mo[x]) : mo'[x][k] = mo[x][k]
      /\ \A y \in Loc \ {x} : mo'[y] = mo[y]
      /\ \A u \in Threads \ {t} : view'[u] = view[u]
  <2>1. t \in Threads /\ x \in Loc /\ m \in Messages(Contents(x)) /\ Put(t, x, m)
    BY <1>w, <1>x, <1>1
  <2> HIDE DEF x
  <2> QED
    BY <1>t, <2>1, PutFacts
<1>3. /\ \A y \in {EnqueuePos, DequeuePos} : mo'[y] = mo[y]
      /\ \A j \in Slots \ {i} : mo'[Sequence(j)] = mo[Sequence(j)]
  BY <1>x, <1>2, Locations, LocationsDiffer
<1>4. /\ Enqueued' = Enqueued /\ Dequeued' = Dequeued
      /\ \A u \in Workers : Latest(Pos(u))' = Latest(Pos(u))
      /\ \A j \in Slots \ {i} : Latest(Sequence(j))' = Latest(Sequence(j))
  BY <1>3 DEF Enqueued, Dequeued, Latest, Newest, Pos
<1>5. mo'[x][Len(mo'[x])].val = v /\ Latest(x) = Expected(t)
  <2>1. mo'[x][Len(mo'[x])].val = v
    BY <1>1, <1>2
  <2> QED
    BY <2>1 DEF Protocol, InTurn, InSlot
<1>6. /\ pc'[t] = "idle" /\ \A u \in Workers \ {t} : pc'[u] = pc[u]
      /\ \A u \in Workers : TicketSlot(u)' = TicketSlot(u) /\ Expected(u)' = Expected(u)
  BY <1>t, <1>w DEF LocalType, TicketSlot, Expected
<1>7. \A u \in Workers : InSlot(u)' => u # t /\ InSlot(u) /\ TicketSlot(u) # i
  BY <1>6, AloneInSlot DEF InSlot, Protocol
<1>8. TicketsHandedOut'
  BY <1>4, <1>6, <1>7 DEF Protocol, TicketsHandedOut
<1>9. TicketsDiffer'
  BY <1>7 DEF Protocol, TicketsDiffer, Pos
<1>10. WithinCapacity'
  BY <1>4 DEF Protocol, WithinCapacity
<1>11. SlotStates'
  <2> SUFFICES ASSUME NEW j \in Slots PROVE SlotState(j, Latest(Sequence(j)))'
    BY DEF SlotStates
  <2>1. CASE j = i
    <3>1. Latest(Sequence(j))' = v
      BY <1>5, <2>1 DEF Latest, Newest
    <3>2. SlotState(j, v)
      BY <2>1
    <3> QED
      BY <1>4, <3>1, <3>2 DEF SlotState
  <2>2. CASE j # i
    BY <1>4, <2>2 DEF Protocol, SlotStates, SlotState
  <2> QED
    BY <2>1, <2>2
<1>12. SequencesGrow'
  <2> SUFFICES ASSUME NEW j \in Slots, NEW k \in 1 .. Len(mo'[Sequence(j)]) - 1
               PROVE  mo'[Sequence(j)][k].val < Latest(Sequence(j))'
    BY DEF SequencesGrow
  <2>1. CASE j = i
    <3>1. Sequence(j) = x /\ Latest(Sequence(j))' = v
      BY <1>5, <2>1 DEF Latest, Newest
    <3>2. k \in 1 .. Len(mo[x]) /\ mo'[x][k] = mo[x][k]
      BY <1>x, <1>2, <3>1
    <3>3. mo[x][k].val <= Latest(x) /\ mo[x][k].val \in Nat
      <4>1. mo[x][k].val \in Nat
        BY <1>x, <3>2, SequenceTypes
      <4>2. CASE k = Len(mo[x])
        BY <1>x, <4>1, <4>2 DEF Latest, Newest
      <4>3. CASE k # Len(mo[x])
        <5>1. k \in 1 .. Len(mo[x]) - 1
          BY <1>x, <3>2, <4>3
        <5>2. mo[x][k].val < Latest(x)
          BY <1>x, <5>1 DEF Protocol, SequencesGrow
        <5> QED
          BY <1>x, <4>1, <5>2
      <4> QED
        BY <4>2, <4>3
    <3> QED
      BY <1>x, <1>5, <3>1, <3>2, <3>3
  <2>2. CASE j # i
    BY <1>3, <1>4, <2>2 DEF Protocol, SequencesGrow
  <2> QED
    BY <2>1, <2>2
<1>13. SeenReady'
  <2> SUFFICES ASSUME NEW u \in Workers \ {t}, pc'[u] = "cas"
               PROVE  (LET y == Sequence(TicketSlot(u))
                       IN  mo[y][view[u][y]].val = Expected(u))'
    BY <1>6 DEF SeenReady
  <2> DEFINE y == Sequence(TicketSlot(u))
  <2>1. mo[y][view[u][y]].val = Expected(u)
    BY <1>6 DEF Protocol, SeenReady
  <2>2. y \in Loc /\ view[u][y] \in 1 .. Len(mo[y])
    <3>1. y \in Loc /\ Len(mo[y]) \in Nat
      BY <1>w, SequenceTypes
    <3> QED
      BY <1>t, <1>w, <3>1 DEF ViewsKnown, Known, MemoryType
  <2>3. mo'[y][view[u][y]] = mo[y][view[u][y]]
    BY <1>2, <2>2
  <2>4. view'[u] = view[u]
    BY <1>w, <1>2
  <2> QED
    BY <1>6, <2>1, <2>3, <2>4
<1>14. InTurn'
  BY <1>w, <1>4, <1>6, <1>7 DEF Protocol, InTurn
<1>15. StoresInOrder'
  BY <1>w, <1>2, <1>3, <1>6, <1>7 DEF Protocol, StoresInOrder, UpToDate
<1> QED
  BY <1>8, <1>9, <1>10, <1>11, <1>12, <1>13, <1>14, <1>15 DEF Protocol

LEMMA ProtocolStep ==
  TypeInv /\ TicketsInOrder /\ ViewsKnown /\ Protocol /\ [Next]_vars => Protocol'
<1> SUFFICES ASSUME TypeInv, TicketsInOrder, ViewsKnown, Protocol, [Next]_vars
             PROVE  Protocol'
  OBVIOUS
<1>1. CASE ClientStep
  BY <1>1, ClientStepOutside, OutsideIsQuiet, ProtocolQuiet
<1>2. ASSUME NEW t \in Workers, LoadsPos(t) \/ CasFails(t) \/ LoadsSequence(t)
      PROVE  Protocol'
  BY <1>2, ProtocolLoad
<1>3. ASSUME NEW t \in Workers, CasSucceeds(t)
      PROVE  Protocol'
  BY <1>3, ProtocolClaim
<1>4. ASSUME NEW t \in Workers, WritesSlot(t) \/ MovesOut(t)
      PROVE  Protocol'
  BY <1>4, AccessIsQuiet, ProtocolQuiet
<1>5. ASSUME NEW p \in Producers, PublishesSlot(p)
      PROVE  Protocol'
  <2>1. p \in Workers /\ ticket[p] \in Nat
    BY WorkerTypes DEF Workers
  <2>2. /\ HoldsDataOf(ticket[p]) \in Nat /\ Expected(p) < HoldsDataOf(ticket[p])
        /\ Expected(p) = FreeFor(ticket[p])
    BY <2>1 DEF Expected, HoldsDataOf, FreeFor
  <2>3. ticket[p] < Enqueued
    BY <1>5, <2>1 DEF PublishesSlot, Protocol, TicketsHandedOut, InSlot, Pos, Enqueued
  <2>4. SlotState(TicketSlot(p), HoldsDataOf(ticket[p]))
    BY <2>1, <2>3 DEF SlotState, TicketSlot
  <2>5. /\ pc[p] = "publish" /\ pc' = [pc EXCEPT ![p] = "idle"] /\ ticket' = ticket
        /\ StoreRelease(p, Sequence(TicketSlot(p)), HoldsDataOf(ticket[p]))
    BY <1>5 DEF PublishesSlot, Goto
  <2> QED
    BY <2>1, <2>2, <2>4, <2>5, ProtocolStore
<1>6. ASSUME NEW c \in Consumers, FreesSlot(c)
      PROVE  Protocol'
  <2>1. c \in Workers /\ c \notin Producers /\ ticket[c] \in Nat
        /\ Capacity \in Nat \ {0}
    BY WorkerTypes, MpmcAssumption DEF Workers
  <2>2. /\ ticket[c] + Capacity \in Nat
        /\ FreeFor(ticket[c] + Capacity) \in Nat
        /\ Expected(c) < FreeFor(ticket[c] + Capacity)
    BY <2>1 DEF Expected, HoldsDataOf, FreeFor
  <2>3. ticket[c] < Dequeued
    BY <1>6, <2>1 DEF FreesSlot, Protocol, TicketsHandedOut, InSlot, Pos, Dequeued
  <2>4. ticket[c] + Capacity < Dequeued + Capacity
    BY <2>1, <2>3, PositionTypes
  <2>5. SlotState(TicketSlot(c), FreeFor(ticket[c] + Capacity))
    BY <2>1, <2>2, <2>4, SlotOfNextLap DEF SlotState, TicketSlot
  <2>6. /\ pc[c] = "publish" /\ pc' = [pc EXCEPT ![c] = "idle"] /\ ticket' = ticket
        /\ StoreRelease(c, Sequence(TicketSlot(c)), FreeFor(ticket[c] + Capacity))
    BY <1>6 DEF FreesSlot, Goto
  <2> QED
    BY <2>1, <2>2, <2>5, <2>6, ProtocolStore
<1> QED
  BY <1>1, <1>2, <1>3, <1>4, <1>5, <1>6
  DEF Next, Producer, Consumer, try_enqueue, try_dequeue, Workers, ClientStep

-----------------------------------------------------------------------------
(***************************************************************************)
(* Fourth layer: what a sequence tells of the value of its slot.  Each     *)
(* turn of a slot accesses the value once and then stores the sequence     *)
(* once, so the two count together; and whoever knows message k of the     *)
(* sequence knows message k of the value.                                  *)
(***************************************************************************)
Covers(v) == \A i \in Slots : v[Sequence(i)] <= v[Value(i)]

ViewsCover ==
  /\ \A t \in Threads : Covers(view[t])
  /\ \A x \in Loc : \A k \in 1 .. Len(mo[x]) : Covers(mo[x][k].view)
  /\ \A i \in Slots : \A k \in 1 .. Len(mo[Sequence(i)]) :
       k <= mo[Sequence(i)][k].view[Value(i)]

Publishing(t, i) == pc[t] = "publish" /\ TicketSlot(t) = i

ValuesCounted ==
  \A i \in Slots :
    /\ \A t \in Workers : Publishing(t, i) =>
         /\ Len(mo[Value(i)]) = Len(mo[Sequence(i)]) + 1
         /\ UpToDate(t, Value(i))
    /\ (\A t \in Workers : ~Publishing(t, i)) =>
         Len(mo[Value(i)]) = Len(mo[Sequence(i)])

Handover == ViewsCover /\ ValuesCounted

LEMMA HandoverInit == Init => Handover
<1> SUFFICES ASSUME Init PROVE Handover
  OBVIOUS
<1>1. \A x \in Loc : Len(mo[x]) = 1 /\ mo[x][1].view = [y \in Loc |-> 1]
  BY InitialMessages
<1>2. \A t \in Threads : view[t] = [y \in Loc |-> 1]
  BY DEF Init
<1>3. ViewsCover
  BY <1>1, <1>2, Locations DEF ViewsCover, Covers
<1>4. \A t \in Workers : pc[t] = "idle"
  BY DEF Init, Threads, Workers
<1>5. ValuesCounted
  BY <1>1, <1>4, Locations DEF ValuesCounted, Publishing
<1> QED
  BY <1>3, <1>5 DEF Handover

\* A store keeps the views covering if its message does and, where it is the
\* store of a sequence, if it knows as many messages of the value.
LEMMA PutCovers ==
  ASSUME MemoryType, ViewsCover, NEW t \in Threads, NEW x \in Loc,
         NEW m \in Messages(Contents(x)), Put(t, x, m), Covers(m.view),
         \A i \in Slots : x = Sequence(i) =>
           /\ Len(mo[x]) + 1 <= m.view[Value(i)]
           /\ Len(mo[x]) + 1 <= view[t][Value(i)],
         view[t][x] <= Len(mo[x])
  PROVE  ViewsCover'
<1>0. Len(mo[x]) \in Nat \ {0}
  BY LatestType
<1>1. /\ Len(mo'[x]) = Len(mo[x]) + 1
      /\ mo'[x][Len(mo[x]) + 1] = m
      /\ \A k \in 1 .. Len(mo[x]) : mo'[x][k] = mo[x][k]
      /\ \A y \in Loc \ {x} : mo'[y] = mo[y]
  BY PutFacts
<1>2. /\ view'[t][x] = Len(mo[x]) + 1
      /\ \A y \in Loc \ {x} : view'[t][y] = view[t][y]
      /\ \A u \in Threads \ {t} : view'[u] = view[u]
  BY PutFacts
<1>3. ASSUME NEW u \in Threads, NEW i \in Slots
      PROVE  view'[u][Sequence(i)] <= view'[u][Value(i)]
  <2>1. view[u][Sequence(i)] <= view[u][Value(i)]
    BY DEF ViewsCover, Covers
  <2>2. /\ view[u][Sequence(i)] \in Nat /\ view[u][Value(i)] \in Nat
        /\ Sequence(i) \in Loc /\ Value(i) \in Loc /\ Sequence(i) # Value(i)
    BY Locations, LocationsDiffer DEF MemoryType
  <2>3. CASE u # t
    BY <1>2, <2>1, <2>3
  <2>4. CASE u = t /\ x = Sequence(i)
    BY <1>2, <2>2, <2>4
  <2>5. CASE u = t /\ x = Value(i)
    BY <1>0, <1>2, <2>1, <2>2, <2>5
  <2>6. CASE u = t /\ x # Sequence(i) /\ x # Value(i)
    BY <1>2, <2>1, <2>2, <2>6
  <2> QED
    BY <2>3, <2>4, <2>5, <2>6
<1>4. ASSUME NEW z \in Loc, NEW k \in 1 .. Len(mo'[z])
      PROVE  /\ Covers(mo'[z][k].view)
             /\ \A i \in Slots : z = Sequence(i) => k <= mo'[z][k].view[Value(i)]
  <2>1. CASE z = x /\ k = Len(mo[x]) + 1
    BY <1>1, <2>1
  <2>2. CASE ~(z = x /\ k = Len(mo[x]) + 1)
    <3>1. k \in 1 .. Len(mo[z]) /\ mo'[z][k] = mo[z][k]
      BY <1>0, <1>1, <2>2
    <3> QED
      BY <3>1 DEF ViewsCover
  <2> QED
    BY <2>1, <2>2
<1>5. \A u \in Threads : Covers(view'[u])
  BY <1>3 DEF Covers
<1>6. \A z \in Loc : \A k \in 1 .. Len(mo'[z]) : Covers(mo'[z][k].view)
  BY <1>4
<1>7. \A i \in Slots : \A k \in 1 .. Len(mo'[Sequence(i)]) :
        k <= mo'[Sequence(i)][k].view[Value(i)]
  BY <1>4, Locations
<1> QED
  BY <1>5, <1>6, <1>7 DEF ViewsCover, Covers

LEMMA ViewsCoverStep ==
  TypeInv /\ ViewsKnown /\ Handover /\ [Next]_vars => ViewsCover'
<1> SUFFICES ASSUME TypeInv, ViewsKnown, ViewsCover, ValuesCounted, MemoryStep
             PROVE  ViewsCover'
  BY NextIsMemoryStep DEF Handover
<1>t. MemoryType
  BY DEF TypeInv, TypeOK
<1>w. \A t \in Workers : t \in Threads /\ TicketSlot(t) \in Slots
  BY WorkerTypes
<1>l. \A i \in Slots : /\ Sequence(i) \in Loc /\ Value(i) \in Loc
                       /\ Sequence(i) # Value(i)
  BY Locations, LocationsDiffer
<1>v. \A u \in Threads : \A y \in Loc : view[u][y] \in Nat /\ view[u][y] <= Len(mo[y])
  BY <1>t DEF ViewsKnown, Known, MemoryType
<1>c. \A u \in Threads : \A i \in Slots : view[u][Sequence(i)] <= view[u][Value(i)]
  BY DEF ViewsCover, Covers
<1>1. CASE UNCHANGED memory
  BY <1>1 DEF memory, ViewsCover, Covers
<1>2. ASSUME mo' = mo,
             \A u \in Threads : \A i \in Slots : view'[u][Sequence(i)] <= view'[u][Value(i)]
      PROVE  ViewsCover'
  BY <1>2 DEF ViewsCover, Covers
<1>3. ASSUME NEW t \in Threads, NEW x \in {EnqueuePos, DequeuePos, Closed},
             NEW k \in Readable(t, x), LoadRelaxed(t, x, k)
      PROVE  ViewsCover'
  <2>1. x \in Loc /\ \A i \in Slots : x # Sequence(i) /\ x # Value(i)
    BY Locations, LocationsDiffer
  <2>2. /\ mo' = mo
        /\ \A y \in Loc \ {x} : view'[t][y] = view[t][y]
        /\ \A u \in Threads \ {t} : view'[u] = view[u]
    BY <1>t, <1>3, <2>1, RelaxedFacts
  <2>3. \A u \in Threads : \A i \in Slots : view'[u][Sequence(i)] <= view'[u][Value(i)]
    BY <1>l, <1>c, <2>1, <2>2
  <2> QED
    BY <1>2, <2>2, <2>3
<1>4. ASSUME NEW t \in Threads, NEW x \in Loc, NEW k \in Readable(t, x),
             LoadAcquire(t, x, k)
      PROVE  ViewsCover'
  <2>1. k \in 1 .. Len(mo[x]) /\ mo[x][k].view \in [Loc -> Nat]
    BY <1>t, ReadableType
  <2>2. mo' = mo /\ \A u \in Threads \ {t} : view'[u] = view[u]
    BY <1>t, <1>4, AcquireFacts
  <2>3. /\ \A y \in Loc : view'[t][y] >= mo[x][k].view[y]
        /\ view'[t][x] >= k /\ view'[t][x] \in {k, mo[x][k].view[x]}
        /\ \A y \in Loc \ {x} :
             /\ view'[t][y] >= view[t][y]
             /\ view'[t][y] \in {view[t][y], mo[x][k].view[y]}
    BY <1>t, <1>4, AcquireFacts
  <2>4. ASSUME NEW i \in Slots
        PROVE  view'[t][Sequence(i)] <= view'[t][Value(i)]
    <3>1. /\ mo[x][k].view[Sequence(i)] <= mo[x][k].view[Value(i)]
          /\ mo[x][k].view[Sequence(i)] \in Nat /\ mo[x][k].view[Value(i)] \in Nat
          /\ view[t][Sequence(i)] <= view[t][Value(i)]
          /\ view[t][Sequence(i)] \in Nat /\ view[t][Value(i)] \in Nat
      BY <1>l, <1>v, <2>1 DEF ViewsCover, Covers
    <3>2. CASE x = Sequence(i)
      <4>1. k <= mo[x][k].view[Value(i)]
        BY <2>1, <3>2 DEF ViewsCover
      <4> QED
        BY <1>l, <2>1, <2>3, <3>1, <3>2, <4>1
    <3>3. CASE x = Value(i)
      <4>1. view[t][x] <= k
        BY <1>v, <2>1 DEF Readable
      <4> QED
        BY <1>l, <2>1, <2>3, <3>1, <3>3, <4>1
    <3>4. CASE x # Sequence(i) /\ x # Value(i)
      BY <1>l, <2>3, <3>1, <3>4
    <3> QED
      BY <3>2, <3>3, <3>4
  <2> QED
    BY <1>2, <1>c, <2>2, <2>4
<1>5. ASSUME NEW t \in Threads, StoreRelease(t, Closed, TRUE)
      PROVE  ViewsCover'
  <2> DEFINE w == [view[t] EXCEPT ![Closed] = Len(mo[Closed]) + 1]
  <2>1. Closed \in Loc /\ TRUE \in Contents(Closed)
        /\ \A i \in Slots : Closed # Sequence(i) /\ Closed # Value(i)
    BY Locations, LocationsDiffer
  <2>2. Message(TRUE, w) \in Messages(Contents(Closed)) /\ Message(TRUE, w).view = w
    BY <1>t, <2>1, StoredMessages DEF Message
  <2>3. \A y \in Loc \ {Closed} : w[y] = view[t][y]
    BY <1>t DEF MemoryType
  <2>4. Put(t, Closed, Message(TRUE, w))
    BY <1>5 DEF StoreRelease
  <2> HIDE DEF w
  <2>5. Covers(w)
    BY <1>l, <1>c, <2>1, <2>3 DEF Covers
  <2> QED
    BY <1>t, <1>v, <2>1, <2>2, <2>4, <2>5, PutCovers
<1>6. ASSUME NEW t \in Workers, NEW v \in Nat, pc[t] = "publish",
             StoreRelease(t, Sequence(TicketSlot(t)), v)
      PROVE  ViewsCover'
  <2> DEFINE i == TicketSlot(t)
             x == Sequence(i)
             w == [view[t] EXCEPT ![x] = Len(mo[x]) + 1]
  <2>1. i \in Slots /\ x \in Loc /\ Contents(x) = Nat /\ t \in Threads
        /\ Len(mo[x]) \in Nat
    BY <1>w, Locations, SequenceTypes
  <2>2. Message(v, w) \in Messages(Contents(x)) /\ Message(v, w).view = w
    BY <1>t, <2>1, StoredMessages DEF Message
  <2>3. w[x] = Len(mo[x]) + 1 /\ \A y \in Loc \ {x} : w[y] = view[t][y]
    BY <1>t, <2>1 DEF MemoryType
  <2>4. Put(t, x, Message(v, w))
    BY <1>6 DEF StoreRelease
  <2>5. view[t][Value(i)] = Len(mo[x]) + 1
    BY <1>6, <2>1 DEF ValuesCounted, Publishing, UpToDate
  <2>6. \A j \in Slots : x = Sequence(j) => j = i
    BY <2>1, LocationsDiffer
  <2> HIDE DEF w, x, i
  <2>7. \A j \in Slots : x = Sequence(j) =>
          Len(mo[x]) + 1 <= w[Value(j)] /\ Len(mo[x]) + 1 <= view[t][Value(j)]
    BY <1>l, <2>1, <2>3, <2>5, <2>6
  <2>8. Covers(w)
    <3> SUFFICES ASSUME NEW j \in Slots PROVE w[Sequence(j)] <= w[Value(j)]
      BY DEF Covers
    <3>1. Value(j) # x
      BY <2>1, LocationsDiffer DEF x
    <3>2. CASE Sequence(j) = x
      BY <2>1, <2>3, <2>7, <3>2
    <3>3. CASE Sequence(j) # x
      BY <1>l, <1>c, <2>1, <2>3, <3>1, <3>3
    <3> QED
      BY <3>2, <3>3
  <2> QED
    BY <1>t, <1>v, <2>1, <2>2, <2>4, <2>7, <2>8, PutCovers
<1>7. ASSUME NEW t \in Workers, NEW x \in {EnqueuePos, DequeuePos},
             ExchangeRelaxed(t, x, Latest(x) + 1)
      PROVE  ViewsCover'
  <2> DEFINE w == Newest(x).view
             n == Latest(x) + 1
  <2>1. x \in Loc /\ Contents(x) = Nat /\ t \in Threads
        /\ \A i \in Slots : x # Sequence(i)
    BY <1>w, Locations, LocationsDiffer
  <2>2. n \in Contents(x) /\ Len(mo[x]) \in Nat \ {0}
    BY <1>t, <2>1, LatestType
  <2>3. Message(n, w) \in Messages(Contents(x)) /\ Message(n, w).view = w
    BY <1>t, <2>1, <2>2, StoredMessages DEF Message
  <2>4. Put(t, x, Message(n, w))
    BY <1>7 DEF ExchangeRelaxed
  <2>5. Covers(w)
    BY <2>1, <2>2 DEF ViewsCover, Newest
  <2> HIDE DEF w, n
  <2> QED
    BY <1>t, <1>v, <2>1, <2>3, <2>4, <2>5, PutCovers
<1>8. ASSUME NEW t \in Workers, NEW i \in Slots, NEW v \in Items \cup {Empty},
             Access(t, Value(i), v)
      PROVE  ViewsCover'
  <2>1. /\ Value(i) \in Loc /\ v \in Contents(Value(i)) /\ t \in Threads
        /\ \A j \in Slots : Value(i) # Sequence(j)
    BY <1>w, Locations, LocationsDiffer
  <2>2. Message(v, NoView) \in Messages(Contents(Value(i)))
    BY <1>t, <2>1, StoredMessages
  <2>3. Message(v, NoView).view = NoView
    BY DEF Message
  <2>4. Covers(NoView)
    BY <1>t, <1>l DEF Covers, NoView, MemoryType
  <2> QED
    BY <1>t, <1>v, <1>8, <2>1, <2>2, <2>3, <2>4, PutCovers DEF Access
<1>9. ASSUME NEW t \in Threads, NEW u \in Threads, JoinThread(t, u)
      PROVE  ViewsCover'
  <2>1. /\ mo' = mo
        /\ \A s \in Threads \ {t} : view'[s] = view[s]
        /\ \A y \in Loc : /\ view'[t][y] >= view[t][y]
                          /\ view'[t][y] >= view[u][y]
                          /\ view'[t][y] \in {view[t][y], view[u][y]}
    BY <1>t, <1>9, JoinThreadFacts
  <2>2. \A i \in Slots : view'[t][Sequence(i)] <= view'[t][Value(i)]
    BY <1>l, <1>v, <1>c, <2>1
  <2> QED
    BY <1>2, <1>c, <2>1, <2>2
<1> QED
  BY <1>1, <1>3, <1>4, <1>5, <1>6, <1>7, <1>8, <1>9 DEF MemoryStep

LEMMA CountedKept ==
  ASSUME ValuesCounted,
         \A i \in Slots :
           mo'[Sequence(i)] = mo[Sequence(i)] /\ mo'[Value(i)] = mo[Value(i)],
         \A t \in Workers : \A i \in Slots :
           /\ Publishing(t, i)' <=> Publishing(t, i)
           /\ Publishing(t, i) => view'[t] = view[t]
  PROVE  ValuesCounted'
BY DEF ValuesCounted, UpToDate

\* The access to the value of a slot by the thread in it.
LEMMA CountedAccess ==
  ASSUME TypeInv, Protocol, ValuesCounted, NEW t \in Workers,
         WritesSlot(t) \/ MovesOut(t)
  PROVE  ValuesCounted'
<1> DEFINE i == TicketSlot(t)
           x == Value(i)
<1>t. MemoryType /\ LocalType
  BY DEF TypeInv, TypeOK
<1>w. \A u \in Workers : u \in Threads /\ TicketSlot(u) \in Slots
  BY WorkerTypes
<1>x. i \in Slots /\ x \in Loc /\ Len(mo[x]) \in Nat
  BY <1>t, <1>w, Locations, LatestType
<1>1. PICK m : mo' = [mo EXCEPT ![x] = Append(@, m)]
               /\ view' = [view EXCEPT ![t] = [@ EXCEPT ![x] = Len(mo[x]) + 1]]
  BY DEF WritesSlot, MovesOut, Access, Put
<1>2. /\ mo'[x] = Append(mo[x], m)
      /\ \A y \in Loc \ {x} : mo'[y] = mo[y]
      /\ view'[t][x] = Len(mo[x]) + 1
      /\ \A u \in Workers \ {t} : view'[u] = view[u]
  BY <1>t, <1>w, <1>x, <1>1 DEF MemoryType
<1>3. Len(mo'[x]) = Len(mo[x]) + 1
  <2>1. mo[x] \in Seq(Messages(Contents(x)))
    BY <1>t, <1>x DEF MemoryType
  <2> QED
    BY <1>2, <2>1
<1>4. /\ ticket' = ticket /\ pc[t] = "slot" /\ pc'[t] = "publish"
      /\ \A u \in Workers \ {t} : pc'[u] = pc[u]
  BY <1>t, <1>w DEF WritesSlot, MovesOut, Goto, LocalType
<1>5. /\ \A j \in Slots : mo'[Sequence(j)] = mo[Sequence(j)]
      /\ \A j \in Slots \ {i} : mo'[Value(j)] = mo[Value(j)]
  BY <1>x, <1>2, Locations, LocationsDiffer
<1>6. /\ \A j \in Slots : \A u \in Workers \ {t} : Publishing(u, j)' <=> Publishing(u, j)
      /\ \A j \in Slots : ~Publishing(t, j)
      /\ \A j \in Slots : Publishing(t, j)' <=> j = i
  BY <1>w, <1>4 DEF Publishing, TicketSlot
<1>7. \A u \in Workers : ~Publishing(u, i)
  BY <1>4, <1>6, AloneInSlot DEF Publishing, InSlot, Protocol
<1> SUFFICES ASSUME NEW j \in Slots
             PROVE  /\ \A u \in Workers : Publishing(u, j)' =>
                         /\ Len(mo'[Value(j)]) = Len(mo'[Sequence(j)]) + 1
                         /\ view'[u][Value(j)] = Len(mo'[Value(j)])
                    /\ (\A u \in Workers : ~Publishing(u, j)') =>
                         Len(mo'[Value(j)]) = Len(mo'[Sequence(j)])
  BY DEF ValuesCounted, UpToDate
<1>8. CASE j = i
  <2>1. Len(mo[x]) = Len(mo[Sequence(i)])
    BY <1>x, <1>7 DEF ValuesCounted
  <2>2. Publishing(t, j)' /\ \A u \in Workers : Publishing(u, j)' => u = t
    BY <1>6, <1>7, <1>8
  <2> QED
    BY <1>2, <1>3, <1>5, <1>8, <2>1, <2>2
<1>9. CASE j # i
  BY <1>2, <1>5, <1>6, <1>9 DEF ValuesCounted, UpToDate
<1> QED
  BY <1>8, <1>9

\* The store of the sequence that ends the turn.
LEMMA CountedStore ==
  ASSUME TypeInv, Protocol, ValuesCounted, NEW t \in Workers,
         PublishesSlot(t) \/ FreesSlot(t)
  PROVE  ValuesCounted'
<1> DEFINE i == TicketSlot(t)
           x == Sequence(i)
<1>t. MemoryType /\ LocalType
  BY DEF TypeInv, TypeOK
<1>w. \A u \in Workers : u \in Threads /\ TicketSlot(u) \in Slots
  BY WorkerTypes
<1>x. i \in Slots /\ x \in Loc /\ Len(mo[x]) \in Nat
  BY <1>w, SequenceTypes
<1>1. PICK m : mo' = [mo EXCEPT ![x] = Append(@, m)]
               /\ view' = [view EXCEPT ![t] = [@ EXCEPT ![x] = Len(mo[x]) + 1]]
  BY DEF PublishesSlot, FreesSlot, StoreRelease, Put
<1>2. /\ mo'[x] = Append(mo[x], m)
      /\ \A y \in Loc \ {x} : mo'[y] = mo[y]
      /\ \A u \in Workers \ {t} : view'[u] = view[u]
  BY <1>t, <1>w, <1>x, <1>1 DEF MemoryType
<1>3. Len(mo'[x]) = Len(mo[x]) + 1
  <2>1. mo[x] \in Seq(Messages(Contents(x)))
    BY <1>t, <1>x DEF MemoryType
  <2> QED
    BY <1>2, <2>1
<1>4. /\ ticket' = ticket /\ pc[t] = "publish" /\ pc'[t] = "idle"
      /\ \A u \in Workers \ {t} : pc'[u] = pc[u]
  BY <1>t, <1>w DEF PublishesSlot, FreesSlot, Goto, LocalType
<1>5. /\ \A j \in Slots : mo'[Value(j)] = mo[Value(j)]
      /\ \A j \in Slots \ {i} : mo'[Sequence(j)] = mo[Sequence(j)]
  BY <1>x, <1>2, Locations, LocationsDiffer
<1>6. /\ \A j \in Slots : \A u \in Workers \ {t} : Publishing(u, j)' <=> Publishing(u, j)
      /\ \A j \in Slots : ~Publishing(t, j)'
      /\ \A j \in Slots : Publishing(t, j) <=> j = i
  BY <1>w, <1>4 DEF Publishing, TicketSlot
<1>7. \A j \in Slots : j = i => \A u \in Workers : ~Publishing(u, j)'
  <2>1. \A u \in Workers \ {t} : ~Publishing(u, i)
    BY <1>4, AloneInSlot DEF Publishing, InSlot, Protocol
  <2> QED
    BY <1>x, <1>6, <2>1
<1> SUFFICES ASSUME NEW j \in Slots
             PROVE  /\ \A u \in Workers : Publishing(u, j)' =>
                         /\ Len(mo'[Value(j)]) = Len(mo'[Sequence(j)]) + 1
                         /\ view'[u][Value(j)] = Len(mo'[Value(j)])
                    /\ (\A u \in Workers : ~Publishing(u, j)') =>
                         Len(mo'[Value(j)]) = Len(mo'[Sequence(j)])
  BY DEF ValuesCounted, UpToDate
<1>8. CASE j = i
  <2>1. Len(mo[Value(i)]) = Len(mo[x]) + 1
    BY <1>x, <1>6 DEF ValuesCounted
  <2> QED
    BY <1>3, <1>5, <1>7, <1>8, <2>1
<1>9. CASE j # i
  <2>1. \A u \in Workers :
          /\ Publishing(u, j)' <=> Publishing(u, j)
          /\ Publishing(u, j) => view'[u] = view[u]
    BY <1>2, <1>6, <1>9
  <2>2. mo'[Sequence(j)] = mo[Sequence(j)] /\ mo'[Value(j)] = mo[Value(j)]
    BY <1>5, <1>9
  <2> QED
    BY <2>1, <2>2 DEF ValuesCounted, UpToDate
<1> QED
  BY <1>8, <1>9

LEMMA ValuesCountedStep ==
  TypeInv /\ Protocol /\ Handover /\ [Next]_vars => ValuesCounted'
<1> SUFFICES ASSUME TypeInv, Protocol, ValuesCounted, [Next]_vars
             PROVE  ValuesCounted'
  BY DEF Handover
<1>t. MemoryType /\ LocalType
  BY DEF TypeInv, TypeOK
<1>w. \A u \in Workers : /\ u \in Threads /\ TicketSlot(u) \in Slots
                         /\ Pos(u) \in {EnqueuePos, DequeuePos}
  BY WorkerTypes
<1>1. CASE ClientStep
  <2>1. OutsideStep
    BY <1>1, ClientStepOutside
  <2>2. \A i \in Slots :
          mo'[Sequence(i)] = mo[Sequence(i)] /\ mo'[Value(i)] = mo[Value(i)]
    BY <2>1, Locations, LocationsDiffer DEF OutsideStep
  <2>3. \A t \in Workers : \A i \in Slots :
          /\ Publishing(t, i)' <=> Publishing(t, i)
          /\ Publishing(t, i) => view'[t] = view[t]
    BY <2>1 DEF OutsideStep, Publishing, TicketSlot, Attempting
  <2> QED
    BY <2>2, <2>3, CountedKept
<1>2. ASSUME NEW t \in Workers, LoadsPos(t) \/ CasFails(t) \/ LoadsSequence(t)
      PROVE  ValuesCounted'
  <2>1. /\ mo' = mo /\ ~InSlot(t) /\ ~InSlot(t)'
        /\ \A u \in Workers \ {t} :
             pc'[u] = pc[u] /\ view'[u] = view[u] /\ ticket'[u] = ticket[u]
    BY <1>2, LoadEffects
  <2>2. \A u \in Workers : \A i \in Slots :
          /\ Publishing(u, i)' <=> Publishing(u, i)
          /\ Publishing(u, i) => view'[u] = view[u]
    BY <2>1 DEF Publishing, TicketSlot, InSlot
  <2> QED
    BY <2>1, <2>2, CountedKept
<1>3. ASSUME NEW t \in Workers, CasSucceeds(t)
      PROVE  ValuesCounted'
  <2>1. /\ \A y \in Loc \ {Pos(t)} : mo'[y] = mo[y]
        /\ \A u \in Workers \ {t} : view'[u] = view[u]
    BY <1>t, <1>w, <1>3 DEF CasSucceeds, ExchangeRelaxed, Put, MemoryType
  <2>2. \A i \in Slots :
          mo'[Sequence(i)] = mo[Sequence(i)] /\ mo'[Value(i)] = mo[Value(i)]
    BY <1>w, <2>1, Locations, LocationsDiffer
  <2>3. /\ ticket' = ticket /\ pc[t] = "cas" /\ pc'[t] = "slot"
        /\ \A u \in Workers \ {t} : pc'[u] = pc[u]
    BY <1>t, <1>w, <1>3 DEF CasSucceeds, Goto, LocalType
  <2>4. \A u \in Workers : \A i \in Slots :
          /\ Publishing(u, i)' <=> Publishing(u, i)
          /\ Publishing(u, i) => view'[u] = view[u]
    BY <2>1, <2>3 DEF Publishing, TicketSlot
  <2> QED
    BY <2>2, <2>4, CountedKept
<1>4. ASSUME NEW t \in Workers, WritesSlot(t) \/ MovesOut(t)
      PROVE  ValuesCounted'
  BY <1>4, CountedAccess
<1>5. ASSUME NEW t \in Workers, PublishesSlot(t) \/ FreesSlot(t)
      PROVE  ValuesCounted'
  BY <1>5, CountedStore
<1> QED
  BY <1>1, <1>2, <1>3, <1>4, <1>5
  DEF Next, Producer, Consumer, try_enqueue, try_dequeue, Workers, ClientStep

-----------------------------------------------------------------------------
(***************************************************************************)
(* The layers together are an inductive invariant.                         *)
(***************************************************************************)
SlotInv == TypeInv /\ ViewsKnown /\ TicketsInOrder /\ Protocol /\ Handover

LEMMA SlotInvInit == Init => SlotInv
BY TypeInit, ViewsKnownInit, TicketsInOrderInit, ProtocolInit, HandoverInit
DEF SlotInv

LEMMA SlotInvStep == SlotInv /\ [Next]_vars => SlotInv'
<1> SUFFICES ASSUME SlotInv, [Next]_vars PROVE SlotInv'
  OBVIOUS
<1>1. TypeInv /\ ViewsKnown /\ TicketsInOrder /\ Protocol /\ Handover
  BY DEF SlotInv
<1>2. TypeInv' /\ ViewsKnown'
  BY <1>1, TypeStep, ViewsKnownStep
<1>3. TicketsInOrder'
  BY <1>1, TicketsInOrderStep
<1>4. Protocol'
  BY <1>1, ProtocolStep
<1>5. ViewsCover' /\ ValuesCounted'
  BY <1>1, ViewsCoverStep, ValuesCountedStep
<1> QED
  BY <1>2, <1>3, <1>4, <1>5 DEF SlotInv, Handover

(***************************************************************************)
(* The invariant holds in every reachable state, for every capacity, any   *)
(* number of threads and calls, and loads that may be arbitrarily stale.   *)
(***************************************************************************)
THEOREM SlotInvariant == Spec => []SlotInv
<1>1. Init => SlotInv
  BY SlotInvInit
<1>2. SlotInv /\ [Next]_vars => SlotInv'
  BY SlotInvStep
<1> QED
  BY <1>1, <1>2, PTL DEF Spec

(***************************************************************************)
(* No thread ever claims a slot out of turn: who has won a ticket in       *)
(* try_enqueue() or try_dequeue() finds its slot's sequence at exactly     *)
(* what it expects, and is alone in the slot until it stores the next one. *)
(***************************************************************************)
THEOREM ClaimsInTurnHolds == Spec => []ClaimsInTurn
<1>1. SlotInv => ClaimsInTurn
  <2> SUFFICES ASSUME SlotInv, NEW t \in Workers, InSlot(t)
               PROVE  /\ Latest(Sequence(TicketSlot(t))) = Expected(t)
                      /\ \A u \in Workers \ {t} :
                           InSlot(u) => TicketSlot(u) # TicketSlot(t)
    BY DEF ClaimsInTurn
  <2>1. Latest(Sequence(TicketSlot(t))) = Expected(t)
    BY DEF SlotInv, Protocol, InTurn
  <2>2. ASSUME NEW u \in Workers \ {t}, InSlot(u)
        PROVE  TicketSlot(u) # TicketSlot(t)
    BY <2>2, AloneInSlot DEF SlotInv, Protocol
  <2> QED
    BY <2>1, <2>2
<1> QED
  BY <1>1, SlotInvariant, PTL

(***************************************************************************)
(* The stores of one slot's sequence by different threads are ordered by   *)
(* happens-before: who stores it has seen its newest value, so a store     *)
(* never goes into the middle of the modification order.                   *)
(***************************************************************************)
THEOREM StoresInOrderHolds == Spec => []StoresInOrder
<1>1. SlotInv => StoresInOrder
  BY DEF SlotInv, Protocol
<1> QED
  BY <1>1, SlotInvariant, PTL

\* Who is in a slot knows as many messages of its value as there are.
LEMMA RacesExcluded == SlotInv => NoDataRace
<1> SUFFICES ASSUME SlotInv, NEW t \in Workers, pc[t] = "slot"
             PROVE  UpToDate(t, Value(TicketSlot(t)))
  BY DEF NoDataRace
<1> DEFINE i == TicketSlot(t)
<1>1. i \in Slots /\ t \in Threads
  BY WorkerTypes DEF SlotInv
<1>2. /\ Sequence(i) \in Loc /\ Value(i) \in Loc
      /\ Len(mo[Sequence(i)]) \in Nat /\ Len(mo[Value(i)]) \in Nat
  BY <1>1, Locations, LatestType DEF SlotInv, TypeInv, TypeOK
<1>3. view[t][Sequence(i)] = Len(mo[Sequence(i)])
  BY DEF SlotInv, Protocol, StoresInOrder, InSlot, UpToDate
<1>4. \A u \in Workers : ~Publishing(u, i)
  <2> SUFFICES ASSUME NEW u \in Workers, Publishing(u, i) PROVE FALSE
    OBVIOUS
  <2>1. InSlot(u) /\ InSlot(t) /\ u # t /\ TicketSlot(u) = TicketSlot(t)
    BY DEF Publishing, InSlot
  <2> QED
    BY <2>1, AloneInSlot DEF SlotInv, Protocol
<1>5. Len(mo[Value(i)]) = Len(mo[Sequence(i)])
  BY <1>1, <1>4 DEF SlotInv, Handover, ValuesCounted
<1>6. view[t][Sequence(i)] <= view[t][Value(i)]
  BY <1>1 DEF SlotInv, Handover, ViewsCover, Covers
<1>7. view[t][Value(i)] <= Len(mo[Value(i)]) /\ view[t][Value(i)] \in Nat
  BY <1>1, <1>2 DEF SlotInv, ViewsKnown, Known, TypeInv, TypeOK, MemoryType
<1> QED
  BY <1>2, <1>3, <1>5, <1>6, <1>7 DEF UpToDate

(***************************************************************************)
(* The release stores and acquire loads of the sequences suffice to order  *)
(* every plain write and move-out of a slot after the access before it;    *)
(* the relaxed accesses to the two positions are not needed for it.        *)
(***************************************************************************)
THEOREM NoDataRaceHolds == Spec => []NoDataRace
BY RacesExcluded, SlotInvariant, PTL

\* A thread goes back to its position only from a sequence past its own.
LEMMA ReloadStep ==
  ASSUME SlotInv, [Next]_vars, NEW t \in Workers, pc[t] = "seq", pc'[t] = "pos"
  PROVE  LoadsSequence(t)
<1>t. TypeInv /\ LocalType /\ \A u \in Workers : u \in Threads
  BY WorkerTypes DEF SlotInv, TypeInv, TypeOK
<1>1. ~ClientStep
  BY <1>t, ClientStepOutside DEF OutsideStep, Attempting
<1>2. ASSUME NEW u \in Workers,
             \/ LoadsPos(u) \/ CasFails(u) \/ CasSucceeds(u) \/ WritesSlot(u)
             \/ MovesOut(u) \/ PublishesSlot(u) \/ FreesSlot(u)
      PROVE  FALSE
  BY <1>t, <1>2
  DEF LoadsPos, CasFails, CasSucceeds, WritesSlot, MovesOut, PublishesSlot,
      FreesSlot, Goto, LocalType
<1>3. ASSUME NEW u \in Workers, LoadsSequence(u)
      PROVE  u = t
  <2> SUFFICES ASSUME u # t PROVE FALSE
    OBVIOUS
  <2>1. pc'[t] = pc[t]
    BY <1>t, <1>3, LoadEffects
  <2> QED
    BY <2>1
<1> QED
  BY <1>1, <1>2, <1>3
  DEF Next, Producer, Consumer, try_enqueue, try_dequeue, Workers, ClientStep

(***************************************************************************)
(* A positive difference always means that the ticket is gone: a thread    *)
(* that reloads its position never gives up a ticket it could have won.    *)
(***************************************************************************)
THEOREM ReloadOnlyWhenTakenHolds == Spec => ReloadOnlyWhenTaken
<1>1. SlotInv /\ [Next]_vars =>
        [\A t \in Workers :
           pc[t] = "seq" /\ pc'[t] = "pos" => ticket[t] < Latest(Pos(t))]_vars
  <2> SUFFICES ASSUME SlotInv, [Next]_vars, NEW t \in Workers,
                      pc[t] = "seq", pc'[t] = "pos"
               PROVE  ticket[t] < Latest(Pos(t))
    OBVIOUS
  <2> DEFINE x == Sequence(TicketSlot(t))
  <2>t. TypeInv /\ MemoryType /\ LocalType
    BY DEF SlotInv, TypeInv, TypeOK
  <2>w. /\ t \in Threads /\ ticket[t] \in Nat /\ TicketSlot(t) \in Slots
        /\ Expected(t) \in Nat /\ Latest(Pos(t)) \in Nat
    BY <2>t, WorkerTypes
  <2>x. x \in Loc /\ Len(mo[x]) \in Nat \ {0} /\ Latest(x) \in Nat
    BY <2>t, <2>w, SequenceTypes
  <2>1. LoadsSequence(t)
    BY ReloadStep
  <2>2. PICK k \in Readable(t, x) :
          pc'[t] = Classify(t, mo[x][k].val - Expected(t))
    BY <2>t, <2>w, <2>1 DEF LoadsSequence, Goto, LocalType
  <2>3. k \in 1 .. Len(mo[x]) /\ mo[x][k].val \in Nat
    BY <2>t, <2>w, <2>x, ReadableType, SequenceTypes
  <2>4. Expected(t) < mo[x][k].val
    BY <2>w, <2>2, <2>3 DEF Classify, AfterFailure
  <2>5. mo[x][k].val <= Latest(x)
    <3>1. CASE k = Len(mo[x])
      BY <2>x, <2>3, <3>1 DEF Latest, Newest
    <3>2. CASE k # Len(mo[x])
      <4>1. k \in 1 .. Len(mo[x]) - 1
        BY <2>x, <2>3, <3>2
      <4>2. mo[x][k].val < Latest(x)
        BY <2>w, <4>1 DEF SlotInv, Protocol, SequencesGrow
      <4> QED
        BY <2>x, <2>3, <4>2
    <3> QED
      BY <3>1, <3>2
  <2>6. Latest(x) > Expected(t)
    BY <2>w, <2>x, <2>3, <2>4, <2>5
  <2>7. ticket[t] <= Latest(Pos(t))
    BY DEF SlotInv, Protocol, TicketsHandedOut
  <2>8. ticket[t] # Latest(Pos(t))
    <3> SUFFICES ASSUME ticket[t] = Latest(Pos(t)) PROVE FALSE
      OBVIOUS
    <3>1. Latest(x) <= Expected(t)
      BY NotPassed DEF SlotInv, Protocol
    <3> QED
      BY <2>w, <2>x, <2>6, <3>1
  <2> QED
    BY <2>w, <2>7, <2>8
<1> QED
  BY <1>1, SlotInvariant, PTL DEF Spec, ReloadOnlyWhenTaken
=============================================================================
