-------------------------- MODULE SpscQueueProofs --------------------------
(***************************************************************************)
(* Theorems about SpscQueue, for every capacity, batch size, number of     *)
(* elements and of exceptions, and any staleness of the loads: its types,  *)
(* that no slot is raced for, that no cached index runs ahead, that pop()  *)
(* drains and size() is exact in the end, and that it implements the       *)
(* contract BoundedQueue.                                                  *)
(*                                                                         *)
(* The two sides mirror each other, so what a step does is proved once,    *)
(* for a side t and its peer.                                              *)
(***************************************************************************)
EXTENDS SpscQueue, RingLemmas

-----------------------------------------------------------------------------
(***************************************************************************)
(* The threads and the locations.                                          *)
(***************************************************************************)
Sides == {Producer, Consumer}

Peer(t) == IF t = Producer THEN Consumer ELSE Producer

\* The index t's peer publishes, and what t last saw of it.
PeerIdx(t) == IF t = Producer THEN HeadIdx ELSE TailIdx
Cache(t) == IF t = Producer THEN head_cache_ ELSE tail_cache_

LEMMA Names ==
  /\ Producer # Consumer /\ Main # Producer /\ Main # Consumer
  /\ Producer \in Threads /\ Consumer \in Threads /\ Main \in Threads
  /\ Sides \subseteq Threads
BY DEF Producer, Consumer, Main, Threads, Sides

LEMMA Locations ==
  /\ HeadIdx \in Loc /\ Contents(HeadIdx) = Slots
  /\ TailIdx \in Loc /\ Contents(TailIdx) = Slots
  /\ Closed \in Loc /\ Contents(Closed) = BOOLEAN
  /\ \A i \in Slots : Buffer(i) \in Loc /\ Contents(Buffer(i)) = 1 .. Pushes \cup {Empty}
BY DEF Loc, HeadIdx, TailIdx, Closed, Buffer, Contents

LEMMA LocationsDiffer ==
  /\ HeadIdx # TailIdx /\ HeadIdx # Closed /\ TailIdx # Closed
  /\ \A i : Buffer(i) # HeadIdx /\ Buffer(i) # TailIdx /\ Buffer(i) # Closed
  /\ \A i, j : Buffer(i) = Buffer(j) => i = j
BY DEF HeadIdx, TailIdx, Closed, Buffer

LEMMA Peers ==
  ASSUME NEW t \in Sides
  PROVE  /\ Peer(t) \in Sides /\ Peer(t) # t /\ Peer(Peer(t)) = t
         /\ \A u \in Sides : u = t \/ u = Peer(t)
         /\ PeerIdx(t) \in Loc /\ Contents(PeerIdx(t)) = Slots
         /\ PeerIdx(t) # Closed /\ PeerIdx(t) # PeerIdx(Peer(t))
         /\ \A i : Buffer(i) # PeerIdx(t)
BY Names, Locations, LocationsDiffer DEF Sides, Peer, PeerIdx

-----------------------------------------------------------------------------
(***************************************************************************)
(* The ring.  Side t at slot a may move Avail(t, a, v) elements when its   *)
(* peer's index is v: those in the slots less than that far ahead of a.    *)
(***************************************************************************)
Avail(t, a, v) == IF t = Producer THEN free_slots(a, v) ELSE available(a, v)

LEMMA SlotsAre == Capacity \in Nat \ {0} /\ RingSlots = Capacity + 1 /\ Slots = 0 .. Capacity
BY SpscAssumption DEF RingSlots, Slots

LEMMA RingArith ==
  ASSUME NEW a \in Slots, NEW b \in Slots
  PROVE  /\ Distance(a, b) = IF a <= b THEN b - a ELSE b - a + Capacity + 1
         /\ available(a, b) = Distance(a, b)
         /\ free_slots(a, b) = IF a < b THEN b - 1 - a ELSE b - a + Capacity
<1> DEFINE n == Capacity + 1
<1>1. n \in Nat \ {0} /\ a \in 0 .. n - 1 /\ b \in 0 .. n - 1
  BY SlotsAre
<1>2. /\ (b + n - a) % n = IF a <= b THEN b - a ELSE b - a + n
      /\ (b + n - 1 - a) % n = IF a < b THEN b - 1 - a ELSE b - 1 - a + n
  <2> HIDE DEF n
  <2> QED
    BY <1>1, RingDistance
<1> QED
  BY <1>1, <1>2, SlotsAre DEF Distance, available, free_slots

LEMMA NextSlot ==
  ASSUME NEW i \in Slots
  PROVE  /\ next(i) \in Slots
         /\ next(i) = IF i = Capacity THEN 0 ELSE i + 1
BY SpscAssumption DEF Slots, RingSlots, next

\* The same for a side.
LEMMA AvailIs ==
  ASSUME NEW t \in Sides, NEW a \in Slots, NEW v \in Slots
  PROVE  /\ t = Producer => Avail(t, a, v) = IF a < v THEN v - 1 - a ELSE v - a + Capacity
         /\ t = Consumer => Avail(t, a, v) = IF a <= v THEN v - a ELSE v - a + Capacity + 1
         /\ Distance(a, v) = IF a <= v THEN v - a ELSE v - a + Capacity + 1
BY RingArith, Names DEF Avail

LEMMA AvailRange ==
  ASSUME NEW t \in Sides, NEW a \in Slots, NEW v \in Slots
  PROVE  /\ Avail(t, a, v) \in 0 .. Capacity
         /\ Distance(a, v) \in 0 .. Capacity
         /\ Distance(a, v) = 0 <=> v = a
<1>1. /\ t = Producer => Avail(t, a, v) = IF a < v THEN v - 1 - a ELSE v - a + Capacity
      /\ t = Consumer => Avail(t, a, v) = IF a <= v THEN v - a ELSE v - a + Capacity + 1
      /\ Distance(a, v) = IF a <= v THEN v - a ELSE v - a + Capacity + 1
  BY AvailIs
<1> QED
  BY <1>1, SlotsAre DEF Sides

\* What t may move and what its peer may move add up to the capacity, and
\* while the peer may move, the slot it moves is not one of t's.
LEMMA AvailSum ==
  ASSUME NEW t \in Sides, NEW a \in Slots, NEW b \in Slots
  PROVE  /\ Avail(t, a, b) + Avail(Peer(t), b, a) = Capacity
         /\ Avail(Peer(t), b, a) >= 1 => Distance(a, b) >= Avail(t, a, b)
<1>1. /\ t = Producer => Avail(t, a, b) = IF a < b THEN b - 1 - a ELSE b - a + Capacity
      /\ t = Consumer => Avail(t, a, b) = IF a <= b THEN b - a ELSE b - a + Capacity + 1
      /\ Distance(a, b) = IF a <= b THEN b - a ELSE b - a + Capacity + 1
  BY AvailIs
<1>2. /\ Peer(t) = Producer =>
           Avail(Peer(t), b, a) = IF b < a THEN a - 1 - b ELSE a - b + Capacity
      /\ Peer(t) = Consumer =>
           Avail(Peer(t), b, a) = IF b <= a THEN a - b ELSE a - b + Capacity + 1
  BY AvailIs, Peers
<1>3. \/ t = Producer /\ Peer(t) = Consumer
      \/ t = Consumer /\ Peer(t) = Producer
  BY Names DEF Peer, Sides
<1> QED
  BY <1>1, <1>2, <1>3, SlotsAre

\* t moves on by one slot.
LEMMA AvailAfterOwn ==
  ASSUME NEW t \in Sides, NEW a \in Slots, NEW v \in Slots
  PROVE  /\ Avail(t, a, v) >= 1 => Avail(t, next(a), v) = Avail(t, a, v) - 1
         /\ v # a => Distance(next(a), v) = Distance(a, v) - 1
         /\ v = a => Distance(next(a), v) = Capacity
<1>1. PICK b \in Slots : b = next(a) /\ b = IF a = Capacity THEN 0 ELSE a + 1
  BY NextSlot
<1>2. /\ t = Producer => Avail(t, a, v) = IF a < v THEN v - 1 - a ELSE v - a + Capacity
      /\ t = Consumer => Avail(t, a, v) = IF a <= v THEN v - a ELSE v - a + Capacity + 1
      /\ Distance(a, v) = IF a <= v THEN v - a ELSE v - a + Capacity + 1
  BY AvailIs
<1>3. /\ t = Producer => Avail(t, b, v) = IF b < v THEN v - 1 - b ELSE v - b + Capacity
      /\ t = Consumer => Avail(t, b, v) = IF b <= v THEN v - b ELSE v - b + Capacity + 1
      /\ Distance(b, v) = IF b <= v THEN v - b ELSE v - b + Capacity + 1
  BY AvailIs
<1> QED
  BY <1>1, <1>2, <1>3, SlotsAre DEF Sides

\* t's peer moves on by one slot.
LEMMA AvailAfterPeer ==
  ASSUME NEW t \in Sides, NEW a \in Slots, NEW v \in Slots, Avail(t, a, v) < Capacity
  PROVE  Avail(t, a, next(v)) = Avail(t, a, v) + 1
<1>1. PICK j \in Slots : j = next(v) /\ j = IF v = Capacity THEN 0 ELSE v + 1
  BY NextSlot
<1>2. /\ t = Producer => Avail(t, a, v) = IF a < v THEN v - 1 - a ELSE v - a + Capacity
      /\ t = Consumer => Avail(t, a, v) = IF a <= v THEN v - a ELSE v - a + Capacity + 1
  BY AvailIs
<1>3. /\ t = Producer => Avail(t, a, j) = IF a < j THEN j - 1 - a ELSE j - a + Capacity
      /\ t = Consumer => Avail(t, a, j) = IF a <= j THEN j - a ELSE j - a + Capacity + 1
  BY AvailIs
<1> QED
  BY <1>1, <1>2, <1>3, SlotsAre DEF Sides

-----------------------------------------------------------------------------
(***************************************************************************)
(* The memory.  Every view, a thread's or a message's, is of messages that *)
(* exist.  A load raises the loading thread's view and changes nothing     *)
(* else; a store appends one message, which the storing thread has seen.   *)
(***************************************************************************)
MemoryInv ==
  /\ DOMAIN mo = Loc
  /\ \A x \in Loc : mo[x] \in Seq(Messages(Contents(x))) \ {<<>>}
  /\ view \in [Threads -> [Loc -> Nat \ {0}]]
  /\ \A t \in Threads, x \in Loc : view[t][x] <= Len(mo[x])
  /\ \A x, y \in Loc : \A k \in 1 .. Len(mo[x]) : mo[x][k].view[y] <= Len(mo[y])

LEMMA MessageType ==
  ASSUME MemoryInv, NEW x \in Loc, NEW k \in 1 .. Len(mo[x])
  PROVE  mo[x][k].val \in Contents(x) /\ mo[x][k].view \in [Loc -> Nat]
<1>1. mo[x] \in Seq(Messages(Contents(x)))
  BY DEF MemoryInv
<1>2. mo[x][k] \in Messages(Contents(x))
  BY <1>1
<1> QED
  BY <1>2 DEF Messages

LEMMA LengthType ==
  ASSUME MemoryInv, NEW x \in Loc
  PROVE  Len(mo[x]) \in Nat \ {0} /\ Latest(x) \in Contents(x)
<1>1. mo[x] \in Seq(Messages(Contents(x))) /\ mo[x] # <<>>
  BY DEF MemoryInv
<1>2. Len(mo[x]) \in Nat \ {0}
  BY <1>1
<1>3. Len(mo[x]) \in 1 .. Len(mo[x])
  BY <1>2
<1> QED
  BY <1>2, <1>3, MessageType DEF Latest, Newest

LEMMA ReadableRange ==
  ASSUME MemoryInv, NEW t \in Threads, NEW x \in Loc, NEW k \in Readable(t, x)
  PROVE  k \in 1 .. Len(mo[x]) /\ k >= view[t][x]
BY LengthType DEF MemoryInv, Readable

\* What t's load does.
Loads(t) ==
  /\ mo' = mo
  /\ \A u \in Threads \ {t} : view'[u] = view[u]
  /\ \A y \in Loc : view'[t][y] >= view[t][y]

LEMMA LoadRelaxedEffect ==
  ASSUME MemoryInv, NEW t \in Threads, NEW x \in Loc, NEW k \in Readable(t, x),
         LoadRelaxed(t, x, k)
  PROVE  MemoryInv' /\ Loads(t) /\ view'[t][x] = k
<1>1. k \in 1 .. Len(mo[x]) /\ k >= view[t][x]
  BY ReadableRange
<1>2. k \in Nat \ {0}
  BY <1>1, LengthType
<1> QED
  BY <1>1, <1>2 DEF MemoryInv, LoadRelaxed, Loads

LEMMA LoadAcquireEffect ==
  ASSUME MemoryInv, NEW t \in Threads, NEW x \in Loc, NEW k \in Readable(t, x),
         LoadAcquire(t, x, k)
  PROVE  /\ MemoryInv' /\ Loads(t) /\ view'[t][x] >= k
         /\ \A y \in Loc : view'[t][y] >= mo[x][k].view[y]
<1> DEFINE v == [view[t] EXCEPT ![x] = k]
           w == mo[x][k].view
<1>1. k \in 1 .. Len(mo[x]) /\ k >= view[t][x]
  BY ReadableRange
<1>2. k \in Nat \ {0}
  BY <1>1, LengthType
<1>3. w \in [Loc -> Nat] /\ \A y \in Loc : w[y] <= Len(mo[y])
  BY <1>1, MessageType DEF MemoryInv
<1>4. /\ v \in [Loc -> Nat \ {0}]
      /\ v[x] = k /\ \A y \in Loc : v[y] >= view[t][y] /\ v[y] <= Len(mo[y])
  BY <1>1, <1>2 DEF MemoryInv
<1> HIDE DEF v, w
<1>5. /\ Join(v, w) \in [Loc -> Nat \ {0}]
      /\ \A y \in Loc : Join(v, w)[y] >= v[y] /\ Join(v, w)[y] >= w[y]
      /\ \A y \in Loc : Join(v, w)[y] <= Len(mo[y])
  BY <1>3, <1>4 DEF Join
<1>6. view' = [view EXCEPT ![t] = Join(v, w)] /\ mo' = mo
  BY DEF LoadAcquire, MemoryInv, v, w
<1>7. view'[t] = Join(v, w) /\ \A u \in Threads \ {t} : view'[u] = view[u]
  BY <1>6 DEF MemoryInv
<1>8. MemoryInv'
  BY <1>5, <1>6, <1>7 DEF MemoryInv
<1>9. \A y \in Loc : view'[t][y] >= view[t][y]
  <2> TAKE y \in Loc
  <2>1. Join(v, w)[y] >= v[y] /\ v[y] >= view[t][y]
    BY <1>4, <1>5
  <2>2. Join(v, w)[y] \in Nat /\ v[y] \in Nat /\ view[t][y] \in Nat
    BY <1>4, <1>5 DEF MemoryInv
  <2> QED
    BY <1>7, <2>1, <2>2
<1>10. Loads(t)
  BY <1>6, <1>7, <1>9 DEF Loads
<1>11. view'[t][x] >= k /\ \A y \in Loc : view'[t][y] >= w[y]
  BY <1>4, <1>5, <1>7
<1> QED
  BY <1>8, <1>10, <1>11 DEF w

LEMMA JoinThreadEffect ==
  ASSUME MemoryInv, NEW t \in Threads, NEW s \in Threads, JoinThread(t, s)
  PROVE  /\ MemoryInv' /\ Loads(t)
         /\ \A y \in Loc : view'[t][y] >= view[s][y]
<1> DEFINE v == view[t]
           w == view[s]
<1>1. /\ v \in [Loc -> Nat \ {0}] /\ w \in [Loc -> Nat \ {0}]
      /\ \A y \in Loc : v[y] <= Len(mo[y]) /\ w[y] <= Len(mo[y])
  BY DEF MemoryInv
<1>2. view' = [view EXCEPT ![t] = Join(v, w)] /\ mo' = mo
  BY DEF JoinThread, MemoryInv
<1>3. view'[t] = Join(v, w) /\ \A u \in Threads \ {t} : view'[u] = view[u]
  BY <1>2 DEF MemoryInv
<1> HIDE DEF v, w
<1>4. /\ Join(v, w) \in [Loc -> Nat \ {0}]
      /\ \A y \in Loc : Join(v, w)[y] >= v[y] /\ Join(v, w)[y] >= w[y]
      /\ \A y \in Loc : Join(v, w)[y] <= Len(mo[y])
  BY <1>1 DEF Join
<1>5. MemoryInv'
  BY <1>2, <1>3, <1>4 DEF MemoryInv
<1> QED
  BY <1>2, <1>3, <1>4, <1>5 DEF Loads, v, w

\* What t's store of message m to x does.
Stored(t, x, m) ==
  /\ Len(mo'[x]) = Len(mo[x]) + 1
  /\ mo'[x][Len(mo[x]) + 1] = m
  /\ \A k \in 1 .. Len(mo[x]) : mo'[x][k] = mo[x][k]
  /\ \A y \in Loc \ {x} : mo'[y] = mo[y]
  /\ view'[t][x] = Len(mo[x]) + 1
  /\ \A y \in Loc \ {x} : view'[t][y] = view[t][y]
  /\ \A u \in Threads \ {t} : view'[u] = view[u]

LEMMA PutEffect ==
  ASSUME MemoryInv, NEW t \in Threads, NEW x \in Loc,
         NEW m \in Messages(Contents(x)), Put(t, x, m),
         \A y \in Loc : m.view[y] <= IF y = x THEN Len(mo[x]) + 1 ELSE Len(mo[y])
  PROVE  MemoryInv' /\ Stored(t, x, m) /\ Latest(x)' = m.val
<1>1. mo[x] \in Seq(Messages(Contents(x))) /\ Len(mo[x]) \in Nat
  BY DEF MemoryInv
<1>2. /\ mo'[x] = Append(mo[x], m) /\ DOMAIN mo' = Loc
      /\ \A y \in Loc \ {x} : mo'[y] = mo[y]
  BY DEF Put, MemoryInv
<1>3. /\ mo'[x] \in Seq(Messages(Contents(x))) \ {<<>>}
      /\ Len(mo'[x]) = Len(mo[x]) + 1
      /\ mo'[x][Len(mo[x]) + 1] = m
      /\ \A k \in 1 .. Len(mo[x]) : mo'[x][k] = mo[x][k]
  BY <1>1, <1>2
<1>4. /\ view' \in [Threads -> [Loc -> Nat \ {0}]]
      /\ view'[t][x] = Len(mo[x]) + 1
      /\ \A y \in Loc \ {x} : view'[t][y] = view[t][y]
      /\ \A u \in Threads \ {t} : view'[u] = view[u]
  BY <1>1 DEF Put, MemoryInv
<1>5. Stored(t, x, m)
  BY <1>2, <1>3, <1>4 DEF Stored
<1>6. \A y \in Loc : Len(mo[y]) \in Nat /\ Len(mo'[y]) \in Nat /\ Len(mo'[y]) >= Len(mo[y])
  BY <1>2, <1>3, LengthType
<1>7. \A u \in Threads, y \in Loc : view'[u][y] <= Len(mo'[y])
  <2> TAKE u \in Threads, y \in Loc
  <2>1. CASE y = x
    <3>1. view[u][x] \in Nat /\ view[u][x] <= Len(mo[x])
      BY DEF MemoryInv
    <3>2. view'[u][x] = view[u][x] \/ view'[u][x] = Len(mo[x]) + 1
      BY <1>4
    <3>3. view'[u][x] <= Len(mo'[x])
      BY <1>1, <1>3, <3>1, <3>2
    <3> QED
      BY <2>1, <3>3
  <2>2. CASE y # x
    <3>1. view'[u][y] = view[u][y]
      BY <1>4, <2>2
    <3> QED
      BY <1>2, <2>2, <3>1 DEF MemoryInv
  <2> QED
    BY <2>1, <2>2
<1>8. ASSUME NEW z \in Loc, NEW y \in Loc, NEW k \in 1 .. Len(mo'[z])
      PROVE  mo'[z][k].view[y] <= Len(mo'[y])
  <2>1. CASE z = x /\ k = Len(mo[x]) + 1
    <3>1. m.view[y] <= IF y = x THEN Len(mo[x]) + 1 ELSE Len(mo[y])
      OBVIOUS
    <3> QED
      BY <1>2, <1>3, <2>1, <3>1
  <2>2. CASE ~(z = x /\ k = Len(mo[x]) + 1)
    <3>1. k \in 1 .. Len(mo[z]) /\ mo'[z][k] = mo[z][k]
      <4>1. CASE z = x
        BY <1>1, <1>3, <1>8, <2>2, <4>1
      <4>2. CASE z # x
        BY <1>2, <1>8, <4>2
      <4> QED
        BY <4>1, <4>2
    <3>2. mo[z][k].view[y] <= Len(mo[y]) /\ mo[z][k].view[y] \in Nat
      BY <3>1, MessageType DEF MemoryInv
    <3> QED
      BY <1>6, <3>1, <3>2
  <2> QED
    BY <2>1, <2>2
<1>9. MemoryInv'
  <2>1. \A y \in Loc : mo'[y] \in Seq(Messages(Contents(y))) \ {<<>>}
    BY <1>2, <1>3 DEF MemoryInv
  <2> QED
    BY <1>2, <1>4, <1>7, <1>8, <2>1 DEF MemoryInv
<1> QED
  BY <1>3, <1>5, <1>9 DEF Latest, Newest

LEMMA StoreReleaseEffect ==
  ASSUME MemoryInv, NEW t \in Threads, NEW x \in Loc, NEW v \in Contents(x),
         StoreRelease(t, x, v)
  PROVE  /\ MemoryInv'
         /\ Stored(t, x, Message(v, [view[t] EXCEPT ![x] = Len(mo[x]) + 1]))
         /\ Latest(x)' = v
<1> DEFINE w == [view[t] EXCEPT ![x] = Len(mo[x]) + 1]
<1>1. Len(mo[x]) \in Nat
  BY LengthType
<1>2. /\ w \in [Loc -> Nat]
      /\ \A y \in Loc : w[y] <= IF y = x THEN Len(mo[x]) + 1 ELSE Len(mo[y])
  BY <1>1 DEF MemoryInv
<1>3. /\ Message(v, w) \in Messages(Contents(x))
      /\ Message(v, w).view = w /\ Message(v, w).val = v
  BY <1>2 DEF Message, Messages
<1> HIDE DEF w
<1>4. Put(t, x, Message(v, w))
  BY DEF StoreRelease, w
<1>5. MemoryInv' /\ Stored(t, x, Message(v, w)) /\ Latest(x)' = v
  BY <1>2, <1>3, <1>4, PutEffect
<1> QED
  BY <1>5 DEF w

LEMMA AccessEffect ==
  ASSUME MemoryInv, NEW t \in Threads, NEW x \in Loc, NEW v \in Contents(x),
         Access(t, x, v)
  PROVE  MemoryInv' /\ Stored(t, x, Message(v, NoView)) /\ Latest(x)' = v
<1>1. NoView \in [Loc -> Nat] /\ \A y \in Loc : NoView[y] = 0
  BY DEF NoView, MemoryInv
<1>2. /\ Message(v, NoView) \in Messages(Contents(x))
      /\ Message(v, NoView).view = NoView /\ Message(v, NoView).val = v
  BY <1>1 DEF Message, Messages
<1>3. \A y \in Loc : Len(mo[y]) \in Nat
  BY LengthType
<1> QED
  BY <1>1, <1>2, <1>3, PutEffect DEF Access
-----------------------------------------------------------------------------
(***************************************************************************)
(* Types.  A call still has elements to move until it publishes, and the   *)
(* producer's are within the elements it may write.                        *)
(***************************************************************************)
LocalType ==
  /\ pc \in [Threads -> {"idle", "closed", "refresh", "move", "publish",
                         "asks", "size", "final", "done"}]
  /\ op \in [Threads -> {"none", "push", "try_push", "try_push_n",
                         "pop", "try_pop", "try_pop_n", "last"}]
  /\ left \in [Threads -> Nat]
  /\ index \in [Threads -> Slots]
  /\ head_cache_ \in Slots
  /\ tail_cache_ \in Slots

HistoryType ==
  /\ written \in 0 .. Pushes
  /\ delivered \in Seq(1 .. Pushes \cup {Empty, Torn})
  /\ thrown \in 0 .. Throws
  /\ joined \subseteq {Producer, Consumer}
  /\ orderly \in BOOLEAN
  /\ sizeRet \in 0 .. Capacity

CallReady ==
  /\ \A t \in Sides : pc[t] \in {"closed", "refresh", "move"} => left[t] >= 1
  /\ pc[Producer] \in {"closed", "refresh", "move"} => written + left[Producer] <= Pushes

TypeInv == MemoryInv /\ LocalType /\ HistoryType /\ CallReady

LEMMA TypeInvImplies == TypeInv => TypeOK
BY DEF TypeInv, MemoryInv, LocalType, HistoryType, TypeOK

\* How many elements a call may move: no more than it was asked for, no
\* more than there are, and none only if there are none.
LEMMA RoomBound ==
  ASSUME LocalType, NEW h \in Slots, left[Producer] >= 1
  PROVE  /\ Room(h) \in 0 .. left[Producer] /\ Room(h) <= Avail(Producer, index[Producer], h)
         /\ Room(h) = 0 => Avail(Producer, index[Producer], h) = 0
         /\ op[Producer] # "try_push_n" => Room(h) <= 1
<1>1. PICK a \in Slots : index[Producer] = a
  BY Names DEF LocalType
<1>2. Avail(Producer, index[Producer], h) = free_slots(a, h) /\ left[Producer] \in Nat
  BY <1>1, Names DEF Avail, LocalType
<1>3. free_slots(a, h) = IF a < h THEN h - 1 - a ELSE h - a + Capacity
  BY RingArith
<1>4. next(a) = IF a = Capacity THEN 0 ELSE a + 1
  BY NextSlot
<1> QED
  BY <1>1, <1>2, <1>3, <1>4, SlotsAre DEF Room, Least, has_room

LEMMA DataBound ==
  ASSUME LocalType, NEW o, NEW n \in Nat \ {0}, NEW v \in Slots
  PROVE  /\ Data(o, n, v) \in 0 .. n /\ Data(o, n, v) <= Avail(Consumer, index[Consumer], v)
         /\ Data(o, n, v) = 0 => Avail(Consumer, index[Consumer], v) = 0
         /\ o # "try_pop_n" => Data(o, n, v) <= 1
<1>1. PICK a \in Slots : index[Consumer] = a
  BY Names DEF LocalType
<1>2. Avail(Consumer, index[Consumer], v) = available(a, v)
  BY <1>1, Names DEF Avail
<1>3. available(a, v) = IF a <= v THEN v - a ELSE v - a + Capacity + 1
  BY RingArith
<1> QED
  BY <1>1, <1>2, <1>3, SlotsAre DEF Data, Least, has_data

LEMMA TypeInit == Init => TypeInv
<1> SUFFICES ASSUME Init PROVE TypeInv
  OBVIOUS
<1>1. \A x \in Loc : InitialValue(x) \in Contents(x)
  <2>1. InitialValue(HeadIdx) = 0 /\ InitialValue(TailIdx) = 0
    BY DEF InitialValue, HeadIdx, TailIdx
  <2>2. InitialValue(Closed) \in BOOLEAN
    BY DEF InitialValue, Closed
  <2>3. \A i \in Slots : InitialValue(Buffer(i)) = Empty
    BY DEF InitialValue, Buffer
  <2> QED
    BY <2>1, <2>2, <2>3, Locations, SlotsAre DEF Loc
<1>2. \A x \in Loc : /\ Message(InitialValue(x), [y \in Loc |-> 1]) \in Messages(Contents(x))
                     /\ Message(InitialValue(x), [y \in Loc |-> 1]).view = [y \in Loc |-> 1]
  BY <1>1 DEF Message, Messages
<1>3. \A x \in Loc : /\ mo[x] \in Seq(Messages(Contents(x))) \ {<<>>} /\ Len(mo[x]) = 1
                     /\ mo[x][1].view = [y \in Loc |-> 1]
  BY <1>2 DEF Init
<1>4. MemoryInv
  <2>1. \A x, y \in Loc : \A k \in 1 .. Len(mo[x]) : mo[x][k].view[y] <= Len(mo[y])
    <3> TAKE x, y \in Loc
    <3> TAKE k \in 1 .. Len(mo[x])
    <3>1. Len(mo[x]) = 1 /\ Len(mo[y]) = 1 /\ mo[x][1].view = [z \in Loc |-> 1]
      BY <1>3
    <3>2. k = 1
      BY <3>1
    <3>3. mo[x][k].view[y] = 1
      BY <3>1, <3>2
    <3> QED
      BY <3>1, <3>3
  <2> QED
    BY <1>3, <2>1 DEF Init, MemoryInv
<1>5. LocalType
  BY SlotsAre DEF Init, LocalType
<1>6. HistoryType
  <2>1. orderly \in BOOLEAN
    BY Zenon DEF Init
  <2>2. <<>> \in Seq(1 .. Pushes \cup {Empty, Torn})
    OBVIOUS
  <2> QED
    BY <2>1, <2>2, SpscAssumption DEF Init, HistoryType
<1>7. \A t \in Threads : pc[t] = "idle"
  BY DEF Init
<1>8. CallReady
  BY <1>7, Names DEF CallReady
<1> QED
  BY <1>4, <1>5, <1>6, <1>8 DEF TypeInv

\* Where a call goes that was asked for n elements and may move m of them.
LEMMA ProceedsType ==
  ASSUME LocalType, NEW t \in Sides, NEW n \in Nat \ {0}, NEW m \in 0 .. n,
         NEW l \in {"refresh", "asks", "done", "closed"}, Proceeds(t, n, m, l)
  PROVE  /\ pc' \in [Threads -> {"idle", "closed", "refresh", "move", "publish",
                                 "asks", "size", "final", "done"}]
         /\ left' \in [Threads -> Nat]
         /\ left'[t] >= 1 /\ left'[t] <= n
         /\ pc'[t] = IF m = 0 THEN l ELSE "move"
         /\ pc'[t] = "move" => left'[t] = m
         /\ \A u \in Threads \ {t} : pc'[u] = pc[u] /\ left'[u] = left[u]
<1>1. t \in Threads
  BY Names
<1> QED
  BY <1>1 DEF LocalType, Proceeds, Goto

LEMMA AfterFailureType ==
  ASSUME NEW t
  PROVE  AfterFailure(t) \in {"asks", "done", "closed"}
BY DEF AfterFailure

LEMMA TypeStep == TypeInv /\ [Next]_vars => TypeInv'
<1> SUFFICES ASSUME TypeInv, [Next]_vars PROVE TypeInv'
  OBVIOUS
<1>t. MemoryInv /\ LocalType /\ HistoryType /\ CallReady
  BY DEF TypeInv
<1>s. /\ Producer \in Sides /\ Consumer \in Sides
      /\ \A u \in Sides : u = Producer \/ u = Consumer
  BY DEF Sides
\* What a step leaves alone keeps its type.
<1>h. UNCHANGED history => HistoryType'
  BY <1>t DEF HistoryType, history
<1>m. UNCHANGED memory => MemoryInv'
  BY <1>t DEF MemoryInv, memory
<1> USE Names
<1>1. ASSUME NEW o \in PushOps, NEW n \in 1 .. Batch, CallPush(o, n)
      PROVE  TypeInv'
  <2>1. o \in {"push", "try_push", "try_push_n"} /\ n \in Nat \ {0}
    BY SpscAssumption
  <2>2. LocalType'
    BY <1>t, <1>1, <2>1 DEF CallPush, Goto, LocalType, caches
  <2>3. CallReady'
    BY <1>t, <1>1, <1>s, <2>1 DEF CallPush, Goto, CallReady, LocalType, history
  <2> QED
    BY <1>1, <1>h, <1>m, <2>2, <2>3 DEF CallPush, TypeInv
<1>2. ASSUME PushChecksClosed
      PROVE  TypeInv'
  <2>1. PICK k \in Readable(Producer, Closed) :
          /\ LoadRelaxed(Producer, Closed, k)
          /\ IF mo[Closed][k].val
             THEN /\ Goto(Producer, IF op[Producer] = "push" THEN "done" ELSE "asks")
                  /\ UNCHANGED left
             ELSE Proceeds(Producer, left[Producer], Room(head_cache_), "refresh")
    BY <1>2 DEF PushChecksClosed
  <2>2. MemoryInv'
    BY <1>t, <2>1, Locations, LoadRelaxedEffect
  <2>3. left[Producer] \in Nat \ {0} /\ written + left[Producer] <= Pushes
    BY <1>t, <1>2, <1>s DEF PushChecksClosed, CallReady, LocalType
  <2>4. Room(head_cache_) \in 0 .. left[Producer]
    BY <1>t, <2>3, RoomBound DEF LocalType
  <2>5. CASE mo[Closed][k].val
    <3>1. LocalType' /\ CallReady'
      BY <1>t, <1>s, <1>2, <2>1, <2>5
      DEF PushChecksClosed, LocalType, CallReady, Goto, caches, history
    <3> QED
      BY <1>2, <1>h, <2>2, <3>1 DEF PushChecksClosed, TypeInv
  <2>6. CASE ~mo[Closed][k].val
    <3>1. Proceeds(Producer, left[Producer], Room(head_cache_), "refresh")
      BY <2>1, <2>6
    <3>2. LocalType' /\ left'[Producer] >= 1 /\ left'[Producer] <= left[Producer]
      BY <1>t, <1>s, <1>2, <2>3, <2>4, <3>1, ProceedsType
      DEF PushChecksClosed, LocalType, caches
    <3>3. pc'[Consumer] = pc[Consumer] /\ left'[Consumer] = left[Consumer] /\ written' = written
      BY <1>t, <1>s, <1>2, <2>3, <2>4, <3>1, ProceedsType DEF PushChecksClosed, history
    <3>4. written' + left'[Producer] <= Pushes
      <4>1. written \in Nat /\ left'[Producer] \in Nat /\ Pushes \in Nat
        BY <1>t, <3>2, SpscAssumption DEF HistoryType, LocalType
      <4> QED
        BY <2>3, <3>2, <3>3, <4>1
    <3>5. CallReady'
      BY <1>t, <1>s, <3>2, <3>3, <3>4 DEF CallReady
    <3> QED
      BY <1>2, <1>h, <2>2, <3>2, <3>5 DEF PushChecksClosed, TypeInv
  <2> QED
    BY <2>5, <2>6
<1>3. ASSUME RefreshesHead
      PROVE  TypeInv'
  <2>1. PICK k \in Readable(Producer, HeadIdx) :
          /\ LoadAcquire(Producer, HeadIdx, k)
          /\ head_cache_' = mo[HeadIdx][k].val
          /\ Proceeds(Producer, left[Producer], Room(mo[HeadIdx][k].val),
                      AfterFailure(Producer))
    BY <1>3 DEF RefreshesHead, LoadsPeer
  <2>2. MemoryInv'
    BY <1>t, <2>1, Locations, LoadAcquireEffect
  <2>3. left[Producer] \in Nat \ {0} /\ written + left[Producer] <= Pushes
    BY <1>t, <1>3, <1>s DEF RefreshesHead, CallReady, LocalType
  <2>4. mo[HeadIdx][k].val \in Slots
    BY <1>t, Locations, ReadableRange, MessageType
  <2>5. Room(mo[HeadIdx][k].val) \in 0 .. left[Producer]
    BY <1>t, <2>3, <2>4, RoomBound
  <2>6. AfterFailure(Producer) \in {"refresh", "asks", "done", "closed"}
    BY AfterFailureType
  <2>7. LocalType' /\ left'[Producer] >= 1 /\ left'[Producer] <= left[Producer]
    BY <1>t, <1>s, <1>3, <2>1, <2>3, <2>4, <2>5, <2>6, ProceedsType
    DEF RefreshesHead, LocalType
  <2>8. pc'[Consumer] = pc[Consumer] /\ left'[Consumer] = left[Consumer] /\ written' = written
    BY <1>t, <1>s, <1>3, <2>1, <2>3, <2>5, <2>6, ProceedsType DEF RefreshesHead, history
  <2>9. written' + left'[Producer] <= Pushes
    <3>1. written \in Nat /\ left'[Producer] \in Nat /\ Pushes \in Nat
      BY <1>t, <2>7, SpscAssumption DEF HistoryType, LocalType
    <3> QED
      BY <2>3, <2>7, <2>8, <3>1
  <2>10. CallReady'
    BY <1>t, <1>s, <2>7, <2>8, <2>9 DEF CallReady
  <2> QED
    BY <1>3, <1>h, <2>2, <2>7, <2>10 DEF RefreshesHead, TypeInv
<1>4. ASSUME WritesSlot
      PROVE  TypeInv'
  <2>1. /\ left[Producer] \in Nat \ {0} /\ written + left[Producer] <= Pushes
        /\ index[Producer] \in Slots /\ written \in Nat
    BY <1>t, <1>4, <1>s DEF WritesSlot, CallReady, LocalType, HistoryType
  <2>2. written + 1 \in 1 .. Pushes
    BY <2>1, SpscAssumption
  <2>3. MemoryInv'
    BY <1>t, <1>4, <2>1, <2>2, Locations, AccessEffect DEF WritesSlot
  <2>4. LocalType'
    BY <1>t, <1>4, <2>1, NextSlot DEF WritesSlot, Goto, LocalType, caches
  <2>5. HistoryType'
    BY <1>t, <1>4, <2>2 DEF WritesSlot, HistoryType
  <2>6. CallReady'
    BY <1>t, <1>s, <1>4, <2>1 DEF WritesSlot, Goto, LocalType, CallReady
  <2> QED
    BY <2>3, <2>4, <2>5, <2>6 DEF TypeInv
<1>5. ASSUME WriteThrows
      PROVE  TypeInv'
  <2>1. MemoryInv'
    BY <1>t, <1>5, Locations, AccessEffect DEF WriteThrows, LocalType
  <2>2. LocalType' /\ CallReady'
    BY <1>t, <1>s, <1>5 DEF WriteThrows, Goto, LocalType, CallReady, caches
  <2>3. HistoryType'
    BY <1>t, <1>5, SpscAssumption DEF WriteThrows, HistoryType
  <2> QED
    BY <2>1, <2>2, <2>3 DEF TypeInv
<1>6. ASSUME PublishesTail
      PROVE  TypeInv'
  <2>1. MemoryInv'
    BY <1>t, <1>6, Locations, StoreReleaseEffect DEF PublishesTail, LocalType
  <2>2. LocalType' /\ CallReady'
    BY <1>t, <1>s, <1>6 DEF PublishesTail, Goto, LocalType, CallReady, caches, history
  <2> QED
    BY <1>6, <1>h, <2>1, <2>2 DEF PublishesTail, TypeInv
<1>7. ASSUME AsksClosed
      PROVE  TypeInv'
  <2>1. PICK k \in Readable(Producer, Closed) :
          /\ LoadAcquire(Producer, Closed, k)
          /\ Goto(Producer, IF mo[Closed][k].val THEN "done" ELSE "idle")
    BY <1>7 DEF AsksClosed
  <2>2. MemoryInv'
    BY <1>t, <2>1, Locations, LoadAcquireEffect
  <2>3. LocalType' /\ CallReady'
    BY <1>t, <1>s, <1>7, <2>1 DEF AsksClosed, Goto, LocalType, CallReady, caches, history
  <2> QED
    BY <1>7, <1>h, <2>2, <2>3 DEF AsksClosed, TypeInv
<1>8. ASSUME EndProducer
      PROVE  TypeInv'
  <2>1. LocalType' /\ CallReady'
    BY <1>t, <1>s, <1>8 DEF EndProducer, Goto, LocalType, CallReady, caches, history
  <2> QED
    BY <1>8, <1>h, <1>m, <2>1 DEF EndProducer, TypeInv
<1>9. ASSUME NEW o \in PopOps, NEW n \in 1 .. Batch, CallPop(o, n)
      PROVE  TypeInv'
  <2>1. o \in {"pop", "try_pop", "try_pop_n"} /\ n \in Nat \ {0}
    BY SpscAssumption
  <2>2. Data(o, n, tail_cache_) \in 0 .. n
    BY <1>t, <2>1, DataBound DEF LocalType
  <2>3. Proceeds(Consumer, n, Data(o, n, tail_cache_), "refresh")
    BY <1>9 DEF CallPop
  <2>4. LocalType' /\ left'[Consumer] >= 1
    BY <1>t, <1>s, <1>9, <2>1, <2>2, <2>3, ProceedsType DEF CallPop, LocalType, caches
  <2>5. pc'[Producer] = pc[Producer] /\ left'[Producer] = left[Producer] /\ written' = written
    BY <1>t, <1>s, <1>9, <2>1, <2>2, <2>3, ProceedsType DEF CallPop, history
  <2>6. CallReady'
    BY <1>t, <1>s, <2>4, <2>5 DEF CallReady
  <2> QED
    BY <1>9, <1>h, <1>m, <2>4, <2>6 DEF CallPop, TypeInv
<1>10. ASSUME RefreshesTail
       PROVE  TypeInv'
  <2>1. PICK k \in Readable(Consumer, TailIdx) :
          /\ LoadAcquire(Consumer, TailIdx, k)
          /\ tail_cache_' = mo[TailIdx][k].val
          /\ Proceeds(Consumer, left[Consumer],
                      Data(op[Consumer], left[Consumer], mo[TailIdx][k].val),
                      AfterFailure(Consumer))
    BY <1>10 DEF RefreshesTail, LoadsPeer
  <2>2. MemoryInv'
    BY <1>t, <2>1, Locations, LoadAcquireEffect
  <2>3. left[Consumer] \in Nat \ {0}
    BY <1>t, <1>10, <1>s DEF RefreshesTail, CallReady, LocalType
  <2>4. mo[TailIdx][k].val \in Slots
    BY <1>t, Locations, ReadableRange, MessageType
  <2>5. Data(op[Consumer], left[Consumer], mo[TailIdx][k].val) \in 0 .. left[Consumer]
    BY <1>t, <2>3, <2>4, DataBound
  <2>6. AfterFailure(Consumer) \in {"refresh", "asks", "done", "closed"}
    BY AfterFailureType
  <2>7. LocalType' /\ left'[Consumer] >= 1
    BY <1>t, <1>s, <1>10, <2>1, <2>3, <2>4, <2>5, <2>6, ProceedsType
    DEF RefreshesTail, LocalType
  <2>8. pc'[Producer] = pc[Producer] /\ left'[Producer] = left[Producer] /\ written' = written
    BY <1>t, <1>s, <1>10, <2>1, <2>3, <2>5, <2>6, ProceedsType DEF RefreshesTail, history
  <2>9. CallReady'
    BY <1>t, <1>s, <2>7, <2>8 DEF CallReady
  <2> QED
    BY <1>10, <1>h, <2>2, <2>7, <2>9 DEF RefreshesTail, TypeInv
<1>11. ASSUME MovesOut
       PROVE  TypeInv'
  <2>1. left[Consumer] \in Nat \ {0} /\ index[Consumer] \in Slots
    BY <1>t, <1>11, <1>s DEF MovesOut, CallReady, LocalType
  <2>2. MemoryInv'
    BY <1>t, <1>11, <2>1, Locations, AccessEffect DEF MovesOut
  <2>3. LocalType'
    BY <1>t, <1>11, <2>1, NextSlot DEF MovesOut, Goto, LocalType, caches
  <2>4. PICK v \in Outcomes(index[Consumer]) : delivered' = Append(delivered, v)
    BY <1>11 DEF MovesOut
  <2>5. v \in 1 .. Pushes \cup {Empty, Torn}
    <3>1. /\ Latest(Buffer(index[Consumer])) \in 1 .. Pushes \cup {Empty}
          /\ \A k \in 1 .. Len(mo[Buffer(index[Consumer])]) :
               mo[Buffer(index[Consumer])][k].val \in 1 .. Pushes \cup {Empty}
      BY <1>t, <2>1, Locations, LengthType, MessageType
    <3> QED
      BY <3>1 DEF Outcomes
  <2>6. HistoryType'
    BY <1>t, <1>11, <2>4, <2>5 DEF MovesOut, HistoryType
  <2>7. CallReady'
    BY <1>t, <1>s, <1>11, <2>1 DEF MovesOut, Goto, LocalType, CallReady
  <2> QED
    BY <2>2, <2>3, <2>6, <2>7 DEF TypeInv
<1>12. ASSUME MoveThrows
       PROVE  TypeInv'
  <2>1. index[Consumer] \in Slots /\ Latest(Buffer(index[Consumer])) \in 1 .. Pushes \cup {Empty}
    BY <1>t, Locations, LengthType DEF LocalType
  <2>2. MemoryInv'
    BY <1>t, <1>12, <2>1, Locations, AccessEffect DEF MoveThrows
  <2>3. LocalType' /\ CallReady'
    BY <1>t, <1>s, <1>12 DEF MoveThrows, Goto, LocalType, CallReady, caches
  <2>4. HistoryType'
    BY <1>t, <1>12, SpscAssumption DEF MoveThrows, HistoryType
  <2> QED
    BY <2>2, <2>3, <2>4 DEF TypeInv
<1>13. ASSUME PublishesHead
       PROVE  TypeInv'
  <2>1. MemoryInv'
    BY <1>t, <1>13, Locations, StoreReleaseEffect DEF PublishesHead, LocalType
  <2>2. LocalType' /\ CallReady'
    BY <1>t, <1>s, <1>13 DEF PublishesHead, Goto, LocalType, CallReady, caches, history
  <2> QED
    BY <1>13, <1>h, <2>1, <2>2 DEF PublishesHead, TypeInv
<1>14. ASSUME PopChecksClosed
       PROVE  TypeInv'
  <2>1. PICK k \in Readable(Consumer, Closed) :
          /\ LoadAcquire(Consumer, Closed, k)
          /\ IF mo[Closed][k].val
             THEN op' = [op EXCEPT ![Consumer] = "last"] /\ Goto(Consumer, "refresh")
             ELSE /\ Goto(Consumer, IF op[Consumer] = "pop" THEN "refresh" ELSE "idle")
                  /\ UNCHANGED op
    BY <1>14 DEF PopChecksClosed
  <2>2. MemoryInv'
    BY <1>t, <2>1, Locations, LoadAcquireEffect
  <2>3. LocalType'
    BY <1>t, <1>14, <2>1 DEF PopChecksClosed, Goto, LocalType, caches
  <2>4. pc[Consumer] = "closed" /\ pc'[Producer] = pc[Producer] /\ UNCHANGED <<left, written>>
    BY <1>t, <1>14, <2>1 DEF PopChecksClosed, Goto, LocalType, history
  <2>5. CallReady'
    BY <1>t, <1>s, <2>4 DEF CallReady
  <2> QED
    BY <1>14, <1>h, <2>2, <2>3, <2>5 DEF PopChecksClosed, TypeInv
<1>15. ASSUME NEW t \in {Producer, Consumer}, Joins(t)
       PROVE  TypeInv'
  <2>1. MemoryInv'
    BY <1>t, <1>15, JoinThreadEffect DEF Joins
  <2>2. LocalType' /\ HistoryType' /\ CallReady'
    BY <1>t, <1>15 DEF Joins, LocalType, HistoryType, CallReady, local, caches
  <2> QED
    BY <2>1, <2>2 DEF TypeInv
<1>16. ASSUME NEW t \in {Producer, Main}, close(t)
       PROVE  TypeInv'
  <2>1. TRUE \in Contents(Closed)
    BY Locations
  <2>2. MemoryInv'
    BY <1>t, <1>16, <2>1, Locations, StoreReleaseEffect DEF close
  <2>3. LocalType' /\ CallReady'
    BY <1>t, <1>s, <1>16 DEF close, Goto, LocalType, CallReady, caches
  <2>4. orderly' \in BOOLEAN
    BY <1>16, Zenon DEF close
  <2>5. HistoryType'
    BY <1>t, <1>16, <2>4 DEF close, HistoryType
  <2> QED
    BY <2>2, <2>3, <2>5 DEF TypeInv
<1>17. ASSUME SizeLoadsHead
       PROVE  TypeInv'
  <2>1. PICK k \in Readable(Main, HeadIdx) :
          /\ LoadRelaxed(Main, HeadIdx, k)
          /\ index' = [index EXCEPT ![Main] = mo[HeadIdx][k].val]
    BY <1>17 DEF SizeLoadsHead
  <2>2. MemoryInv' /\ mo[HeadIdx][k].val \in Slots
    BY <1>t, <2>1, Locations, LoadRelaxedEffect, ReadableRange, MessageType
  <2>3. LocalType' /\ CallReady'
    BY <1>t, <1>s, <1>17, <2>1, <2>2
    DEF SizeLoadsHead, Goto, LocalType, CallReady, caches, history
  <2> QED
    BY <1>17, <1>h, <2>2, <2>3 DEF SizeLoadsHead, TypeInv
<1>18. ASSUME SizeLoadsTail
       PROVE  TypeInv'
  <2>1. PICK k \in Readable(Main, TailIdx) :
          /\ LoadRelaxed(Main, TailIdx, k)
          /\ sizeRet' = size(index[Main], mo[TailIdx][k].val)
    BY <1>18 DEF SizeLoadsTail
  <2>2. MemoryInv' /\ mo[TailIdx][k].val \in Slots /\ index[Main] \in Slots
    BY <1>t, <2>1, Locations, LoadRelaxedEffect, ReadableRange, MessageType DEF LocalType
  <2>3. size(index[Main], mo[TailIdx][k].val) = Distance(index[Main], mo[TailIdx][k].val)
    BY DEF size, Distance
  <2>4. ASSUME NEW a \in Slots, NEW b \in Slots
        PROVE  Distance(a, b) \in 0 .. Capacity
    <3>1. Distance(a, b) = IF a <= b THEN b - a ELSE b - a + Capacity + 1
      BY RingArith
    <3> QED
      BY <3>1, SlotsAre
  <2>5. HistoryType'
    BY <1>t, <1>18, <2>1, <2>2, <2>3, <2>4 DEF SizeLoadsTail, HistoryType
  <2>6. LocalType' /\ CallReady'
    BY <1>t, <1>s, <1>18 DEF SizeLoadsTail, Goto, LocalType, CallReady, caches
  <2> QED
    BY <2>2, <2>5, <2>6 DEF TypeInv
<1>19. CASE AllDone \/ UNCHANGED vars
  <2>1. UNCHANGED vars
    BY <1>19 DEF AllDone
  <2>2. LocalType' /\ CallReady'
    BY <1>t, <2>1 DEF LocalType, CallReady, vars, local, caches, history
  <2> QED
    BY <1>h, <1>m, <2>1, <2>2 DEF vars, TypeInv
<1> QED
  BY <1>1, <1>2, <1>3, <1>4, <1>5, <1>6, <1>7, <1>8, <1>9, <1>10, <1>11, <1>12,
     <1>13, <1>14, <1>15, <1>16, <1>17, <1>18, <1>19
  DEF Next, ProducerThread, ConsumerThread, MainThread

(***************************************************************************)
(* Every variable of SpscQueue keeps its type, for every capacity and      *)
(* batch size: no index leaves the ring and size() is within the capacity. *)
(***************************************************************************)
THEOREM SpscTypeCorrect == Spec => []TypeOK
<1>1. Init => TypeInv
  BY TypeInit
<1>2. TypeInv /\ [Next]_vars => TypeInv'
  BY TypeStep
<1>3. TypeInv => TypeOK
  BY TypeInvImplies
<1> QED
  BY <1>1, <1>2, <1>3, PTL DEF Spec

LEMMA TypeInvHolds == Spec => []TypeInv
<1>1. Init => TypeInv
  BY TypeInit
<1>2. TypeInv /\ [Next]_vars => TypeInv'
  BY TypeStep
<1> QED
  BY <1>1, <1>2, PTL DEF Spec

-----------------------------------------------------------------------------
(***************************************************************************)
(* The sides.  Seen(t): the messages of the peer's index t may still read. *)
(* Each shows t more than its cache does and no more than there is, a      *)
(* later one no less than an earlier one, and each hands the slots it      *)
(* shows over: t or the message knows the last access to them.  t itself   *)
(* knows the last access to those its cache shows, and a call moves no     *)
(* more than those.                                                        *)
(***************************************************************************)
Seen(t) == view[t][PeerIdx(t)] .. Len(mo[PeerIdx(t)])

\* What t may move as message k of its peer's index shows it, and really.
Shown(t, k) == Avail(t, index[t], mo[PeerIdx(t)][k].val)
Really(t) == Avail(t, index[t], index[Peer(t)])
Cached(t) == Avail(t, index[t], Cache(t))

CacheBehind(t) == \A k \in Seen(t) : Cached(t) <= Shown(t, k)
NeverAhead(t) == \A k \in Seen(t) : Shown(t, k) <= Really(t)
InOrder(t) == \A k, l \in Seen(t) : k <= l => Shown(t, k) <= Shown(t, l)

Known(t, x, w) == UpToDate(t, x) \/ w[x] = Len(mo[x])

HandedOver(t) ==
  \A k \in Seen(t), i \in Slots :
    Distance(index[t], i) < Shown(t, k) =>
      Known(t, Buffer(i), mo[PeerIdx(t)][k].view)

Owned(t) ==
  \A i \in Slots : Distance(index[t], i) < Cached(t) => UpToDate(t, Buffer(i))

Fits(t) == pc[t] = "move" => left[t] <= Cached(t)

SideInv(t) ==
  CacheBehind(t) /\ NeverAhead(t) /\ InOrder(t) /\ HandedOver(t) /\ Owned(t) /\ Fits(t)

\* The last access to a slot was one of the two sides'.
SlotsSeen == \A i \in Slots : \E t \in Sides : UpToDate(t, Buffer(i))

RingInv == (\A t \in Sides : SideInv(t)) /\ SlotsSeen

\* The numbers and slots above are what they look like.
LEMMA SideTypes ==
  ASSUME TypeInv, NEW t \in Sides
  PROVE  /\ index[t] \in Slots /\ index[Peer(t)] \in Slots /\ Cache(t) \in Slots
         /\ left[t] \in Nat /\ t \in Threads /\ Peer(t) \in Threads
         /\ Seen(t) \subseteq 1 .. Len(mo[PeerIdx(t)])
         /\ Len(mo[PeerIdx(t)]) \in Seen(t)
         /\ \A k \in 1 .. Len(mo[PeerIdx(t)]) :
              mo[PeerIdx(t)][k].val \in Slots /\ Shown(t, k) \in 0 .. Capacity
         /\ Really(t) \in 0 .. Capacity /\ Cached(t) \in 0 .. Capacity
         /\ Capacity \in Nat
<1>1. t \in Threads /\ Peer(t) \in Threads
  BY Names, Peers
<1>2. /\ index[t] \in Slots /\ index[Peer(t)] \in Slots /\ Cache(t) \in Slots
      /\ left[t] \in Nat
  BY <1>1 DEF TypeInv, LocalType, Cache
<1>3. PeerIdx(t) \in Loc /\ Contents(PeerIdx(t)) = Slots
  BY Peers
<1>4. /\ Len(mo[PeerIdx(t)]) \in Nat \ {0} /\ view[t][PeerIdx(t)] \in Nat \ {0}
      /\ view[t][PeerIdx(t)] <= Len(mo[PeerIdx(t)])
  BY <1>1, <1>3, LengthType DEF TypeInv, MemoryInv
<1>5. /\ Seen(t) \subseteq 1 .. Len(mo[PeerIdx(t)])
      /\ Len(mo[PeerIdx(t)]) \in Seen(t)
  BY <1>4 DEF Seen
<1>6. \A k \in 1 .. Len(mo[PeerIdx(t)]) : mo[PeerIdx(t)][k].val \in Slots
  BY <1>3, MessageType DEF TypeInv
<1>7. \A k \in 1 .. Len(mo[PeerIdx(t)]) : Shown(t, k) \in 0 .. Capacity
  BY <1>2, <1>6, AvailRange DEF Shown
<1>8. Really(t) \in 0 .. Capacity /\ Cached(t) \in 0 .. Capacity
  BY <1>2, AvailRange DEF Really, Cached
<1> QED
  BY <1>1, <1>2, <1>5, <1>6, <1>7, <1>8, SlotsAre

\* A thread that knows the last access to x still does if x is not accessed.
LEMMA UpToDateKept ==
  ASSUME TypeInv, TypeInv', NEW t \in Threads, NEW x \in Loc, mo'[x] = mo[x],
         view'[t][x] >= view[t][x], UpToDate(t, x)
  PROVE  UpToDate(t, x)'
BY DEF TypeInv, MemoryInv, UpToDate

LEMMA RingInit == Init => RingInv
<1> SUFFICES ASSUME Init PROVE RingInv
  OBVIOUS
<1>1. \A x \in Loc : Len(mo[x]) = 1 /\ mo[x][1].val = InitialValue(x)
  BY DEF Init, Message
<1>2. \A t \in Threads, x \in Loc : UpToDate(t, x)
  BY <1>1 DEF Init, UpToDate
<1>3. SlotsSeen
  BY <1>2, Locations, Names DEF SlotsSeen, Sides
<1>4. ASSUME NEW t \in Sides
      PROVE  SideInv(t)
  <2>1. TypeInv
    BY TypeInit
  <2>2. Seen(t) = {1}
    <3>1. view[t][PeerIdx(t)] = 1 /\ Len(mo[PeerIdx(t)]) = 1
      BY <1>1, Peers, Names DEF Init
    <3> QED
      BY <3>1 DEF Seen
  <2>3. mo[PeerIdx(t)][1].val = 0 /\ Cache(t) = 0 /\ index[Peer(t)] = 0
    <3>1. InitialValue(HeadIdx) = 0 /\ InitialValue(TailIdx) = 0
      BY DEF InitialValue, HeadIdx, TailIdx
    <3> QED
      BY <1>1, <3>1, Locations, Peers, Names DEF Init, PeerIdx, Cache
  <2>4. Shown(t, 1) = Cached(t) /\ Cached(t) = Really(t)
    BY <2>3 DEF Shown, Cached, Really
  <2>5. Cached(t) \in Nat
    BY <2>1, SideTypes
  <2>6. pc[t] = "idle"
    BY Names DEF Init
  <2>7. \A i \in Slots : UpToDate(t, Buffer(i))
    BY <1>2, Locations, Names
  <2> QED
    BY <2>2, <2>4, <2>5, <2>6, <2>7
    DEF SideInv, CacheBehind, NeverAhead, InOrder, HandedOver, Owned, Fits, Known
<1> QED
  BY <1>3, <1>4 DEF RingInv

(***************************************************************************)
(* A step that touches neither the slots nor the published indices keeps   *)
(* the sides as they are, if a call it starts moves no more than it may.   *)
(***************************************************************************)
LEMMA SideKept ==
  ASSUME TypeInv, TypeInv', NEW t \in Sides, SideInv(t),
         mo'[PeerIdx(t)] = mo[PeerIdx(t)],
         \A i \in Slots : mo'[Buffer(i)] = mo[Buffer(i)],
         \A x \in Loc \ {Closed} : view'[t][x] >= view[t][x],
         index'[t] = index[t], index'[Peer(t)] = index[Peer(t)],
         Cache(t)' = Cache(t), Fits(t)'
  PROVE  SideInv(t)'
<1>1. /\ PeerIdx(t) \in Loc \ {Closed} /\ t \in Threads
      /\ \A i \in Slots : Buffer(i) \in Loc \ {Closed}
  BY Peers, Names, Locations, LocationsDiffer
<1>2. Seen(t)' \subseteq Seen(t)
  <2>1. /\ view[t][PeerIdx(t)] \in Nat /\ view'[t][PeerIdx(t)] \in Nat
        /\ Len(mo[PeerIdx(t)]) \in Nat
    BY <1>1, LengthType DEF TypeInv, MemoryInv
  <2>2. view'[t][PeerIdx(t)] >= view[t][PeerIdx(t)]
    BY <1>1
  <2> QED
    BY <2>1, <2>2 DEF Seen
<1>3. /\ \A k : Shown(t, k)' = Shown(t, k)
      /\ Really(t)' = Really(t) /\ Cached(t)' = Cached(t)
  BY DEF Shown, Really, Cached
<1>4. \A i \in Slots : UpToDate(t, Buffer(i)) => UpToDate(t, Buffer(i))'
  BY <1>1, UpToDateKept
<1>5. CacheBehind(t)' /\ NeverAhead(t)' /\ InOrder(t)'
  BY <1>2, <1>3 DEF SideInv, CacheBehind, NeverAhead, InOrder
<1>6. HandedOver(t)'
  <2> SUFFICES ASSUME NEW k \in Seen(t)', NEW i \in Slots,
                      Distance(index'[t], i) < Shown(t, k)'
               PROVE  Known(t, Buffer(i), mo[PeerIdx(t)][k].view)'
    BY DEF HandedOver
  <2>1. Known(t, Buffer(i), mo[PeerIdx(t)][k].view)
    BY <1>2, <1>3 DEF SideInv, HandedOver
  <2> QED
    BY <1>4, <2>1 DEF Known
<1>7. Owned(t)'
  BY <1>3, <1>4 DEF SideInv, Owned
<1> QED
  BY <1>5, <1>6, <1>7 DEF SideInv

(***************************************************************************)
(* t loads its peer's index into its cache.                                *)
(***************************************************************************)
LEMMA SideRefreshed ==
  ASSUME TypeInv, TypeInv', NEW t \in Sides, SideInv(t),
         NEW k \in Readable(t, PeerIdx(t)), LoadAcquire(t, PeerIdx(t), k),
         index' = index, Cache(t)' = mo[PeerIdx(t)][k].val, Fits(t)'
  PROVE  SideInv(t)'
<1>1. /\ PeerIdx(t) \in Loc /\ t \in Threads /\ MemoryInv
      /\ \A i \in Slots : Buffer(i) \in Loc
  BY Peers, Names, Locations DEF TypeInv
<1>2. k \in 1 .. Len(mo[PeerIdx(t)]) /\ k >= view[t][PeerIdx(t)]
  BY <1>1, ReadableRange
<1>3. /\ mo' = mo /\ view'[t][PeerIdx(t)] >= k
      /\ \A y \in Loc : view'[t][y] >= view[t][y] /\ view'[t][y] >= mo[PeerIdx(t)][k].view[y]
  BY <1>1, LoadAcquireEffect DEF Loads
<1>4. k \in Seen(t) /\ \A l \in Seen(t)' : l \in Seen(t) /\ k <= l
  <2>1. /\ view[t][PeerIdx(t)] \in Nat /\ view'[t][PeerIdx(t)] \in Nat
        /\ Len(mo[PeerIdx(t)]) \in Nat
    BY <1>1, LengthType DEF TypeInv, MemoryInv
  <2> QED
    BY <1>2, <1>3, <2>1 DEF Seen
<1>5. /\ \A l : Shown(t, l)' = Shown(t, l)
      /\ Really(t)' = Really(t) /\ Cached(t)' = Shown(t, k)
  BY <1>3 DEF Shown, Really, Cached
<1>6. ASSUME NEW i \in Slots, NEW l \in Seen(t), Distance(index[t], i) < Shown(t, l)
      PROVE  Known(t, Buffer(i), mo[PeerIdx(t)][l].view)'
  <2>1. Known(t, Buffer(i), mo[PeerIdx(t)][l].view)
    BY <1>6 DEF SideInv, HandedOver
  <2>2. UpToDate(t, Buffer(i)) => UpToDate(t, Buffer(i))'
    BY <1>1, <1>3, UpToDateKept
  <2> QED
    BY <1>3, <2>1, <2>2 DEF Known
<1>7. CacheBehind(t)' /\ NeverAhead(t)' /\ InOrder(t)'
  BY <1>4, <1>5 DEF SideInv, CacheBehind, NeverAhead, InOrder
<1>8. HandedOver(t)'
  BY <1>4, <1>5, <1>6 DEF HandedOver
<1>9. Owned(t)'
  <2> SUFFICES ASSUME NEW i \in Slots, Distance(index[t], i) < Shown(t, k)
               PROVE  UpToDate(t, Buffer(i))'
    BY <1>5 DEF Owned
  <2>1. Known(t, Buffer(i), mo[PeerIdx(t)][k].view)'
    BY <1>4, <1>6
  <2>2. CASE mo[PeerIdx(t)][k].view[Buffer(i)] = Len(mo[Buffer(i)])
    <3>1. /\ view'[t][Buffer(i)] >= Len(mo[Buffer(i)]) /\ view'[t][Buffer(i)] \in Nat
          /\ view'[t][Buffer(i)] <= Len(mo'[Buffer(i)]) /\ Len(mo[Buffer(i)]) \in Nat
      BY <1>1, <1>3, <2>2, LengthType DEF TypeInv, MemoryInv
    <3> QED
      BY <1>3, <3>1 DEF UpToDate
  <2> QED
    BY <1>3, <2>1, <2>2 DEF Known
<1> QED
  BY <1>7, <1>8, <1>9 DEF SideInv

(***************************************************************************)
(* t accesses the slot it is at, and moves on unless the access throws.    *)
(***************************************************************************)
Accessed(t) ==
  \E v \in Contents(Buffer(index[t])) :
    Stored(t, Buffer(index[t]), Message(v, NoView))

LEMMA AccessedFrame ==
  ASSUME TypeInv, TypeInv', NEW t \in Sides, Accessed(t)
  PROVE  /\ \A u \in Sides : /\ mo'[PeerIdx(u)] = mo[PeerIdx(u)]
                             /\ view'[u][PeerIdx(u)] = view[u][PeerIdx(u)]
         /\ \A a \in Slots : a = index[t] => UpToDate(t, Buffer(a))'
         /\ \A i \in Slots \ {index[t]}, u \in Sides :
              /\ mo'[Buffer(i)] = mo[Buffer(i)]
              /\ view'[u][Buffer(i)] = view[u][Buffer(i)]
<1>1. PICK a \in Slots : a = index[t]
  BY SideTypes
<1>2. /\ Len(mo'[Buffer(a)]) = Len(mo[Buffer(a)]) + 1
      /\ view'[t][Buffer(a)] = Len(mo[Buffer(a)]) + 1
      /\ \A y \in Loc \ {Buffer(a)} : mo'[y] = mo[y] /\ view'[t][y] = view[t][y]
      /\ \A u \in Threads \ {t} : view'[u] = view[u]
  BY <1>1 DEF Accessed, Stored
<1>3. \A u \in Sides : PeerIdx(u) \in Loc \ {Buffer(a)} /\ u \in Threads
  BY Peers, Names
<1>4. \A i \in Slots \ {a} : Buffer(i) \in Loc \ {Buffer(a)}
  BY Locations, LocationsDiffer
<1>5. UpToDate(t, Buffer(a))'
  BY <1>2 DEF UpToDate
<1>6. \A u \in Sides, y \in Loc \ {Buffer(a)} : view'[u][y] = view[u][y]
  BY <1>2, <1>3
<1> QED
  BY <1>1, <1>2, <1>3, <1>4, <1>5, <1>6

LEMMA SideMoved ==
  ASSUME TypeInv, TypeInv', NEW t \in Sides, SideInv(t), Accessed(t),
         pc[t] = "move", index'[t] = next(index[t]), index'[Peer(t)] = index[Peer(t)],
         Cache(t)' = Cache(t), left'[t] = left[t] - 1
  PROVE  SideInv(t)'
<1>1. PICK a \in Slots, b \in Slots : a = index[t] /\ b = index[Peer(t)]
  BY SideTypes
<1>2. /\ mo'[PeerIdx(t)] = mo[PeerIdx(t)] /\ Seen(t)' = Seen(t)
      /\ \A i \in Slots \ {a} : mo'[Buffer(i)] = mo[Buffer(i)]
      /\ \A i \in Slots \ {a} : UpToDate(t, Buffer(i)) => UpToDate(t, Buffer(i))'
  BY <1>1, AccessedFrame DEF Seen, UpToDate
<1>3. left[t] >= 1 /\ left[t] <= Cached(t) /\ left[t] \in Nat
  BY SideTypes DEF TypeInv, CallReady, SideInv, Fits
<1>4. /\ Cached(t) \in 0 .. Capacity /\ Really(t) \in 0 .. Capacity /\ Capacity \in Nat
      /\ Cached(t) >= 1
      /\ \A k \in Seen(t) : Shown(t, k) \in 0 .. Capacity
  BY <1>3, SideTypes
<1>5. /\ \A k \in Seen(t) : Shown(t, k) >= 1 /\ mo[PeerIdx(t)][k].val \in Slots
      /\ Really(t) >= 1 /\ Cache(t) \in Slots
  <2>1. \A k \in Seen(t) : Shown(t, k) >= 1 /\ mo[PeerIdx(t)][k].val \in Slots
    BY <1>4, SideTypes DEF SideInv, CacheBehind
  <2>2. Len(mo[PeerIdx(t)]) \in Seen(t) /\ Cache(t) \in Slots
    BY SideTypes
  <2>3. Really(t) >= Shown(t, Len(mo[PeerIdx(t)]))
    BY <2>2 DEF SideInv, NeverAhead
  <2> QED
    BY <1>4, <2>1, <2>2, <2>3
<1>6. \A v \in Slots : Avail(t, a, v) >= 1 => Avail(t, next(a), v) = Avail(t, a, v) - 1
  BY AvailAfterOwn
<1>7. /\ \A k \in Seen(t) : Shown(t, k)' = Shown(t, k) - 1
      /\ Really(t)' = Really(t) - 1 /\ Cached(t)' = Cached(t) - 1
  BY <1>1, <1>2, <1>5, <1>6, <1>4 DEF Shown, Really, Cached
\* A slot that t may still access is not the one it has left.
<1>8. ASSUME NEW i \in Slots, NEW n \in 1 .. Capacity, Distance(next(a), i) < n - 1
      PROVE  i # a /\ Distance(a, i) < n
  <2>1. i = a => Distance(next(a), i) = Capacity
    BY AvailAfterOwn
  <2>2. i # a => Distance(next(a), i) = Distance(a, i) - 1
    BY AvailAfterOwn
  <2>3. Distance(a, i) \in 0 .. Capacity
    BY AvailRange
  <2> QED
    BY <1>4, <1>8, <2>1, <2>2, <2>3
<1>9. CacheBehind(t)' /\ NeverAhead(t)' /\ InOrder(t)'
  BY <1>2, <1>4, <1>7 DEF SideInv, CacheBehind, NeverAhead, InOrder
<1>10. HandedOver(t)'
  <2> SUFFICES ASSUME NEW k \in Seen(t), NEW i \in Slots,
                      Distance(next(a), i) < Shown(t, k) - 1
               PROVE  Known(t, Buffer(i), mo[PeerIdx(t)][k].view)'
    BY <1>1, <1>2, <1>7 DEF HandedOver
  <2>1. i # a /\ Distance(a, i) < Shown(t, k)
    BY <1>4, <1>5, <1>8
  <2>2. Known(t, Buffer(i), mo[PeerIdx(t)][k].view)
    BY <1>1, <2>1 DEF SideInv, HandedOver
  <2> QED
    BY <1>2, <2>1, <2>2 DEF Known
<1>11. Owned(t)'
  <2> SUFFICES ASSUME NEW i \in Slots, Distance(next(a), i) < Cached(t) - 1
               PROVE  UpToDate(t, Buffer(i))'
    BY <1>1, <1>7 DEF Owned
  <2>1. i # a /\ Distance(a, i) < Cached(t)
    BY <1>4, <1>8
  <2> QED
    BY <1>1, <1>2, <2>1 DEF SideInv, Owned
<1>12. Fits(t)'
  BY <1>3, <1>4, <1>7 DEF Fits
<1> QED
  BY <1>9, <1>10, <1>11, <1>12 DEF SideInv

LEMMA SideThrown ==
  ASSUME TypeInv, TypeInv', NEW t \in Sides, SideInv(t), Accessed(t),
         index' = index, Cache(t)' = Cache(t), pc'[t] # "move"
  PROVE  SideInv(t)'
<1>1. PICK a \in Slots : a = index[t]
  BY SideTypes
<1>2. /\ mo'[PeerIdx(t)] = mo[PeerIdx(t)] /\ Seen(t)' = Seen(t)
      /\ UpToDate(t, Buffer(a))'
      /\ \A i \in Slots \ {a} : mo'[Buffer(i)] = mo[Buffer(i)]
      /\ \A i \in Slots \ {a} : UpToDate(t, Buffer(i)) => UpToDate(t, Buffer(i))'
  BY <1>1, AccessedFrame DEF Seen, UpToDate
<1>3. /\ \A k : Shown(t, k)' = Shown(t, k)
      /\ Really(t)' = Really(t) /\ Cached(t)' = Cached(t)
  BY <1>2 DEF Shown, Really, Cached
<1>4. CacheBehind(t)' /\ NeverAhead(t)' /\ InOrder(t)'
  BY <1>2, <1>3 DEF SideInv, CacheBehind, NeverAhead, InOrder
<1>5. HandedOver(t)'
  <2> SUFFICES ASSUME NEW k \in Seen(t), NEW i \in Slots,
                      Distance(index[t], i) < Shown(t, k)
               PROVE  Known(t, Buffer(i), mo[PeerIdx(t)][k].view)'
    BY <1>2, <1>3 DEF HandedOver
  <2>1. Known(t, Buffer(i), mo[PeerIdx(t)][k].view)
    BY DEF SideInv, HandedOver
  <2> QED
    BY <1>2, <2>1 DEF Known
<1>6. Owned(t)'
  BY <1>2, <1>3 DEF SideInv, Owned
<1> QED
  BY <1>4, <1>5, <1>6 DEF SideInv, Fits

\* The same step seen by the other side u: it has no use for the slot.
LEMMA PeerAccessed ==
  ASSUME TypeInv, TypeInv', NEW u \in Sides, SideInv(u), SideInv(Peer(u)),
         Accessed(Peer(u)), pc[Peer(u)] = "move", index'[u] = index[u],
         index'[Peer(u)] = index[Peer(u)] \/ index'[Peer(u)] = next(index[Peer(u)]),
         Cache(u)' = Cache(u), pc'[u] = pc[u], left'[u] = left[u]
  PROVE  SideInv(u)'
<1> DEFINE t == Peer(u)
<1>1. t \in Sides /\ Peer(t) = u
  BY Peers
<1>2. PICK a \in Slots, b \in Slots : a = index[t] /\ b = index[u]
  BY SideTypes
<1> HIDE DEF t
<1>3. /\ mo'[PeerIdx(u)] = mo[PeerIdx(u)] /\ Seen(u)' = Seen(u)
      /\ \A i \in Slots \ {a} : mo'[Buffer(i)] = mo[Buffer(i)]
      /\ \A i \in Slots \ {a} : UpToDate(u, Buffer(i)) => UpToDate(u, Buffer(i))'
  BY <1>1, <1>2, AccessedFrame DEF Seen, UpToDate, t
<1>4. Really(t) >= 1
  <2>1. left[t] >= 1 /\ left[t] <= Cached(t) /\ left[t] \in Nat
    BY <1>1, SideTypes DEF TypeInv, CallReady, SideInv, Fits, t
  <2>2. Len(mo[PeerIdx(t)]) \in Seen(t)
    BY <1>1, SideTypes
  <2>3. /\ Cached(t) <= Shown(t, Len(mo[PeerIdx(t)]))
        /\ Shown(t, Len(mo[PeerIdx(t)])) <= Really(t)
    BY <2>2 DEF SideInv, CacheBehind, NeverAhead, t
  <2>4. /\ Cached(t) \in Nat /\ Really(t) \in Nat
        /\ Shown(t, Len(mo[PeerIdx(t)])) \in Nat
    BY <1>1, <2>2, SideTypes
  <2> QED
    BY <2>1, <2>3, <2>4
<1>5. /\ Avail(u, b, a) + Avail(t, a, b) = Capacity
      /\ Avail(t, a, b) >= 1 => Distance(b, a) >= Avail(u, b, a)
  BY AvailSum DEF t
<1>6. Really(t) = Avail(t, a, b) /\ Really(u) = Avail(u, b, a)
  BY <1>1, <1>2 DEF Really, t
<1>7. /\ Avail(u, b, a) \in Nat /\ Avail(t, a, b) \in Nat /\ Capacity \in Nat
      /\ Distance(b, a) \in Nat
      /\ Cached(u) \in Nat /\ \A k \in Seen(u) : Shown(u, k) \in Nat
  <2>1. /\ Avail(u, b, a) \in 0 .. Capacity /\ Avail(t, a, b) \in 0 .. Capacity
        /\ Distance(b, a) \in 0 .. Capacity
    BY <1>1, AvailRange
  <2>2. /\ Cached(u) \in 0 .. Capacity /\ Capacity \in Nat
        /\ \A k \in Seen(u) : Shown(u, k) \in 0 .. Capacity
    BY SideTypes
  <2> QED
    BY <2>1, <2>2
<1>8. Distance(b, a) >= Really(u) /\ Really(u) < Capacity /\ Really(u) \in Nat
  BY <1>4, <1>5, <1>6, <1>7
<1>9. Really(u)' >= Really(u) /\ Really(u)' \in Nat
  <2>1. index'[t] = a \/ index'[t] = next(a)
    BY <1>2 DEF t
  <2>2. Avail(u, b, next(a)) = Avail(u, b, a) + 1
    BY <1>6, <1>8, AvailAfterPeer
  <2>3. Really(u)' = Avail(u, b, index'[t])
    BY <1>2 DEF Really, t
  <2> QED
    BY <1>6, <1>7, <2>1, <2>2, <2>3
<1>10. (\A k : Shown(u, k)' = Shown(u, k)) /\ Cached(u)' = Cached(u)
  BY <1>3 DEF Shown, Cached
<1>11. CacheBehind(u)' /\ InOrder(u)'
  BY <1>3, <1>10 DEF SideInv, CacheBehind, InOrder
<1>12. NeverAhead(u)'
  BY <1>3, <1>7, <1>8, <1>9, <1>10 DEF SideInv, NeverAhead
<1>13. HandedOver(u)'
  <2> SUFFICES ASSUME NEW k \in Seen(u), NEW i \in Slots,
                      Distance(index[u], i) < Shown(u, k)
               PROVE  Known(u, Buffer(i), mo[PeerIdx(u)][k].view)'
    BY <1>3, <1>10 DEF HandedOver
  <2>1. Known(u, Buffer(i), mo[PeerIdx(u)][k].view)
    BY DEF SideInv, HandedOver
  <2>2. i # a
    <3>1. Shown(u, k) <= Really(u)
      BY DEF SideInv, NeverAhead
    <3> QED
      BY <1>2, <1>7, <1>8, <3>1
  <2> QED
    BY <1>3, <2>1, <2>2 DEF Known
<1>14. Owned(u)'
  <2> SUFFICES ASSUME NEW i \in Slots, Distance(index[u], i) < Cached(u)
               PROVE  UpToDate(u, Buffer(i))'
    BY <1>10 DEF Owned
  <2>1. UpToDate(u, Buffer(i))
    BY DEF SideInv, Owned
  <2>2. i # a
    <3>1. Len(mo[PeerIdx(u)]) \in Seen(u)
      BY SideTypes
    <3>2. /\ Cached(u) <= Shown(u, Len(mo[PeerIdx(u)]))
          /\ Shown(u, Len(mo[PeerIdx(u)])) <= Really(u)
      BY <3>1 DEF SideInv, CacheBehind, NeverAhead
    <3> QED
      BY <1>2, <1>7, <1>8, <3>1, <3>2
  <2> QED
    BY <1>3, <2>1, <2>2
<1>15. Fits(u)'
  BY <1>10 DEF SideInv, Fits
<1> QED
  BY <1>11, <1>12, <1>13, <1>14, <1>15 DEF SideInv

(***************************************************************************)
(* u's peer publishes its index: the new message shows u all there is, and *)
(* since every slot was last accessed by one of the two sides, it hands    *)
(* over whatever u does not know itself.                                   *)
(***************************************************************************)
LEMMA PeerPublished ==
  ASSUME TypeInv, TypeInv', NEW u \in Sides, SideInv(u), SlotsSeen,
         StoreRelease(Peer(u), PeerIdx(u), index[Peer(u)]), index' = index,
         Cache(u)' = Cache(u), pc'[u] = pc[u], left'[u] = left[u]
  PROVE  SideInv(u)'
<1>1. PICK t \in Sides : t = Peer(u) /\ t # u
  BY Peers
<1>2. PICK n \in Nat \ {0}, x \in Loc :
        /\ x = PeerIdx(u) /\ n = Len(mo[x]) /\ \A i : Buffer(i) # x
        /\ index[t] \in Slots /\ index[t] \in Contents(x)
  <2>1. /\ PeerIdx(u) \in Loc /\ Contents(PeerIdx(u)) = Slots
        /\ \A i : Buffer(i) # PeerIdx(u)
    BY Peers
  <2>2. index[t] \in Slots
    BY <1>1, SideTypes
  <2>3. Len(mo[PeerIdx(u)]) \in Nat \ {0}
    BY <2>1, LengthType DEF TypeInv
  <2> QED
    BY <2>1, <2>2, <2>3
<1>3. PICK w : w = [view[t] EXCEPT ![x] = Len(mo[x]) + 1]
  OBVIOUS
<1>4. Stored(t, x, Message(index[t], w))
  <2>1. StoreRelease(t, x, index[t]) /\ t \in Threads /\ MemoryInv
    BY <1>1, <1>2, Names DEF TypeInv
  <2> QED
    BY <1>2, <1>3, <2>1, StoreReleaseEffect
<1>5. /\ Len(mo'[x]) = n + 1 /\ mo'[x][n + 1].val = index[t] /\ mo'[x][n + 1].view = w
      /\ \A k \in 1 .. n : mo'[x][k] = mo[x][k]
      /\ \A y \in Loc \ {x} : mo'[y] = mo[y]
      /\ view'[u] = view[u]
  BY <1>1, <1>2, <1>4, Names DEF Stored, Message
<1>6. \A i \in Slots : /\ mo'[Buffer(i)] = mo[Buffer(i)]
                       /\ UpToDate(u, Buffer(i))' <=> UpToDate(u, Buffer(i))
                       /\ w[Buffer(i)] = view[t][Buffer(i)]
  <2>1. \A i \in Slots : Buffer(i) \in Loc \ {x}
    BY <1>2, Locations
  <2>2. DOMAIN view[t] = Loc
    BY <1>1, Names DEF TypeInv, MemoryInv
  <2> QED
    BY <1>3, <1>5, <2>1, <2>2 DEF UpToDate
<1>7. Seen(u) \subseteq 1 .. n /\ n \in Seen(u) /\ Seen(u)' = Seen(u) \cup {n + 1}
  <2>1. Seen(u) \subseteq 1 .. n /\ n \in Seen(u)
    BY <1>2, SideTypes
  <2>2. view[u][x] \in Nat
    BY <1>1, Names DEF TypeInv, MemoryInv
  <2> QED
    BY <1>2, <1>5, <2>1, <2>2 DEF Seen
<1>8. /\ \A k \in Seen(u) : Shown(u, k)' = Shown(u, k)
      /\ Shown(u, n + 1)' = Really(u)
      /\ Really(u)' = Really(u) /\ Cached(u)' = Cached(u)
  BY <1>1, <1>2, <1>5, <1>7 DEF Shown, Really, Cached
<1>9. /\ Cached(u) \in Nat /\ Really(u) \in Nat
      /\ \A k \in Seen(u) : Shown(u, k) \in Nat
  <2>1. /\ Cached(u) \in 0 .. Capacity /\ Really(u) \in 0 .. Capacity /\ Capacity \in Nat
        /\ \A k \in Seen(u) : Shown(u, k) \in 0 .. Capacity
    BY SideTypes
  <2> QED
    BY <2>1
<1>10. /\ \A k \in Seen(u) : Cached(u) <= Shown(u, k) /\ Shown(u, k) <= Really(u)
       /\ Cached(u) <= Really(u)
  <2>1. \A k \in Seen(u) : Cached(u) <= Shown(u, k) /\ Shown(u, k) <= Really(u)
    BY DEF SideInv, CacheBehind, NeverAhead
  <2> QED
    BY <1>7, <1>9, <2>1
<1>11. CacheBehind(u)' /\ NeverAhead(u)'
  BY <1>7, <1>8, <1>9, <1>10 DEF CacheBehind, NeverAhead
<1>12. InOrder(u)'
  <2> SUFFICES ASSUME NEW k \in Seen(u)', NEW l \in Seen(u)', k <= l
               PROVE  Shown(u, k)' <= Shown(u, l)'
    BY DEF InOrder
  <2>1. CASE l \in Seen(u)
    <3>1. k \in Seen(u)
      BY <1>7, <2>1
    <3> QED
      BY <1>8, <2>1, <3>1 DEF SideInv, InOrder
  <2>2. CASE l = n + 1
    BY <1>7, <1>8, <1>9, <1>10, <2>2
  <2> QED
    BY <1>7, <2>1, <2>2
<1>13. HandedOver(u)'
  <2> SUFFICES ASSUME NEW k \in Seen(u)', NEW i \in Slots,
                      Distance(index[u], i) < Shown(u, k)'
               PROVE  Known(u, Buffer(i), mo[PeerIdx(u)][k].view)'
    BY DEF HandedOver
  <2>1. CASE k \in Seen(u)
    <3>1. Known(u, Buffer(i), mo[PeerIdx(u)][k].view)
      BY <1>8, <2>1 DEF SideInv, HandedOver
    <3>2. mo'[PeerIdx(u)][k] = mo[PeerIdx(u)][k]
      BY <1>2, <1>5, <1>7, <2>1
    <3> QED
      BY <1>6, <3>1, <3>2 DEF Known
  <2>2. CASE k = n + 1
    <3>1. UpToDate(u, Buffer(i)) \/ UpToDate(t, Buffer(i))
      BY <1>1, Peers DEF SlotsSeen
    <3>2. mo'[PeerIdx(u)][k].view = w
      BY <1>2, <1>5, <2>2
    <3> QED
      BY <1>6, <3>1, <3>2 DEF Known, UpToDate
  <2> QED
    BY <1>7, <2>1, <2>2
<1>14. Owned(u)' /\ Fits(u)'
  BY <1>6, <1>8 DEF SideInv, Owned, Fits
<1> QED
  BY <1>11, <1>12, <1>13, <1>14 DEF SideInv

(***************************************************************************)
(* Steps that touch neither the slots nor the published indices.           *)
(***************************************************************************)
Quiet ==
  \A x \in Loc \ {Closed} :
    mo'[x] = mo[x] /\ \A t \in Threads : view'[t][x] >= view[t][x]

LEMMA QuietMemory ==
  ASSUME TypeInv
  PROVE  /\ UNCHANGED memory => Quiet
         /\ \A t \in Threads : Loads(t) => Quiet
         /\ \A t \in Threads : \A m : Stored(t, Closed, m) => Quiet
<1>1. \A t \in Threads, x \in Loc : view[t][x] \in Nat /\ view[t][x] >= view[t][x]
  BY DEF TypeInv, MemoryInv
<1>2. UNCHANGED memory => Quiet
  BY <1>1 DEF memory, Quiet
<1>3. ASSUME NEW t \in Threads, Loads(t)
      PROVE  Quiet
  <2>1. \A u \in Threads, x \in Loc : view'[u][x] >= view[u][x]
    BY <1>1, <1>3 DEF Loads
  <2> QED
    BY <1>3, <2>1 DEF Loads, Quiet
<1>4. ASSUME NEW t \in Threads, NEW m, Stored(t, Closed, m)
      PROVE  Quiet
  <2>1. \A u \in Threads, x \in Loc \ {Closed} : view'[u][x] = view[u][x]
    BY <1>4 DEF Stored
  <2> QED
    BY <1>1, <1>4, <2>1 DEF Stored, Quiet
<1> QED
  BY <1>2, <1>3, <1>4

LEMMA SlotsSeenKept ==
  ASSUME TypeInv, TypeInv', SlotsSeen,
         \A i \in Slots : mo'[Buffer(i)] = mo[Buffer(i)],
         \A i \in Slots, t \in Sides : view'[t][Buffer(i)] >= view[t][Buffer(i)]
  PROVE  SlotsSeen'
BY UpToDateKept, Locations, Names DEF SlotsSeen

LEMMA QuietStep ==
  ASSUME TypeInv, TypeInv', RingInv, Quiet,
         \A t \in Sides : index'[t] = index[t],
         head_cache_' = head_cache_, tail_cache_' = tail_cache_,
         \A t \in Sides : \/ Fits(t)'
                          \/ pc'[t] # "move"
                          \/ pc'[t] = pc[t] /\ left'[t] = left[t]
  PROVE  RingInv'
<1>1. \A i \in Slots : Buffer(i) \in Loc \ {Closed}
  BY Locations, LocationsDiffer
<1>2. SlotsSeen'
  <2>1. \A i \in Slots : mo'[Buffer(i)] = mo[Buffer(i)]
    BY <1>1 DEF Quiet
  <2>2. \A i \in Slots, t \in Sides : view'[t][Buffer(i)] >= view[t][Buffer(i)]
    BY <1>1, Names DEF Quiet
  <2> QED
    BY <2>1, <2>2, SlotsSeenKept DEF RingInv
<1>3. ASSUME NEW t \in Sides
      PROVE  SideInv(t)'
  <2>1. PeerIdx(t) \in Loc \ {Closed} /\ t \in Threads /\ Peer(t) \in Sides
    BY Peers, Names
  <2>2. /\ mo'[PeerIdx(t)] = mo[PeerIdx(t)]
        /\ \A i \in Slots : mo'[Buffer(i)] = mo[Buffer(i)]
        /\ \A x \in Loc \ {Closed} : view'[t][x] >= view[t][x]
    BY <1>1, <2>1 DEF Quiet
  <2>3. Cache(t)' = Cache(t) /\ SideInv(t)
    BY DEF Cache, RingInv
  <2>4. Fits(t)'
    <3>1. Cached(t)' = Cached(t)
      BY <2>3 DEF Cached
    <3> QED
      BY <2>3, <3>1 DEF Fits, SideInv
  <2> QED
    BY <2>1, <2>2, <2>3, <2>4, SideKept
<1> QED
  BY <1>2, <1>3 DEF RingInv

\* A call that proceeds moves no more than its cache shows.
LEMMA ProceedsFits ==
  ASSUME TypeInv, NEW t \in Sides, NEW n \in Nat \ {0}, NEW m \in 0 .. n,
         NEW l \in {"refresh", "asks", "done", "closed"}, Proceeds(t, n, m, l),
         m <= Avail(t, index[t], Cache(t)'), index'[t] = index[t]
  PROVE  Fits(t)' /\ \A u \in Sides \ {t} : pc'[u] = pc[u] /\ left'[u] = left[u]
<1>1. /\ pc'[t] = "move" => left'[t] = m
      /\ \A u \in Threads \ {t} : pc'[u] = pc[u] /\ left'[u] = left[u]
  BY ProceedsType DEF TypeInv
<1>2. Cached(t)' = Avail(t, index[t], Cache(t)')
  BY DEF Cached
<1> QED
  BY <1>1, <1>2, Names DEF Fits

\* t refreshes its cache; the other side is left as it is.
LEMMA Refreshed ==
  ASSUME TypeInv, TypeInv', RingInv, NEW t \in Sides,
         NEW k \in Readable(t, PeerIdx(t)), LoadAcquire(t, PeerIdx(t), k),
         index' = index, Cache(t)' = mo[PeerIdx(t)][k].val,
         Cache(Peer(t))' = Cache(Peer(t)), Fits(t)',
         pc'[Peer(t)] = pc[Peer(t)], left'[Peer(t)] = left[Peer(t)]
  PROVE  RingInv'
<1>1. SideInv(t)'
  BY SideRefreshed DEF RingInv
<1>2. PICK u \in Sides : u = Peer(t)
  BY Peers
<1>3. Loads(t)
  BY Peers, Names, LoadAcquireEffect DEF TypeInv
<1>4. Quiet
  BY <1>3, Names, QuietMemory
<1>5. \A i \in Slots : Buffer(i) \in Loc \ {Closed}
  BY Locations, LocationsDiffer
<1>6. PeerIdx(u) \in Loc \ {Closed} /\ u \in Threads
  BY Peers, Names
<1>7. SideInv(u)'
  <2>1. /\ mo'[PeerIdx(u)] = mo[PeerIdx(u)]
        /\ \A i \in Slots : mo'[Buffer(i)] = mo[Buffer(i)]
        /\ \A x \in Loc \ {Closed} : view'[u][x] >= view[u][x]
    BY <1>4, <1>5, <1>6 DEF Quiet
  <2>2. SideInv(u)
    BY DEF RingInv
  <2>3. Fits(u)'
    <3>1. Cached(u)' = Cached(u)
      BY <1>2 DEF Cached
    <3> QED
      BY <1>2, <2>2, <3>1 DEF Fits, SideInv
  <2> QED
    BY <1>2, <2>1, <2>2, <2>3, SideKept
<1>8. SlotsSeen'
  <2>1. \A i \in Slots : mo'[Buffer(i)] = mo[Buffer(i)]
    BY <1>4, <1>5 DEF Quiet
  <2>2. \A i \in Slots, s \in Sides : view'[s][Buffer(i)] >= view[s][Buffer(i)]
    BY <1>4, <1>5, Names DEF Quiet
  <2> QED
    BY <2>1, <2>2, SlotsSeenKept DEF RingInv
<1> QED
  BY <1>1, <1>2, <1>7, <1>8, Peers DEF RingInv

\* t accesses the slot it is at; the other side is left as it is.
LEMMA AccessedStep ==
  ASSUME TypeInv, TypeInv', RingInv, NEW t \in Sides, Accessed(t), pc[t] = "move",
         index'[Peer(t)] = index[Peer(t)],
         head_cache_' = head_cache_, tail_cache_' = tail_cache_,
         pc'[Peer(t)] = pc[Peer(t)], left'[Peer(t)] = left[Peer(t)],
         \/ index'[t] = next(index[t]) /\ left'[t] = left[t] - 1
         \/ index' = index /\ pc'[t] # "move"
  PROVE  RingInv'
<1>1. PICK u \in Sides : u = Peer(t) /\ Peer(u) = t
  BY Peers
<1>2. /\ SideInv(t) /\ SideInv(u) /\ SlotsSeen
      /\ Cache(t)' = Cache(t) /\ Cache(u)' = Cache(u)
  BY DEF RingInv, Cache
<1>3. SideInv(t)'
  BY <1>2, SideMoved, SideThrown
<1>4. SideInv(u)'
  BY <1>1, <1>2, PeerAccessed
<1>5. SlotsSeen'
  <2> SUFFICES ASSUME NEW i \in Slots PROVE \E s \in Sides : UpToDate(s, Buffer(i))'
    BY DEF SlotsSeen
  <2>1. CASE i = index[t]
    BY <2>1, AccessedFrame
  <2>2. CASE i # index[t]
    <3>1. /\ mo'[Buffer(i)] = mo[Buffer(i)]
          /\ \A s \in Sides : view'[s][Buffer(i)] = view[s][Buffer(i)]
      BY <2>2, AccessedFrame
    <3> QED
      BY <1>2, <3>1 DEF SlotsSeen, UpToDate
  <2> QED
    BY <2>1, <2>2
<1> QED
  BY <1>1, <1>3, <1>4, <1>5, Peers DEF RingInv

\* t publishes its index.
LEMMA PublishedStep ==
  ASSUME TypeInv, TypeInv', RingInv, NEW t \in Sides,
         StoreRelease(t, PeerIdx(Peer(t)), index[t]), index' = index,
         head_cache_' = head_cache_, tail_cache_' = tail_cache_,
         pc'[Peer(t)] = pc[Peer(t)], left'[Peer(t)] = left[Peer(t)],
         pc'[t] # "move"
  PROVE  RingInv'
<1>1. PICK u \in Sides : u = Peer(t) /\ Peer(u) = t
  BY Peers
<1>2. /\ SideInv(t) /\ SideInv(u) /\ SlotsSeen
      /\ Cache(t)' = Cache(t) /\ Cache(u)' = Cache(u)
  BY DEF RingInv, Cache
<1>3. SideInv(u)'
  BY <1>1, <1>2, PeerPublished
<1>4. PICK x \in Loc : x = PeerIdx(u) /\ x # PeerIdx(t) /\ Contents(x) = Slots
                       /\ \A i : Buffer(i) # x
  BY <1>1, Peers
<1>5. PICK m : Stored(t, x, m)
  <2>1. index[t] \in Slots /\ t \in Threads /\ MemoryInv /\ StoreRelease(t, x, index[t])
    BY <1>1, <1>4, SideTypes DEF TypeInv
  <2> QED
    BY <1>4, <2>1, StoreReleaseEffect
<1>6. /\ \A y \in Loc \ {x} : mo'[y] = mo[y]
      /\ \A s \in Threads, y \in Loc : view'[s][y] >= view[s][y]
  <2>1. \A s \in Threads, y \in Loc : view[s][y] \in Nat /\ view[s][y] <= Len(mo[y])
    BY DEF TypeInv, MemoryInv
  <2>2. Len(mo[x]) \in Nat
    BY LengthType DEF TypeInv
  <2>3. ASSUME NEW y \in Loc
        PROVE  view'[t][y] >= view[t][y]
    <3>1. CASE y = x
      BY <1>5, <2>1, <2>2, <3>1, Names DEF Stored
    <3>2. CASE y # x
      BY <1>5, <2>1, <3>2, Names DEF Stored
    <3> QED
      BY <3>1, <3>2
  <2>4. \A s \in Threads \ {t}, y \in Loc : view'[s][y] >= view[s][y]
    BY <1>5, <2>1 DEF Stored
  <2> QED
    BY <1>5, <2>3, <2>4 DEF Stored
<1>7. /\ \A i \in Slots : Buffer(i) \in Loc \ {x}
      /\ PeerIdx(t) \in Loc \ {x} /\ t \in Threads
  BY <1>4, Locations, Peers, Names
<1>8. /\ \A i \in Slots : mo'[Buffer(i)] = mo[Buffer(i)]
      /\ \A i \in Slots, s \in Sides : view'[s][Buffer(i)] >= view[s][Buffer(i)]
      /\ mo'[PeerIdx(t)] = mo[PeerIdx(t)]
  BY <1>6, <1>7, Names
<1>9. SideInv(t)'
  BY <1>2, <1>6, <1>7, <1>8, SideKept DEF Fits
<1>10. SlotsSeen'
  BY <1>2, <1>8, SlotsSeenKept
<1> QED
  BY <1>1, <1>3, <1>9, <1>10, Peers DEF RingInv

LEMMA RingStep == TypeInv /\ TypeInv' /\ RingInv /\ [Next]_vars => RingInv'
<1> SUFFICES ASSUME TypeInv, TypeInv', RingInv, [Next]_vars PROVE RingInv'
  OBVIOUS
<1>t. MemoryInv /\ LocalType /\ CallReady
  BY DEF TypeInv
<1>s. /\ Producer \in Sides /\ Consumer \in Sides
      /\ \A u \in Sides : u = Producer \/ u = Consumer
      /\ Peer(Producer) = Consumer /\ Peer(Consumer) = Producer
      /\ PeerIdx(Producer) = HeadIdx /\ PeerIdx(Consumer) = TailIdx
  BY Names DEF Sides, Peer, PeerIdx
<1>c. Cache(Producer) = head_cache_ /\ Cache(Consumer) = tail_cache_
  BY Names DEF Cache
<1> USE Names
<1>1. ASSUME NEW o \in PushOps, NEW n \in 1 .. Batch, CallPush(o, n)
      PROVE  RingInv'
  <2>1. Quiet /\ index' = index /\ UNCHANGED caches
    BY <1>1, QuietMemory DEF CallPush
  <2>2. pc'[Producer] # "move" /\ pc'[Consumer] = pc[Consumer] /\ left'[Consumer] = left[Consumer]
    BY <1>t, <1>1 DEF CallPush, Goto, LocalType
  <2> QED
    BY <1>s, <2>1, <2>2, QuietStep DEF caches
<1>2. ASSUME PushChecksClosed
      PROVE  RingInv'
  <2>1. PICK k \in Readable(Producer, Closed) :
          /\ LoadRelaxed(Producer, Closed, k)
          /\ IF mo[Closed][k].val
             THEN /\ Goto(Producer, IF op[Producer] = "push" THEN "done" ELSE "asks")
                  /\ UNCHANGED left
             ELSE Proceeds(Producer, left[Producer], Room(head_cache_), "refresh")
    BY <1>2 DEF PushChecksClosed
  <2>2. Quiet
    BY <1>t, <2>1, Locations, LoadRelaxedEffect, QuietMemory
  <2>3. index' = index /\ head_cache_' = head_cache_ /\ tail_cache_' = tail_cache_
    BY <1>2 DEF PushChecksClosed, caches
  <2>4. CASE mo[Closed][k].val
    <3>1. pc'[Producer] # "move" /\ pc'[Consumer] = pc[Consumer] /\ left' = left
      BY <1>t, <2>1, <2>4 DEF Goto, LocalType
    <3> QED
      BY <1>s, <2>2, <2>3, <3>1, QuietStep
  <2>5. CASE ~mo[Closed][k].val
    <3>1. left[Producer] \in Nat \ {0} /\ head_cache_ \in Slots
      BY <1>t, <1>2, <1>s DEF PushChecksClosed, CallReady, LocalType
    <3>2. /\ Room(head_cache_) \in 0 .. left[Producer]
          /\ Room(head_cache_) <= Avail(Producer, index[Producer], head_cache_)
      BY <1>t, <3>1, RoomBound
    <3>3. Proceeds(Producer, left[Producer], Room(head_cache_), "refresh")
      BY <2>1, <2>5
    <3>4. Cache(Producer)' = head_cache_
      BY <2>3 DEF Cache
    <3>5. Fits(Producer)' /\ pc'[Consumer] = pc[Consumer] /\ left'[Consumer] = left[Consumer]
      BY <1>s, <2>3, <3>1, <3>2, <3>3, <3>4, ProceedsFits
    <3> QED
      BY <1>s, <2>2, <2>3, <3>5, QuietStep
  <2> QED
    BY <2>4, <2>5
<1>3. ASSUME RefreshesHead
      PROVE  RingInv'
  <2>1. PICK k \in Readable(Producer, HeadIdx) :
          /\ LoadAcquire(Producer, HeadIdx, k)
          /\ head_cache_' = mo[HeadIdx][k].val
          /\ Proceeds(Producer, left[Producer], Room(mo[HeadIdx][k].val),
                      AfterFailure(Producer))
    BY <1>3 DEF RefreshesHead, LoadsPeer
  <2>2. left[Producer] \in Nat \ {0} /\ mo[HeadIdx][k].val \in Slots
    BY <1>t, <1>3, <1>s, Locations, ReadableRange, MessageType
    DEF RefreshesHead, CallReady, LocalType
  <2>3. /\ Room(mo[HeadIdx][k].val) \in 0 .. left[Producer]
        /\ Room(mo[HeadIdx][k].val) <= Avail(Producer, index[Producer], mo[HeadIdx][k].val)
    BY <1>t, <2>2, RoomBound
  <2>4. index' = index /\ tail_cache_' = tail_cache_
    BY <1>3 DEF RefreshesHead
  <2>5. /\ Cache(Producer)' = mo[HeadIdx][k].val /\ Cache(Consumer)' = Cache(Consumer)
        /\ AfterFailure(Producer) \in {"refresh", "asks", "done", "closed"}
    BY <2>1, <2>4, AfterFailureType DEF Cache
  <2>6. Fits(Producer)' /\ pc'[Consumer] = pc[Consumer] /\ left'[Consumer] = left[Consumer]
    BY <1>s, <2>1, <2>2, <2>3, <2>4, <2>5, ProceedsFits
  <2> QED
    BY <1>s, <2>1, <2>4, <2>5, <2>6, Refreshed
<1>4. ASSUME WritesSlot
      PROVE  RingInv'
  <2>1. index[Producer] \in Slots /\ written + 1 \in 1 .. Pushes
    BY <1>4, SpscAssumption DEF WritesSlot, TypeInv, CallReady, LocalType, HistoryType, Sides
  <2>2. Accessed(Producer)
    BY <1>t, <1>4, <2>1, Locations, AccessEffect DEF WritesSlot, Accessed
  <2>3. /\ index'[Producer] = next(index[Producer]) /\ index'[Consumer] = index[Consumer]
        /\ left'[Producer] = left[Producer] - 1 /\ left'[Consumer] = left[Consumer]
        /\ pc'[Consumer] = pc[Consumer] /\ pc[Producer] = "move"
        /\ head_cache_' = head_cache_ /\ tail_cache_' = tail_cache_
    BY <1>t, <1>4 DEF WritesSlot, Goto, LocalType, caches
  <2> QED
    BY <1>s, <2>2, <2>3, AccessedStep
<1>5. ASSUME WriteThrows
      PROVE  RingInv'
  <2>1. Accessed(Producer)
    BY <1>t, <1>5, Locations, AccessEffect DEF WriteThrows, Accessed, LocalType
  <2>2. /\ index' = index /\ left' = left
        /\ pc'[Consumer] = pc[Consumer] /\ pc[Producer] = "move" /\ pc'[Producer] # "move"
        /\ head_cache_' = head_cache_ /\ tail_cache_' = tail_cache_
    BY <1>t, <1>5 DEF WriteThrows, Goto, LocalType, caches
  <2> QED
    BY <1>s, <2>1, <2>2, AccessedStep
<1>6. ASSUME PublishesTail
      PROVE  RingInv'
  <2>1. /\ index' = index /\ left' = left
        /\ pc'[Consumer] = pc[Consumer] /\ pc'[Producer] # "move"
        /\ head_cache_' = head_cache_ /\ tail_cache_' = tail_cache_
        /\ StoreRelease(Producer, TailIdx, index[Producer])
    BY <1>t, <1>6 DEF PublishesTail, Goto, LocalType, caches
  <2> QED
    BY <1>s, <2>1, PublishedStep
<1>7. ASSUME AsksClosed
      PROVE  RingInv'
  <2>1. PICK k \in Readable(Producer, Closed) :
          /\ LoadAcquire(Producer, Closed, k)
          /\ Goto(Producer, IF mo[Closed][k].val THEN "done" ELSE "idle")
    BY <1>7 DEF AsksClosed
  <2>2. Quiet
    BY <1>t, <2>1, Locations, LoadAcquireEffect, QuietMemory
  <2>3. pc'[Producer] # "move" /\ pc'[Consumer] = pc[Consumer]
    BY <1>t, <2>1 DEF Goto, LocalType
  <2> QED
    BY <1>s, <1>7, <2>2, <2>3, QuietStep DEF AsksClosed, caches
<1>8. ASSUME EndProducer
      PROVE  RingInv'
  <2>1. Quiet
    BY <1>8, QuietMemory DEF EndProducer
  <2>2. pc'[Producer] # "move" /\ pc'[Consumer] = pc[Consumer]
    BY <1>t, <1>8 DEF EndProducer, Goto, LocalType
  <2> QED
    BY <1>s, <1>8, <2>1, <2>2, QuietStep DEF EndProducer, caches
<1>9. ASSUME NEW o \in PopOps, NEW n \in 1 .. Batch, CallPop(o, n)
      PROVE  RingInv'
  <2>1. n \in Nat \ {0} /\ tail_cache_ \in Slots
    BY <1>t, SpscAssumption DEF LocalType
  <2>2. /\ Data(o, n, tail_cache_) \in 0 .. n
        /\ Data(o, n, tail_cache_) <= Avail(Consumer, index[Consumer], tail_cache_)
    BY <1>t, <2>1, DataBound
  <2>3. Proceeds(Consumer, n, Data(o, n, tail_cache_), "refresh")
    BY <1>9 DEF CallPop
  <2>4. Quiet /\ index' = index /\ head_cache_' = head_cache_ /\ tail_cache_' = tail_cache_
    BY <1>9, QuietMemory DEF CallPop, caches
  <2>5. Cache(Consumer)' = tail_cache_
    BY <2>4 DEF Cache
  <2>6. Fits(Consumer)' /\ pc'[Producer] = pc[Producer] /\ left'[Producer] = left[Producer]
    BY <1>s, <2>1, <2>2, <2>3, <2>4, <2>5, ProceedsFits
  <2> QED
    BY <1>s, <2>4, <2>6, QuietStep
<1>10. ASSUME RefreshesTail
       PROVE  RingInv'
  <2>1. PICK k \in Readable(Consumer, TailIdx) :
          /\ LoadAcquire(Consumer, TailIdx, k)
          /\ tail_cache_' = mo[TailIdx][k].val
          /\ Proceeds(Consumer, left[Consumer],
                      Data(op[Consumer], left[Consumer], mo[TailIdx][k].val),
                      AfterFailure(Consumer))
    BY <1>10 DEF RefreshesTail, LoadsPeer
  <2>2. left[Consumer] \in Nat \ {0} /\ mo[TailIdx][k].val \in Slots
    BY <1>t, <1>10, <1>s, Locations, ReadableRange, MessageType
    DEF RefreshesTail, CallReady, LocalType
  <2>3. PICK m \in 0 .. left[Consumer] :
          /\ m = Data(op[Consumer], left[Consumer], mo[TailIdx][k].val)
          /\ m <= Avail(Consumer, index[Consumer], mo[TailIdx][k].val)
    BY <1>t, <2>2, DataBound
  <2>4. index' = index /\ head_cache_' = head_cache_
    BY <1>10 DEF RefreshesTail
  <2>5. /\ Cache(Consumer)' = mo[TailIdx][k].val /\ Cache(Producer)' = Cache(Producer)
        /\ AfterFailure(Consumer) \in {"refresh", "asks", "done", "closed"}
    BY <2>1, <2>4, AfterFailureType DEF Cache
  <2>6. Fits(Consumer)' /\ pc'[Producer] = pc[Producer] /\ left'[Producer] = left[Producer]
    BY <1>s, <2>1, <2>2, <2>3, <2>4, <2>5, ProceedsFits
  <2> QED
    BY <1>s, <2>1, <2>4, <2>5, <2>6, Refreshed
<1>11. ASSUME MovesOut
       PROVE  RingInv'
  <2>1. Accessed(Consumer)
    BY <1>t, <1>11, Locations, AccessEffect DEF MovesOut, Accessed, LocalType
  <2>2. /\ index'[Consumer] = next(index[Consumer]) /\ index'[Producer] = index[Producer]
        /\ left'[Consumer] = left[Consumer] - 1 /\ left'[Producer] = left[Producer]
        /\ pc'[Producer] = pc[Producer] /\ pc[Consumer] = "move"
        /\ head_cache_' = head_cache_ /\ tail_cache_' = tail_cache_
    BY <1>t, <1>11 DEF MovesOut, Goto, LocalType, caches
  <2> QED
    BY <1>s, <2>1, <2>2, AccessedStep
<1>12. ASSUME MoveThrows
       PROVE  RingInv'
  <2>1. index[Consumer] \in Slots /\ Latest(Buffer(index[Consumer])) \in 1 .. Pushes \cup {Empty}
    BY <1>t, Locations, LengthType DEF LocalType
  <2>2. Accessed(Consumer)
    BY <1>t, <1>12, <2>1, Locations, AccessEffect DEF MoveThrows, Accessed
  <2>3. /\ index' = index /\ left' = left
        /\ pc'[Producer] = pc[Producer] /\ pc[Consumer] = "move" /\ pc'[Consumer] # "move"
        /\ head_cache_' = head_cache_ /\ tail_cache_' = tail_cache_
    BY <1>t, <1>12 DEF MoveThrows, Goto, LocalType, caches
  <2> QED
    BY <1>s, <2>2, <2>3, AccessedStep
<1>13. ASSUME PublishesHead
       PROVE  RingInv'
  <2>1. /\ index' = index /\ left' = left
        /\ pc'[Producer] = pc[Producer] /\ pc'[Consumer] # "move"
        /\ head_cache_' = head_cache_ /\ tail_cache_' = tail_cache_
        /\ StoreRelease(Consumer, HeadIdx, index[Consumer])
    BY <1>t, <1>13 DEF PublishesHead, Goto, LocalType, caches
  <2> QED
    BY <1>s, <2>1, PublishedStep
<1>14. ASSUME PopChecksClosed
       PROVE  RingInv'
  <2>1. PICK k \in Readable(Consumer, Closed) :
          /\ LoadAcquire(Consumer, Closed, k)
          /\ \E l \in {"refresh", "idle"} : Goto(Consumer, l)
    BY <1>14 DEF PopChecksClosed
  <2>2. Quiet
    BY <1>t, <2>1, Locations, LoadAcquireEffect, QuietMemory
  <2>3. pc'[Consumer] # "move" /\ pc'[Producer] = pc[Producer]
    BY <1>t, <2>1 DEF Goto, LocalType
  <2> QED
    BY <1>s, <1>14, <2>2, <2>3, QuietStep DEF PopChecksClosed, caches
<1>15. ASSUME NEW t \in {Producer, Consumer}, Joins(t)
       PROVE  RingInv'
  <2>1. Quiet
    BY <1>t, <1>15, JoinThreadEffect, QuietMemory DEF Joins
  <2> QED
    BY <1>15, <2>1, QuietStep DEF Joins, local, caches
<1>16. ASSUME NEW t \in {Producer, Main}, close(t)
       PROVE  RingInv'
  <2>1. TRUE \in Contents(Closed) /\ t \in Threads
    BY Locations
  <2>2. Quiet
    BY <1>t, <1>16, <2>1, Locations, StoreReleaseEffect, QuietMemory DEF close
  <2>3. \A u \in Sides : pc'[u] # "move" \/ pc'[u] = pc[u]
    BY <1>t, <1>16 DEF close, Goto, LocalType, Sides
  <2> QED
    BY <1>16, <2>2, <2>3, QuietStep DEF close, caches
<1>17. ASSUME SizeLoadsHead
       PROVE  RingInv'
  <2>1. PICK k \in Readable(Main, HeadIdx) :
          /\ LoadRelaxed(Main, HeadIdx, k)
          /\ index' = [index EXCEPT ![Main] = mo[HeadIdx][k].val]
    BY <1>17 DEF SizeLoadsHead
  <2>2. Quiet
    BY <1>t, <2>1, Locations, LoadRelaxedEffect, QuietMemory
  <2>3. \A u \in Sides : index'[u] = index[u] /\ pc'[u] = pc[u]
    BY <1>t, <1>17, <2>1 DEF SizeLoadsHead, Goto, LocalType, Sides
  <2> QED
    BY <1>17, <2>2, <2>3, QuietStep DEF SizeLoadsHead, caches
<1>18. ASSUME SizeLoadsTail
       PROVE  RingInv'
  <2>1. PICK k \in Readable(Main, TailIdx) : LoadRelaxed(Main, TailIdx, k)
    BY <1>18 DEF SizeLoadsTail
  <2>2. Quiet
    BY <1>t, <2>1, Locations, LoadRelaxedEffect, QuietMemory
  <2>3. \A u \in Sides : pc'[u] = pc[u]
    BY <1>t, <1>18 DEF SizeLoadsTail, Goto, LocalType, Sides
  <2> QED
    BY <1>18, <2>2, <2>3, QuietStep DEF SizeLoadsTail, caches
<1>19. CASE AllDone \/ UNCHANGED vars
  <2>1. UNCHANGED vars
    BY <1>19 DEF AllDone
  <2>2. Quiet
    BY <2>1, QuietMemory DEF vars
  <2> QED
    BY <2>1, <2>2, QuietStep DEF vars, local, caches
<1> QED
  BY <1>1, <1>2, <1>3, <1>4, <1>5, <1>6, <1>7, <1>8, <1>9, <1>10, <1>11, <1>12,
     <1>13, <1>14, <1>15, <1>16, <1>17, <1>18, <1>19
  DEF Next, ProducerThread, ConsumerThread, MainThread

LEMMA RingInvHolds == Spec => [](TypeInv /\ RingInv)
<1>1. Init => TypeInv /\ RingInv
  BY TypeInit, RingInit
<1>2. TypeInv /\ RingInv /\ [Next]_vars => (TypeInv /\ RingInv)'
  BY TypeStep, RingStep
<1> QED
  BY <1>1, <1>2, PTL DEF Spec

LEMMA NoRaceNow == TypeInv /\ RingInv => NoDataRace
<1> SUFFICES ASSUME TypeInv, RingInv, NEW t \in {Producer, Consumer}, pc[t] = "move"
             PROVE  UpToDate(t, Buffer(index[t]))
  BY DEF NoDataRace
<1>1. t \in Sides
  BY DEF Sides
<1>2. index[t] \in Slots /\ left[t] \in Nat /\ Cached(t) \in 0 .. Capacity /\ Capacity \in Nat
  BY <1>1, SideTypes
<1>3. left[t] >= 1 /\ left[t] <= Cached(t)
  BY <1>1 DEF TypeInv, CallReady, RingInv, SideInv, Fits
<1>4. Distance(index[t], index[t]) = 0
  BY <1>1, <1>2, AvailRange
<1> QED
  BY <1>1, <1>2, <1>3, <1>4 DEF RingInv, SideInv, Owned

(***************************************************************************)
(* No slot is raced for: whichever of the two sides moves an element in or *)
(* out has seen the last access to the slot, whether it went through the   *)
(* acquire load of the peer's index or relied on its cache.                *)
(***************************************************************************)
THEOREM NoDataRaceHolds == Spec => []NoDataRace
BY NoRaceNow, RingInvHolds, PTL

(***************************************************************************)
(* "A cache lags but never runs ahead": however stale the loads, a cached  *)
(* index shows its side no more room, or elements, than the newest index   *)
(* its peer has published.                                                 *)
(***************************************************************************)
THEOREM CachesNeverAheadHolds == Spec => []CachesNeverAhead
<1>1. TypeInv /\ RingInv => CachesNeverAhead
  <2> SUFFICES ASSUME TypeInv, RingInv
               PROVE  CachesNeverAhead
    OBVIOUS
  <2>1. ASSUME NEW t \in Sides
        PROVE  /\ Cached(t) <= Avail(t, index[t], Latest(PeerIdx(t)))
               /\ Latest(PeerIdx(t)) \in Slots
    <3>1. Len(mo[PeerIdx(t)]) \in Seen(t)
      BY SideTypes
    <3>2. Cached(t) <= Shown(t, Len(mo[PeerIdx(t)]))
      BY <3>1 DEF RingInv, SideInv, CacheBehind
    <3>3. Latest(PeerIdx(t)) \in Slots
      BY Peers, LengthType DEF TypeInv
    <3> QED
      BY <3>2, <3>3 DEF Shown, Latest, Newest
  <2>2. /\ Producer \in Sides /\ Consumer \in Sides
        /\ PeerIdx(Producer) = HeadIdx /\ PeerIdx(Consumer) = TailIdx
    BY Names DEF Sides, PeerIdx
  <2>3. ASSUME NEW a \in Slots, NEW v \in Slots, NEW w \in Slots,
               Avail(Producer, a, v) <= Avail(Producer, a, w)
        PROVE  Distance(v, a) >= Distance(w, a)
    <3>1. /\ Avail(Producer, a, v) = IF a < v THEN v - 1 - a ELSE v - a + Capacity
          /\ Avail(Producer, a, w) = IF a < w THEN w - 1 - a ELSE w - a + Capacity
          /\ Distance(v, a) = IF v <= a THEN a - v ELSE a - v + Capacity + 1
          /\ Distance(w, a) = IF w <= a THEN a - w ELSE a - w + Capacity + 1
      BY <2>2, AvailIs
    <3> QED
      BY <2>3, <3>1, SlotsAre
  <2>4. ASSUME NEW a \in Slots, NEW v \in Slots
        PROVE  Avail(Consumer, a, v) = Distance(a, v)
    BY <2>2, AvailIs
  <2>5. head_cache_ \in Slots /\ tail_cache_ \in Slots
        /\ index[Producer] \in Slots /\ index[Consumer] \in Slots
    BY Names DEF TypeInv, LocalType
  <2>6. Distance(head_cache_, index[Producer]) >= Distance(Latest(HeadIdx), index[Producer])
    BY <2>1, <2>2, <2>3, <2>5 DEF Cached, Cache
  <2>7. Distance(index[Consumer], tail_cache_) <= Distance(index[Consumer], Latest(TailIdx))
    BY <2>1, <2>2, <2>4, <2>5, Names DEF Cached, Cache
  <2> QED
    BY <2>6, <2>7 DEF CachesNeverAhead
<1>2. Spec => [](TypeInv /\ RingInv)
  BY RingInvHolds
<1> QED
  BY <1>1, <1>2, PTL

-----------------------------------------------------------------------------
(***************************************************************************)
(* Whose step it is.  A step of thread s leaves the locals of the others   *)
(* and the indices they publish alone, and nobody forgets what it has      *)
(* seen; a thread that has ended takes no step.                            *)
(***************************************************************************)
OwnIdx(t) == PeerIdx(Peer(t))

StepBy(s) ==
  /\ pc[s] # "done"
  /\ \A u \in Threads \ {s} : /\ pc'[u] = pc[u] /\ op'[u] = op[u]
                              /\ left'[u] = left[u] /\ index'[u] = index[u]
  /\ \A u \in Threads, x \in Loc : view'[u][x] >= view[u][x]
  /\ \A t \in Sides \ {s} : mo'[OwnIdx(t)] = mo[OwnIdx(t)]

LEMMA OwnIdxIs ==
  /\ Producer \in Sides /\ Consumer \in Sides
  /\ \A t \in Sides : t = Producer \/ t = Consumer
  /\ OwnIdx(Producer) = TailIdx /\ OwnIdx(Consumer) = HeadIdx
BY Names DEF Sides, OwnIdx, Peer, PeerIdx

LEMMA StoredGrows ==
  ASSUME TypeInv, NEW s \in Threads, NEW x \in Loc, NEW m, Stored(s, x, m)
  PROVE  /\ \A u \in Threads, y \in Loc : view'[u][y] >= view[u][y]
         /\ \A y \in Loc \ {x} : mo'[y] = mo[y]
<1>1. \A u \in Threads, y \in Loc : view[u][y] \in Nat /\ view[u][y] <= Len(mo[y])
  BY DEF TypeInv, MemoryInv
<1>2. Len(mo[x]) \in Nat
  BY LengthType DEF TypeInv
<1>3. ASSUME NEW y \in Loc
      PROVE  view'[s][y] >= view[s][y]
  <2>1. CASE y = x
    BY <1>1, <1>2, <2>1 DEF Stored
  <2>2. CASE y # x
    BY <1>1, <2>2 DEF Stored
  <2> QED
    BY <2>1, <2>2
<1>4. \A u \in Threads \ {s}, y \in Loc : view'[u][y] >= view[u][y]
  BY <1>1 DEF Stored
<1> QED
  BY <1>3, <1>4 DEF Stored

\* The memory's part of a step.
Remembers(s) ==
  /\ \A u \in Threads, x \in Loc : view'[u][x] >= view[u][x]
  /\ \A t \in Sides \ {s} : mo'[OwnIdx(t)] = mo[OwnIdx(t)]

LEMMA RemembersWhen ==
  ASSUME TypeInv, NEW s \in Threads
  PROVE  /\ UNCHANGED memory => Remembers(s)
         /\ Loads(s) => Remembers(s)
         /\ \A m : Stored(s, Closed, m) => Remembers(s)
         /\ \A i \in Slots : \A m : Stored(s, Buffer(i), m) => Remembers(s)
         /\ \A m : s \in Sides /\ Stored(s, OwnIdx(s), m) => Remembers(s)
<1>1. \A u \in Threads, x \in Loc : view[u][x] \in Nat /\ view[u][x] >= view[u][x]
  BY DEF TypeInv, MemoryInv
<1>2. UNCHANGED memory => Remembers(s)
  BY <1>1 DEF memory, Remembers
<1>3. Loads(s) => Remembers(s)
  BY <1>1 DEF Loads, Remembers
<1>4. \A t \in Sides : /\ OwnIdx(t) \in Loc /\ OwnIdx(t) # Closed
                       /\ \A i : OwnIdx(t) # Buffer(i)
  BY Locations, LocationsDiffer, OwnIdxIs
<1>5. \A m : Stored(s, Closed, m) => Remembers(s)
  BY <1>4, Locations, StoredGrows DEF Remembers
<1>6. \A i \in Slots : \A m : Stored(s, Buffer(i), m) => Remembers(s)
  BY <1>4, Locations, StoredGrows DEF Remembers
<1>7. ASSUME NEW m, s \in Sides, Stored(s, OwnIdx(s), m)
      PROVE  Remembers(s)
  <2>1. \A t \in Sides \ {s} : OwnIdx(t) # OwnIdx(s)
    BY <1>7, OwnIdxIs, LocationsDiffer
  <2> QED
    BY <1>4, <1>7, <2>1, StoredGrows DEF Remembers
<1> QED
  BY <1>2, <1>3, <1>5, <1>6, <1>7

LEMMA ProducerSteps == TypeInv /\ TypeInv' /\ ProducerThread => StepBy(Producer)
<1> SUFFICES ASSUME TypeInv, TypeInv', ProducerThread PROVE StepBy(Producer)
  OBVIOUS
<1>t. MemoryInv /\ LocalType /\ index[Producer] \in Slots
  BY Names DEF TypeInv, LocalType
<1>1. Remembers(Producer)
  <2>1. ASSUME NEW o \in PushOps, NEW n \in 1 .. Batch, CallPush(o, n)
        PROVE  Remembers(Producer)
    BY <2>1, RemembersWhen, Names DEF CallPush
  <2>2. CASE PushChecksClosed
    <3>1. PICK k \in Readable(Producer, Closed) : LoadRelaxed(Producer, Closed, k)
      BY <2>2 DEF PushChecksClosed
    <3> QED
      BY <1>t, <3>1, RemembersWhen, LoadRelaxedEffect, Locations, Names
  <2>3. CASE RefreshesHead
    <3>1. PICK k \in Readable(Producer, HeadIdx) : LoadAcquire(Producer, HeadIdx, k)
      BY <2>3 DEF RefreshesHead, LoadsPeer
    <3> QED
      BY <1>t, <3>1, RemembersWhen, LoadAcquireEffect, Locations, Names
  <2>4. CASE WritesSlot
    <3>1. written + 1 \in 1 .. Pushes
      BY <2>4, SpscAssumption, Names
      DEF WritesSlot, TypeInv, CallReady, LocalType, HistoryType, Sides
    <3> QED
      BY <1>t, <2>4, <3>1, RemembersWhen, AccessEffect, Locations, Names DEF WritesSlot
  <2>5. CASE WriteThrows
    BY <1>t, <2>5, RemembersWhen, AccessEffect, Locations, Names DEF WriteThrows
  <2>6. CASE PublishesTail
    BY <1>t, <2>6, RemembersWhen, StoreReleaseEffect, Locations, OwnIdxIs, Names
    DEF PublishesTail
  <2>7. CASE AsksClosed
    <3>1. PICK k \in Readable(Producer, Closed) : LoadAcquire(Producer, Closed, k)
      BY <2>7 DEF AsksClosed
    <3> QED
      BY <1>t, <3>1, RemembersWhen, LoadAcquireEffect, Locations, Names
  <2>8. CASE EndProducer
    BY <2>8, RemembersWhen, Names DEF EndProducer
  <2>9. CASE close(Producer)
    <3>1. TRUE \in Contents(Closed)
      BY Locations
    <3> QED
      BY <1>t, <2>9, <3>1, RemembersWhen, StoreReleaseEffect, Locations, Names DEF close
  <2> QED
    BY <2>1, <2>2, <2>3, <2>4, <2>5, <2>6, <2>7, <2>8, <2>9 DEF ProducerThread
<1>2. pc[Producer] # "done"
  BY DEF ProducerThread, CallPush, PushChecksClosed, RefreshesHead, WritesSlot,
         WriteThrows, PublishesTail, AsksClosed, EndProducer, close
<1>3. \A u \in Threads \ {Producer} : pc'[u] = pc[u] /\ left'[u] = left[u]
  BY <1>t, Names
  DEF ProducerThread, CallPush, PushChecksClosed, RefreshesHead, WritesSlot, WriteThrows,
      PublishesTail, AsksClosed, EndProducer, close, Goto, Proceeds, LocalType
<1>4. \A u \in Threads \ {Producer} : op'[u] = op[u] /\ index'[u] = index[u]
  BY <1>t, Names
  DEF ProducerThread, CallPush, PushChecksClosed, RefreshesHead, WritesSlot, WriteThrows,
      PublishesTail, AsksClosed, EndProducer, close, LocalType
<1> QED
  BY <1>1, <1>2, <1>3, <1>4 DEF StepBy, Remembers

LEMMA ConsumerSteps == TypeInv /\ TypeInv' /\ ConsumerThread => StepBy(Consumer)
<1> SUFFICES ASSUME TypeInv, TypeInv', ConsumerThread PROVE StepBy(Consumer)
  OBVIOUS
<1>t. MemoryInv /\ LocalType /\ index[Consumer] \in Slots
  BY Names DEF TypeInv, LocalType
<1>1. Remembers(Consumer)
  <2>1. ASSUME NEW o \in PopOps, NEW n \in 1 .. Batch, CallPop(o, n)
        PROVE  Remembers(Consumer)
    BY <2>1, RemembersWhen, Names DEF CallPop
  <2>2. CASE RefreshesTail
    <3>1. PICK k \in Readable(Consumer, TailIdx) : LoadAcquire(Consumer, TailIdx, k)
      BY <2>2 DEF RefreshesTail, LoadsPeer
    <3> QED
      BY <1>t, <3>1, RemembersWhen, LoadAcquireEffect, Locations, Names
  <2>3. CASE MovesOut
    BY <1>t, <2>3, RemembersWhen, AccessEffect, Locations, Names DEF MovesOut
  <2>4. CASE MoveThrows
    <3>1. Latest(Buffer(index[Consumer])) \in 1 .. Pushes \cup {Empty}
      BY <1>t, Locations, LengthType
    <3> QED
      BY <1>t, <2>4, <3>1, RemembersWhen, AccessEffect, Locations, Names DEF MoveThrows
  <2>5. CASE PublishesHead
    BY <1>t, <2>5, RemembersWhen, StoreReleaseEffect, Locations, OwnIdxIs, Names
    DEF PublishesHead
  <2>6. CASE PopChecksClosed
    <3>1. PICK k \in Readable(Consumer, Closed) : LoadAcquire(Consumer, Closed, k)
      BY <2>6 DEF PopChecksClosed
    <3> QED
      BY <1>t, <3>1, RemembersWhen, LoadAcquireEffect, Locations, Names
  <2> QED
    BY <2>1, <2>2, <2>3, <2>4, <2>5, <2>6 DEF ConsumerThread
<1>2. pc[Consumer] # "done"
  BY DEF ConsumerThread, CallPop, RefreshesTail, MovesOut, MoveThrows, PublishesHead,
         PopChecksClosed
<1>3. \A u \in Threads \ {Consumer} : pc'[u] = pc[u] /\ left'[u] = left[u]
  BY <1>t, Names
  DEF ConsumerThread, CallPop, RefreshesTail, MovesOut, MoveThrows, PublishesHead,
      PopChecksClosed, Goto, Proceeds, LocalType
<1>4. \A u \in Threads \ {Consumer} : op'[u] = op[u] /\ index'[u] = index[u]
  BY <1>t, Names
  DEF ConsumerThread, CallPop, RefreshesTail, MovesOut, MoveThrows, PublishesHead,
      PopChecksClosed, LocalType
<1> QED
  BY <1>1, <1>2, <1>3, <1>4 DEF StepBy, Remembers

LEMMA MainSteps == TypeInv /\ TypeInv' /\ MainThread => StepBy(Main)
<1> SUFFICES ASSUME TypeInv, TypeInv', MainThread PROVE StepBy(Main)
  OBVIOUS
<1>t. MemoryInv /\ LocalType
  BY DEF TypeInv
<1>1. Remembers(Main)
  <2>1. ASSUME NEW t \in {Producer, Consumer}, Joins(t)
        PROVE  Remembers(Main)
    BY <1>t, <2>1, RemembersWhen, JoinThreadEffect, Names DEF Joins
  <2>2. CASE close(Main)
    <3>1. TRUE \in Contents(Closed)
      BY Locations
    <3> QED
      BY <1>t, <2>2, <3>1, RemembersWhen, StoreReleaseEffect, Locations, Names DEF close
  <2>3. CASE SizeLoadsHead
    <3>1. PICK k \in Readable(Main, HeadIdx) : LoadRelaxed(Main, HeadIdx, k)
      BY <2>3 DEF SizeLoadsHead
    <3> QED
      BY <1>t, <3>1, RemembersWhen, LoadRelaxedEffect, Locations, Names
  <2>4. CASE SizeLoadsTail
    <3>1. PICK k \in Readable(Main, TailIdx) : LoadRelaxed(Main, TailIdx, k)
      BY <2>4 DEF SizeLoadsTail
    <3> QED
      BY <1>t, <3>1, RemembersWhen, LoadRelaxedEffect, Locations, Names
  <2> QED
    BY <2>1, <2>2, <2>3, <2>4 DEF MainThread
<1>2. pc[Main] # "done"
  BY DEF MainThread, Joins, close, SizeLoadsHead, SizeLoadsTail
<1>3. \A u \in Threads \ {Main} : /\ pc'[u] = pc[u] /\ op'[u] = op[u]
                                  /\ left'[u] = left[u] /\ index'[u] = index[u]
  BY <1>t, Names
  DEF MainThread, Joins, close, SizeLoadsHead, SizeLoadsTail, Goto, LocalType, local
<1> QED
  BY <1>1, <1>2, <1>3 DEF StepBy, Remembers

LEMMA NextIsAStep ==
  TypeInv /\ TypeInv' /\ [Next]_vars =>
    \/ UNCHANGED vars
    \/ ProducerThread /\ StepBy(Producer)
    \/ ConsumerThread /\ StepBy(Consumer)
    \/ MainThread /\ StepBy(Main)
BY ProducerSteps, ConsumerSteps, MainSteps DEF Next, AllDone

-----------------------------------------------------------------------------
(***************************************************************************)
(* Counts.  The elements written and not yet moved out are as many as the  *)
(* producer's index is ahead of the consumer's.                            *)
(***************************************************************************)
Counted == written - Len(delivered) = Distance(index[Consumer], index[Producer])

LEMMA MoverHasRoom ==
  ASSUME TypeInv, RingInv, NEW t \in Sides, pc[t] = "move"
  PROVE  Really(t) >= 1
<1>1. left[t] >= 1 /\ left[t] <= Cached(t) /\ left[t] \in Nat
  BY SideTypes DEF TypeInv, CallReady, RingInv, SideInv, Fits
<1>2. Len(mo[PeerIdx(t)]) \in Seen(t)
  BY SideTypes
<1>3. /\ Cached(t) <= Shown(t, Len(mo[PeerIdx(t)]))
      /\ Shown(t, Len(mo[PeerIdx(t)])) <= Really(t)
  BY <1>2 DEF RingInv, SideInv, CacheBehind, NeverAhead
<1>4. Cached(t) \in Nat /\ Really(t) \in Nat /\ Shown(t, Len(mo[PeerIdx(t)])) \in Nat
  BY <1>2, SideTypes
<1> QED
  BY <1>1, <1>3, <1>4

LEMMA CountedInit == Init => Counted
<1> SUFFICES ASSUME Init PROVE Counted
  OBVIOUS
<1>1. 0 \in Slots
  BY SlotsAre
<1>2. Distance(0, 0) = 0
  BY <1>1, OwnIdxIs, AvailRange
<1> QED
  BY <1>2, Names DEF Init, Counted

\* A slot is written or moved out, or the counts and the indices stay.
LEMMA CountsOrNot ==
  ASSUME TypeInv, TypeInv', [Next]_vars
  PROVE  \/ WritesSlot
         \/ MovesOut
         \/ /\ UNCHANGED <<written, delivered>>
            /\ \A t \in Sides : index'[t] = index[t]
<1>1. CASE UNCHANGED vars
  BY <1>1 DEF vars, local, history
<1>2. ASSUME ProducerThread, ~WritesSlot
      PROVE  UNCHANGED <<written, delivered, index>>
  BY <1>2 DEF ProducerThread, CallPush, PushChecksClosed, RefreshesHead, WriteThrows,
              PublishesTail, AsksClosed, EndProducer, close, history
<1>3. ASSUME ConsumerThread, ~MovesOut
      PROVE  UNCHANGED <<written, delivered, index>>
  BY <1>3 DEF ConsumerThread, CallPop, RefreshesTail, MoveThrows, PublishesHead,
              PopChecksClosed, history
<1>4. ASSUME MainThread
      PROVE  UNCHANGED <<written, delivered>>
  BY <1>4 DEF MainThread, Joins, close, SizeLoadsHead, SizeLoadsTail, history
<1>5. StepBy(Main) => \A t \in Sides : index'[t] = index[t]
  BY OwnIdxIs, Names DEF StepBy
<1> QED
  BY <1>1, <1>2, <1>3, <1>4, <1>5, NextIsAStep

LEMMA CountedStep ==
  TypeInv /\ TypeInv' /\ RingInv /\ Counted /\ [Next]_vars => Counted'
<1> SUFFICES ASSUME TypeInv, TypeInv', RingInv, Counted, [Next]_vars PROVE Counted'
  OBVIOUS
<1>1. PICK c \in Slots, p \in Slots : c = index[Consumer] /\ p = index[Producer]
  BY Names DEF TypeInv, LocalType
<1>2. Avail(Consumer, c, p) = Distance(c, p) /\ Distance(c, p) \in 0 .. Capacity
  BY AvailIs, AvailRange, OwnIdxIs
<1>3. /\ Capacity \in Nat /\ written \in Nat
      /\ delivered \in Seq(1 .. Pushes \cup {Empty, Torn})
  BY SlotsAre DEF TypeInv, HistoryType
<1>4. CASE WritesSlot
  <2>1. Avail(Producer, p, c) >= 1
    BY <1>1, <1>4, MoverHasRoom, OwnIdxIs DEF WritesSlot, Really, Peer
  <2>2. Avail(Consumer, c, p) + Avail(Producer, p, c) = Capacity
    BY AvailSum, OwnIdxIs, Names DEF Peer
  <2>3. Avail(Producer, p, c) \in 0 .. Capacity
    BY AvailRange, OwnIdxIs
  <2>4. Avail(Consumer, c, p) < Capacity
    BY <1>2, <1>3, <2>1, <2>2, <2>3
  <2>5. Avail(Consumer, c, next(p)) = Distance(c, p) + 1
    BY <1>2, <2>4, AvailAfterPeer, OwnIdxIs
  <2>6. Avail(Consumer, c, next(p)) = Distance(c, next(p))
    BY AvailIs, NextSlot, OwnIdxIs
  <2>7. /\ written' = written + 1 /\ delivered' = delivered
        /\ index'[Consumer] = c /\ index'[Producer] = next(p)
    BY <1>1, <1>4, Names DEF WritesSlot, TypeInv, LocalType
  <2> QED
    BY <1>1, <1>2, <1>3, <2>5, <2>6, <2>7 DEF Counted
<1>5. CASE MovesOut
  <2>1. Avail(Consumer, c, p) >= 1
    BY <1>1, <1>5, MoverHasRoom, OwnIdxIs, Names DEF MovesOut, Really, Peer
  <2>2. Avail(Consumer, next(c), p) = Distance(c, p) - 1
    BY <1>2, <2>1, AvailAfterOwn, OwnIdxIs
  <2>3. Avail(Consumer, next(c), p) = Distance(next(c), p)
    BY AvailIs, NextSlot, OwnIdxIs
  <2>4. /\ written' = written
        /\ index'[Producer] = p /\ index'[Consumer] = next(c)
    BY <1>1, <1>5, Names DEF MovesOut, TypeInv, LocalType
  <2>5. Len(delivered') = Len(delivered) + 1
    BY <1>3, <1>5 DEF MovesOut
  <2> QED
    BY <1>1, <1>2, <1>3, <2>2, <2>3, <2>4, <2>5 DEF Counted
<1>6. CASE UNCHANGED <<written, delivered>> /\ \A t \in Sides : index'[t] = index[t]
  BY <1>6, OwnIdxIs DEF Counted
<1> QED
  BY <1>4, <1>5, <1>6, CountsOrNot

-----------------------------------------------------------------------------
(***************************************************************************)
(* Publication.  A side knows the newest index it has published, and       *)
(* except while it moves a batch or is about to publish, that is its own   *)
(* index.                                                                  *)
(***************************************************************************)
Batched(t) == op[t] = IF t = Producer THEN "try_push_n" ELSE "try_pop_n"

Exposed(t) == pc[t] \notin {"move", "publish"} \/ (pc[t] = "move" /\ ~Batched(t))

Published(t) ==
  /\ UpToDate(t, OwnIdx(t))
  /\ Exposed(t) => Latest(OwnIdx(t)) = index[t]
  /\ pc[t] = "move" /\ ~Batched(t) => left[t] = 1

LEMMA PublishedInit ==
  ASSUME Init, NEW t \in Sides
  PROVE  Published(t)
<1>1. InitialValue(HeadIdx) = 0 /\ InitialValue(TailIdx) = 0
  BY DEF InitialValue, HeadIdx, TailIdx
<1> QED
  BY <1>1, OwnIdxIs, Locations, Names
  DEF Init, Published, UpToDate, Latest, Newest, Message

\* A side that moves nothing keeps what it has published, if it starts no
\* single move of more than one element.
LEMMA PublishedKept ==
  ASSUME TypeInv, TypeInv', NEW t \in Sides, Published(t),
         mo'[OwnIdx(t)] = mo[OwnIdx(t)],
         view'[t][OwnIdx(t)] >= view[t][OwnIdx(t)],
         index'[t] = index[t],
         Exposed(t)' => Exposed(t),
         pc'[t] = "move" /\ ~Batched(t)' => left'[t] = 1
  PROVE  Published(t)'
<1>1. OwnIdx(t) \in Loc /\ t \in Threads
  BY OwnIdxIs, Locations, Names
<1>2. UpToDate(t, OwnIdx(t))'
  BY <1>1, UpToDateKept DEF Published
<1>3. Latest(OwnIdx(t))' = Latest(OwnIdx(t))
  BY DEF Latest, Newest
<1> QED
  BY <1>2, <1>3 DEF Published

LEMMA PublishedUntouched ==
  ASSUME TypeInv, TypeInv', NEW t \in Sides, Published(t),
         NEW s \in Threads \ {t}, StepBy(s)
  PROVE  Published(t)'
<1>1. /\ pc'[t] = pc[t] /\ op'[t] = op[t] /\ left'[t] = left[t] /\ index'[t] = index[t]
      /\ mo'[OwnIdx(t)] = mo[OwnIdx(t)]
      /\ view'[t][OwnIdx(t)] >= view[t][OwnIdx(t)]
  BY OwnIdxIs, Locations, Names DEF StepBy
<1>2. (Exposed(t)' <=> Exposed(t)) /\ (Batched(t)' <=> Batched(t))
  BY <1>1 DEF Exposed, Batched
<1>3. pc[t] = "move" /\ ~Batched(t) => left[t] = 1
  BY DEF Published
<1> QED
  BY <1>1, <1>2, <1>3, PublishedKept

\* A side that has stored its index and goes idle.
LEMMA PublishedNow ==
  ASSUME TypeInv, TypeInv', NEW t \in Sides, StoreRelease(t, OwnIdx(t), index[t]),
         index' = index, pc'[t] = "idle"
  PROVE  Published(t)'
<1>1. /\ OwnIdx(t) \in Loc /\ t \in Threads /\ MemoryInv
      /\ index[t] \in Contents(OwnIdx(t))
  BY OwnIdxIs, Locations, SideTypes DEF TypeInv
<1>2. PICK m : Stored(t, OwnIdx(t), m) /\ Latest(OwnIdx(t))' = index[t]
  BY <1>1, StoreReleaseEffect
<1>3. UpToDate(t, OwnIdx(t))'
  BY <1>2 DEF Stored, UpToDate
<1> QED
  BY <1>2, <1>3 DEF Published

LEMMA ProducerPublishes ==
  TypeInv /\ TypeInv' /\ Published(Producer) /\ ProducerThread => Published(Producer)'
<1> SUFFICES ASSUME TypeInv, TypeInv', Published(Producer), ProducerThread
             PROVE  Published(Producer)'
  OBVIOUS
<1>t. /\ LocalType /\ MemoryInv /\ Producer \in Sides
      /\ OwnIdx(Producer) = TailIdx /\ TailIdx \in Loc
  BY OwnIdxIs, Locations DEF TypeInv
<1>v. view'[Producer][TailIdx] >= view[Producer][TailIdx]
  BY <1>t, ProducerSteps, Names DEF StepBy
<1>k. ASSUME mo'[TailIdx] = mo[TailIdx], index'[Producer] = index[Producer],
             pc'[Producer] \notin {"move", "publish"}, Exposed(Producer)
      PROVE  Published(Producer)'
  BY <1>t, <1>v, <1>k, PublishedKept
<1>b. Batched(Producer) <=> op[Producer] = "try_push_n"
  BY DEF Batched
<1> USE Names
<1>1. ASSUME NEW o \in PushOps, NEW n \in 1 .. Batch, CallPush(o, n)
      PROVE  Published(Producer)'
  BY <1>t, <1>1, <1>k DEF CallPush, Goto, LocalType, memory, Exposed
<1>2. CASE PushChecksClosed
  <2>1. PICK k \in Readable(Producer, Closed) :
          /\ LoadRelaxed(Producer, Closed, k)
          /\ IF mo[Closed][k].val
             THEN /\ Goto(Producer, IF op[Producer] = "push" THEN "done" ELSE "asks")
                  /\ UNCHANGED left
             ELSE Proceeds(Producer, left[Producer], Room(head_cache_), "refresh")
    BY <1>2 DEF PushChecksClosed
  <2>2. /\ mo' = mo /\ index' = index /\ op' = op /\ Exposed(Producer)
        /\ pc[Producer] = "closed"
    BY <1>2, <2>1 DEF PushChecksClosed, LoadRelaxed, Exposed
  <2>3. CASE mo[Closed][k].val
    BY <1>t, <1>k, <2>1, <2>2, <2>3 DEF Goto, LocalType
  <2>4. CASE ~mo[Closed][k].val
    <3>1. left[Producer] \in Nat \ {0} /\ head_cache_ \in Slots
      BY <1>t, <2>2 DEF TypeInv, CallReady, LocalType
    <3>2. /\ Room(head_cache_) \in 0 .. left[Producer]
          /\ op[Producer] # "try_push_n" => Room(head_cache_) <= 1
      BY <1>t, <3>1, RoomBound
    <3>3. /\ pc'[Producer] = IF Room(head_cache_) = 0 THEN "refresh" ELSE "move"
          /\ pc'[Producer] = "move" => left'[Producer] = Room(head_cache_)
      BY <1>t, <2>1, <2>4, <3>1, <3>2, ProceedsType
    <3>4. pc'[Producer] = "move" /\ ~Batched(Producer)' => left'[Producer] = 1
      BY <2>2, <3>1, <3>2, <3>3 DEF Batched
    <3> QED
      BY <1>t, <1>v, <2>2, <3>4, PublishedKept
  <2> QED
    BY <2>3, <2>4
<1>3. CASE RefreshesHead
  <2>1. PICK k \in Readable(Producer, HeadIdx) :
          /\ LoadAcquire(Producer, HeadIdx, k)
          /\ Proceeds(Producer, left[Producer], Room(mo[HeadIdx][k].val),
                      AfterFailure(Producer))
    BY <1>3 DEF RefreshesHead, LoadsPeer
  <2>2. /\ mo' = mo /\ index' = index /\ op' = op /\ Exposed(Producer)
        /\ pc[Producer] = "refresh"
    BY <1>3, <2>1 DEF RefreshesHead, LoadAcquire, Exposed
  <2>3. PICK h \in Slots : h = mo[HeadIdx][k].val
    BY <1>t, Locations, ReadableRange, MessageType
  <2>4. left[Producer] \in Nat \ {0}
    BY <1>t, <2>2 DEF TypeInv, CallReady, LocalType
  <2>5. PICK m \in 0 .. left[Producer] :
          m = Room(h) /\ (op[Producer] # "try_push_n" => m <= 1)
    BY <1>t, <2>4, RoomBound
  <2>6. AfterFailure(Producer) \in {"refresh", "asks", "done", "closed"}
    BY AfterFailureType
  <2>7. /\ pc'[Producer] = IF m = 0 THEN AfterFailure(Producer) ELSE "move"
        /\ pc'[Producer] = "move" => left'[Producer] = m
    BY <1>t, <2>1, <2>3, <2>4, <2>5, <2>6, ProceedsType
  <2>8. pc'[Producer] = "move" /\ ~Batched(Producer)' => left'[Producer] = 1
    BY <2>2, <2>4, <2>5, <2>6, <2>7 DEF Batched
  <2> QED
    BY <1>t, <1>v, <2>2, <2>8, PublishedKept
<1>4. CASE WritesSlot
  <2>1. /\ pc[Producer] = "move" /\ op' = op /\ left'[Producer] = left[Producer] - 1
        /\ pc'[Producer] = IF left[Producer] = 1 THEN "publish" ELSE "move"
    BY <1>t, <1>4 DEF WritesSlot, Goto, LocalType
  <2>2. pc'[Producer] = "publish" \/ (pc'[Producer] = "move" /\ Batched(Producer)')
    BY <1>b, <2>1 DEF Published, Batched
  <2>3. mo'[TailIdx] = mo[TailIdx]
    <3>1. Buffer(index[Producer]) # TailIdx
      BY LocationsDiffer
    <3> QED
      BY <1>t, <1>4, <3>1 DEF WritesSlot, Access, Put, MemoryInv
  <2>4. UpToDate(Producer, TailIdx)'
    BY <1>t, <1>v, <2>3, UpToDateKept DEF Published
  <2> QED
    BY <1>t, <2>2, <2>4 DEF Published, Exposed
<1>5. CASE WriteThrows
  <2>1. Buffer(index[Producer]) # TailIdx
    BY LocationsDiffer
  <2>2. mo'[TailIdx] = mo[TailIdx]
    BY <1>t, <1>5, <2>1 DEF WriteThrows, Access, Put, MemoryInv
  <2> QED
    BY <1>t, <1>b, <1>5, <1>k, <2>2 DEF WriteThrows, Goto, LocalType, Exposed
<1>6. CASE PublishesTail
  BY <1>t, <1>6, PublishedNow DEF PublishesTail, Goto, LocalType
<1>7. CASE AsksClosed
  <2>1. /\ mo' = mo /\ index' = index /\ pc[Producer] = "asks"
        /\ \E l \in {"done", "idle"} : Goto(Producer, l)
    BY <1>7 DEF AsksClosed, LoadAcquire
  <2> QED
    BY <1>t, <1>k, <2>1 DEF Goto, LocalType, Exposed
<1>8. CASE EndProducer
  BY <1>t, <1>8, <1>k DEF EndProducer, Goto, LocalType, memory, Exposed
<1>9. CASE close(Producer)
  <2>1. mo'[TailIdx] = mo[TailIdx]
    BY <1>t, <1>9, LocationsDiffer DEF close, StoreRelease, Put, MemoryInv
  <2> QED
    BY <1>t, <1>9, <1>k, <2>1 DEF close, Goto, LocalType, Exposed
<1> QED
  BY <1>1, <1>2, <1>3, <1>4, <1>5, <1>6, <1>7, <1>8, <1>9 DEF ProducerThread

LEMMA ConsumerPublishes ==
  TypeInv /\ TypeInv' /\ Published(Consumer) /\ ConsumerThread => Published(Consumer)'
<1> SUFFICES ASSUME TypeInv, TypeInv', Published(Consumer), ConsumerThread
             PROVE  Published(Consumer)'
  OBVIOUS
<1>t. /\ LocalType /\ MemoryInv /\ Consumer \in Sides
      /\ OwnIdx(Consumer) = HeadIdx /\ HeadIdx \in Loc
  BY OwnIdxIs, Locations DEF TypeInv
<1>v. view'[Consumer][HeadIdx] >= view[Consumer][HeadIdx]
  BY <1>t, ConsumerSteps, Names DEF StepBy
<1>k. ASSUME mo'[HeadIdx] = mo[HeadIdx], index'[Consumer] = index[Consumer],
             pc'[Consumer] \notin {"move", "publish"}, Exposed(Consumer)
      PROVE  Published(Consumer)'
  BY <1>t, <1>v, <1>k, PublishedKept
<1>b. Batched(Consumer) <=> op[Consumer] = "try_pop_n"
  BY Names DEF Batched
<1> USE Names
<1>1. ASSUME NEW o \in PopOps, NEW n \in 1 .. Batch, CallPop(o, n)
      PROVE  Published(Consumer)'
  <2>1. n \in Nat \ {0} /\ tail_cache_ \in Slots
    BY <1>t, SpscAssumption DEF LocalType
  <2>2. PICK m \in 0 .. n : m = Data(o, n, tail_cache_) /\ (o # "try_pop_n" => m <= 1)
    BY <1>t, <2>1, DataBound
  <2>3. /\ pc'[Consumer] = IF m = 0 THEN "refresh" ELSE "move"
        /\ pc'[Consumer] = "move" => left'[Consumer] = m
    BY <1>t, <1>1, <2>1, <2>2, ProceedsType DEF CallPop
  <2>4. mo' = mo /\ index' = index /\ op'[Consumer] = o /\ Exposed(Consumer)
    BY <1>t, <1>1 DEF CallPop, LocalType, memory, Exposed
  <2>5. pc'[Consumer] = "move" /\ ~Batched(Consumer)' => left'[Consumer] = 1
    BY <2>1, <2>2, <2>3, <2>4 DEF Batched
  <2> QED
    BY <1>t, <1>v, <2>4, <2>5, PublishedKept
<1>2. CASE RefreshesTail
  <2>1. PICK k \in Readable(Consumer, TailIdx) :
          /\ LoadAcquire(Consumer, TailIdx, k)
          /\ Proceeds(Consumer, left[Consumer],
                      Data(op[Consumer], left[Consumer], mo[TailIdx][k].val),
                      AfterFailure(Consumer))
    BY <1>2 DEF RefreshesTail, LoadsPeer
  <2>2. /\ mo' = mo /\ index' = index /\ op' = op /\ Exposed(Consumer)
        /\ pc[Consumer] = "refresh"
    BY <1>2, <2>1 DEF RefreshesTail, LoadAcquire, Exposed
  <2>3. PICK v \in Slots : v = mo[TailIdx][k].val
    BY <1>t, Locations, ReadableRange, MessageType
  <2>4. left[Consumer] \in Nat \ {0}
    BY <1>t, <2>2 DEF TypeInv, CallReady, LocalType
  <2>5. PICK m \in 0 .. left[Consumer] :
          m = Data(op[Consumer], left[Consumer], v) /\ (op[Consumer] # "try_pop_n" => m <= 1)
    BY <1>t, <2>4, DataBound
  <2>6. AfterFailure(Consumer) \in {"refresh", "asks", "done", "closed"}
    BY AfterFailureType
  <2>7. /\ pc'[Consumer] = IF m = 0 THEN AfterFailure(Consumer) ELSE "move"
        /\ pc'[Consumer] = "move" => left'[Consumer] = m
    BY <1>t, <2>1, <2>3, <2>4, <2>5, <2>6, ProceedsType
  <2>8. pc'[Consumer] = "move" /\ ~Batched(Consumer)' => left'[Consumer] = 1
    BY <2>2, <2>4, <2>5, <2>6, <2>7 DEF Batched
  <2> QED
    BY <1>t, <1>v, <2>2, <2>8, PublishedKept
<1>3. CASE MovesOut
  <2>1. /\ pc[Consumer] = "move" /\ op' = op /\ left'[Consumer] = left[Consumer] - 1
        /\ pc'[Consumer] = IF left[Consumer] = 1 THEN "publish" ELSE "move"
    BY <1>t, <1>3 DEF MovesOut, Goto, LocalType
  <2>2. pc'[Consumer] = "publish" \/ (pc'[Consumer] = "move" /\ Batched(Consumer)')
    BY <1>b, <2>1 DEF Published, Batched
  <2>3. mo'[HeadIdx] = mo[HeadIdx]
    <3>1. Buffer(index[Consumer]) # HeadIdx
      BY LocationsDiffer
    <3> QED
      BY <1>t, <1>3, <3>1 DEF MovesOut, Access, Put, MemoryInv
  <2>4. UpToDate(Consumer, HeadIdx)'
    BY <1>t, <1>v, <2>3, UpToDateKept DEF Published
  <2> QED
    BY <1>t, <2>2, <2>4 DEF Published, Exposed
<1>4. CASE MoveThrows
  <2>1. Buffer(index[Consumer]) # HeadIdx
    BY LocationsDiffer
  <2>2. mo'[HeadIdx] = mo[HeadIdx]
    BY <1>t, <1>4, <2>1 DEF MoveThrows, Access, Put, MemoryInv
  <2> QED
    BY <1>t, <1>b, <1>4, <1>k, <2>2 DEF MoveThrows, Goto, LocalType, Exposed
<1>5. CASE PublishesHead
  BY <1>t, <1>5, PublishedNow DEF PublishesHead, Goto, LocalType
<1>6. CASE PopChecksClosed
  <2>1. /\ mo' = mo /\ index' = index /\ pc[Consumer] = "closed"
        /\ \E l \in {"refresh", "idle"} : Goto(Consumer, l)
    BY <1>6 DEF PopChecksClosed, LoadAcquire
  <2> QED
    BY <1>t, <1>k, <2>1 DEF Goto, LocalType, Exposed
<1> QED
  BY <1>1, <1>2, <1>3, <1>4, <1>5, <1>6 DEF ConsumerThread

LEMMA PublishedPreserved ==
  ASSUME TypeInv, TypeInv', [Next]_vars, NEW t \in Sides, Published(t)
  PROVE  Published(t)'
<1>1. CASE UNCHANGED vars
  <2>1. /\ mo' = mo /\ view' = view /\ pc' = pc /\ op' = op /\ left' = left /\ index' = index
    BY <1>1 DEF vars, memory, local
  <2> QED
    BY <2>1 DEF Published, UpToDate, Latest, Newest, Exposed, Batched
<1>2. CASE ProducerThread /\ StepBy(Producer)
  BY <1>2, ProducerPublishes, PublishedUntouched, OwnIdxIs, Names
<1>3. CASE ConsumerThread /\ StepBy(Consumer)
  BY <1>3, ConsumerPublishes, PublishedUntouched, OwnIdxIs, Names
<1>4. CASE MainThread /\ StepBy(Main)
  BY <1>4, PublishedUntouched, OwnIdxIs, Names
<1> QED
  BY <1>1, <1>2, <1>3, <1>4, NextIsAStep

-----------------------------------------------------------------------------
(***************************************************************************)
(* The end.  A joined thread has ended, and main knows what it published.  *)
(* The close message of an orderly close knows the producer's last tail_,  *)
(* so the attempt after it sees all there is: when that fails the ring is  *)
(* empty.  The last size() is that of the ring both threads have left.     *)
(***************************************************************************)
JoinedInv == \A t \in joined : pc[t] = "done" /\ UpToDate(Main, OwnIdx(t))

\* The close messages are newer than all others.
CloseOnce ==
  Latest(Closed) = FALSE => \A k \in 1 .. Len(mo[Closed]) : mo[Closed][k].val = FALSE

OrderlyClose ==
  orderly => /\ pc[Producer] = "done"
             /\ Latest(Closed) = TRUE
             /\ \A k \in 1 .. Len(mo[Closed]) :
                  mo[Closed][k].val = TRUE => mo[Closed][k].view[TailIdx] = Len(mo[TailIdx])

LastAttempt ==
  /\ op[Consumer] = "last" => Latest(Closed) = TRUE
  /\ orderly /\ op[Consumer] = "last" => UpToDate(Consumer, TailIdx)
  /\ pc[Consumer] = "done" => op[Consumer] = "last"
  /\ orderly /\ pc[Consumer] = "done" => index[Consumer] = index[Producer]

SizeInv ==
  /\ pc[Main] \in {"final", "done"} => joined = Sides /\ index[Main] = index[Consumer]
  /\ pc[Main] = "done" => sizeRet = Distance(index[Consumer], index[Producer])

EndInv ==
  /\ Counted /\ Published(Producer) /\ Published(Consumer)
  /\ JoinedInv /\ CloseOnce /\ OrderlyClose /\ LastAttempt /\ SizeInv

LEMMA EndInit == Init => EndInv
<1> SUFFICES ASSUME Init PROVE EndInv
  OBVIOUS
<1>1. Counted /\ Published(Producer) /\ Published(Consumer)
  BY CountedInit, PublishedInit, OwnIdxIs
<1>2. InitialValue(Closed) = FALSE
  BY DEF InitialValue, Closed
<1>3. CloseOnce
  BY <1>2, Locations DEF Init, CloseOnce, Message
<1>4. JoinedInv /\ OrderlyClose /\ LastAttempt /\ SizeInv
  BY Names DEF Init, JoinedInv, OrderlyClose, LastAttempt, SizeInv
<1> QED
  BY <1>1, <1>3, <1>4 DEF EndInv

\* A thread that knows the newest message of x can read no other.
LEMMA ReadsNewest ==
  ASSUME MemoryInv, NEW t \in Threads, NEW x \in Loc, UpToDate(t, x), NEW k \in Readable(t, x)
  PROVE  k = Len(mo[x]) /\ mo[x][k].val = Latest(x)
<1>1. k \in 1 .. Len(mo[x]) /\ k >= view[t][x] /\ Len(mo[x]) \in Nat
  BY ReadableRange, LengthType
<1> QED
  BY <1>1 DEF UpToDate, Latest, Newest

LEMMA JoinedStep ==
  TypeInv /\ TypeInv' /\ Published(Producer) /\ Published(Consumer) /\ JoinedInv
    /\ [Next]_vars => JoinedInv'
<1> SUFFICES ASSUME TypeInv, TypeInv', Published(Producer), Published(Consumer),
                    JoinedInv, [Next]_vars
             PROVE  JoinedInv'
  OBVIOUS
<1>1. joined \subseteq Sides
  BY DEF TypeInv, HistoryType, Sides
<1>2. ASSUME NEW s \in Threads, StepBy(s), NEW t \in joined
      PROVE  pc'[t] = "done" /\ UpToDate(Main, OwnIdx(t))'
  <2>1. /\ t \in Sides /\ t \in Threads /\ OwnIdx(t) \in Loc
        /\ pc[t] = "done" /\ UpToDate(Main, OwnIdx(t)) /\ t # s
    BY <1>1, <1>2, OwnIdxIs, Locations, Names DEF JoinedInv, StepBy
  <2>2. /\ pc'[t] = pc[t] /\ mo'[OwnIdx(t)] = mo[OwnIdx(t)]
        /\ view'[Main][OwnIdx(t)] >= view[Main][OwnIdx(t)]
    BY <1>2, <2>1, Names DEF StepBy
  <2> QED
    BY <2>1, <2>2, UpToDateKept, Names
<1>3. ASSUME NEW t \in {Producer, Consumer}, Joins(t)
      PROVE  pc'[t] = "done" /\ UpToDate(Main, OwnIdx(t))'
  <2>1. /\ pc'[t] = "done" /\ JoinThread(Main, t) /\ t \in Sides /\ t \in Threads
        /\ OwnIdx(t) \in Loc /\ UpToDate(t, OwnIdx(t)) /\ MemoryInv
    BY <1>3, OwnIdxIs, Locations, Names DEF Joins, local, Published, TypeInv
  <2>2. mo' = mo /\ view'[Main][OwnIdx(t)] >= view[t][OwnIdx(t)]
    BY <2>1, JoinThreadEffect, Names DEF Loads
  <2>3. /\ view'[Main][OwnIdx(t)] \in Nat /\ view'[Main][OwnIdx(t)] <= Len(mo'[OwnIdx(t)])
        /\ Len(mo[OwnIdx(t)]) \in Nat
    BY <2>1, LengthType, Names DEF TypeInv, MemoryInv
  <2> QED
    BY <2>1, <2>2, <2>3 DEF UpToDate
<1>4. CASE UNCHANGED vars
  BY <1>4 DEF vars, local, memory, history, JoinedInv, UpToDate
<1>5. CASE ProducerThread /\ StepBy(Producer)
  <2>1. joined' = joined
    BY <1>5 DEF ProducerThread, CallPush, PushChecksClosed, RefreshesHead, WritesSlot,
       WriteThrows, PublishesTail, AsksClosed, EndProducer, close, history
  <2> QED
    BY <1>2, <1>5, <2>1, Names DEF JoinedInv
<1>6. CASE ConsumerThread /\ StepBy(Consumer)
  <2>1. joined' = joined
    BY <1>6 DEF ConsumerThread, CallPop, RefreshesTail, MovesOut, MoveThrows, PublishesHead,
       PopChecksClosed, history
  <2> QED
    BY <1>2, <1>6, <2>1, Names DEF JoinedInv
<1>7. CASE MainThread /\ StepBy(Main)
  <2>1. joined' = joined \/ \E t \in {Producer, Consumer} : Joins(t) /\ joined' = joined \cup {t}
    BY <1>7 DEF MainThread, Joins, close, SizeLoadsHead, SizeLoadsTail, history
  <2> QED
    BY <1>2, <1>3, <1>7, <2>1, Names DEF JoinedInv
<1> QED
  BY <1>4, <1>5, <1>6, <1>7, NextIsAStep

LEMMA SizeStep ==
  TypeInv /\ TypeInv' /\ Published(Producer) /\ Published(Consumer) /\ JoinedInv
    /\ SizeInv /\ [Next]_vars => SizeInv'
<1> SUFFICES ASSUME TypeInv, TypeInv', Published(Producer), Published(Consumer),
                    JoinedInv, SizeInv, [Next]_vars
             PROVE  SizeInv'
  OBVIOUS
<1>t. MemoryInv /\ LocalType
  BY DEF TypeInv
<1>1. CASE UNCHANGED vars
  BY <1>1 DEF vars, local, history, SizeInv
\* Once main has asked for the last size() the two sides take no step.
<1>2. ASSUME NEW s \in Sides, StepBy(s)
      PROVE  SizeInv'
  <2>1. pc[s] # "done" /\ pc'[Main] = pc[Main]
    BY <1>2, OwnIdxIs, Names DEF StepBy
  <2>2. joined # Sides
    BY <2>1 DEF JoinedInv
  <2> QED
    BY <2>1, <2>2 DEF SizeInv
\* What main reads of an index it has joined the owner of.
<1>3. ASSUME joined = Sides, NEW t \in Sides, NEW k \in Readable(Main, OwnIdx(t))
      PROVE  mo[OwnIdx(t)][k].val = index[t]
  <2>1. pc[t] = "done" /\ UpToDate(Main, OwnIdx(t)) /\ OwnIdx(t) \in Loc
    BY <1>3, OwnIdxIs, Locations DEF JoinedInv
  <2>2. Latest(OwnIdx(t)) = index[t]
    BY <2>1, OwnIdxIs DEF Published, Exposed
  <2> QED
    BY <1>t, <2>1, <2>2, ReadsNewest, Names
<1>4. CASE MainThread /\ StepBy(Main)
  <2>s. \A t \in Sides : index'[t] = index[t]
    BY <1>4, OwnIdxIs, Names DEF StepBy
  <2>1. ASSUME NEW t \in {Producer, Consumer}, Joins(t)
        PROVE  SizeInv'
    BY <2>1 DEF Joins, local, SizeInv
  <2>2. CASE close(Main)
    BY <1>t, <2>2, Names DEF close, Goto, LocalType, SizeInv
  <2>3. CASE SizeLoadsHead
    <3>1. PICK k \in Readable(Main, HeadIdx) : index' = [index EXCEPT ![Main] = mo[HeadIdx][k].val]
      BY <2>3 DEF SizeLoadsHead
    <3>2. /\ pc'[Main] = IF joined = Sides THEN "final" ELSE "size"
          /\ joined' = joined /\ index'[Main] = mo[HeadIdx][k].val
      BY <1>t, <2>3, <3>1, Names DEF SizeLoadsHead, Goto, LocalType, history, Sides
    <3>3. joined = Sides => mo[HeadIdx][k].val = index[Consumer]
      BY <1>3, OwnIdxIs
    <3> QED
      BY <2>s, <3>2, <3>3, OwnIdxIs DEF SizeInv
  <2>4. CASE SizeLoadsTail
    <3>1. PICK k \in Readable(Main, TailIdx) :
            sizeRet' = Distance(index[Main], mo[TailIdx][k].val)
      BY <2>4 DEF SizeLoadsTail, size, Distance
    <3>2. /\ pc'[Main] = IF pc[Main] = "final" THEN "done" ELSE "idle"
          /\ joined' = joined /\ index' = index
      BY <1>t, <2>4, Names DEF SizeLoadsTail, Goto, LocalType
    <3>3. joined = Sides => mo[TailIdx][k].val = index[Producer]
      BY <1>3, OwnIdxIs
    <3> QED
      BY <3>1, <3>2, <3>3 DEF SizeInv
  <2> QED
    BY <1>4, <2>1, <2>2, <2>3, <2>4 DEF MainThread
<1> QED
  BY <1>1, <1>2, <1>4, NextIsAStep, OwnIdxIs

\* closed_ is stored to by close() only.
LEMMA ClosedFrame ==
  ASSUME TypeInv
  PROVE  /\ ProducerThread => close(Producer) \/ UNCHANGED <<mo[Closed], orderly>>
         /\ ConsumerThread => UNCHANGED <<mo[Closed], orderly>>
         /\ MainThread => close(Main) \/ UNCHANGED <<mo[Closed], orderly>>
<1>t. DOMAIN mo = Loc /\ Closed \in Loc
  BY Locations DEF TypeInv, MemoryInv
<1>d. HeadIdx # Closed /\ TailIdx # Closed /\ \A i : Buffer(i) # Closed
  BY LocationsDiffer
<1>1. ASSUME ProducerThread, ~close(Producer)
      PROVE  UNCHANGED <<mo[Closed], orderly>>
  <2>1. orderly' = orderly
    BY <1>1 DEF ProducerThread, CallPush, PushChecksClosed, RefreshesHead, WritesSlot,
       WriteThrows, PublishesTail, AsksClosed, EndProducer, history
  <2>2. \/ mo' = mo
        \/ \E x, v : x # Closed /\ mo' = [mo EXCEPT ![x] = v]
    BY <1>1, <1>d DEF ProducerThread, CallPush, PushChecksClosed, RefreshesHead, WritesSlot,
       WriteThrows, PublishesTail, AsksClosed, EndProducer, memory, LoadRelaxed, LoadAcquire,
       LoadsPeer, Access, StoreRelease, Put
  <2> QED
    BY <1>t, <2>1, <2>2
<1>2. ASSUME ConsumerThread
      PROVE  UNCHANGED <<mo[Closed], orderly>>
  <2>1. orderly' = orderly
    BY <1>2 DEF ConsumerThread, CallPop, RefreshesTail, MovesOut, MoveThrows, PublishesHead,
       PopChecksClosed, history
  <2>2. \/ mo' = mo
        \/ \E x, v : x # Closed /\ mo' = [mo EXCEPT ![x] = v]
    BY <1>2, <1>d DEF ConsumerThread, CallPop, RefreshesTail, MovesOut, MoveThrows,
       PublishesHead, PopChecksClosed, memory, LoadAcquire, LoadsPeer, Access, StoreRelease, Put
  <2> QED
    BY <1>t, <2>1, <2>2
<1>3. ASSUME MainThread, ~close(Main)
      PROVE  UNCHANGED <<mo[Closed], orderly>>
  BY <1>3 DEF MainThread, Joins, SizeLoadsHead, SizeLoadsTail, history, JoinThread, LoadRelaxed
<1> QED
  BY <1>1, <1>2, <1>3

\* close() itself.  It is orderly when the closing thread knows the last
\* tail_ the producer will ever publish.
LEMMA CloseStep ==
  ASSUME TypeInv, TypeInv', EndInv, NEW t \in {Producer, Main}, close(t)
  PROVE  CloseOnce' /\ OrderlyClose' /\ LastAttempt'
<1>t. /\ MemoryInv /\ LocalType /\ t \in Threads /\ TRUE \in Contents(Closed)
      /\ Closed \in Loc /\ TailIdx \in Loc /\ TailIdx # Closed
  BY Locations, LocationsDiffer, Names DEF TypeInv
<1>1. PICK w : w = [view[t] EXCEPT ![Closed] = Len(mo[Closed]) + 1]
  OBVIOUS
<1>2. Stored(t, Closed, Message(TRUE, w)) /\ Latest(Closed)' = TRUE
  BY <1>t, <1>1, StoreReleaseEffect DEF close
<1>3. PICK n \in Nat : n = Len(mo[Closed])
  BY <1>t, LengthType
<1>4. /\ Len(mo'[Closed]) = n + 1
      /\ mo'[Closed][n + 1].view = w
      /\ \A k \in 1 .. n : mo'[Closed][k] = mo[Closed][k]
      /\ mo'[TailIdx] = mo[TailIdx]
  BY <1>t, <1>2, <1>3 DEF Stored, Message
<1>5. /\ Latest(Closed) = FALSE /\ op' = op
      /\ orderly' <=> (t = Producer \/ Producer \in joined)
      /\ pc'[t] = (IF t = Producer THEN "done" ELSE "idle")
      /\ \A u \in Threads \ {t} : pc'[u] = pc[u]
  BY <1>t DEF close, Goto, LocalType
<1>6. /\ \A k \in 1 .. n : mo[Closed][k].val = FALSE
      /\ op[Consumer] # "last" /\ pc[Consumer] # "done"
  BY <1>3, <1>5 DEF EndInv, CloseOnce, LastAttempt
<1>7. CloseOnce'
  BY <1>2 DEF CloseOnce
<1>8. LastAttempt'
  BY <1>5, <1>6, Names DEF LastAttempt
<1>9. ASSUME orderly'
      PROVE  pc'[Producer] = "done" /\ view[t][TailIdx] = Len(mo[TailIdx])
  <2>1. CASE t = Producer
    BY <1>5, <2>1, OwnIdxIs DEF EndInv, Published, UpToDate
  <2>2. CASE t = Main
    <3>1. Producer \in joined
      BY <1>5, <1>9, <2>2, Names
    <3> QED
      BY <1>5, <2>2, <3>1, OwnIdxIs, Names DEF EndInv, JoinedInv, UpToDate
  <2> QED
    BY <2>1, <2>2
<1>10. w[TailIdx] = view[t][TailIdx]
  BY <1>t, <1>1 DEF MemoryInv
<1>11. ASSUME orderly', NEW k \in 1 .. Len(mo'[Closed]), mo'[Closed][k].val = TRUE
       PROVE  mo'[Closed][k].view[TailIdx] = Len(mo'[TailIdx])
  <2>1. k = n + 1
    BY <1>3, <1>4, <1>6, <1>11
  <2> QED
    BY <1>4, <1>9, <1>10, <1>11, <2>1
<1>12. OrderlyClose'
  BY <1>2, <1>9, <1>11 DEF OrderlyClose
<1> QED
  BY <1>7, <1>8, <1>12

\* The consumer's steps: what it learns of the close.  Its attempt after an
\* orderly close reads the last tail_, so if that shows nothing all is gone.
LEMMA ConsumerLearns ==
  ASSUME TypeInv, TypeInv', EndInv, ConsumerThread
  PROVE  LastAttempt'
<1>t. /\ MemoryInv /\ LocalType /\ Closed \in Loc /\ TailIdx \in Loc
      /\ Contents(Closed) = BOOLEAN /\ Contents(TailIdx) = Slots
  BY Locations DEF TypeInv
<1>s. StepBy(Consumer)
  BY ConsumerSteps
<1>1. /\ Latest(Closed)' = Latest(Closed) /\ orderly' = orderly
      /\ mo'[TailIdx] = mo[TailIdx]
      /\ index'[Producer] = index[Producer] /\ pc[Consumer] # "done"
      /\ view'[Consumer][TailIdx] >= view[Consumer][TailIdx]
  BY <1>s, <1>t, ClosedFrame, OwnIdxIs, Names DEF StepBy, Latest, Newest
<1>2. UpToDate(Consumer, TailIdx) => UpToDate(Consumer, TailIdx)'
  BY <1>1, <1>t, UpToDateKept, Names
<1>k. ASSUME op'[Consumer] = "last" => op[Consumer] = "last", pc'[Consumer] # "done"
      PROVE  LastAttempt'
  BY <1>1, <1>2, <1>k DEF EndInv, LastAttempt
<1> USE Names
<1>3. ASSUME NEW o \in PopOps, NEW n \in 1 .. Batch, CallPop(o, n)
      PROVE  LastAttempt'
  <2>1. o # "last"
    BY SpscAssumption
  <2> QED
    BY <1>t, <1>k, <1>3, <2>1 DEF CallPop, Proceeds, Goto, LocalType
<1>4. CASE RefreshesTail
  <2>1. PICK k \in Readable(Consumer, TailIdx) :
          Proceeds(Consumer, left[Consumer],
                   Data(op[Consumer], left[Consumer], mo[TailIdx][k].val),
                   AfterFailure(Consumer))
    BY <1>4 DEF RefreshesTail
  <2>2. op' = op /\ index' = index /\ pc[Consumer] = "refresh"
    BY <1>4 DEF RefreshesTail
  <2>3. CASE pc'[Consumer] # "done"
    BY <1>k, <2>2, <2>3
  <2>4. CASE pc'[Consumer] = "done"
    <3>1. PICK v \in Slots : v = mo[TailIdx][k].val
      BY <1>t, ReadableRange, MessageType
    <3>2. left[Consumer] \in Nat \ {0} /\ index[Consumer] \in Slots
      BY <1>t, <2>2, OwnIdxIs DEF TypeInv, CallReady, LocalType
    <3>3. PICK m \in 0 .. left[Consumer] :
            /\ m = Data(op[Consumer], left[Consumer], v)
            /\ m = 0 => Avail(Consumer, index[Consumer], v) = 0
      BY <1>t, <3>1, <3>2, DataBound
    <3>4. pc'[Consumer] = IF m = 0 THEN AfterFailure(Consumer) ELSE "move"
      BY <1>t, <2>1, <3>1, <3>3 DEF Proceeds, Goto, LocalType
    <3>5. m = 0 /\ AfterFailure(Consumer) = "done"
      BY <2>4, <3>4
    <3>6. op[Consumer] = "last"
      BY <3>5 DEF AfterFailure
    <3>7. index[Consumer] = v
      BY <3>1, <3>2, <3>3, <3>5, AvailIs, AvailRange, OwnIdxIs
    <3>8. ASSUME orderly
          PROVE  v = index[Producer]
      <4>1. UpToDate(Consumer, TailIdx) /\ pc[Producer] = "done"
        BY <3>6, <3>8 DEF EndInv, LastAttempt, OrderlyClose
      <4>2. v = Latest(TailIdx)
        BY <1>t, <3>1, <4>1, ReadsNewest
      <4> QED
        BY <4>1, <4>2, OwnIdxIs DEF EndInv, Published, Exposed
    <3> QED
      BY <1>1, <1>2, <2>2, <3>6, <3>7, <3>8 DEF EndInv, LastAttempt
  <2> QED
    BY <2>3, <2>4
<1>5. CASE MovesOut \/ MoveThrows \/ PublishesHead
  <2>1. op' = op /\ pc'[Consumer] # "done"
    BY <1>t, <1>5 DEF MovesOut, MoveThrows, PublishesHead, Goto, LocalType
  <2> QED
    BY <1>k, <2>1
<1>6. CASE PopChecksClosed
  <2>1. PICK k \in Readable(Consumer, Closed) :
          /\ LoadAcquire(Consumer, Closed, k)
          /\ IF mo[Closed][k].val
             THEN op' = [op EXCEPT ![Consumer] = "last"] /\ Goto(Consumer, "refresh")
             ELSE /\ Goto(Consumer, IF op[Consumer] = "pop" THEN "refresh" ELSE "idle")
                  /\ UNCHANGED op
    BY <1>6 DEF PopChecksClosed
  <2>2. k \in 1 .. Len(mo[Closed]) /\ mo[Closed][k].val \in BOOLEAN
    BY <1>t, ReadableRange, MessageType
  <2>3. pc'[Consumer] # "done"
    BY <1>t, <2>1 DEF Goto, LocalType
  <2>4. CASE mo[Closed][k].val = FALSE
    BY <1>k, <2>1, <2>3, <2>4
  <2>5. CASE mo[Closed][k].val = TRUE
    <3>1. Latest(Closed) = TRUE
      <4>1. Latest(Closed) \in BOOLEAN
        BY <1>t, LengthType
      <4>2. Latest(Closed) # FALSE
        BY <2>2, <2>5 DEF EndInv, CloseOnce
      <4> QED
        BY <4>1, <4>2
    <3>2. ASSUME orderly
          PROVE  UpToDate(Consumer, TailIdx)'
      <4>1. mo[Closed][k].view[TailIdx] = Len(mo[TailIdx])
        BY <2>2, <2>5, <3>2 DEF EndInv, OrderlyClose
      <4>2. view'[Consumer][TailIdx] >= mo[Closed][k].view[TailIdx]
        BY <1>t, <2>1, LoadAcquireEffect
      <4>3. /\ view'[Consumer][TailIdx] \in Nat /\ Len(mo[TailIdx]) \in Nat
            /\ view'[Consumer][TailIdx] <= Len(mo'[TailIdx])
        BY <1>t, LengthType DEF TypeInv, MemoryInv
      <4> QED
        BY <1>1, <4>1, <4>2, <4>3 DEF UpToDate
    <3> QED
      BY <1>t, <1>1, <2>1, <2>3, <2>5, <3>1, <3>2 DEF LastAttempt, LocalType
  <2> QED
    BY <2>2, <2>4, <2>5
<1> QED
  BY <1>3, <1>4, <1>5, <1>6 DEF ConsumerThread

LEMMA EndStep == TypeInv /\ TypeInv' /\ RingInv /\ EndInv /\ [Next]_vars => EndInv'
<1> SUFFICES ASSUME TypeInv, TypeInv', RingInv, EndInv, [Next]_vars PROVE EndInv'
  OBVIOUS
<1>1. Counted' /\ Published(Producer)' /\ Published(Consumer)' /\ JoinedInv' /\ SizeInv'
  BY CountedStep, PublishedPreserved, JoinedStep, SizeStep, OwnIdxIs DEF EndInv
\* Nothing is closed in the step.
<1>2. ASSUME mo'[Closed] = mo[Closed]
      PROVE  CloseOnce' /\ Latest(Closed)' = Latest(Closed)
  BY <1>2 DEF EndInv, CloseOnce, Latest, Newest
<1>3. ASSUME NEW s \in Threads, StepBy(s), mo'[Closed] = mo[Closed], orderly' = orderly
      PROVE  OrderlyClose'
  <2> SUFFICES ASSUME orderly
               PROVE  /\ pc'[Producer] = "done" /\ mo'[TailIdx] = mo[TailIdx]
    BY <1>2, <1>3 DEF EndInv, OrderlyClose
  <2>1. pc[Producer] = "done"
    BY DEF EndInv, OrderlyClose
  <2>2. s # Producer
    BY <1>3, <2>1 DEF StepBy
  <2> QED
    BY <1>3, <2>1, <2>2, OwnIdxIs, Names DEF StepBy
<1>4. ASSUME NEW s \in {Producer, Main}, StepBy(s), mo'[Closed] = mo[Closed],
             orderly' = orderly
      PROVE  LastAttempt'
  <2>1. /\ pc'[Consumer] = pc[Consumer] /\ op'[Consumer] = op[Consumer]
        /\ index'[Consumer] = index[Consumer]
    BY <1>4, Names DEF StepBy
  <2>2. ASSUME orderly
        PROVE  /\ index'[Producer] = index[Producer]
               /\ UpToDate(Consumer, TailIdx) => UpToDate(Consumer, TailIdx)'
    <3>1. s = Main
      BY <1>4, <2>2, Names DEF EndInv, OrderlyClose, StepBy
    <3>2. mo'[TailIdx] = mo[TailIdx] /\ index'[Producer] = index[Producer]
      BY <1>4, <3>1, OwnIdxIs, Names DEF StepBy
    <3>3. view'[Consumer][TailIdx] >= view[Consumer][TailIdx]
      BY <1>4, Locations, Names DEF StepBy
    <3> QED
      BY <3>2, <3>3, UpToDateKept, Locations, Names
  <2> QED
    BY <1>2, <1>4, <2>1, <2>2 DEF EndInv, LastAttempt
<1>5. CloseOnce' /\ OrderlyClose' /\ LastAttempt'
  <2>1. CASE UNCHANGED vars
    <3>1. /\ mo' = mo /\ view' = view /\ pc' = pc /\ op' = op /\ index' = index
          /\ orderly' = orderly
      BY <2>1 DEF vars, memory, local, history
    <3> QED
      BY <3>1 DEF EndInv, CloseOnce, OrderlyClose, LastAttempt, UpToDate, Latest, Newest
  <2>2. CASE ProducerThread /\ StepBy(Producer)
    BY <1>2, <1>3, <1>4, <2>2, CloseStep, ClosedFrame, Names
  <2>3. CASE ConsumerThread /\ StepBy(Consumer)
    BY <1>2, <1>3, <2>3, ConsumerLearns, ClosedFrame, Names
  <2>4. CASE MainThread /\ StepBy(Main)
    BY <1>2, <1>3, <1>4, <2>4, CloseStep, ClosedFrame, Names
  <2> QED
    BY <2>1, <2>2, <2>3, <2>4, NextIsAStep
<1> QED
  BY <1>1, <1>5 DEF EndInv

LEMMA EndInvHolds == Spec => [](TypeInv /\ EndInv)
<1>1. Init => TypeInv /\ RingInv /\ EndInv
  BY TypeInit, RingInit, EndInit
<1>2. TypeInv /\ RingInv /\ EndInv /\ [Next]_vars => (TypeInv /\ RingInv /\ EndInv)'
  BY TypeStep, RingStep, EndStep
<1> QED
  BY <1>1, <1>2, PTL DEF Spec

(***************************************************************************)
(* pop() drains: if the producer had stopped when the queue was closed, a  *)
(* pop() that returns false, or the non-blocking loop that ends, has left  *)
(* no element behind.                                                      *)
(***************************************************************************)
THEOREM DrainedWhenPopFailsHolds == Spec => []DrainedWhenPopFails
<1>1. TypeInv /\ EndInv => DrainedWhenPopFails
  <2> SUFFICES ASSUME TypeInv, EndInv, orderly, pc[Consumer] = "done"
               PROVE  Len(delivered) = written
    BY DEF DrainedWhenPopFails
  <2>1. index[Consumer] = index[Producer] /\ index[Producer] \in Slots
    BY Names DEF EndInv, LastAttempt, TypeInv, LocalType
  <2>2. Distance(index[Producer], index[Producer]) = 0
    BY <2>1, AvailRange, OwnIdxIs
  <2>3. written - Len(delivered) = 0
    BY <2>1, <2>2 DEF EndInv, Counted
  <2>4. written \in Nat /\ Len(delivered) \in Nat
    BY DEF TypeInv, HistoryType
  <2> QED
    BY <2>3, <2>4
<1> QED
  BY <1>1, EndInvHolds, PTL

(***************************************************************************)
(* size() is exact once main has joined both threads: it is the number of  *)
(* elements accepted and not delivered.                                    *)
(***************************************************************************)
THEOREM SizeExactWhenQuiescentHolds == Spec => []SizeExactWhenQuiescent
<1>1. EndInv => SizeExactWhenQuiescent
  BY DEF EndInv, SizeInv, Counted, SizeExactWhenQuiescent
<1> QED
  BY <1>1, EndInvHolds, PTL

-----------------------------------------------------------------------------
(***************************************************************************)
(* Values.  What has come out is 1, 2, ... in this order, and the slots    *)
(* from the consumer's index on hold the numbers that follow.              *)
(***************************************************************************)
DeliveredInOrder == \A i \in DOMAIN delivered : delivered[i] = i

QueuedInOrder ==
  \A i \in Slots :
    Distance(index[Consumer], i) < Distance(index[Consumer], index[Producer]) =>
      Latest(Buffer(i)) = Len(delivered) + Distance(index[Consumer], i) + 1

ValuesInv == DeliveredInOrder /\ QueuedInOrder

LEMMA ValuesInit == Init => ValuesInv
<1> SUFFICES ASSUME Init PROVE ValuesInv
  OBVIOUS
<1>1. index[Consumer] = 0 /\ index[Producer] = 0 /\ 0 \in Slots
  BY SlotsAre, Names DEF Init
<1>2. /\ Distance(0, 0) = 0 /\ Capacity \in Nat
      /\ \A i \in Slots : Distance(0, i) \in 0 .. Capacity
  BY <1>1, AvailRange, OwnIdxIs, SlotsAre
<1> QED
  BY <1>1, <1>2 DEF Init, ValuesInv, DeliveredInOrder, QueuedInOrder

\* Different slots are at different distances.
LEMMA DistanceApart ==
  ASSUME NEW a \in Slots, NEW i \in Slots, NEW j \in Slots, Distance(a, i) = Distance(a, j)
  PROVE  i = j
<1>1. /\ Distance(a, i) = IF a <= i THEN i - a ELSE i - a + Capacity + 1
      /\ Distance(a, j) = IF a <= j THEN j - a ELSE j - a + Capacity + 1
  BY RingArith
<1>2. (IF a <= i THEN i - a ELSE i - a + Capacity + 1) =
        IF a <= j THEN j - a ELSE j - a + Capacity + 1
  BY <1>1
<1> HIDE DEF Distance
<1> QED
  BY <1>2, SlotsAre

\* The steps that touch a slot; all others leave every slot alone.
LEMMA SlotsKept ==
  ASSUME TypeInv, TypeInv', [Next]_vars,
         ~WritesSlot, ~WriteThrows, ~MovesOut, ~MoveThrows
  PROVE  \A i \in Slots : mo'[Buffer(i)] = mo[Buffer(i)]
<1>t. DOMAIN mo = Loc /\ \A i \in Slots : Buffer(i) \in Loc
  BY Locations DEF TypeInv, MemoryInv
<1>d. \A i \in Slots : HeadIdx # Buffer(i) /\ TailIdx # Buffer(i) /\ Closed # Buffer(i)
  BY LocationsDiffer
<1>1. CASE UNCHANGED vars
  BY <1>1 DEF vars, memory
<1>2. CASE ProducerThread
  <2>1. mo' = mo \/ \E x \in {TailIdx, Closed} : \E v : mo' = [mo EXCEPT ![x] = v]
    BY <1>2 DEF ProducerThread, CallPush, PushChecksClosed, RefreshesHead, PublishesTail,
       AsksClosed, EndProducer, close, memory, LoadRelaxed, LoadAcquire, LoadsPeer,
       StoreRelease, Put
  <2> QED
    BY <1>t, <1>d, <2>1
<1>3. CASE ConsumerThread
  <2>1. mo' = mo \/ \E v : mo' = [mo EXCEPT ![HeadIdx] = v]
    BY <1>3 DEF ConsumerThread, CallPop, RefreshesTail, PublishesHead, PopChecksClosed,
       memory, LoadAcquire, LoadsPeer, StoreRelease, Put
  <2> QED
    BY <1>t, <1>d, <2>1
<1>4. CASE MainThread
  <2>1. mo' = mo \/ \E v : mo' = [mo EXCEPT ![Closed] = v]
    BY <1>4 DEF MainThread, Joins, close, SizeLoadsHead, SizeLoadsTail, JoinThread,
       LoadRelaxed, StoreRelease, Put
  <2> QED
    BY <1>t, <1>d, <2>1
<1> QED
  BY <1>1, <1>2, <1>3, <1>4, NextIsAStep

\* What the four do to the slots: slot a holds v, the others what they held.
LEMMA SlotAccessed ==
  ASSUME TypeInv, NEW t \in Sides, NEW a \in Slots, NEW v \in 1 .. Pushes \cup {Empty},
         Access(t, Buffer(a), v)
  PROVE  /\ Latest(Buffer(a))' = v
         /\ \A i \in Slots \ {a} : Latest(Buffer(i))' = Latest(Buffer(i))
<1>1. /\ Buffer(a) \in Loc /\ v \in Contents(Buffer(a)) /\ t \in Threads /\ MemoryInv
      /\ \A i \in Slots \ {a} : Buffer(i) \in Loc \ {Buffer(a)}
  BY Locations, LocationsDiffer, Names DEF TypeInv
<1>2. Stored(t, Buffer(a), Message(v, NoView)) /\ Latest(Buffer(a))' = v
  BY <1>1, AccessEffect
<1> QED
  BY <1>1, <1>2 DEF Stored, Latest, Newest

LEMMA ValuesStep ==
  ASSUME TypeInv, TypeInv', RingInv, Counted, ValuesInv, [Next]_vars
  PROVE  ValuesInv'
<1>1. PICK c \in Slots, p \in Slots : c = index[Consumer] /\ p = index[Producer]
  BY Names DEF TypeInv, LocalType
<1>2. PICK d \in Nat, n \in 0 .. Capacity :
        d = Len(delivered) /\ n = Distance(c, p) /\ written = d + n /\ written \in Nat
  <2>1. Len(delivered) \in Nat /\ written \in Nat /\ Distance(c, p) \in 0 .. Capacity
    BY AvailRange, OwnIdxIs DEF TypeInv, HistoryType
  <2>2. written - Len(delivered) = Distance(c, p)
    BY <1>1 DEF Counted
  <2> QED
    BY <2>1, <2>2, SlotsAre
<1>3. /\ \A i \in Slots : Distance(c, i) \in 0 .. Capacity
      /\ Capacity \in Nat
      /\ \A i \in Slots : Distance(c, i) < n => Latest(Buffer(i)) = d + Distance(c, i) + 1
  BY <1>1, <1>2, AvailRange, OwnIdxIs, SlotsAre DEF ValuesInv, QueuedInOrder
<1>4. CASE WritesSlot
  <2>1. /\ index'[Consumer] = c /\ index'[Producer] = next(p) /\ delivered' = delivered
        /\ Access(Producer, Buffer(p), written + 1)
    BY <1>1, <1>4, Names DEF WritesSlot, TypeInv, LocalType
  <2>2. written + 1 \in 1 .. Pushes \cup {Empty}
    BY <1>4, SpscAssumption, Names
    DEF WritesSlot, TypeInv, CallReady, LocalType, HistoryType, Sides
  <2>3. /\ Latest(Buffer(p))' = written + 1
        /\ \A i \in Slots \ {p} : Latest(Buffer(i))' = Latest(Buffer(i))
    BY <2>1, <2>2, SlotAccessed, OwnIdxIs
  <2>4. Distance(c, next(p)) = n + 1
    <3>1. Counted' /\ written' = written + 1
      BY <1>4, CountedStep DEF WritesSlot
    <3>2. Distance(c, next(p)) = written + 1 - d
      BY <1>2, <2>1, <3>1 DEF Counted
    <3> QED
      BY <1>2, <1>3, <3>2
  <2>5. ASSUME NEW i \in Slots, Distance(c, i) < n + 1
        PROVE  Latest(Buffer(i))' = d + Distance(c, i) + 1
    <3>1. CASE i = p
      BY <1>2, <1>3, <2>3, <3>1
    <3>2. CASE i # p
      <4>1. Distance(c, i) # n
        BY <1>2, <3>2, DistanceApart
      <4>2. Distance(c, i) < n
        BY <1>2, <1>3, <2>5, <4>1
      <4> QED
        BY <1>3, <2>3, <3>2, <4>2
    <3> QED
      BY <3>1, <3>2
  <2> QED
    BY <1>2, <2>1, <2>4, <2>5 DEF ValuesInv, DeliveredInOrder, QueuedInOrder
<1>5. CASE WriteThrows
  <2>1. index' = index /\ delivered' = delivered /\ Access(Producer, Buffer(p), Empty)
    BY <1>1, <1>5 DEF WriteThrows
  <2>2. \A i \in Slots \ {p} : Latest(Buffer(i))' = Latest(Buffer(i))
    BY <2>1, SlotAccessed, OwnIdxIs
  <2>3. \A i \in Slots : Distance(c, i) < n => i # p
    BY <1>2, <1>3
  <2> QED
    BY <1>1, <1>2, <1>3, <2>1, <2>2, <2>3 DEF ValuesInv, DeliveredInOrder, QueuedInOrder
<1>6. CASE MovesOut
  <2>1. PICK v \in Outcomes(c) :
          /\ delivered' = Append(delivered, v)
          /\ index'[Consumer] = next(c) /\ index'[Producer] = p
          /\ Access(Consumer, Buffer(c), Empty) /\ pc[Consumer] = "move"
    BY <1>1, <1>6, Names DEF MovesOut, TypeInv, LocalType
  <2>2. n >= 1
    <3>1. Really(Consumer) >= 1
      BY <2>1, MoverHasRoom, OwnIdxIs
    <3>2. Really(Consumer) = n
      BY <1>1, <1>2, AvailIs, OwnIdxIs, Names DEF Really, Peer
    <3> QED
      BY <3>1, <3>2
  <2>3. v = d + 1
    <3>1. UpToDate(Consumer, Buffer(c))
      BY <1>1, <2>1, NoRaceNow DEF NoDataRace
    <3>2. Distance(c, c) = 0
      BY AvailRange, OwnIdxIs
    <3>3. Latest(Buffer(c)) = d + 0 + 1
      BY <1>2, <1>3, <2>2, <3>2
    <3> QED
      BY <1>2, <2>1, <3>1, <3>3 DEF Outcomes
  <2>4. Len(delivered') = d + 1 /\ DeliveredInOrder'
    BY <1>2, <2>1, <2>3 DEF TypeInv, HistoryType, ValuesInv, DeliveredInOrder
  <2>5. \A i \in Slots \ {c} : Latest(Buffer(i))' = Latest(Buffer(i))
    BY <2>1, SlotAccessed, OwnIdxIs
  <2>6. \A i \in Slots : /\ i # c => Distance(next(c), i) = Distance(c, i) - 1
                         /\ i = c => Distance(next(c), i) = Capacity
    BY AvailAfterOwn, OwnIdxIs
  <2>7. Distance(next(c), p) = n - 1
    <3>1. p # c
      BY <1>2, <2>2, AvailRange, OwnIdxIs
    <3> QED
      BY <1>2, <2>6, <3>1
  <2>8. ASSUME NEW i \in Slots, Distance(next(c), i) < n - 1
        PROVE  Latest(Buffer(i))' = (d + 1) + Distance(next(c), i) + 1
    <3>1. i # c
      BY <1>2, <1>3, <2>6, <2>8
    <3>2. Distance(next(c), i) = Distance(c, i) - 1
      BY <2>6, <3>1
    <3>3. Distance(c, i) < n
      BY <1>2, <1>3, <2>8, <3>2
    <3>4. Latest(Buffer(i))' = d + Distance(c, i) + 1
      BY <1>3, <2>5, <3>1, <3>3
    <3>5. PICK e \in 0 .. Capacity : e = Distance(c, i)
      BY <1>3
    <3>6. d + e + 1 = (d + 1) + (e - 1) + 1
      BY <1>2, <1>3
    <3> QED
      BY <3>2, <3>4, <3>5, <3>6
  <2> QED
    BY <2>1, <2>4, <2>7, <2>8 DEF ValuesInv, QueuedInOrder
<1>7. CASE MoveThrows
  <2>1. /\ index' = index /\ delivered' = delivered
        /\ Access(Consumer, Buffer(c), Latest(Buffer(c)))
    BY <1>1, <1>7 DEF MoveThrows
  <2>2. Latest(Buffer(c)) \in 1 .. Pushes \cup {Empty}
    BY Locations, LengthType DEF TypeInv
  <2>3. \A i \in Slots : Latest(Buffer(i))' = Latest(Buffer(i))
    BY <2>1, <2>2, SlotAccessed, OwnIdxIs
  <2> QED
    BY <2>1, <2>3 DEF ValuesInv, DeliveredInOrder, QueuedInOrder
<1>8. CASE ~WritesSlot /\ ~WriteThrows /\ ~MovesOut /\ ~MoveThrows
  <2>1. \A i \in Slots : Latest(Buffer(i))' = Latest(Buffer(i))
    BY <1>8, SlotsKept DEF Latest, Newest
  <2>2. /\ delivered' = delivered
        /\ index'[Producer] = index[Producer] /\ index'[Consumer] = index[Consumer]
    BY <1>8, CountsOrNot, OwnIdxIs
  <2> QED
    BY <2>1, <2>2 DEF ValuesInv, DeliveredInOrder, QueuedInOrder
<1> QED
  BY <1>4, <1>5, <1>6, <1>7, <1>8

-----------------------------------------------------------------------------
(***************************************************************************)
(* The refinement.  The abstract queue is the numbers d + 1 .. w, where d  *)
(* elements have come out and w have been written.                         *)
(***************************************************************************)
Queue == [i \in 1 .. Distance(index[Consumer], index[Producer]) |->
            Latest(Buffer((index[Consumer] + i - 1) % RingSlots))]

Numbers(d, w) == [i \in 1 .. w - d |-> d + i]

LEMMA QueueIs ==
  TypeInv /\ Counted /\ ValuesInv => Queue = Numbers(Len(delivered), written)
<1> SUFFICES ASSUME TypeInv, Counted, ValuesInv
             PROVE  Queue = Numbers(Len(delivered), written)
  OBVIOUS
<1>1. PICK c \in Slots, p \in Slots : c = index[Consumer] /\ p = index[Producer]
  BY Names DEF TypeInv, LocalType
<1>2. PICK n \in 0 .. Capacity : n = Distance(c, p) /\ n = written - Len(delivered)
  BY <1>1, AvailRange, OwnIdxIs DEF Counted
<1>3. ASSUME NEW i \in 1 .. n
      PROVE  Latest(Buffer((c + i - 1) % RingSlots)) = Len(delivered) + i
  <2>1. PICK j \in 0 .. Capacity : j = i - 1 /\ c + i - 1 = c + j
    BY <1>2, SlotsAre
  <2>2. PICK s \in Slots : s = (c + j) % RingSlots
                           /\ s = IF c + j < RingSlots THEN c + j ELSE c + j - RingSlots
    <3>1. /\ RingSlots \in Nat \ {0} /\ c \in 0 .. RingSlots - 1 /\ j \in 0 .. RingSlots
          /\ Slots = 0 .. RingSlots - 1
      BY SlotsAre
    <3>2. /\ (c + j) % RingSlots = IF c + j < RingSlots THEN c + j ELSE c + j - RingSlots
          /\ (c + j) % RingSlots \in 0 .. RingSlots - 1
      BY <3>1, RingSlot
    <3> QED
      BY <3>1, <3>2
  <2>3. Distance(c, s) = IF c <= s THEN s - c ELSE s - c + Capacity + 1
    BY RingArith
  <2>4. Distance(c, s) = j
    BY <2>2, <2>3, SlotsAre
  <2>5. j < n /\ Len(delivered) \in Nat
    BY <1>2, <2>1 DEF TypeInv, HistoryType
  <2>6. Latest(Buffer(s)) = Len(delivered) + j + 1
    BY <1>1, <1>2, <2>4, <2>5 DEF ValuesInv, QueuedInOrder
  <2> QED
    BY <2>1, <2>2, <2>5, <2>6
<1> QED
  BY <1>1, <1>2, <1>3 DEF Queue, Numbers

LEMMA QueueIsThen ==
  TypeInv' /\ Counted' /\ ValuesInv' => Queue' = Numbers(Len(delivered'), written')
<1>1. TypeInv /\ Counted /\ ValuesInv => Queue = Numbers(Len(delivered), written)
  BY QueueIs
<1>2. (TypeInv /\ Counted /\ ValuesInv)' => (Queue = Numbers(Len(delivered), written))'
  BY <1>1, PTL
<1> QED
  BY <1>2

LEMMA NumbersSeq ==
  ASSUME NEW d \in Nat, NEW w \in Nat, d <= w
  PROVE  /\ Len(Numbers(d, w)) = w - d
         /\ DOMAIN Numbers(d, w) = 1 .. w - d
         /\ \A i \in 1 .. w - d : Numbers(d, w)[i] = d + i
         /\ Numbers(d, w + 1) = Append(Numbers(d, w), w + 1)
         /\ d < w => /\ Numbers(d, w) # <<>> /\ Head(Numbers(d, w)) = d + 1
                     /\ Numbers(d + 1, w) = Tail(Numbers(d, w))
<1>1. PICK n \in Nat : n = w - d
  OBVIOUS
<1>2. /\ Numbers(d, w) \in [1 .. n -> Nat]
      /\ \A i \in 1 .. n : Numbers(d, w)[i] = d + i
  BY <1>1 DEF Numbers
<1>3. Len(Numbers(d, w)) = n /\ Numbers(d, w + 1) = Append(Numbers(d, w), w + 1)
  <2>1. /\ Numbers(d, w + 1) \in [1 .. n + 1 -> Nat]
        /\ \A i \in 1 .. n + 1 : Numbers(d, w + 1)[i] = d + i
    BY <1>1 DEF Numbers
  <2>2. /\ \A i \in 1 .. n : Numbers(d, w + 1)[i] = Numbers(d, w)[i]
        /\ Numbers(d, w + 1)[n + 1] = w + 1
    BY <1>1, <1>2, <2>1
  <2> QED
    BY <1>2, <2>1, <2>2, AppendedSeq
<1>4. ASSUME d < w
      PROVE  /\ Numbers(d, w) # <<>> /\ Head(Numbers(d, w)) = d + 1
             /\ Numbers(d + 1, w) = Tail(Numbers(d, w))
  <2>1. n \in Nat \ {0} /\ w - (d + 1) = n - 1
    BY <1>1, <1>4
  <2>2. /\ Numbers(d + 1, w) \in [1 .. n - 1 -> Nat]
        /\ \A i \in 1 .. n - 1 : Numbers(d + 1, w)[i] = d + 1 + i
    BY <2>1 DEF Numbers
  <2>3. \A i \in 1 .. n - 1 : Numbers(d + 1, w)[i] = Numbers(d, w)[i + 1]
    BY <1>2, <2>1, <2>2
  <2>4. /\ Numbers(d, w) # <<>> /\ Head(Numbers(d, w)) = Numbers(d, w)[1]
        /\ Numbers(d + 1, w) = Tail(Numbers(d, w))
    <3>1. PICK f \in [1 .. n -> Nat], g \in [1 .. n - 1 -> Nat] :
            f = Numbers(d, w) /\ g = Numbers(d + 1, w)
      BY <1>2, <2>2
    <3>2. \A i \in 1 .. n - 1 : g[i] = f[i + 1]
      BY <2>3, <3>1
    <3>3. f # <<>> /\ Head(f) = f[1] /\ g = Tail(f)
      BY <2>1, <3>2, ShiftedSeq
    <3> QED
      BY <3>1, <3>3
  <2>5. Numbers(d, w)[1] = d + 1
    BY <1>2, <2>1
  <2> QED
    BY <2>4, <2>5
<1> QED
  BY <1>1, <1>2, <1>3, <1>4

LEMMA ContractSteps ==
  ASSUME TypeInv, TypeInv', Counted, Counted', ValuesInv, ValuesInv', [Next]_vars
  PROVE  [Contract!Next]_(Contract!absVars)
<1> SUFFICES Contract!Next \/ UNCHANGED <<Queue, delivered, Latest(Closed)>>
  BY DEF Contract!absVars, Queue
<1>1. PICK d \in Nat, w \in Nat :
        /\ d = Len(delivered) /\ w = written /\ d <= w /\ w - d <= Capacity
        /\ w - d = Distance(index[Consumer], index[Producer])
  <2>1. PICK n \in 0 .. Capacity : n = Distance(index[Consumer], index[Producer])
    BY AvailRange, OwnIdxIs, Names DEF TypeInv, LocalType
  <2>2. Len(delivered) \in Nat /\ written \in Nat /\ Capacity \in Nat
    BY SlotsAre DEF TypeInv, HistoryType
  <2>3. written - Len(delivered) = n
    BY <2>1 DEF Counted
  <2> QED
    BY <2>1, <2>2, <2>3
<1>2. Queue = Numbers(d, w) /\ Queue' = Numbers(Len(delivered'), written')
  BY <1>1, QueueIs, QueueIsThen
<1> HIDE DEF Queue
<1>3. /\ Len(Numbers(d, w)) = w - d
      /\ DOMAIN Numbers(d, w) = 1 .. w - d
      /\ \A i \in 1 .. w - d : Numbers(d, w)[i] = d + i
      /\ Numbers(d, w + 1) = Append(Numbers(d, w), w + 1)
  BY <1>1, NumbersSeq
<1>c. Closed \in Loc /\ DOMAIN mo = Loc /\ \A i : Buffer(i) # Closed
  BY Locations, LocationsDiffer DEF TypeInv, MemoryInv
<1>4. ASSUME WritesSlot
      PROVE  Contract!Next
  <2>1. written' = w + 1 /\ delivered' = delivered
    BY <1>1, <1>4 DEF WritesSlot
  <2>2. Latest(Closed)' = Latest(Closed)
    BY <1>4, <1>c DEF WritesSlot, Access, Put, Latest, Newest
  <2>3. Queue' = Append(Queue, w + 1)
    BY <1>1, <1>2, <1>3, <2>1
  <2>4. w + 1 - d <= Capacity
    <3>1. PICK n \in 0 .. Capacity : n = Distance(index'[Consumer], index'[Producer])
      BY AvailRange, OwnIdxIs, Names DEF TypeInv, LocalType
    <3> QED
      BY <1>1, <2>1, <3>1, SlotsAre DEF Counted
  <2>5. Len(Queue) < Capacity
    BY <1>1, <1>2, <1>3, <2>4, SlotsAre
  <2>6. PICK v \in 1 .. Pushes : v = w + 1
    BY <2>1, SpscAssumption DEF TypeInv, HistoryType
  <2>7. v \notin {Queue[i] : i \in DOMAIN Queue} \cup {delivered[i] : i \in DOMAIN delivered}
    <3>1. \A i \in DOMAIN Queue : Queue[i] # v
      <4>1. \A i \in 1 .. w - d : d + i # w + 1
        BY <1>1
      <4> QED
        BY <1>2, <1>3, <2>6, <4>1
    <3>2. \A i \in DOMAIN delivered : delivered[i] = i /\ i <= d /\ i \in Nat
      BY <1>1 DEF ValuesInv, DeliveredInOrder, TypeInv, HistoryType
    <3>3. \A i \in DOMAIN delivered : delivered[i] # v
      BY <1>1, <2>6, <3>2
    <3> QED
      BY <3>1, <3>3
  <2>8. Contract!Push(v)
    BY <2>1, <2>2, <2>3, <2>5, <2>6, <2>7 DEF Contract!Push, Contract!Accepted, Queue
  <2> QED
    BY <2>8 DEF Contract!Next
<1>5. ASSUME MovesOut
      PROVE  Contract!Next
  <2>1. PICK v : delivered' = Append(delivered, v) /\ written' = w
    BY <1>1, <1>5 DEF MovesOut
  <2>2. Latest(Closed)' = Latest(Closed)
    BY <1>5, <1>c DEF MovesOut, Access, Put, Latest, Newest
  <2>3. Len(delivered') = d + 1 /\ delivered'[d + 1] = v /\ d + 1 \in DOMAIN delivered'
    BY <1>1, <2>1 DEF TypeInv, HistoryType
  <2>4. v = d + 1
    BY <2>3 DEF ValuesInv, DeliveredInOrder
  <2>5. d < w
    <3>1. PICK n \in 0 .. Capacity : n = Distance(index'[Consumer], index'[Producer])
      BY AvailRange, OwnIdxIs, Names DEF TypeInv, LocalType
    <3>2. w - (d + 1) = n
      BY <2>1, <2>3, <3>1 DEF Counted
    <3> QED
      BY <1>1, <3>1, <3>2, SlotsAre
  <2>6. Queue # <<>> /\ Head(Queue) = v /\ Queue' = Tail(Queue)
    <3>1. /\ Numbers(d, w) # <<>> /\ Head(Numbers(d, w)) = d + 1
          /\ Numbers(d + 1, w) = Tail(Numbers(d, w))
      BY <1>1, <2>5, NumbersSeq
    <3> QED
      BY <1>2, <2>1, <2>3, <2>4, <3>1
  <2>7. Contract!Pop
    BY <2>1, <2>2, <2>6 DEF Contract!Pop, Queue
  <2> QED
    BY <2>7 DEF Contract!Next
<1>6. ASSUME NEW t \in {Producer, Main}, close(t)
      PROVE  Contract!Next
  <2>1. written' = written /\ delivered' = delivered
    BY <1>6 DEF close
  <2>2. Latest(Closed)' = TRUE
    <3>1. TRUE \in Contents(Closed) /\ t \in Threads /\ MemoryInv
      BY Locations, Names DEF TypeInv
    <3> QED
      BY <1>6, <1>c, <3>1, StoreReleaseEffect DEF close
  <2>3. Queue' = Queue
    BY <1>1, <1>2, <2>1
  <2>4. Contract!Close
    BY <2>1, <2>2, <2>3 DEF Contract!Close, Queue
  <2> QED
    BY <2>4 DEF Contract!Next
<1>7. ASSUME UNCHANGED <<written, delivered>>, mo'[Closed] = mo[Closed]
      PROVE  UNCHANGED <<Queue, delivered, Latest(Closed)>>
  BY <1>1, <1>2, <1>7 DEF Latest, Newest
<1>8. \/ \E t \in {Producer, Main} : close(t)
      \/ mo'[Closed] = mo[Closed]
  <2>1. UNCHANGED vars => mo'[Closed] = mo[Closed]
    BY DEF vars, memory
  <2> QED
    BY <2>1, ClosedFrame, NextIsAStep
<1> QED
  BY <1>4, <1>5, <1>6, <1>7, <1>8, CountsOrNot

(***************************************************************************)
(* SpscQueue implements the contract, for every capacity, batch size and   *)
(* staleness, throwing moves included: the consumer gets 1, 2, 3, ... in   *)
(* the order of the pushes, none lost, doubled, torn or out of order, and  *)
(* never more than Capacity elements are queued.                           *)
(***************************************************************************)
THEOREM SpscImplementsContract == Spec => ImplementsContract
<1> DEFINE Inv == TypeInv /\ RingInv /\ EndInv /\ ValuesInv
<1>1. Init => Contract!Init
  <2> SUFFICES ASSUME Init PROVE Contract!Init
    OBVIOUS
  <2>1. Distance(index[Consumer], index[Producer]) = 0 /\ delivered = <<>>
    BY CountedInit, Names DEF Init, Counted
  <2>2. Latest(Closed) = FALSE
    <3>1. InitialValue(Closed) = FALSE
      BY DEF InitialValue, Closed
    <3> QED
      BY <3>1, Locations DEF Init, Latest, Newest, Message
  <2> QED
    BY <2>1, <2>2 DEF Contract!Init
<1>2. Init => Inv
  BY TypeInit, RingInit, EndInit, ValuesInit
<1>3. Inv /\ [Next]_vars => Inv'
  <2> SUFFICES ASSUME Inv, [Next]_vars PROVE Inv'
    OBVIOUS
  <2>1. TypeInv'
    BY TypeStep
  <2>2. RingInv'
    BY <2>1, RingStep
  <2>3. EndInv'
    BY <2>1, EndStep
  <2>4. ValuesInv'
    BY <2>1, ValuesStep DEF EndInv
  <2> QED
    BY <2>1, <2>2, <2>3, <2>4
<1>4. Inv /\ Inv' /\ [Next]_vars => [Contract!Next]_(Contract!absVars)
  BY ContractSteps DEF EndInv
<1> HIDE DEF Inv
<1> QED
  BY <1>1, <1>2, <1>3, <1>4, PTL DEF Spec, ImplementsContract, Contract!Spec
=============================================================================
