-------------------------- MODULE MutexQueueProofs --------------------------
(***************************************************************************)
(* Theorems about MutexQueue, for every capacity, all finite sets of       *)
(* producers and consumers, any closers, any number of calls and of        *)
(* exceptions: its types, that no wakeup is lost, that a consumer ends     *)
(* only on a closed and drained queue, and that the queue implements the   *)
(* contract and accepts nothing after the close.                           *)
(***************************************************************************)
EXTENDS MutexQueue, RingLemmas, FiniteSetTheorems

-----------------------------------------------------------------------------
(***************************************************************************)
(* Types.  A producer in a call holds an element to push.                  *)
(***************************************************************************)
Holds(p) == pc[p] \in {"lock", "wait", "expired"}

ItemReady == \A p \in Producers : Holds(p) => item[p] \in Items

LEMMA Sides ==
  /\ Producers \subseteq Threads /\ Consumers \subseteq Threads
  /\ Closers \subseteq Threads
  /\ \A p \in Producers, c \in Consumers : p # c
  /\ \A k \in Closers : k \notin Producers /\ k \notin Consumers
BY MutexAssumption DEF Threads

LEMMA NextSlot ==
  ASSUME NEW i \in Slots
  PROVE  next(i) \in Slots
BY MutexAssumption DEF Slots, next

LEMMA TypeInit == Init => TypeOK /\ ItemReady
<1> SUFFICES ASSUME Init PROVE TypeOK /\ ItemReady
  OBVIOUS
<1>1. 0 \in Slots /\ 0 \in 0 .. Capacity /\ 0 \in 0 .. Calls /\ 0 \in 0 .. Throws
  BY MutexAssumption DEF Slots
<1>2. <<>> \in Seq(Items \cup {Empty})
  OBVIOUS
<1> QED
  BY <1>1, <1>2, Sides DEF Init, TypeOK, ItemReady, Holds

LEMMA TypeStep == TypeOK /\ ItemReady /\ [Next]_vars => TypeOK' /\ ItemReady'
<1> SUFFICES ASSUME TypeOK, ItemReady, [Next]_vars PROVE TypeOK' /\ ItemReady'
  OBVIOUS
<1> USE Sides, MutexAssumption
    DEF TypeOK, ItemReady, Holds, ring, local, Goto, Awake, MayWait, Accepts
<1>1. ASSUME NEW p \in Producers, NEW o \in PushOps, CallPush(p, o)
      PROVE  TypeOK' /\ ItemReady'
  BY <1>1 DEF CallPush, Items
<1>2. ASSUME NEW p \in Producers, EndProducer(p)
      PROVE  TypeOK' /\ ItemReady'
  BY <1>2 DEF EndProducer
<1>3. ASSUME NEW p \in Producers, WaitsNotFull(p)
      PROVE  TypeOK' /\ ItemReady'
  BY <1>3 DEF WaitsNotFull
<1>4. ASSUME NEW p \in Producers, PushRefused(p)
      PROVE  TypeOK' /\ ItemReady'
  BY <1>4 DEF PushRefused
<1>5. ASSUME NEW p \in Producers, enqueue_locked(p)
      PROVE  TypeOK' /\ ItemReady'
  <2>1. item[p] \in Items /\ next(tail_) \in Slots
    BY <1>5, NextSlot DEF enqueue_locked
  <2> QED
    BY <1>5, <2>1 DEF enqueue_locked, Stores
<1>6. ASSUME NEW p \in Producers, EnqueueThrows(p)
      PROVE  TypeOK' /\ ItemReady'
  BY <1>6 DEF EnqueueThrows, DisturbsSlot
<1>7. ASSUME NEW c \in Consumers, NEW o \in PopOps, CallPop(c, o)
      PROVE  TypeOK' /\ ItemReady'
  BY <1>7 DEF CallPop
<1>8. ASSUME NEW c \in Consumers, WaitsNotEmpty(c)
      PROVE  TypeOK' /\ ItemReady'
  BY <1>8 DEF WaitsNotEmpty
<1>9. ASSUME NEW c \in Consumers, PopRefused(c)
      PROVE  TypeOK' /\ ItemReady'
  BY <1>9 DEF PopRefused
<1>10. ASSUME NEW c \in Consumers, dequeue_locked(c)
       PROVE  TypeOK' /\ ItemReady'
  <2>1. next(head_) \in Slots
    BY NextSlot
  <2>2. Append(delivered, buffer_[head_]) \in Seq(Items \cup {Empty})
    OBVIOUS
  <2> QED
    BY <1>10, <2>1, <2>2 DEF dequeue_locked, AfterDequeue
<1>11. ASSUME NEW c \in Consumers, DequeueThrows(c)
       PROVE  TypeOK' /\ ItemReady'
  BY <1>11 DEF DequeueThrows
<1>12. ASSUME NEW t \in Producers \cup Consumers, notify_one(t)
       PROVE  TypeOK' /\ ItemReady'
  <2>1. CASE OtherSide(t) = {} /\ pc' = [pc EXCEPT ![t] = "idle"]
    BY <1>12, <2>1 DEF notify_one
  <2>2. ASSUME NEW w \in OtherSide(t),
               pc' = [pc EXCEPT ![t] = "idle", ![w] = "lock"]
        PROVE  TypeOK' /\ ItemReady'
    <3>1. w \in Threads /\ pc[w] = "wait"
      BY <2>2 DEF OtherSide, NotFullWaiters, NotEmptyWaiters
    <3> QED
      BY <1>12, <2>2, <3>1 DEF notify_one
  <2> QED
    BY <1>12, <2>1, <2>2 DEF notify_one, NotifiesOne
<1>13. ASSUME NEW t \in Producers \cup Consumers, SpuriousWakeup(t)
       PROVE  TypeOK' /\ ItemReady'
  BY <1>13 DEF SpuriousWakeup
<1>14. ASSUME NEW t \in Producers \cup Consumers, TimesOut(t)
       PROVE  TypeOK' /\ ItemReady'
  BY <1>14 DEF TimesOut
<1>15. ASSUME NEW t \in Producers \cup Consumers, AsksClosed(t)
       PROVE  TypeOK' /\ ItemReady'
  BY <1>15 DEF AsksClosed
<1>16. ASSUME NEW k \in Closers, close(k)
       PROVE  TypeOK' /\ ItemReady'
  BY <1>16 DEF close
<1>17. ASSUME NEW k \in Closers, NotifiesNotFull(k)
       PROVE  TypeOK' /\ ItemReady'
  BY <1>17 DEF NotifiesNotFull, NotifiesAll, NotFullWaiters
<1>18. ASSUME NEW k \in Closers, NotifiesNotEmpty(k)
       PROVE  TypeOK' /\ ItemReady'
  BY <1>18 DEF NotifiesNotEmpty, NotifiesAll, NotEmptyWaiters
<1>19. CASE AllDone \/ UNCHANGED vars
  BY <1>19 DEF AllDone, vars
<1> QED
  BY <1>1, <1>2, <1>3, <1>4, <1>5, <1>6, <1>7, <1>8, <1>9, <1>10, <1>11, <1>12,
     <1>13, <1>14, <1>15, <1>16, <1>17, <1>18, <1>19
  DEF Next, Producer, Consumer, Closer

(***************************************************************************)
(* Every variable of MutexQueue keeps its type, for every capacity and any *)
(* threads: size_ within the capacity, the indices within the ring.        *)
(***************************************************************************)
THEOREM MutexTypeCorrect == Spec => []TypeOK
<1>1. Init => TypeOK /\ ItemReady
  BY TypeInit
<1>2. TypeOK /\ ItemReady /\ [Next]_vars => TypeOK' /\ ItemReady'
  BY TypeStep
<1> QED
  BY <1>1, <1>2, PTL DEF Spec

LEMMA TypeHolds == Spec => [](TypeOK /\ ItemReady)
<1>1. Init => TypeOK /\ ItemReady
  BY TypeInit
<1>2. TypeOK /\ ItemReady /\ [Next]_vars => TypeOK' /\ ItemReady'
  BY TypeStep
<1> QED
  BY <1>1, <1>2, PTL DEF Spec

-----------------------------------------------------------------------------
(***************************************************************************)
(* Drained after the close.  Only a timed call gives up without a look at  *)
(* closed_, and a last attempt is made only after the close.               *)
(***************************************************************************)
ExpiredIsTimed ==
  \A t \in Threads :
    pc[t] = "expired" => op[t] \in {"try_push_for", "try_pop_for"}

LastAfterClose == \A c \in Consumers : op[c] = "last" => closed_

DrainInv == ExpiredIsTimed /\ LastAfterClose /\ DrainedWhenPopFails

LEMMA DrainInit == Init => DrainInv
BY Sides DEF Init, DrainInv, ExpiredIsTimed, LastAfterClose, DrainedWhenPopFails

LEMMA DrainStep == TypeOK /\ DrainInv /\ [Next]_vars => DrainInv'
<1> SUFFICES ASSUME TypeOK, DrainInv, [Next]_vars PROVE DrainInv'
  OBVIOUS
<1> USE Sides, MutexAssumption
    DEF TypeOK, DrainInv, ExpiredIsTimed, LastAfterClose, DrainedWhenPopFails,
        ring, local, Goto, Awake, MayWait, Accepts
<1>1. ASSUME NEW p \in Producers, NEW o \in PushOps, CallPush(p, o)
      PROVE  DrainInv'
  BY <1>1 DEF CallPush
<1>2. ASSUME NEW p \in Producers, EndProducer(p)
      PROVE  DrainInv'
  BY <1>2 DEF EndProducer
<1>3. ASSUME NEW p \in Producers, WaitsNotFull(p)
      PROVE  DrainInv'
  BY <1>3 DEF WaitsNotFull
<1>4. ASSUME NEW p \in Producers, PushRefused(p)
      PROVE  DrainInv'
  BY <1>4 DEF PushRefused
<1>5. ASSUME NEW p \in Producers, enqueue_locked(p)
      PROVE  DrainInv'
  BY <1>5 DEF enqueue_locked, Stores
<1>6. ASSUME NEW p \in Producers, EnqueueThrows(p)
      PROVE  DrainInv'
  BY <1>6 DEF EnqueueThrows, DisturbsSlot
<1>7. ASSUME NEW c \in Consumers, NEW o \in PopOps, CallPop(c, o)
      PROVE  DrainInv'
  BY <1>7 DEF CallPop
<1>8. ASSUME NEW c \in Consumers, WaitsNotEmpty(c)
      PROVE  DrainInv'
  BY <1>8 DEF WaitsNotEmpty
<1>9. ASSUME NEW c \in Consumers, PopRefused(c)
      PROVE  DrainInv'
  <2>1. size_ = 0 /\ (op[c] \in {"pop", "last"} => closed_)
    BY <1>9 DEF PopRefused, PopGivesUp
  <2> QED
    BY <1>9, <2>1 DEF PopRefused
<1>10. ASSUME NEW c \in Consumers, dequeue_locked(c)
       PROVE  DrainInv'
  BY <1>10 DEF dequeue_locked, AfterDequeue
<1>11. ASSUME NEW c \in Consumers, DequeueThrows(c)
       PROVE  DrainInv'
  BY <1>11 DEF DequeueThrows
<1>12. ASSUME NEW t \in Producers \cup Consumers, notify_one(t)
       PROVE  DrainInv'
  <2>1. CASE OtherSide(t) = {} /\ pc' = [pc EXCEPT ![t] = "idle"]
    BY <1>12, <2>1 DEF notify_one
  <2>2. ASSUME NEW w \in OtherSide(t),
               pc' = [pc EXCEPT ![t] = "idle", ![w] = "lock"]
        PROVE  DrainInv'
    <3>1. w \in Threads
      BY <2>2 DEF OtherSide, NotFullWaiters, NotEmptyWaiters
    <3> QED
      BY <1>12, <2>2, <3>1 DEF notify_one
  <2> QED
    BY <1>12, <2>1, <2>2 DEF notify_one, NotifiesOne
<1>13. ASSUME NEW t \in Producers \cup Consumers, SpuriousWakeup(t)
       PROVE  DrainInv'
  BY <1>13 DEF SpuriousWakeup
<1>14. ASSUME NEW t \in Producers \cup Consumers, TimesOut(t)
       PROVE  DrainInv'
  BY <1>14 DEF TimesOut
<1>15. ASSUME NEW t \in Producers \cup Consumers, AsksClosed(t)
       PROVE  DrainInv'
  BY <1>15 DEF AsksClosed
<1>16. ASSUME NEW k \in Closers, close(k)
       PROVE  DrainInv'
  BY <1>16 DEF close
<1>17. ASSUME NEW k \in Closers, NotifiesNotFull(k)
       PROVE  DrainInv'
  BY <1>17 DEF NotifiesNotFull, NotifiesAll
<1>18. ASSUME NEW k \in Closers, NotifiesNotEmpty(k)
       PROVE  DrainInv'
  BY <1>18 DEF NotifiesNotEmpty, NotifiesAll
<1>19. CASE AllDone \/ UNCHANGED vars
  BY <1>19 DEF AllDone, vars
<1> QED
  BY <1>1, <1>2, <1>3, <1>4, <1>5, <1>6, <1>7, <1>8, <1>9, <1>10, <1>11, <1>12,
     <1>13, <1>14, <1>15, <1>16, <1>17, <1>18, <1>19
  DEF Next, Producer, Consumer, Closer

(***************************************************************************)
(* A consumer that got false for good leaves a closed and empty queue      *)
(* behind, wherever the close fell among the pushes.                       *)
(***************************************************************************)
THEOREM DrainedWhenPopFailsHolds == Spec => []DrainedWhenPopFails
<1>1. Init => DrainInv
  BY DrainInit
<1>2. TypeOK /\ DrainInv /\ [Next]_vars => DrainInv'
  BY DrainStep
<1>3. DrainInv => DrainedWhenPopFails
  BY DEF DrainInv
<1> QED
  BY <1>1, <1>2, <1>3, MutexTypeCorrect, PTL DEF Spec
-----------------------------------------------------------------------------
(***************************************************************************)
(* No lost wakeup.  NoLostWakeup is a conjunction of one formula per side; *)
(* a closer is about to notify only after it has closed the queue.         *)
(***************************************************************************)
ProducersCovered ==
  NotFullWaiters # {} =>
    IF closed_
    THEN \E k \in Closers : pc[k] = "notify_full"
    ELSE Capacity - size_ <= Cardinality(Notifying(Consumers))
                               + Cardinality(AwakeIn(Producers)) + thrown

ConsumersCovered ==
  NotEmptyWaiters # {} =>
    IF closed_
    THEN \E k \in Closers : pc[k] \in {"notify_full", "notify_empty"}
    ELSE size_ <= Cardinality(Notifying(Producers))
                    + Cardinality(AwakeIn(Consumers)) + thrown

NotifiesAfterClose ==
  \A k \in Closers : pc[k] \in {"notify_full", "notify_empty"} => closed_

WakeupInv == ProducersCovered /\ ConsumersCovered /\ NotifiesAfterClose

\* How a count of threads changes when one thread of it comes or goes.
LEMMA CountsFinite ==
  ASSUME NEW S \in {Producers, Consumers}
  PROVE  /\ IsFiniteSet(AwakeIn(S)) /\ Cardinality(AwakeIn(S)) \in Nat
         /\ IsFiniteSet(Notifying(S)) /\ Cardinality(Notifying(S)) \in Nat
         /\ AwakeIn(S) # {} => Cardinality(AwakeIn(S)) > 0
<1>1. IsFiniteSet(S)
  BY MutexAssumption
<1>2. AwakeIn(S) \in SUBSET S /\ Notifying(S) \in SUBSET S
  BY DEF AwakeIn, Notifying
<1>3. IsFiniteSet(AwakeIn(S)) /\ IsFiniteSet(Notifying(S))
  BY <1>1, <1>2, FS_Subset
<1>4. AwakeIn(S) # {} => Cardinality(AwakeIn(S)) > 0
  BY <1>3, FS_EmptySet, FS_CardinalityType
<1> QED
  BY <1>3, <1>4, FS_CardinalityType

LEMMA CountOneMore ==
  ASSUME NEW A, NEW B, NEW t, IsFiniteSet(A), t \notin A, B = A \cup {t}
  PROVE  Cardinality(B) = Cardinality(A) + 1
BY FS_AddElement

LEMMA CountOneLess ==
  ASSUME NEW A, NEW B, NEW t, IsFiniteSet(A), t \in A, B = A \ {t}
  PROVE  Cardinality(B) = Cardinality(A) - 1
BY FS_RemoveElement

(***************************************************************************)
(* What t's step from pc[t] to l does to the threads of side S that are    *)
(* awake and to those that are about to notify.                            *)
(***************************************************************************)
LEMMA AwakeCount ==
  ASSUME TypeOK, NEW t \in Threads, NEW l, Goto(t, l),
         NEW S \in {Producers, Consumers}
  PROVE  /\ t \notin S => AwakeIn(S)' = AwakeIn(S)
         /\ Awake(t) /\ l \in {"lock", "expired"} => AwakeIn(S)' = AwakeIn(S)
         /\ ~Awake(t) /\ l \notin {"lock", "expired"} => AwakeIn(S)' = AwakeIn(S)
         /\ t \in S /\ ~Awake(t) /\ l \in {"lock", "expired"} =>
              Cardinality(AwakeIn(S)') = Cardinality(AwakeIn(S)) + 1
         /\ t \in S /\ Awake(t) /\ l \notin {"lock", "expired"} =>
              Cardinality(AwakeIn(S)') = Cardinality(AwakeIn(S)) - 1
<1>0. S \subseteq Threads
  BY Sides
<1>1. pc'[t] = l /\ \A u \in Threads \ {t} : pc'[u] = pc[u]
  BY DEF TypeOK, Goto
<1>2. t \notin S => AwakeIn(S)' = AwakeIn(S)
  BY <1>0, <1>1 DEF AwakeIn, Awake
<1>3. Awake(t) /\ l \in {"lock", "expired"} => AwakeIn(S)' = AwakeIn(S)
  BY <1>0, <1>1 DEF AwakeIn, Awake
<1>4. ~Awake(t) /\ l \notin {"lock", "expired"} => AwakeIn(S)' = AwakeIn(S)
  BY <1>0, <1>1 DEF AwakeIn, Awake
<1>5. ASSUME t \in S, ~Awake(t), l \in {"lock", "expired"}
      PROVE  Cardinality(AwakeIn(S)') = Cardinality(AwakeIn(S)) + 1
  <2>1. t \notin AwakeIn(S) /\ AwakeIn(S)' = AwakeIn(S) \cup {t}
    BY <1>0, <1>1, <1>5 DEF AwakeIn, Awake
  <2> QED
    BY <2>1, CountsFinite, CountOneMore
<1>6. ASSUME t \in S, Awake(t), l \notin {"lock", "expired"}
      PROVE  Cardinality(AwakeIn(S)') = Cardinality(AwakeIn(S)) - 1
  <2>1. t \in AwakeIn(S) /\ AwakeIn(S)' = AwakeIn(S) \ {t}
    BY <1>0, <1>1, <1>6 DEF AwakeIn, Awake
  <2> QED
    BY <2>1, CountsFinite, CountOneLess
<1> QED
  BY <1>2, <1>3, <1>4, <1>5, <1>6

LEMMA NotifyingCount ==
  ASSUME TypeOK, NEW t \in Threads, NEW l, Goto(t, l),
         NEW S \in {Producers, Consumers}
  PROVE  /\ t \notin S => Notifying(S)' = Notifying(S)
         /\ pc[t] # "notify" /\ l # "notify" => Notifying(S)' = Notifying(S)
         /\ t \in S /\ pc[t] # "notify" /\ l = "notify" =>
              Cardinality(Notifying(S)') = Cardinality(Notifying(S)) + 1
         /\ t \in S /\ pc[t] = "notify" /\ l # "notify" =>
              Cardinality(Notifying(S)') = Cardinality(Notifying(S)) - 1
<1>0. S \subseteq Threads
  BY Sides
<1>1. pc'[t] = l /\ \A u \in Threads \ {t} : pc'[u] = pc[u]
  BY DEF TypeOK, Goto
<1>2. t \notin S => Notifying(S)' = Notifying(S)
  BY <1>0, <1>1 DEF Notifying
<1>3. pc[t] # "notify" /\ l # "notify" => Notifying(S)' = Notifying(S)
  BY <1>0, <1>1 DEF Notifying
<1>4. ASSUME t \in S, pc[t] # "notify", l = "notify"
      PROVE  Cardinality(Notifying(S)') = Cardinality(Notifying(S)) + 1
  <2>1. t \notin Notifying(S) /\ Notifying(S)' = Notifying(S) \cup {t}
    BY <1>0, <1>1, <1>4 DEF Notifying
  <2> QED
    BY <2>1, CountsFinite, CountOneMore
<1>5. ASSUME t \in S, pc[t] = "notify", l # "notify"
      PROVE  Cardinality(Notifying(S)') = Cardinality(Notifying(S)) - 1
  <2>1. t \in Notifying(S) /\ Notifying(S)' = Notifying(S) \ {t}
    BY <1>0, <1>1, <1>5 DEF Notifying
  <2> QED
    BY <2>1, CountsFinite, CountOneLess
<1> QED
  BY <1>2, <1>3, <1>4, <1>5

(***************************************************************************)
(* The waiters and the closers, when a producer or consumer t goes to l.   *)
(***************************************************************************)
LEMMA WaitersAfter ==
  ASSUME TypeOK, NEW t \in Producers \cup Consumers, NEW l, Goto(t, l)
  PROVE  /\ l # "wait" \/ t \in Consumers =>
              NotFullWaiters' \subseteq NotFullWaiters
         /\ l # "wait" \/ t \in Producers =>
              NotEmptyWaiters' \subseteq NotEmptyWaiters
         /\ \A k \in Closers : pc'[k] = pc[k]
<1>1. t \in Threads /\ \A k \in Closers : k \in Threads /\ k # t
  BY Sides
<1>2. pc'[t] = l /\ \A u \in Threads \ {t} : pc'[u] = pc[u]
  BY <1>1 DEF TypeOK, Goto
<1> QED
  BY <1>1, <1>2, Sides DEF NotFullWaiters, NotEmptyWaiters
LEMMA WakeupInit == Init => WakeupInv
<1> SUFFICES ASSUME Init PROVE WakeupInv
  OBVIOUS
<1>1. \A t \in Threads : pc[t] = "idle"
  BY DEF Init
<1>2. NotFullWaiters = {} /\ NotEmptyWaiters = {}
  BY <1>1, Sides DEF NotFullWaiters, NotEmptyWaiters
<1> QED
  BY <1>1, <1>2, Sides
  DEF WakeupInv, ProducersCovered, ConsumersCovered, NotifiesAfterClose

(***************************************************************************)
(* Each action keeps both sides covered.  Step <1>b says when a step of    *)
(* one producer or consumer does: when it leaves the counts of the open    *)
(* queue in balance.  Steps <1>c and <1>d say what it does to the counts.  *)
(***************************************************************************)
LEMMA WakeupStep == TypeOK /\ WakeupInv /\ [Next]_vars => WakeupInv'
<1> SUFFICES ASSUME TypeOK, WakeupInv, [Next]_vars PROVE WakeupInv'
  OBVIOUS
<1> DEFINE NP == Cardinality(Notifying(Producers))
           NC == Cardinality(Notifying(Consumers))
           AP == Cardinality(AwakeIn(Producers))
           AC == Cardinality(AwakeIn(Consumers))
<1>0. NP \in Nat /\ NC \in Nat /\ AP \in Nat /\ AC \in Nat
  BY CountsFinite
<1>a. size_ \in Nat /\ size_ <= Capacity /\ Capacity \in Nat /\ thrown \in Nat
  BY MutexAssumption DEF TypeOK
<1>b. ASSUME NEW t \in Producers \cup Consumers, NEW l, Goto(t, l), closed_' = closed_,
             l = "wait" => ~closed_,
             ~closed_ /\ (l # "wait" \/ t \in Consumers) /\ Capacity - size_ <= NC + AP + thrown
               => Capacity - size_' <= NC' + AP' + thrown',
             l = "wait" /\ t \in Producers => Capacity - size_' <= NC' + AP' + thrown',
             ~closed_ /\ (l # "wait" \/ t \in Producers) /\ size_ <= NP + AC + thrown
               => size_' <= NP' + AC' + thrown',
             l = "wait" /\ t \in Consumers => size_' <= NP' + AC' + thrown'
      PROVE  WakeupInv'
  <2> HIDE DEF NP, NC, AP, AC
  <2>1. /\ l # "wait" \/ t \in Consumers => NotFullWaiters' \subseteq NotFullWaiters
        /\ l # "wait" \/ t \in Producers => NotEmptyWaiters' \subseteq NotEmptyWaiters
        /\ \A k \in Closers : pc'[k] = pc[k]
    BY <1>b, WaitersAfter
  <2>2. ProducersCovered'
    BY <1>b, <2>1 DEF WakeupInv, ProducersCovered, NC, AP
  <2>3. ConsumersCovered'
    BY <1>b, <2>1 DEF WakeupInv, ConsumersCovered, NP, AC
  <2>4. NotifiesAfterClose'
    BY <1>b, <2>1 DEF WakeupInv, NotifiesAfterClose
  <2> QED
    BY <2>2, <2>3, <2>4 DEF WakeupInv
\* The counts after t's step to l, for a producer and for a consumer.
<1>c. ASSUME NEW t \in Producers, NEW l, Goto(t, l)
      PROVE  /\ NC' = NC /\ AC' = AC
             /\ NP' = IF l = "notify" THEN (IF pc[t] = "notify" THEN NP ELSE NP + 1)
                      ELSE IF pc[t] = "notify" THEN NP - 1 ELSE NP
             /\ AP' = IF l \in {"lock", "expired"} THEN (IF Awake(t) THEN AP ELSE AP + 1)
                      ELSE IF Awake(t) THEN AP - 1 ELSE AP
             /\ Awake(t) => AP > 0
  <2>1. t \in Threads /\ t \notin Consumers
    BY <1>c, Sides
  <2>2. AC' = AC /\ NC' = NC
    BY <1>c, <2>1, AwakeCount, NotifyingCount
  <2>3. AP' = IF l \in {"lock", "expired"} THEN (IF Awake(t) THEN AP ELSE AP + 1)
              ELSE IF Awake(t) THEN AP - 1 ELSE AP
    BY <1>c, <2>1, AwakeCount
  <2>4. Awake(t) => AP > 0
    BY <1>c, CountsFinite DEF AwakeIn
  <2>5. NP' = IF l = "notify" THEN (IF pc[t] = "notify" THEN NP ELSE NP + 1)
              ELSE IF pc[t] = "notify" THEN NP - 1 ELSE NP
    <3>1. CASE pc[t] = "notify" /\ l = "notify"
      <4>1. Notifying(Producers)' = Notifying(Producers)
        BY <1>c, <2>1, <3>1, Sides DEF Notifying, Goto, TypeOK
      <4> QED
        BY <3>1, <4>1
    <3>2. CASE ~(pc[t] = "notify" /\ l = "notify")
      BY <1>c, <2>1, <3>2, NotifyingCount
    <3> QED
      BY <3>1, <3>2
  <2> QED
    BY <2>2, <2>3, <2>4, <2>5
<1>d. ASSUME NEW t \in Consumers, NEW l, Goto(t, l)
      PROVE  /\ NP' = NP /\ AP' = AP
             /\ NC' = IF l = "notify" THEN (IF pc[t] = "notify" THEN NC ELSE NC + 1)
                      ELSE IF pc[t] = "notify" THEN NC - 1 ELSE NC
             /\ AC' = IF l \in {"lock", "expired"} THEN (IF Awake(t) THEN AC ELSE AC + 1)
                      ELSE IF Awake(t) THEN AC - 1 ELSE AC
             /\ Awake(t) => AC > 0
  <2>1. t \in Threads /\ t \notin Producers
    BY <1>d, Sides
  <2>2. AP' = AP /\ NP' = NP
    BY <1>d, <2>1, AwakeCount, NotifyingCount
  <2>3. AC' = IF l \in {"lock", "expired"} THEN (IF Awake(t) THEN AC ELSE AC + 1)
              ELSE IF Awake(t) THEN AC - 1 ELSE AC
    BY <1>d, <2>1, AwakeCount
  <2>4. Awake(t) => AC > 0
    BY <1>d, CountsFinite DEF AwakeIn
  <2>5. NC' = IF l = "notify" THEN (IF pc[t] = "notify" THEN NC ELSE NC + 1)
              ELSE IF pc[t] = "notify" THEN NC - 1 ELSE NC
    <3>1. CASE pc[t] = "notify" /\ l = "notify"
      <4>1. Notifying(Consumers)' = Notifying(Consumers)
        BY <1>d, <2>1, <3>1, Sides DEF Notifying, Goto, TypeOK
      <4> QED
        BY <3>1, <4>1
    <3>2. CASE ~(pc[t] = "notify" /\ l = "notify")
      BY <1>d, <2>1, <3>2, NotifyingCount
    <3> QED
      BY <3>1, <3>2
  <2> QED
    BY <2>2, <2>3, <2>4, <2>5
<1> HIDE DEF NP, NC, AP, AC
<1> USE DEF ring, local
<1>1. ASSUME NEW p \in Producers, NEW o \in PushOps, CallPush(p, o)
      PROVE  WakeupInv'
  BY <1>1, <1>0, <1>a, <1>b, <1>c DEF CallPush, Awake
<1>2. ASSUME NEW p \in Producers, EndProducer(p)
      PROVE  WakeupInv'
  BY <1>2, <1>0, <1>a, <1>b, <1>c DEF EndProducer, Awake
<1>3. ASSUME NEW p \in Producers, WaitsNotFull(p)
      PROVE  WakeupInv'
  <2>1. /\ Goto(p, "wait") /\ UNCHANGED <<size_, closed_, thrown>> /\ Awake(p)
        /\ ~closed_ /\ size_ = Capacity
    BY <1>3, <1>a DEF WaitsNotFull, MayWait, Awake, not_full_or_closed_locked
  <2>2. NC' = NC /\ AC' = AC /\ NP' = NP /\ AP' = AP - 1 /\ AP > 0
    BY <2>1, <1>c DEF Awake
  <2> QED
    BY <1>0, <1>a, <1>b, <2>1, <2>2, Sides
<1>4. ASSUME NEW p \in Producers, PushRefused(p)
      PROVE  WakeupInv'
  <2> DEFINE l == IF op[p] = "push" THEN "done" ELSE "asks"
  <2>1. /\ Goto(p, l) /\ UNCHANGED <<size_, closed_, thrown>> /\ Awake(p)
        /\ l \in {"done", "asks"}
        /\ ~closed_ => size_ = Capacity
    BY <1>4 DEF PushRefused
  <2> HIDE DEF l
  <2>2. NC' = NC /\ AC' = AC /\ NP' = NP /\ AP' = AP - 1 /\ AP > 0
    BY <2>1, <1>c DEF Awake
  <2> QED
    BY <1>0, <1>a, <1>b, <2>1, <2>2
<1>5. ASSUME NEW p \in Producers, enqueue_locked(p)
      PROVE  WakeupInv'
  BY <1>5, <1>0, <1>a, <1>b, <1>c DEF enqueue_locked, Awake, Accepts, Stores
<1>6. ASSUME NEW p \in Producers, EnqueueThrows(p)
      PROVE  WakeupInv'
  BY <1>6, <1>0, <1>a, <1>b, <1>c DEF EnqueueThrows, Awake, Accepts, DisturbsSlot
<1>7. ASSUME NEW c \in Consumers, NEW o \in PopOps, CallPop(c, o)
      PROVE  WakeupInv'
  BY <1>7, <1>0, <1>a, <1>b, <1>d DEF CallPop, Awake
<1>8. ASSUME NEW c \in Consumers, WaitsNotEmpty(c)
      PROVE  WakeupInv'
  <2>1. /\ Goto(c, "wait") /\ UNCHANGED <<size_, closed_, thrown>> /\ Awake(c)
        /\ ~closed_ /\ size_ = 0
    BY <1>8, <1>a DEF WaitsNotEmpty, MayWait, Awake, not_empty_or_closed_locked
  <2>2. NP' = NP /\ AP' = AP /\ NC' = NC /\ AC' = AC - 1 /\ AC > 0
    BY <2>1, <1>d DEF Awake
  <2> QED
    BY <1>0, <1>a, <1>b, <2>1, <2>2, Sides
<1>9. ASSUME NEW c \in Consumers, PopRefused(c)
      PROVE  WakeupInv'
  <2> DEFINE l == IF op[c] \in {"pop", "last"} THEN "done" ELSE "asks"
  <2>1. /\ Goto(c, l) /\ UNCHANGED <<size_, closed_, thrown>> /\ Awake(c)
        /\ l \in {"done", "asks"}
        /\ size_ = 0
    BY <1>9 DEF PopRefused, PopGivesUp
  <2> HIDE DEF l
  <2>2. NP' = NP /\ AP' = AP /\ NC' = NC /\ AC' = AC - 1 /\ AC > 0
    BY <2>1, <1>d DEF Awake
  <2> QED
    BY <1>0, <1>a, <1>b, <2>1, <2>2
<1>10. ASSUME NEW c \in Consumers, dequeue_locked(c)
      PROVE  WakeupInv'
  BY <1>10, <1>0, <1>a, <1>b, <1>d DEF dequeue_locked, Awake, AfterDequeue
<1>11. ASSUME NEW c \in Consumers, DequeueThrows(c)
      PROVE  WakeupInv'
  BY <1>11, <1>0, <1>a, <1>b, <1>d DEF DequeueThrows, Awake
<1>12. ASSUME NEW t \in Producers \cup Consumers, notify_one(t)
       PROVE  WakeupInv'
  <2>0. pc[t] = "notify" /\ UNCHANGED <<closed_, size_, thrown>>
    BY <1>12 DEF notify_one
  <2>1. CASE OtherSide(t) = {} /\ Goto(t, "idle")
    <3>1. CASE t \in Producers
      <4>1. NotEmptyWaiters = {} /\ NotEmptyWaiters' \subseteq NotEmptyWaiters
        BY <2>1, <3>1, WaitersAfter DEF OtherSide
      <4>2. ConsumersCovered'
        BY <4>1 DEF ConsumersCovered
      <4>3. NC' = NC /\ AP' = AP
        BY <2>0, <2>1, <3>1, <1>c DEF Awake
      <4>4. ProducersCovered' /\ NotifiesAfterClose'
        BY <2>0, <2>1, <4>3, WaitersAfter
        DEF WakeupInv, ProducersCovered, NotifiesAfterClose, NC, AP
      <4> QED
        BY <4>2, <4>4 DEF WakeupInv
    <3>2. CASE t \in Consumers
      <4>1. NotFullWaiters = {} /\ NotFullWaiters' \subseteq NotFullWaiters
        BY <2>1, <3>2, Sides, WaitersAfter DEF OtherSide
      <4>2. ProducersCovered'
        BY <4>1 DEF ProducersCovered
      <4>3. NP' = NP /\ AC' = AC
        BY <2>0, <2>1, <3>2, <1>d DEF Awake
      <4>4. ConsumersCovered' /\ NotifiesAfterClose'
        BY <2>0, <2>1, <4>3, WaitersAfter
        DEF WakeupInv, ConsumersCovered, NotifiesAfterClose, NP, AC
      <4> QED
        BY <4>2, <4>4 DEF WakeupInv
    <3> QED
      BY <3>1, <3>2
  <2>2. ASSUME NEW w \in OtherSide(t),
               pc' = [pc EXCEPT ![t] = "idle", ![w] = "lock"]
        PROVE  WakeupInv'
    <3>1. /\ t \in Threads /\ w \in Threads /\ w # t /\ pc[w] = "wait"
          /\ t \in Producers => w \in Consumers
          /\ t \in Consumers => w \in Producers
      BY <2>0, <2>2, Sides DEF OtherSide, NotFullWaiters, NotEmptyWaiters
    <3>2. pc'[t] = "idle" /\ pc'[w] = "lock" /\ \A u \in Threads \ {t, w} : pc'[u] = pc[u]
      BY <2>2, <3>1 DEF TypeOK
    <3>3. /\ NotFullWaiters' \subseteq NotFullWaiters
          /\ NotEmptyWaiters' \subseteq NotEmptyWaiters
          /\ \A k \in Closers : pc'[k] = pc[k]
      BY <3>1, <3>2, Sides DEF NotFullWaiters, NotEmptyWaiters
    <3>4. CASE t \in Producers
      <4>1. Notifying(Consumers)' = Notifying(Consumers) /\ AwakeIn(Producers)' = AwakeIn(Producers)
        BY <2>0, <3>1, <3>2, <3>4, Sides DEF Notifying, AwakeIn, Awake
      <4>2. t \in Notifying(Producers) /\ Notifying(Producers)' = Notifying(Producers) \ {t}
        BY <2>0, <3>1, <3>2, <3>4, Sides DEF Notifying
      <4>3. w \notin AwakeIn(Consumers) /\ AwakeIn(Consumers)' = AwakeIn(Consumers) \cup {w}
        BY <2>0, <3>1, <3>2, <3>4, Sides DEF AwakeIn, Awake
      <4>4. NC' = NC /\ AP' = AP
        BY <4>1 DEF NC, AP
      <4>5. NP' = NP - 1 /\ AC' = AC + 1
        BY <4>2, <4>3, CountsFinite, CountOneMore, CountOneLess DEF NP, AC
      <4> QED
        BY <1>0, <1>a, <2>0, <3>3, <4>4, <4>5
        DEF WakeupInv, ProducersCovered, ConsumersCovered, NotifiesAfterClose, NP, NC, AP, AC
    <3>5. CASE t \in Consumers
      <4>1. Notifying(Producers)' = Notifying(Producers) /\ AwakeIn(Consumers)' = AwakeIn(Consumers)
        BY <2>0, <3>1, <3>2, <3>5, Sides DEF Notifying, AwakeIn, Awake
      <4>2. t \in Notifying(Consumers) /\ Notifying(Consumers)' = Notifying(Consumers) \ {t}
        BY <2>0, <3>1, <3>2, <3>5, Sides DEF Notifying
      <4>3. w \notin AwakeIn(Producers) /\ AwakeIn(Producers)' = AwakeIn(Producers) \cup {w}
        BY <2>0, <3>1, <3>2, <3>5, Sides DEF AwakeIn, Awake
      <4>4. NP' = NP /\ AC' = AC
        BY <4>1 DEF NP, AC
      <4>5. NC' = NC - 1 /\ AP' = AP + 1
        BY <4>2, <4>3, CountsFinite, CountOneMore, CountOneLess DEF NC, AP
      <4> QED
        BY <1>0, <1>a, <2>0, <3>3, <4>4, <4>5
        DEF WakeupInv, ProducersCovered, ConsumersCovered, NotifiesAfterClose, NP, NC, AP, AC
    <3> QED
      BY <3>4, <3>5
  <2> QED
    BY <1>12, <2>1, <2>2 DEF notify_one, NotifiesOne
<1>13. ASSUME NEW t \in Producers \cup Consumers, SpuriousWakeup(t)
      PROVE  WakeupInv'
  BY <1>13, <1>0, <1>a, <1>b, <1>c, <1>d DEF SpuriousWakeup, Awake
<1>14. ASSUME NEW t \in Producers \cup Consumers, TimesOut(t)
      PROVE  WakeupInv'
  BY <1>14, <1>0, <1>a, <1>b, <1>c, <1>d DEF TimesOut, Awake
<1>15. ASSUME NEW t \in Producers \cup Consumers, AsksClosed(t)
      PROVE  WakeupInv'
  BY <1>15, <1>0, <1>a, <1>b, <1>c, <1>d DEF AsksClosed, Awake
<1>16. ASSUME NEW k \in Closers, close(k)
       PROVE  WakeupInv'
  <2>1. pc[k] = "idle" /\ closed_' = TRUE /\ k \in Threads
    BY <1>16, Sides DEF close
  <2>2. \A u \in Threads \ {k} : pc'[u] = pc[u]
    BY <1>16, <2>1 DEF close, Goto, TypeOK
  <2>3. pc'[k] = IF closed_ THEN "done" ELSE "notify_full"
    BY <1>16, <2>1 DEF close, Goto, TypeOK
  <2>4. NotFullWaiters' = NotFullWaiters /\ NotEmptyWaiters' = NotEmptyWaiters
    BY <2>2, Sides DEF NotFullWaiters, NotEmptyWaiters
  <2>5. \A j \in Closers : pc[j] \in {"notify_full", "notify_empty"} => pc'[j] = pc[j]
    BY <2>1, <2>2, Sides
  <2> QED
    BY <2>1, <2>3, <2>4, <2>5
    DEF WakeupInv, ProducersCovered, ConsumersCovered, NotifiesAfterClose
<1>17. ASSUME NEW k \in Closers, NotifiesNotFull(k)
       PROVE  WakeupInv'
  <2>1. pc[k] = "notify_full" /\ closed_ /\ closed_' = closed_ /\ k \in Threads
    BY <1>17, Sides DEF NotifiesNotFull, WakeupInv, NotifiesAfterClose
  <2>2. \A u \in Threads : pc'[u] = IF u = k THEN "notify_empty"
                                   ELSE IF u \in NotFullWaiters THEN "lock" ELSE pc[u]
    BY <1>17 DEF NotifiesNotFull, NotifiesAll
  <2>3. NotFullWaiters' = {}
    BY <2>2, Sides DEF NotFullWaiters
  <2> QED
    BY <2>1, <2>2, <2>3
    DEF WakeupInv, ProducersCovered, ConsumersCovered, NotifiesAfterClose
<1>18. ASSUME NEW k \in Closers, NotifiesNotEmpty(k)
       PROVE  WakeupInv'
  <2>1. pc[k] = "notify_empty" /\ closed_ /\ closed_' = closed_ /\ k \in Threads
    BY <1>18, Sides DEF NotifiesNotEmpty, WakeupInv, NotifiesAfterClose
  <2>2. \A u \in Threads : pc'[u] = IF u = k THEN "done"
                                   ELSE IF u \in NotEmptyWaiters THEN "lock" ELSE pc[u]
    BY <1>18 DEF NotifiesNotEmpty, NotifiesAll
  <2>3. NotEmptyWaiters' = {}
    BY <2>2, Sides DEF NotEmptyWaiters
  <2>4. NotFullWaiters' \subseteq NotFullWaiters
    BY <2>2, Sides DEF NotFullWaiters
  <2>5. \A j \in Closers : pc[j] = "notify_full" => pc'[j] = "notify_full"
    BY <2>1, <2>2, Sides DEF NotEmptyWaiters
  <2> QED
    BY <2>1, <2>3, <2>4, <2>5
    DEF WakeupInv, ProducersCovered, ConsumersCovered, NotifiesAfterClose
<1>19. CASE AllDone \/ UNCHANGED vars
  <2>1. UNCHANGED vars
    BY <1>19 DEF AllDone
  <2> QED
    BY <2>1
    DEF vars, WakeupInv, ProducersCovered, ConsumersCovered, NotifiesAfterClose,
        NotFullWaiters, NotEmptyWaiters, Notifying, AwakeIn, Awake
<1> QED
  BY <1>1, <1>2, <1>3, <1>4, <1>5, <1>6, <1>7, <1>8, <1>9, <1>10, <1>11, <1>12,
     <1>13, <1>14, <1>15, <1>16, <1>17, <1>18, <1>19
  DEF Next, Producer, Consumer, Closer

(***************************************************************************)
(* A thread waits beside room (a producer) or beside elements (a consumer) *)
(* only if somebody awake, a notification on its way or an exception       *)
(* accounts for each slot or element, or the close is about to notify all: *)
(* the notify_one after the unlock and the two condition variables of      *)
(* mutex_queue.ipp lose no wakeup, with any number of threads.             *)
(***************************************************************************)
THEOREM NoLostWakeupHolds == Spec => []NoLostWakeup
<1>1. Init => WakeupInv
  BY WakeupInit
<1>2. TypeOK /\ WakeupInv /\ [Next]_vars => WakeupInv'
  BY WakeupStep
<1>3. WakeupInv => NoLostWakeup
  BY DEF WakeupInv, ProducersCovered, ConsumersCovered, NoLostWakeup
<1> QED
  BY <1>1, <1>2, <1>3, MutexTypeCorrect, PTL DEF Spec
-----------------------------------------------------------------------------
(***************************************************************************)
(* The contract.  The queue is the ring from head_ on.  What the ring      *)
(* needs for it: tail_ is size_ slots past head_, and the elements pushed  *)
(* are numbers of calls that have begun, none of them pushed before.       *)
(***************************************************************************)
Queue == [i \in 1 .. size_ |-> buffer_[(head_ + i - 1) % Capacity]]

RingClosed == tail_ = (head_ + size_) % Capacity

QueuedBegun == \A i \in 1 .. size_ : Queue[i] \in 1 .. calls
DeliveredBegun == \A i \in DOMAIN delivered : delivered[i] \in 1 .. calls
ItemsBegun == \A p \in Producers : Holds(p) => item[p] \in 1 .. calls

ItemsFresh ==
  \A p \in Producers : Holds(p) =>
    /\ \A i \in 1 .. size_ : Queue[i] # item[p]
    /\ \A i \in DOMAIN delivered : delivered[i] # item[p]

ItemsApart ==
  \A p, q \in Producers : Holds(p) /\ Holds(q) /\ p # q => item[p] # item[q]

ContractInv ==
  RingClosed /\ QueuedBegun /\ DeliveredBegun /\ ItemsBegun /\ ItemsFresh /\ ItemsApart

\* The slot i slots past h and the i-th of the queue, with at most one wrap.
LEMMA SlotPast ==
  ASSUME NEW h \in Slots, NEW i \in 0 .. Capacity
  PROVE  (h + i) % Capacity = IF h + i < Capacity THEN h + i ELSE h + i - Capacity
BY RingSlot, MutexAssumption DEF Slots

LEMMA QueueSlot ==
  ASSUME NEW h \in Slots, NEW i \in 1 .. Capacity
  PROVE  /\ (h + i - 1) % Capacity = IF h + i - 1 < Capacity THEN h + i - 1
                                     ELSE h + i - 1 - Capacity
         /\ (h + i - 1) % Capacity \in Slots
<1>1. i - 1 \in 0 .. Capacity /\ h \in 0 .. Capacity - 1 /\ h + i - 1 = h + (i - 1)
  BY MutexAssumption DEF Slots
<1>2. /\ (h + (i - 1)) % Capacity = IF h + (i - 1) < Capacity THEN h + (i - 1)
                                    ELSE h + (i - 1) - Capacity
      /\ (h + (i - 1)) % Capacity \in 0 .. Capacity - 1
  BY <1>1, MutexAssumption, RingSlot
<1> QED
  BY <1>1, <1>2, MutexAssumption DEF Slots

LEMMA QueueType ==
  ASSUME TypeOK
  PROVE  /\ Queue \in [1 .. size_ -> Items \cup {Empty}] /\ size_ \in Nat
         /\ Queue \in Seq(Items \cup {Empty}) /\ Len(Queue) = size_
<1>1. \A i \in 1 .. size_ : (head_ + i - 1) % Capacity \in Slots
  BY QueueSlot, MutexAssumption DEF TypeOK
<1>2. Queue \in [1 .. size_ -> Items \cup {Empty}] /\ size_ \in Nat
  BY <1>1 DEF TypeOK, Queue
<1> QED
  BY <1>2

\* enqueue_locked() appends: slot tail_ is the first one past the queue.
LEMMA StoresAppends ==
  ASSUME TypeOK, RingClosed, size_ < Capacity, NEW v \in Items, Stores(v)
  PROVE  Queue' = Append(Queue, v) /\ RingClosed'
<1>1. /\ head_ \in Slots /\ size_ \in Nat /\ size_ + 1 <= Capacity
      /\ Capacity \in Nat \ {0}
  BY MutexAssumption DEF TypeOK
<1>2. size_' = size_ + 1 /\ head_' = head_ /\ buffer_' = [buffer_ EXCEPT ![tail_] = v]
  BY DEF Stores
<1>3. \A i \in 1 .. size_ + 1 : (head_ + i - 1) % Capacity \in Slots
  BY <1>1, QueueSlot
<1>4. \A i \in 1 .. size_ : (head_ + i - 1) % Capacity # tail_
  <2> SUFFICES ASSUME NEW i \in 1 .. size_
               PROVE  (head_ + i - 1) % Capacity # (head_ + (size_ + 1) - 1) % Capacity
    BY <1>1 DEF RingClosed, Slots
  <2>1. (head_ + i - 1) % Capacity = IF head_ + i - 1 < Capacity THEN head_ + i - 1
                                    ELSE head_ + i - 1 - Capacity
    BY <1>1, QueueSlot
  <2>2. (head_ + (size_ + 1) - 1) % Capacity =
          IF head_ + (size_ + 1) - 1 < Capacity THEN head_ + (size_ + 1) - 1
          ELSE head_ + (size_ + 1) - 1 - Capacity
    BY <1>1, QueueSlot
  <2> QED
    BY <1>1, <2>1, <2>2 DEF Slots
<1>5. (head_ + (size_ + 1) - 1) % Capacity = tail_
  BY <1>1 DEF RingClosed, Slots
<1>6. Queue' = [i \in 1 .. size_ + 1 |-> buffer_'[(head_ + i - 1) % Capacity]]
  BY <1>2 DEF Queue
<1>7. Queue' \in [1 .. size_ + 1 -> Items \cup {Empty}]
  BY <1>2, <1>3, <1>6 DEF TypeOK
<1>8. Queue'[size_ + 1] = v
  BY <1>1, <1>2, <1>3, <1>5, <1>6 DEF TypeOK
<1>9. \A i \in 1 .. size_ : Queue'[i] = Queue[i]
  BY <1>1, <1>2, <1>3, <1>4, <1>6 DEF TypeOK, Queue
<1>10. Queue' = Append(Queue, v)
  <2> HIDE DEF Queue
  <2>1. Queue \in [1 .. size_ -> Items \cup {Empty}] /\ size_ \in Nat
    BY QueueType
  <2> QED
    BY <2>1, <1>7, <1>8, <1>9, AppendedSeq
<1>11. RingClosed'
  <2>1. tail_' = IF tail_ + 1 = Capacity THEN 0 ELSE tail_ + 1
    BY DEF Stores, next
  <2>2. (head_ + size_) % Capacity = IF head_ + size_ < Capacity THEN head_ + size_
                                    ELSE head_ + size_ - Capacity
    BY <1>1, SlotPast
  <2>3. (head_ + (size_ + 1)) % Capacity =
          IF head_ + (size_ + 1) < Capacity THEN head_ + (size_ + 1)
          ELSE head_ + (size_ + 1) - Capacity
    BY <1>1, SlotPast
  <2> QED
    BY <1>1, <1>2, <2>1, <2>2, <2>3 DEF RingClosed, Slots
<1> QED
  BY <1>10, <1>11

\* dequeue_locked() takes the head off: slot head_ is not in the rest.
LEMMA DequeueTakesHead ==
  ASSUME TypeOK, RingClosed, NEW c, dequeue_locked(c)
  PROVE  /\ Queue # <<>> /\ Head(Queue) = Queue[1] /\ Queue[1] = buffer_[head_]
         /\ Queue' = Tail(Queue)
         /\ \A i \in 1 .. size_ - 1 : Queue'[i] = Queue[i + 1]
         /\ RingClosed'
<1>1. /\ head_ \in Slots /\ size_ \in Nat \ {0} /\ size_ <= Capacity
      /\ Capacity \in Nat \ {0}
  BY MutexAssumption DEF TypeOK, dequeue_locked
<1>2. /\ size_' = size_ - 1 /\ head_' = next(head_) /\ tail_' = tail_
      /\ buffer_' = [buffer_ EXCEPT ![head_] = Empty]
  BY DEF dequeue_locked
<1>3. head_' = IF head_ + 1 = Capacity THEN 0 ELSE head_ + 1
  BY <1>2 DEF next
<1>4. head_' \in Slots
  BY <1>2, NextSlot, <1>1
<1>5. ASSUME NEW i \in 1 .. size_ - 1
      PROVE  /\ (head_' + i - 1) % Capacity = (head_ + (i + 1) - 1) % Capacity
             /\ (head_' + i - 1) % Capacity # head_
             /\ (head_' + i - 1) % Capacity \in Slots
  <2>1. (head_' + i - 1) % Capacity = IF head_' + i - 1 < Capacity THEN head_' + i - 1
                                     ELSE head_' + i - 1 - Capacity
    BY <1>1, <1>4, QueueSlot
  <2>2. (head_ + (i + 1) - 1) % Capacity =
          IF head_ + (i + 1) - 1 < Capacity THEN head_ + (i + 1) - 1
          ELSE head_ + (i + 1) - 1 - Capacity
    BY <1>1, QueueSlot
  <2> QED
    BY <1>1, <1>3, <2>1, <2>2 DEF Slots
<1>6. Queue' = [i \in 1 .. size_ - 1 |-> buffer_'[(head_' + i - 1) % Capacity]]
  BY <1>2 DEF Queue
<1>7. \A i \in 1 .. size_ - 1 : Queue'[i] = Queue[i + 1]
  <2> TAKE i \in 1 .. size_ - 1
  <2>1. Queue'[i] = buffer_[(head_' + i - 1) % Capacity]
    BY <1>2, <1>5, <1>6 DEF TypeOK
  <2>2. i + 1 \in 1 .. size_
    BY <1>1
  <2>3. Queue[i + 1] = buffer_[(head_ + (i + 1) - 1) % Capacity]
    BY <2>2 DEF Queue
  <2> QED
    BY <2>1, <2>3, <1>5
<1>8. Queue' \in [1 .. size_ - 1 -> Items \cup {Empty}]
  BY <1>2, <1>5, <1>6 DEF TypeOK
<1>9. Queue[1] = buffer_[head_]
  <2>1. (head_ + 1 - 1) % Capacity = head_
    BY <1>1, QueueSlot DEF Slots
  <2> QED
    BY <1>1, <2>1 DEF Queue
<1>10. Queue # <<>> /\ Head(Queue) = Queue[1] /\ Queue' = Tail(Queue)
  <2>1. Queue \in [1 .. size_ -> Items \cup {Empty}]
    BY QueueType
  <2> HIDE DEF Queue
  <2> QED
    BY <1>1, <2>1, <1>7, <1>8, ShiftedSeq
<1>11. RingClosed'
  <2>1. (head_ + size_) % Capacity = IF head_ + size_ < Capacity THEN head_ + size_
                                    ELSE head_ + size_ - Capacity
    BY <1>1, SlotPast
  <2>2. (head_' + (size_ - 1)) % Capacity =
          IF head_' + (size_ - 1) < Capacity THEN head_' + (size_ - 1)
          ELSE head_' + (size_ - 1) - Capacity
    BY <1>1, <1>4, SlotPast
  <2> QED
    BY <1>1, <1>2, <1>3, <2>1, <2>2 DEF RingClosed, Slots
<1> QED
  BY <1>7, <1>9, <1>10, <1>11

\* An assignment to slot tail_ that throws leaves the queue as it was.
LEMMA DisturbsNothing ==
  ASSUME TypeOK, RingClosed, size_ < Capacity, DisturbsSlot
  PROVE  Queue' = Queue /\ RingClosed'
<1>1. /\ head_ \in Slots /\ size_ \in Nat /\ size_ + 1 <= Capacity
      /\ Capacity \in Nat \ {0}
  BY MutexAssumption DEF TypeOK
<1>2. /\ size_' = size_ /\ head_' = head_ /\ tail_' = tail_
      /\ buffer_' = [buffer_ EXCEPT ![tail_] = Empty]
  BY DEF DisturbsSlot
<1>3. \A i \in 1 .. size_ :
        (head_ + i - 1) % Capacity \in Slots /\ (head_ + i - 1) % Capacity # tail_
  <2> TAKE i \in 1 .. size_
  <2>1. /\ (head_ + i - 1) % Capacity = IF head_ + i - 1 < Capacity THEN head_ + i - 1
                                        ELSE head_ + i - 1 - Capacity
        /\ (head_ + i - 1) % Capacity \in Slots
    BY <1>1, QueueSlot
  <2>2. (head_ + size_) % Capacity = IF head_ + size_ < Capacity THEN head_ + size_
                                    ELSE head_ + size_ - Capacity
    BY <1>1, SlotPast
  <2> QED
    BY <1>1, <2>1, <2>2 DEF Slots, RingClosed
<1>4. \A i \in 1 .. size_ :
        buffer_'[(head_ + i - 1) % Capacity] = buffer_[(head_ + i - 1) % Capacity]
  BY <1>2, <1>3 DEF TypeOK
<1> QED
  BY <1>2, <1>4 DEF Queue, RingClosed

LEMMA ContractInit == Init => ContractInv
<1> SUFFICES ASSUME Init PROVE ContractInv
  OBVIOUS
<1>1. RingClosed
  BY MutexAssumption, RingSlot DEF Init, RingClosed
<1>2. \A p \in Producers : ~Holds(p)
  BY Sides DEF Init, Holds
<1>3. QueuedBegun /\ DeliveredBegun
  BY DEF Init, QueuedBegun, DeliveredBegun
<1> QED
  BY <1>1, <1>2, <1>3 DEF ContractInv, ItemsBegun, ItemsFresh, ItemsApart

LEMMA ContractStep == TypeOK /\ ContractInv /\ [Next]_vars => ContractInv'
<1> SUFFICES ASSUME TypeOK, ContractInv, [Next]_vars PROVE ContractInv'
  OBVIOUS
<1> USE DEF ContractInv
\* A step that leaves the queue alone and begins no push.
<1>a. ASSUME Queue' = Queue, size_' = size_, RingClosed', UNCHANGED <<delivered, calls, item>>,
             \A p \in Producers : Holds(p)' => Holds(p)
      PROVE  ContractInv'
  <2> HIDE DEF Queue, Holds
  <2> QED
    BY <1>a DEF QueuedBegun, DeliveredBegun, ItemsBegun, ItemsFresh, ItemsApart
<1>b. ASSUME UNCHANGED <<ring, delivered, calls, item>>,
             \A p \in Producers : Holds(p)' => Holds(p)
      PROVE  ContractInv'
  BY <1>a, <1>b DEF ring, Queue, RingClosed
<1> USE Sides DEF local, Goto
<1>1. ASSUME NEW p \in Producers, NEW o \in PushOps, CallPush(p, o)
      PROVE  ContractInv'
  <2>1. /\ calls \in Nat /\ calls' = calls + 1
        /\ item' = [item EXCEPT ![p] = calls + 1] /\ item'[p] = calls + 1
        /\ Queue' = Queue /\ size_' = size_ /\ delivered' = delivered /\ RingClosed'
    BY <1>1 DEF CallPush, TypeOK, ring, Queue, RingClosed
  <2>2. \A q \in Producers \ {p} : (Holds(q)' => Holds(q)) /\ item'[q] = item[q]
    BY <1>1, <2>1 DEF CallPush, Holds, TypeOK
  <2> HIDE DEF Queue, Holds
  <2>3. QueuedBegun' /\ DeliveredBegun' /\ ItemsBegun'
    BY <2>1, <2>2 DEF QueuedBegun, DeliveredBegun, ItemsBegun
  <2>4. ItemsFresh'
    BY <2>1, <2>2 DEF QueuedBegun, DeliveredBegun, ItemsFresh
  <2>5. ItemsApart'
    BY <2>1, <2>2 DEF ItemsBegun, ItemsApart
  <2> QED
    BY <2>1, <2>3, <2>4, <2>5
<1>2. ASSUME NEW p \in Producers, EndProducer(p)
      PROVE  ContractInv'
  BY <1>2, <1>b DEF EndProducer, Holds, TypeOK
<1>3. ASSUME NEW p \in Producers, WaitsNotFull(p)
      PROVE  ContractInv'
  BY <1>3, <1>b DEF WaitsNotFull, Holds, TypeOK, MayWait
<1>4. ASSUME NEW p \in Producers, PushRefused(p)
      PROVE  ContractInv'
  BY <1>4, <1>b DEF PushRefused, Holds, TypeOK
<1>5. ASSUME NEW p \in Producers, enqueue_locked(p)
      PROVE  ContractInv'
  <2>1. /\ Holds(p) /\ size_ < Capacity /\ Stores(item[p])
        /\ UNCHANGED <<delivered, calls, item>> /\ ~Holds(p)'
        /\ \A q \in Producers \ {p} : Holds(q)' => Holds(q)
    BY <1>5 DEF enqueue_locked, Awake, Accepts, Holds, TypeOK
  <2>2. item[p] \in Items /\ item[p] \in 1 .. calls
    BY <2>1 DEF ItemsBegun, Items, TypeOK
  <2>3. Queue' = Append(Queue, item[p]) /\ RingClosed' /\ size_' = size_ + 1
    BY <2>1, <2>2, StoresAppends DEF Stores
  <2>4. Queue \in [1 .. size_ -> Items \cup {Empty}] /\ size_ \in Nat /\ Len(Queue) = size_
    BY QueueType
  <2> HIDE DEF Queue, Holds
  <2>5. /\ \A i \in 1 .. size_ : Queue'[i] = Queue[i]
        /\ Queue'[size_ + 1] = item[p]
    BY <2>3, <2>4
  <2>6. \A i \in 1 .. size_' : i \in 1 .. size_ \/ i = size_ + 1
    BY <2>3, <2>4
  <2>7. QueuedBegun' /\ DeliveredBegun' /\ ItemsBegun'
    BY <2>1, <2>2, <2>5, <2>6 DEF QueuedBegun, DeliveredBegun, ItemsBegun
  <2>8. ItemsFresh' /\ ItemsApart'
    BY <2>1, <2>5, <2>6 DEF ItemsFresh, ItemsApart
  <2> QED
    BY <2>3, <2>7, <2>8
<1>6. ASSUME NEW p \in Producers, EnqueueThrows(p)
      PROVE  ContractInv'
  <2>1. /\ size_ < Capacity /\ DisturbsSlot /\ UNCHANGED <<delivered, calls, item, size_>>
        /\ \A q \in Producers : Holds(q)' => Holds(q)
    BY <1>6 DEF EnqueueThrows, DisturbsSlot, Accepts, Holds, TypeOK
  <2> QED
    BY <2>1, <1>a, DisturbsNothing
<1>7. ASSUME NEW c \in Consumers, NEW o \in PopOps, CallPop(c, o)
      PROVE  ContractInv'
  BY <1>7, <1>b DEF CallPop, Holds, TypeOK
<1>8. ASSUME NEW c \in Consumers, WaitsNotEmpty(c)
      PROVE  ContractInv'
  BY <1>8, <1>b DEF WaitsNotEmpty, Holds, TypeOK
<1>9. ASSUME NEW c \in Consumers, PopRefused(c)
      PROVE  ContractInv'
  BY <1>9, <1>b DEF PopRefused, Holds, TypeOK
<1>10. ASSUME NEW c \in Consumers, dequeue_locked(c)
       PROVE  ContractInv'
  <2>1. /\ size_ \in Nat \ {0} /\ size_' = size_ - 1 /\ UNCHANGED <<calls, item>>
        /\ delivered' = Append(delivered, buffer_[head_])
        /\ \A q \in Producers : Holds(q)' => Holds(q)
    BY <1>10 DEF dequeue_locked, Holds, TypeOK
  <2>2. /\ Queue[1] = buffer_[head_] /\ RingClosed'
        /\ \A i \in 1 .. size_ - 1 : Queue'[i] = Queue[i + 1]
    BY <1>10, DequeueTakesHead
  <2>3. /\ \A i \in DOMAIN delivered' :
             IF i \in DOMAIN delivered THEN delivered'[i] = delivered[i]
             ELSE delivered'[i] = Queue[1]
    BY <2>1, <2>2 DEF TypeOK
  <2>4. \A i \in 1 .. size_' : i + 1 \in 1 .. size_ /\ i \in 1 .. size_ - 1
    BY <2>1
  <2>5. 1 \in 1 .. size_
    BY <2>1
  <2> HIDE DEF Queue, Holds
  <2>6. QueuedBegun' /\ ItemsBegun' /\ ItemsApart'
    BY <2>1, <2>2, <2>4 DEF QueuedBegun, ItemsBegun, ItemsApart
  <2>7. DeliveredBegun'
    BY <2>1, <2>3, <2>5 DEF DeliveredBegun, QueuedBegun
  <2>8. ItemsFresh'
    BY <2>1, <2>2, <2>3, <2>4, <2>5 DEF ItemsFresh
  <2> QED
    BY <2>2, <2>6, <2>7, <2>8
<1>11. ASSUME NEW c \in Consumers, DequeueThrows(c)
      PROVE  ContractInv'
  BY <1>11, <1>b DEF DequeueThrows, Holds, TypeOK
<1>12. ASSUME NEW t \in Producers \cup Consumers, notify_one(t)
       PROVE  ContractInv'
  <2>1. \A u \in Threads : pc'[u] = pc[u] \/ pc'[u] = "idle" \/ (pc[u] = "wait" /\ pc'[u] = "lock")
    BY <1>12 DEF notify_one, NotifiesOne, OtherSide, NotFullWaiters, NotEmptyWaiters, TypeOK
  <2> QED
    BY <1>12, <1>b, <2>1 DEF notify_one, Holds
<1>13. ASSUME NEW t \in Producers \cup Consumers, SpuriousWakeup(t)
      PROVE  ContractInv'
  BY <1>13, <1>b DEF SpuriousWakeup, Holds, TypeOK
<1>14. ASSUME NEW t \in Producers \cup Consumers, TimesOut(t)
      PROVE  ContractInv'
  BY <1>14, <1>b DEF TimesOut, Holds, TypeOK
<1>15. ASSUME NEW t \in Producers \cup Consumers, AsksClosed(t)
      PROVE  ContractInv'
  BY <1>15, <1>b DEF AsksClosed, Holds, TypeOK
<1>16. ASSUME NEW k \in Closers, close(k)
      PROVE  ContractInv'
  BY <1>16, <1>b DEF close, Holds, TypeOK
<1>17. ASSUME NEW k \in Closers, NotifiesNotFull(k)
      PROVE  ContractInv'
  BY <1>17, <1>b DEF NotifiesNotFull, Holds, TypeOK, NotifiesAll, NotFullWaiters
<1>18. ASSUME NEW k \in Closers, NotifiesNotEmpty(k)
      PROVE  ContractInv'
  BY <1>18, <1>b DEF NotifiesNotEmpty, Holds, TypeOK, NotifiesAll, NotEmptyWaiters
<1>19. CASE AllDone \/ UNCHANGED vars
  BY <1>19, <1>b DEF AllDone, vars, Holds
<1> QED
  BY <1>1, <1>2, <1>3, <1>4, <1>5, <1>6, <1>7, <1>8, <1>9, <1>10, <1>11, <1>12,
     <1>13, <1>14, <1>15, <1>16, <1>17, <1>18, <1>19
  DEF Next, Producer, Consumer, Closer

(***************************************************************************)
(* Every step is a Push, a Pop or a Close of the contract, or leaves its   *)
(* variables alone.                                                        *)
(***************************************************************************)
LEMMA ContractSteps ==
  TypeOK /\ ContractInv /\ [Next]_vars => [Contract!Next]_(Contract!absVars)
<1> SUFFICES ASSUME TypeOK, ContractInv, [Next]_vars
             PROVE  Contract!Next \/ UNCHANGED <<Queue, delivered, closed_>>
  BY DEF Contract!absVars, Queue
<1> USE DEF ContractInv
<1>a. ASSUME UNCHANGED <<ring, delivered, closed_>>
      PROVE  UNCHANGED <<Queue, delivered, closed_>>
  BY <1>a DEF ring, Queue
<1>1. ASSUME NEW p \in Producers, enqueue_locked(p)
      PROVE  Contract!Next
  <2>1. /\ Holds(p) /\ size_ < Capacity /\ ~closed_ /\ Stores(item[p])
        /\ UNCHANGED <<delivered, closed_>>
    BY <1>1 DEF enqueue_locked, Awake, Accepts, Holds
  <2>2. item[p] \in Items
    BY <2>1 DEF ItemsBegun, Items, TypeOK
  <2>3. Queue' = Append(Queue, item[p])
    BY <2>1, <2>2, StoresAppends
  <2>4. Len(Queue) = size_ /\ DOMAIN Queue = 1 .. size_
    BY QueueType
  <2>5. item[p] \notin {Queue[i] : i \in DOMAIN Queue}
                         \cup {delivered[i] : i \in DOMAIN delivered}
    BY <2>1, <2>4 DEF ItemsFresh
  <2>6. PICK v \in Items : v = item[p]
    BY <2>2
  <2>7. Contract!Push(v)
    BY <2>1, <2>3, <2>4, <2>5, <2>6 DEF Contract!Push, Contract!Accepted, Queue
  <2> QED
    BY <2>7 DEF Contract!Next
<1>2. ASSUME NEW c \in Consumers, dequeue_locked(c)
      PROVE  Contract!Next
  <2>1. delivered' = Append(delivered, buffer_[head_]) /\ closed_' = closed_
    BY <1>2 DEF dequeue_locked
  <2>2. Queue # <<>> /\ Head(Queue) = buffer_[head_] /\ Queue' = Tail(Queue)
    BY <1>2, DequeueTakesHead
  <2>3. Contract!Pop
    BY <2>1, <2>2 DEF Contract!Pop, Queue
  <2> QED
    BY <2>3 DEF Contract!Next
<1>3. ASSUME NEW p \in Producers, EnqueueThrows(p)
      PROVE  UNCHANGED <<Queue, delivered, closed_>>
  BY <1>3, DisturbsNothing DEF EnqueueThrows, Accepts
<1>4. ASSUME NEW k \in Closers, close(k)
      PROVE  Contract!Next
  <2>1. closed_' = TRUE /\ Queue' = Queue /\ delivered' = delivered
    BY <1>4 DEF close, ring, Queue
  <2>2. Contract!Close
    BY <2>1 DEF Contract!Close, Queue
  <2> QED
    BY <2>2 DEF Contract!Next
<1>5. ASSUME NEW p \in Producers, Producer(p) \/ SpuriousWakeup(p)
      PROVE  Contract!Next \/ UNCHANGED <<Queue, delivered, closed_>>
  BY <1>5, <1>a, <1>1, <1>3
  DEF Producer, CallPush, EndProducer, WaitsNotFull, PushRefused, notify_one,
      SpuriousWakeup, TimesOut, AsksClosed
<1>6. ASSUME NEW c \in Consumers, Consumer(c) \/ SpuriousWakeup(c)
      PROVE  Contract!Next \/ UNCHANGED <<Queue, delivered, closed_>>
  BY <1>6, <1>a, <1>2
  DEF Consumer, CallPop, WaitsNotEmpty, PopRefused, DequeueThrows, notify_one,
      SpuriousWakeup, TimesOut, AsksClosed
<1>7. ASSUME NEW k \in Closers, Closer(k)
      PROVE  Contract!Next \/ UNCHANGED <<Queue, delivered, closed_>>
  BY <1>7, <1>a, <1>4 DEF Closer, NotifiesNotFull, NotifiesNotEmpty
<1>8. CASE AllDone \/ UNCHANGED vars
  BY <1>8, <1>a DEF AllDone, vars
<1> QED
  BY <1>5, <1>6, <1>7, <1>8 DEF Next

(***************************************************************************)
(* MutexQueue implements the contract, for every capacity and all finite   *)
(* sets of threads: it accepts what was not accepted before, at most       *)
(* Capacity elements at a time, delivers them in the order of acceptance   *)
(* and accepts nothing after close().                                      *)
(***************************************************************************)
THEOREM MutexImplementsContract == Spec => ImplementsContract
<1>1. Init => Contract!Init
  <2> SUFFICES ASSUME Init PROVE Contract!Init
    OBVIOUS
  <2>1. [i \in 1 .. size_ |-> buffer_[(head_ + i - 1) % Capacity]] = <<>>
    BY DEF Init
  <2> QED
    BY <2>1 DEF Init, Contract!Init
<1>2. Init => ContractInv
  BY ContractInit
<1>3. TypeOK /\ ContractInv /\ [Next]_vars => ContractInv'
  BY ContractStep
<1>4. TypeOK /\ ContractInv /\ [Next]_vars => [Contract!Next]_(Contract!absVars)
  BY ContractSteps
<1> QED
  BY <1>1, <1>2, <1>3, <1>4, MutexTypeCorrect, PTL
  DEF Spec, ImplementsContract, Contract!Spec
=============================================================================
