--------------------------- MODULE BackoffProofs ---------------------------
(***************************************************************************)
(* The schedule of Backoff, proved for every number of spins and all       *)
(* delays: its types, and the two bounds on how late a blocked call        *)
(* returns.                                                                *)
(***************************************************************************)
EXTENDS Backoff, TLAPS

\* The next sleep is at most what the call has slept and the first sleep.
DelayEarned == delay_ <= slept + kInitialSleep

\* A call that cannot return is not late, nor is one about to sleep; and a
\* sleep has no more time left than its delay leaves it.
LateOnlyAsleep ==
  /\ wake = "none" => late = 0
  /\ pc = "waits" => late = 0
  /\ pc = "asleep" => late + left <= delay_ + Oversleep

LatenessInv ==
  TypeOK /\ DelayEarned /\ LateOnlyAsleep /\ NoticedInTime /\ LateInProportion

\* Doubling keeps a delay between its bounds, and adds at most the delay.
LEMMA DoubledBounds ==
  ASSUME NEW d \in kInitialSleep .. kMaxSleep
  PROVE  /\ Doubled(d) \in kInitialSleep .. kMaxSleep
         /\ Doubled(d) <= d + d
  BY BackoffAssumption DEF Doubled, Least

LEMMA LatenessInit == Init => LatenessInv
  BY BackoffAssumption
  DEF Init, LatenessInv, TypeOK, DelayEarned, LateOnlyAsleep, NoticedInTime,
      LateInProportion

LEMMA LatenessStep == LatenessInv /\ [Next]_vars => LatenessInv'
<1> SUFFICES ASSUME LatenessInv, [Next]_vars PROVE LatenessInv'
  OBVIOUS
<1> USE BackoffAssumption
    DEF LatenessInv, TypeOK, DelayEarned, LateOnlyAsleep, NoticedInTime,
        LateInProportion, backoff
<1>1. CASE Call
  BY <1>1 DEF Call
<1>2. CASE Looks
  BY <1>2 DEF Looks
<1>3. CASE Yields
  BY <1>3 DEF Yields
<1>4. CASE FallsAsleep
  BY <1>4 DEF FallsAsleep
<1>5. CASE Tick
  BY <1>5 DEF Tick
<1>6. CASE WakesUp
  <2>1. /\ delay_' \in kInitialSleep .. kMaxSleep
        /\ delay_' <= delay_ + delay_
    BY <1>6, DoubledBounds DEF WakesUp
  <2>2. /\ slept' \in 0 .. kMaxSleep
        /\ slept' >= slept
        /\ delay_' <= slept' + kInitialSleep
    BY <1>6, <2>1 DEF WakesUp, Least
  <2> QED
    BY <1>6, <2>1, <2>2 DEF WakesUp
<1>7. CASE BecomesReady
  BY <1>7 DEF BecomesReady
<1>8. CASE TakenByOther
  BY <1>8 DEF TakenByOther
<1>9. CASE close
  BY <1>9 DEF close
<1>10. CASE UNCHANGED vars
  BY <1>10 DEF vars
<1> QED
  BY <1>1, <1>2, <1>3, <1>4, <1>5, <1>6, <1>7, <1>8, <1>9, <1>10
  DEF Next, Caller, wait, Others

(***************************************************************************)
(* The invariant behind the theorems below: what a call has slept earns    *)
(* its next delay, and it is late only by what it sleeps on.               *)
(***************************************************************************)
THEOREM LatenessInvHolds == Spec => []LatenessInv
  BY LatenessInit, LatenessStep, PTL DEF Spec

(***************************************************************************)
(* The members of Backoff stay in their bounds: wait() never yields more   *)
(* than kSpinsBeforeSleep times in a call nor asks for a sleep longer than *)
(* kMaxSleep.                                                              *)
(***************************************************************************)
THEOREM BackoffTypeCorrect == Spec => []TypeOK
<1>1. LatenessInv => TypeOK
  BY DEF LatenessInv
<1> QED
  BY <1>1, LatenessInvHolds, PTL

(***************************************************************************)
(* A blocked push() or pop() returns within kMaxSleep of the moment it     *)
(* could, whatever the other threads do and when.                          *)
(***************************************************************************)
THEOREM NoticedInTimeHolds == Spec => []NoticedInTime
<1>1. LatenessInv => NoticedInTime
  BY DEF LatenessInv
<1> QED
  BY <1>1, LatenessInvHolds, PTL

(***************************************************************************)
(* A blocked push() or pop() is late by at most what it has slept,         *)
(* kInitialSleep, and the Oversleep the system adds to its last sleep.     *)
(***************************************************************************)
THEOREM LateInProportionHolds == Spec => []LateInProportion
<1>1. LatenessInv => LateInProportion
  BY DEF LatenessInv
<1> QED
  BY <1>1, LatenessInvHolds, PTL
=============================================================================
