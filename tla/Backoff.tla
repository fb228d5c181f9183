------------------------------ MODULE Backoff ------------------------------
(***************************************************************************)
(* cq::Backoff (include/cq/backoff.hpp) and the loop that drives it in     *)
(* push() and pop() of the lock-free queues: look at the queue, and while  *)
(* the call has to wait, call wait(), which yields kSpinsBeforeSleep times *)
(* and after that sleeps, twice as long each time up to kMaxSleep.         *)
(*                                                                         *)
(* Nobody wakes a sleeper.  The queue becomes ready for the call, is       *)
(* closed, or is taken by another thread of its side at any moment, and    *)
(* the call finds out when it looks again.  Time is counted in             *)
(* microseconds and passes while the call sleeps; a sleep may end up to    *)
(* Oversleep later than asked, as sleep_for() allows.                      *)
(***************************************************************************)
EXTENDS Naturals

CONSTANTS
  kSpinsBeforeSleep, kInitialSleep, kMaxSleep,
  Oversleep \* the most the system adds to a sleep

ASSUME BackoffAssumption ==
  /\ kSpinsBeforeSleep \in Nat
  /\ kInitialSleep \in Nat \ {0}
  /\ kMaxSleep \in Nat
  /\ kInitialSleep <= kMaxSleep
  /\ Oversleep \in Nat

VARIABLES
  pc,              \* where the call is: it looks, waits, sleeps
  spins_, delay_,  \* the members of its Backoff
  left,            \* how much longer its sleep may last
  slept,           \* the sleeps of the call so far; counted up to kMaxSleep
  wake,            \* why the call could return: "none", "ready", "closed"
  late             \* for how long it could have returned

backoff == <<spins_, delay_>>
vars == <<pc, backoff, left, slept, wake, late>>

-----------------------------------------------------------------------------
Least(m, n) == IF m < n THEN m ELSE n

\* Mutants: no cap; a factor of four.
DoubledNoCap(d) == d * 2
DoubledTwice(d) == Least(d * 4, kMaxSleep)

\* std::min(delay_ * 2, kMaxSleep).
Doubled(d) == Least(d * 2, kMaxSleep)

Init ==
  /\ pc = "idle"
  /\ spins_ = 0
  /\ delay_ = kInitialSleep
  /\ left = 0
  /\ slept = 0
  /\ wake = "none"
  /\ late = 0

\* push() or pop() begins, with a Backoff of its own.
Call ==
  /\ pc = "idle"
  /\ pc' = "looks"
  /\ spins_' = 0
  /\ delay_' = kInitialSleep
  /\ slept' = 0
  /\ late' = 0
  /\ UNCHANGED <<left, wake>>

\* The attempt and the look at closed_: the call returns, or has to wait.
Looks ==
  /\ pc = "looks"
  /\ pc' = IF wake = "none" THEN "waits" ELSE "idle"
  /\ UNCHANGED <<backoff, left, slept, wake, late>>

\* Mutant: the yields are not counted.
YieldsUncounted ==
  /\ pc = "waits"
  /\ spins_ < kSpinsBeforeSleep
  /\ pc' = "looks"
  /\ UNCHANGED <<backoff, left, slept, wake, late>>

\* wait() while spins remain.
Yields ==
  /\ pc = "waits"
  /\ spins_ < kSpinsBeforeSleep
  /\ spins_' = spins_ + 1
  /\ pc' = "looks"
  /\ UNCHANGED <<delay_, left, slept, wake, late>>

\* wait() after that: sleep_for(delay_).
FallsAsleep ==
  /\ pc = "waits"
  /\ spins_ >= kSpinsBeforeSleep
  /\ pc' = "asleep"
  /\ left' = delay_ + Oversleep
  /\ UNCHANGED <<backoff, slept, wake, late>>

Tick ==
  /\ pc = "asleep"
  /\ left > 0
  /\ left' = left - 1
  /\ late' = IF wake = "none" THEN 0 ELSE late + 1
  /\ UNCHANGED <<pc, backoff, slept, wake>>

\* The sleep is over; the next one is longer.
WakesUp ==
  /\ pc = "asleep"
  /\ left <= Oversleep
  /\ pc' = "looks"
  /\ delay_' = Doubled(delay_)
  /\ slept' = Least(slept + delay_, kMaxSleep)
  /\ UNCHANGED <<spins_, left, wake, late>>

-----------------------------------------------------------------------------
(***************************************************************************)
(* The other threads: one makes room or publishes an element, one of the   *)
(* call's own side takes it, one closes the queue.                         *)
(***************************************************************************)
BecomesReady ==
  /\ wake = "none"
  /\ wake' = "ready"
  /\ UNCHANGED <<pc, backoff, left, slept, late>>

TakenByOther ==
  /\ wake = "ready"
  /\ wake' = "none"
  /\ late' = 0
  /\ UNCHANGED <<pc, backoff, left, slept>>

\* The call could return from now on, or already could.
close ==
  /\ wake # "closed"
  /\ wake' = "closed"
  /\ UNCHANGED <<pc, backoff, left, slept, late>>

-----------------------------------------------------------------------------
wait == Yields \/ FallsAsleep \/ WakesUp
Caller == Call \/ Looks \/ wait
Others == BecomesReady \/ TakenByOther \/ close

Next == Caller \/ Tick \/ Others

Spec == Init /\ [][Next]_vars

\* The caller is scheduled and time passes; nothing is assumed of the others.
FairSpec == Spec /\ WF_vars(Caller) /\ WF_vars(Tick)

-----------------------------------------------------------------------------
(***************************************************************************)
(* Every variable has its type, the delay within its two bounds.           *)
(***************************************************************************)
TypeOK ==
  /\ pc \in {"idle", "looks", "waits", "asleep"}
  /\ spins_ \in 0 .. kSpinsBeforeSleep
  /\ delay_ \in kInitialSleep .. kMaxSleep
  /\ left \in 0 .. kMaxSleep + Oversleep
  /\ slept \in 0 .. kMaxSleep
  /\ wake \in {"none", "ready", "closed"}
  /\ late \in Nat

(***************************************************************************)
(* "wakeup within kMaxSleep" (mpmc_queue.hpp, spsc_queue.hpp): a blocked   *)
(* call returns no later than that (and what the system adds to a sleep)   *)
(* after an element, room or the close has come, although nobody notifies  *)
(* it and although what it was about to take may be taken away again.      *)
(***************************************************************************)
NoticedInTime == late <= kMaxSleep + Oversleep

(***************************************************************************)
(* What the doubling is for: a call is late by no more than it has already *)
(* had to sleep and the first sleep, so a short wait stays short (up to    *)
(* Oversleep, which the system may add to the sleep it is in).             *)
(***************************************************************************)
LateInProportion == late <= slept + kInitialSleep + Oversleep

(***************************************************************************)
(* "near-zero CPU while blocked" (mpmc_queue.hpp): a call does not spin    *)
(* for ever; again and again it sleeps or has returned.                    *)
(***************************************************************************)
SleepsWhileBlocked == []<>(pc \in {"idle", "asleep"})
=============================================================================
