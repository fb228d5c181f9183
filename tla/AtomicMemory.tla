---------------------------- MODULE AtomicMemory ----------------------------
(***************************************************************************)
(* The shared memory of the two lock-free queues: C++20 std::atomic with   *)
(* relaxed, acquire and release accesses, and the plain (non-atomic) slots *)
(* they guard.  It is the view semantics of release/acquire:               *)
(*                                                                         *)
(*   - every location has a modification order, the sequence of all the    *)
(*     messages ever stored there;                                         *)
(*   - every thread has a view: for each location, the newest message      *)
(*     whose store happens before the thread's next step or that the       *)
(*     thread has read.  A load may return any message that is not older   *)
(*     than the view (read coherence), so it may be stale;                 *)
(*   - a release store puts the storing thread's view into its message and *)
(*     an acquire load of that message joins it to the loading thread's.   *)
(*                                                                         *)
(* A plain location is accessed safely only by a thread whose view of it   *)
(* is its last message; any other access is a data race.  Moving a value   *)
(* out of a slot modifies the slot, so it is an access like a write.       *)
(***************************************************************************)
EXTENDS Naturals, Sequences

CONSTANT Staleness \* how many stores behind the newest a load may lag

ASSUME StalenessAssumption == Staleness \in Nat

VARIABLES
  mo,   \* mo[x]: the messages of location x, in modification order
  view  \* view[t][x]: index in mo[x] of the newest message t knows of

memory == <<mo, view>>

-----------------------------------------------------------------------------
Join(v, w) == [x \in DOMAIN v |-> IF v[x] < w[x] THEN w[x] ELSE v[x]]

\* What a store that is not a release publishes: nothing.
NoView == [x \in DOMAIN mo |-> 0]

Message(v, w) == [val |-> v, view |-> w]

Newest(x) == mo[x][Len(mo[x])]

Latest(x) == Newest(x).val

\* The messages a load of x by thread t may return.
Readable(t, x) ==
  {k \in view[t][x] .. Len(mo[x]) : Len(mo[x]) - k <= Staleness}

UpToDate(t, x) == view[t][x] = Len(mo[x])

-----------------------------------------------------------------------------
(***************************************************************************)
(* x.load(): thread t reads message k of x.                                *)
(***************************************************************************)
LoadRelaxed(t, x, k) ==
  /\ view' = [view EXCEPT ![t] = [@ EXCEPT ![x] = k]]
  /\ UNCHANGED mo

LoadAcquire(t, x, k) ==
  /\ view' = [view EXCEPT ![t] = Join([@ EXCEPT ![x] = k], mo[x][k].view)]
  /\ UNCHANGED mo

(***************************************************************************)
(* Stores go to the end of the modification order: the threads that store  *)
(* to one location of these queues have always seen its newest message     *)
(* (StoresInOrder of the queue modules).                                   *)
(***************************************************************************)
Put(t, x, m) ==
  /\ mo' = [mo EXCEPT ![x] = Append(@, m)]
  /\ view' = [view EXCEPT ![t] = [@ EXCEPT ![x] = Len(mo[x]) + 1]]

StoreRelaxed(t, x, v) == Put(t, x, Message(v, NoView))

StoreRelease(t, x, v) ==
  Put(t, x, Message(v, [view[t] EXCEPT ![x] = Len(mo[x]) + 1]))

\* A successful relaxed read-modify-write reads the newest message and
\* continues its release sequence.
ExchangeRelaxed(t, x, v) == Put(t, x, Message(v, Newest(x).view))

\* A plain write or move-out; a race if ~UpToDate(t, x).
Access(t, x, v) == Put(t, x, Message(v, NoView))

\* thread u has ended and t joins it.
JoinThread(t, u) ==
  /\ view' = [view EXCEPT ![t] = Join(@, view[u])]
  /\ UNCHANGED mo
=============================================================================
