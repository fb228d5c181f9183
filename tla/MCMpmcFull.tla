----------------------------- MODULE MCMpmcFull -----------------------------
(***************************************************************************)
(* MpmcQueue with a history variable for what MpmcQueue::try_push promises *)
(* of a false result.                                                      *)
(***************************************************************************)
EXTENDS MpmcQueue

VARIABLE excused \* the producers that met a full or closed queue in their call

FullOrClosed == Enqueued - Dequeued >= Capacity \/ Latest(Closed)

FullInit == Init /\ excused = {}

FullNext ==
  /\ Next
  /\ excused' = {p \in Producers :
       \/ p \in excused /\ pc[p] # "idle"
       \/ pc[p] # "idle" /\ FullOrClosed
       \/ pc'[p] # "idle" /\ FullOrClosed'}

FullSpec == FullInit /\ [][FullNext]_<<vars, excused>>

(***************************************************************************)
(* try_push "@return false if the queue is full or closed"                 *)
(* (mpmc_queue.hpp): a failing call saw the queue full or closed at some   *)
(* moment between its start and its return.                                *)
(***************************************************************************)
TryPushFailsOnlyWhenFullOrClosed ==
  [][\A p \in Producers :
       op[p] = "try_push" /\ pc[p] # "asks" /\ pc'[p] = "asks"
         => p \in excused]_<<vars, excused>>
=============================================================================
