---------------------------- MODULE BoundedQueue ----------------------------
(***************************************************************************)
(* The contract the three queues share (README.md, "The contract"): a      *)
(* bounded FIFO with a close.  Nothing accepted is dropped, duplicated or  *)
(* reordered; what is queued at the close still comes out.                 *)
(*                                                                         *)
(* RefusesAfterClose tells MutexQueue, whose close and push exclude each   *)
(* other, from the lock-free queues, where a push that has passed its      *)
(* closed_ check may still land after the close.                           *)
(***************************************************************************)
EXTENDS Naturals, Sequences

CONSTANTS Item, Capacity, RefusesAfterClose

VARIABLES
  queue,      \* the accepted elements not yet delivered, oldest first
  delivered,  \* the elements handed to consumers, in order
  closed

absVars == <<queue, delivered, closed>>

Accepted == {queue[i] : i \in DOMAIN queue}
              \cup {delivered[i] : i \in DOMAIN delivered}

Init ==
  /\ queue = <<>>
  /\ delivered = <<>>
  /\ closed = FALSE

\* Every element is pushed once, so accepting one again is a duplication.
Push(v) ==
  /\ Len(queue) < Capacity
  /\ RefusesAfterClose => ~closed
  /\ v \notin Accepted
  /\ queue' = Append(queue, v)
  /\ UNCHANGED <<delivered, closed>>

Pop ==
  /\ queue # <<>>
  /\ delivered' = Append(delivered, Head(queue))
  /\ queue' = Tail(queue)
  /\ UNCHANGED closed

Close ==
  /\ closed' = TRUE
  /\ UNCHANGED <<queue, delivered>>

Next == (\E v \in Item : Push(v)) \/ Pop \/ Close

Spec == Init /\ [][Next]_absVars
=============================================================================
