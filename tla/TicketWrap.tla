----------------------------- MODULE TicketWrap -----------------------------
(***************************************************************************)
(* The ticket arithmetic of cq::MpmcQueue in machine words.  MpmcQueue     *)
(* models tickets as natural numbers; here they and the sequences are      *)
(* words of Width bits that wrap, as std::size_t does, slot_index() masks  *)
(* or divides, and differences are read as signed.                         *)
(*                                                                         *)
(* Memory is sequentially consistent here: what loads may return is the    *)
(* subject of MpmcQueue.  A thread repeats try_enqueue() or try_dequeue()  *)
(* for ever, so the positions go around the words again and again.  The    *)
(* element of a ticket is represented by that ticket.                      *)
(***************************************************************************)
EXTENDS Integers, FiniteSets, Bitwise

CONSTANTS
  Producers, Consumers,  \* the threads
  Capacities,            \* the capacities a queue is constructed with
  Width,                 \* bits of std::size_t
  MaxLag,                \* bound: tickets a thread sleeps through in an attempt
  Empty                  \* a default-constructed or moved-from slot

Modulus == 2^Width

(***************************************************************************)
(* A signed difference can be read as long as it is less than half the     *)
(* words; doubled tickets leave a quarter of the words for a thread's lag  *)
(* and the ring: with 64 bits, 2^62 tickets.                               *)
(***************************************************************************)
ASSUME WrapAssumption ==
  /\ Width \in Nat /\ MaxLag \in Nat
  /\ \A n \in Capacities :
       n \in Nat \ {0} /\ 2 * (MaxLag + n) + 1 < Modulus \div 2

VARIABLES
  sequence, value,            \* the slots
  enqueue_pos_, dequeue_pos_,
  pc, ticket,                 \* of each thread
  lag,     \* history: tickets its side handed out since it loaded its own
  queued,  \* history: tickets won by producers and not yet by consumers
  jumped   \* history: enqueue_pos_ has wrapped where ticket % size() jumps

slots_ == <<sequence, value>>
positions == <<enqueue_pos_, dequeue_pos_>>
history == <<lag, queued, jumped>>
vars == <<slots_, positions, pc, ticket, history>>

-----------------------------------------------------------------------------
Threads == Producers \cup Consumers
Side(t) == IF t \in Producers THEN Producers ELSE Consumers
Pos(t) == IF t \in Producers THEN enqueue_pos_ ELSE dequeue_pos_

Capacity == Cardinality(DOMAIN sequence)

\* Arithmetic of std::size_t, and its cast to std::ptrdiff_t.
Wrap(n) == n % Modulus

\* Mutant: the difference is not read as signed.
SignedDropped(n) == Wrap(n)

Signed(n) == IF Wrap(n) < Modulus \div 2 THEN Wrap(n) ELSE Wrap(n) - Modulus

has_single_bit(n) == n # 0 /\ (n & (n - 1)) = 0

mask_ == IF has_single_bit(Capacity) THEN Capacity - 1 ELSE 0

FreeFor(k) == Wrap(2 * k)
HoldsDataOf(k) == Wrap(FreeFor(k) + 1)

\* Mutant: the index is taken from the doubled ticket.
slot_indexDoubled(k) == (FreeFor(k) \div 2) % Capacity

slot_index(k) == IF mask_ # 0 THEN k & mask_ ELSE k % Capacity

Expected(t) ==
  IF t \in Producers THEN FreeFor(ticket[t]) ELSE HoldsDataOf(ticket[t])

TicketSlot(t) == slot_index(ticket[t])

Goto(t, l) == pc' = [pc EXCEPT ![t] = l]

\* The constructor.
Init ==
  /\ \E n \in Capacities :
       /\ sequence = [i \in 0 .. n - 1 |-> Wrap(2 * i)]
       /\ value = [i \in 0 .. n - 1 |-> Empty]
  /\ enqueue_pos_ = 0
  /\ dequeue_pos_ = 0
  /\ pc = [t \in Threads |-> "idle"]
  /\ ticket = [t \in Threads |-> 0]
  /\ lag = [t \in Threads |-> 0]
  /\ queued = 0
  /\ jumped = FALSE

-----------------------------------------------------------------------------
\* A new attempt, or another round of one whose ticket was taken.
LoadsPos(t) ==
  /\ pc[t] \in {"idle", "pos"}
  /\ ticket' = [ticket EXCEPT ![t] = Pos(t)]
  /\ lag' = [lag EXCEPT ![t] = 0]
  /\ Goto(t, "seq")
  /\ UNCHANGED <<slots_, positions, queued, jumped>>

\* Mutant: a sequence that is not behind counts as ours.
LoadsSequenceAtLeast(t) ==
  /\ pc[t] = "seq"
  /\ LET dif == Signed(sequence[TicketSlot(t)] - Expected(t))
     IN  Goto(t, IF dif >= 0 THEN "cas" ELSE "idle")
  /\ UNCHANGED <<slots_, positions, ticket, history>>

\* Ours; the previous lap is unfinished (full or empty); the ticket is gone.
LoadsSequence(t) ==
  /\ pc[t] = "seq"
  /\ LET dif == Signed(sequence[TicketSlot(t)] - Expected(t))
     IN  Goto(t, CASE dif = 0 -> "cas" [] dif < 0 -> "idle" [] dif > 0 -> "pos")
  /\ UNCHANGED <<slots_, positions, ticket, history>>

\* t's side hands out the ticket at its position.  MaxLag bounds the lags.
TakesTicket(t) ==
  /\ IF t \in Producers
     THEN /\ enqueue_pos_' = Wrap(enqueue_pos_ + 1)
          /\ queued' = queued + 1
          /\ jumped' = (jumped \/ (enqueue_pos_' = 0 /\ ~has_single_bit(Capacity)))
          /\ UNCHANGED dequeue_pos_
     ELSE /\ dequeue_pos_' = Wrap(dequeue_pos_ + 1)
          /\ queued' = queued - 1
          /\ UNCHANGED <<enqueue_pos_, jumped>>
  /\ \A u \in Side(t) \ {t} : pc[u] \in {"seq", "cas"} => lag[u] < MaxLag
  /\ lag' = [u \in Threads |-> IF u \in Side(t) \ {t} /\ pc[u] \in {"seq", "cas"}
                               THEN lag[u] + 1 ELSE lag[u]]

\* Mutant: any ticket wins.
CasSucceedsBlindly(t) ==
  /\ pc[t] = "cas"
  /\ TakesTicket(t)
  /\ Goto(t, "slot")
  /\ UNCHANGED <<slots_, ticket>>

CasSucceeds(t) ==
  /\ pc[t] = "cas"
  /\ Pos(t) = ticket[t]
  /\ TakesTicket(t)
  /\ Goto(t, "slot")
  /\ UNCHANGED <<slots_, ticket>>

\* Also spuriously; the failed CAS reloads the ticket.
CasFails(t) ==
  /\ pc[t] = "cas"
  /\ ticket' = [ticket EXCEPT ![t] = Pos(t)]
  /\ lag' = [lag EXCEPT ![t] = 0]
  /\ Goto(t, "seq")
  /\ UNCHANGED <<slots_, positions, queued, jumped>>

\* The slot is written (moved out of) and its sequence stored.
Uses(t, v, s) ==
  /\ pc[t] = "slot"
  /\ value' = [value EXCEPT ![TicketSlot(t)] = v]
  /\ sequence' = [sequence EXCEPT ![TicketSlot(t)] = s]
  /\ Goto(t, "idle")
  /\ UNCHANGED <<positions, ticket, history>>

PublishesSlot(p) == Uses(p, ticket[p], HoldsDataOf(ticket[p]))

FreesSlot(c) == Uses(c, Empty, FreeFor(ticket[c] + Capacity))

Attempt(t) == LoadsPos(t) \/ LoadsSequence(t) \/ CasSucceeds(t) \/ CasFails(t)

Next ==
  \/ \E p \in Producers : Attempt(p) \/ PublishesSlot(p)
  \/ \E c \in Consumers : Attempt(c) \/ FreesSlot(c)

Spec == Init /\ [][Next]_vars

-----------------------------------------------------------------------------
\* size() of a loaded tail and head.
size(tail, head) ==
  LET dif == Signed(tail - head)
  IN  IF dif < 0 THEN 0 ELSE IF dif < Capacity THEN dif ELSE Capacity

InSlot(t) == pc[t] = "slot"

Busy(S, i) == \E t \in S : InSlot(t) /\ TicketSlot(t) = i

(***************************************************************************)
(* The ring keeps working across the wrap of the doubled tickets and, with *)
(* a power of two, across that of the tickets, round after round: whenever *)
(* there is room, the slot slot_index() gives for the next ticket is free  *)
(* for it unless a consumer is still in it, and whenever there is data,    *)
(* the next slot holds it unless its producer is still in it.  Otherwise   *)
(* no later try_push() or try_pop() would succeed.  With another capacity  *)
(* this ends with the last ticket before the wrap (2^64 pushes).  The      *)
(* comment in mpmc_queue.ipp says that such indexing would go wrong at the *)
(* wrap of the doubled tickets already (2^63); this property says not.     *)
(***************************************************************************)
ReadyUnlessBusy ==
  ~jumped =>
  LET e == slot_index(enqueue_pos_)
      d == slot_index(dequeue_pos_)
  IN  /\ queued < Capacity /\ ~Busy(Consumers, e)
           => sequence[e] = FreeFor(enqueue_pos_)
      /\ queued > 0 /\ ~Busy(Producers, d)
           => sequence[d] = HoldsDataOf(dequeue_pos_)

(***************************************************************************)
(* Where the tickets wrap, the indices of a capacity that is no power of   *)
(* two jump.  There the ring stops and corrupts nothing: no producer is    *)
(* ever handed a ticket after the wrap, although sequences in the slots    *)
(* belong to tickets on both sides of it.                                  *)
(***************************************************************************)
StopsAtTheJump == jumped => enqueue_pos_ = 0

(***************************************************************************)
(* Whoever has won a ticket is alone in its slot, and finds what its turn  *)
(* is for: a producer an empty slot, a consumer the element of its ticket. *)
(* This holds past the jump too, for the elements that are still queued.   *)
(***************************************************************************)
AloneWithItsElement ==
  \A t \in Threads : InSlot(t) =>
    /\ value[TicketSlot(t)] = IF t \in Producers THEN Empty ELSE ticket[t]
    /\ \A u \in Threads \ {t} : InSlot(u) => TicketSlot(u) # TicketSlot(t)

(***************************************************************************)
(* The sign of the difference is read right however the words have         *)
(* wrapped between the loads: an attempt reloads its ticket only if it was *)
(* taken, and gives up only on a ticket that was not.  Up to the jump:     *)
(* there an attempt reloads a ticket that nobody has taken.                *)
(***************************************************************************)
SignsReadRight ==
  [][\A t \in Threads : pc[t] = "seq" /\ ~jumped =>
       /\ pc'[t] = "pos" => lag[t] > 0
       /\ pc'[t] = "idle" => lag[t] = 0]_vars

(***************************************************************************)
(* size() of a tail and a head loaded up to MaxLag tickets ago is their    *)
(* true difference, clamped, on whichever side of the wrap each of them    *)
(* is.                                                                     *)
(***************************************************************************)
SizeAcrossWrap ==
  \A a, b \in 0 .. MaxLag :
    LET dif == queued - a + b
    IN  size(Wrap(enqueue_pos_ - a), Wrap(dequeue_pos_ - b))
          = IF dif < 0 THEN 0 ELSE IF dif > Capacity THEN Capacity ELSE dif
=============================================================================
