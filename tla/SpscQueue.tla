------------------------------ MODULE SpscQueue ------------------------------
(***************************************************************************)
(* src/src/spsc_queue.hpp: the ring between one producer and one consumer. *)
(* One action per access to shared memory.  An acquire load of the other   *)
(* thread's counter may return any value that counter had since the loads  *)
(* of this thread last saw it: the release stores publish slots, they do   *)
(* not make the counters agree.  A slot holds Torn from the moment the     *)
(* producer begins to copy a value into it until the copy is complete, so  *)
(* a copy out of a slot that overlaps the copy into it returns Torn.       *)
(*                                                                         *)
(* The counters are unsigned and wrap at Modulus (2^64 in the program).    *)
(* The slot of a counter is the counter modulo the capacity, which is      *)
(* continuous across the wrap only if the capacity divides Modulus; the    *)
(* assumption says so, and for another capacity the model speaks of the    *)
(* first 2^64 operations.  Both users reject a capacity of 0.              *)
(*                                                                         *)
(* Both threads are the loops of run_partition_lab and run_round: the      *)
(* producer offers a value until it is accepted, the consumer polls.       *)
(***************************************************************************)
EXTENDS Naturals, Sequences

CONSTANTS Values, Capacity, Modulus

ASSUME CapacityAssumption ==
  /\ Capacity \in Nat \ {0}
  /\ Modulus \in Nat
  /\ Modulus > Capacity
  /\ Modulus % Capacity = 0

VARIABLES head,      \* head_: how many values have been taken, modulo Modulus
          tail,      \* tail_: how many values have been published, modulo Modulus
          slots,     \* slots_
          producer,  \* where try_push is, the value offered, the head_ it has seen
          consumer   \* where try_pop is, the value copied, the value of the last
             \* successful call, the tail_ it has seen

vars == <<head, tail, slots, producer, consumer>>

Counters == 0..(Modulus - 1)
Indexes == 0..(Capacity - 1)
NoValue == "none"
Torn == "torn"

\* Unsigned arithmetic on counters.
Wrap(n) == n % Modulus
Distance(from, to) == Wrap(Modulus + to - from)

SlotOf(n) == n % Capacity

\* The values a load of a counter may return to a thread that has seen `seen`.
\* The slip: the thread keeps the value it has cached.
CachedOnly(seen, current) == {seen}
Visible(seen, current) == {Wrap(seen + k) : k \in 0..Distance(seen, current)}

\* The slips: one value too many, and a slot that is never used.
FullLate(h) == Distance(h, tail) > Capacity
FullEarly(h) == Distance(h, tail) >= Capacity - 1
Full(h) == Distance(h, tail) = Capacity

Empty(t) == head = t

Init ==
  /\ head = 0
  /\ tail = 0
  /\ slots = [i \in Indexes |-> NoValue]
  /\ producer = [at |-> "idle", value |-> NoValue, head |-> 0]
  /\ consumer = [at |-> "idle", value |-> NoValue, popped |-> NoValue, tail |-> 0]

(***************************************************************************)
(* try_push.                                                               *)
(***************************************************************************)
Offer(v) ==
  /\ producer.at = "idle"
  /\ producer' = [producer EXCEPT !.at = "load", !.value = v]
  /\ UNCHANGED <<head, tail, slots, consumer>>

\* A full queue refuses the value, and the producer offers it again.
LoadHead(h) ==
  /\ producer.at \in {"load", "refused"}
  /\ h \in Visible(producer.head, head)
  /\ producer' = [producer EXCEPT !.head = h, !.at = IF Full(h) THEN "refused" ELSE "write"]
  /\ UNCHANGED <<head, tail, slots, consumer>>

BeginWrite ==
  /\ producer.at = "write"
  /\ producer' = [producer EXCEPT !.at = "writing"]
  /\ slots' = [slots EXCEPT ![SlotOf(tail)] = Torn]
  /\ UNCHANGED <<head, tail, consumer>>

EndWrite ==
  /\ producer.at = "writing"
  /\ producer' = [producer EXCEPT !.at = "publish"]
  /\ slots' = [slots EXCEPT ![SlotOf(tail)] = producer.value]
  /\ UNCHANGED <<head, tail, consumer>>

Publish ==
  /\ producer.at = "publish"
  /\ producer' = [producer EXCEPT !.at = "idle"]
  /\ tail' = Wrap(tail + 1)
  /\ UNCHANGED <<head, slots, consumer>>

(***************************************************************************)
(* try_pop.                                                                *)
(***************************************************************************)
LoadTail(t) ==
  /\ consumer.at \in {"idle", "empty"}
  /\ t \in Visible(consumer.tail, tail)
  /\ consumer' = [consumer EXCEPT !.tail = t, !.at = IF Empty(t) THEN "empty" ELSE "read"]
  /\ UNCHANGED <<head, tail, slots, producer>>

Read ==
  /\ consumer.at = "read"
  /\ consumer' = [consumer EXCEPT !.at = "release", !.value = slots[SlotOf(head)]]
  /\ UNCHANGED <<head, tail, slots, producer>>

Release ==
  /\ consumer.at = "release"
  /\ consumer' = [consumer EXCEPT !.at = "idle", !.popped = consumer.value]
  /\ head' = Wrap(head + 1)
  /\ UNCHANGED <<tail, slots, producer>>

Next ==
  \/ \E v \in Values : Offer(v)
  \/ \E h \in Counters : LoadHead(h)
  \/ BeginWrite \/ EndWrite \/ Publish
  \/ \E t \in Counters : LoadTail(t)
  \/ Read \/ Release

\* Both threads are scheduled, and a store is eventually seen by the loads of the
\* other thread.  Nothing obliges the producer to offer another value.
Fairness ==
  /\ WF_vars(LoadHead(head)) /\ WF_vars(BeginWrite \/ EndWrite \/ Publish)
  /\ WF_vars(LoadTail(tail)) /\ WF_vars(Read \/ Release)

Spec == Init /\ [][Next]_vars /\ Fairness
-----------------------------------------------------------------------------
(***************************************************************************)
(* Properties.                                                             *)
(***************************************************************************)
TypeOK ==
  /\ head \in Counters /\ tail \in Counters
  /\ slots \in [Indexes -> Values \cup {NoValue, Torn}]
  /\ producer \in [at : {"idle", "load", "refused", "write", "writing", "publish"},
                   value : Values \cup {NoValue}, head : Counters]
  /\ consumer \in [at : {"idle", "empty", "read", "release"},
                   value : Values \cup {NoValue}, popped : Values \cup {NoValue},
                   tail : Counters]

\* The published values that have not been taken, in order.
Buffer ==
  [k \in 1..Distance(head, tail) |-> slots[SlotOf(Wrap(head + k - 1))]]

\* The threads' views never get out of the window between the two counters, and
\* the slot the consumer copies is never one the producer is copying into, however
\* stale the counters they loaded: there is no data race on slots_.
NoSlotRace ==
  /\ Distance(head, tail) <= Capacity
  /\ Distance(producer.head, tail) <= Capacity
  /\ consumer.at = "read" /\ producer.at \in {"write", "writing"} => SlotOf(head) # SlotOf(tail)

\* No slot is lost and no value overlooked, however old the counters.  Until a refused
\* producer tries again, the values in the ring and those the consumer has taken since
\* the counter the producer loaded make up the whole capacity; until a consumer that
\* found nothing looks again, every value in the ring was published after the counter
\* it loaded.
RefusedForReason ==
  /\ producer.at = "refused" => Len(Buffer) + Distance(producer.head, head) = Capacity
  /\ consumer.at = "empty" => Len(Buffer) = Distance(consumer.tail, tail)

\* Neither thread waits for ever on the other, though each may have been refused on an
\* old value of the other's counter: a value that has been published is taken in its
\* turn, and an offer is accepted in the end.
NeitherWaitsForEver ==
  /\ \A n \in Counters : (head = n /\ tail # n) ~> head # n
  /\ producer.at # "idle" ~> producer.at = "idle"

\* Accepted values are handed over whole, once each and in order: the ring is a
\* bounded first-in first-out buffer, an offer taking effect with the store to
\* tail_ and a delivery with the store to head_.
Promise == INSTANCE BoundedFifo
  WITH offered <- producer.value, buffer <- Buffer, delivered <- consumer.popped

ImplementsBoundedFifo == Promise!Spec
==============================================================================
