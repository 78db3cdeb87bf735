--------------------------- MODULE SpscQueueProofs ---------------------------
(***************************************************************************)
(* Theorems about the ring, for every capacity, every modulus of the       *)
(* counters the capacity divides, and every set of values: its threads     *)
(* never touch a slot together, and it implements BoundedFifo.             *)
(***************************************************************************)
EXTENDS SpscQueue, SequenceTheorems, TLAPS

(***************************************************************************)
(* Arithmetic on counters that wrap.                                       *)
(***************************************************************************)
LEMMA NextCounter ==
  ASSUME NEW n \in Counters
  PROVE  /\ Wrap(n + 1) \in Counters
         /\ Wrap(n + 1) = IF n = Modulus - 1 THEN 0 ELSE n + 1
BY CapacityAssumption DEF Wrap, Counters

LEMMA DistanceFacts ==
  ASSUME NEW a \in Counters, NEW b \in Counters
  PROVE  /\ Distance(a, b) \in 0..(Modulus - 1)
         /\ Distance(a, b) = IF a <= b THEN b - a ELSE (Modulus + b) - a
BY CapacityAssumption DEF Distance, Wrap, Counters

\* b lies on the way from a to c.
OnTheWay(a, b, c) == Distance(a, b) + Distance(b, c) = Distance(a, c)

\* A load returns a counter on the way from the one last seen to the current one.
LEMMA VisibleFacts ==
  ASSUME NEW seen \in Counters, NEW current \in Counters, NEW n \in Visible(seen, current)
  PROVE  n \in Counters /\ OnTheWay(seen, n, current)
<1>1. PICK k \in 0..Distance(seen, current) : n = Wrap(seen + k)
  BY DEF Visible
<1>2. k \in 0..(Modulus - 1)
  BY <1>1, DistanceFacts, CapacityAssumption
<1>3. n = IF seen + k < Modulus THEN seen + k ELSE (seen + k) - Modulus
  BY <1>1, <1>2, CapacityAssumption DEF Wrap, Counters
<1>4. n \in Counters
  BY <1>2, <1>3, CapacityAssumption DEF Counters
<1>5. /\ Distance(seen, n) = IF seen <= n THEN n - seen ELSE (Modulus + n) - seen
      /\ Distance(n, current) = IF n <= current THEN current - n ELSE (Modulus + current) - n
      /\ Distance(seen, current) =
           IF seen <= current THEN current - seen ELSE (Modulus + current) - seen
  BY <1>4, DistanceFacts
<1>6. k <= Distance(seen, current)
  BY <1>1, DistanceFacts
<1>7. CASE seen <= current
  BY <1>2, <1>3, <1>4, <1>5, <1>6, <1>7, CapacityAssumption DEF OnTheWay, Counters
<1>8. CASE current < seen
  BY <1>2, <1>3, <1>4, <1>5, <1>6, <1>8, CapacityAssumption DEF OnTheWay, Counters
<1> QED
  BY <1>4, <1>7, <1>8 DEF Counters

LEMMA OnTheWayTwice ==
  ASSUME NEW a \in Counters, NEW b \in Counters, NEW c \in Counters, NEW d \in Counters,
         OnTheWay(a, b, c), OnTheWay(a, c, d)
  PROVE  OnTheWay(a, b, d) /\ OnTheWay(b, c, d)
<1> DEFINE Gap(x, y) == IF x <= y THEN y - x ELSE (Modulus + y) - x
<1>1. /\ Distance(a, b) = Gap(a, b) /\ Distance(b, c) = Gap(b, c)
      /\ Distance(a, c) = Gap(a, c) /\ Distance(c, d) = Gap(c, d)
      /\ Distance(a, d) = Gap(a, d) /\ Distance(b, d) = Gap(b, d)
  BY DistanceFacts
<1> QED
  BY <1>1, CapacityAssumption DEF OnTheWay, Counters

LEMMA OnTheWayLast ==
  ASSUME NEW a \in Counters, NEW b \in Counters, NEW c \in Counters, NEW d \in Counters,
         OnTheWay(a, b, d), OnTheWay(b, c, d)
  PROVE  OnTheWay(a, c, d)
<1> DEFINE Gap(x, y) == IF x <= y THEN y - x ELSE (Modulus + y) - x
<1>1. /\ Distance(a, b) = Gap(a, b) /\ Distance(b, c) = Gap(b, c)
      /\ Distance(a, c) = Gap(a, c) /\ Distance(c, d) = Gap(c, d)
      /\ Distance(a, d) = Gap(a, d) /\ Distance(b, d) = Gap(b, d)
  BY DistanceFacts
<1> QED
  BY <1>1, CapacityAssumption DEF OnTheWay, Counters

\* One step of the counter the distance goes to, and of the one it starts from.
LEMMA DistanceGrows ==
  ASSUME NEW a \in Counters, NEW b \in Counters, Distance(a, b) < Modulus - 1
  PROVE  Distance(a, Wrap(b + 1)) = Distance(a, b) + 1
<1>1. Distance(a, Wrap(b + 1)) =
        IF a <= Wrap(b + 1) THEN Wrap(b + 1) - a ELSE (Modulus + Wrap(b + 1)) - a
  BY NextCounter, DistanceFacts
<1>2. Distance(a, b) = IF a <= b THEN b - a ELSE (Modulus + b) - a
  BY DistanceFacts
<1> QED
  BY <1>1, <1>2, NextCounter, CapacityAssumption DEF Counters

LEMMA DistanceShrinks ==
  ASSUME NEW a \in Counters, NEW b \in Counters, a # b
  PROVE  Distance(Wrap(a + 1), b) = Distance(a, b) - 1
<1>1. Distance(Wrap(a + 1), b) =
        IF Wrap(a + 1) <= b THEN b - Wrap(a + 1) ELSE (Modulus + b) - Wrap(a + 1)
  BY NextCounter, DistanceFacts
<1>2. Distance(a, b) = IF a <= b THEN b - a ELSE (Modulus + b) - a
  BY DistanceFacts
<1> QED
  BY <1>1, <1>2, NextCounter, CapacityAssumption DEF Counters

LEMMA DistanceZero ==
  ASSUME NEW a \in Counters, NEW b \in Counters
  PROVE  Distance(a, b) = 0 <=> a = b
<1>1. Distance(a, b) = IF a <= b THEN b - a ELSE (Modulus + b) - a
  BY DistanceFacts
<1> QED
  BY <1>1, CapacityAssumption DEF Counters

(***************************************************************************)
(* Counters less than a capacity apart have different slots, also across   *)
(* the wrap: this is where the capacity must divide the modulus.           *)
(***************************************************************************)
LEMMA NoMultipleBetween ==
  ASSUME NEW c \in Nat \ {0}, NEW k \in Int, 0 < c * k, c * k < c
  PROVE  FALSE
OBVIOUS

LEMMA DivisionFacts ==
  ASSUME NEW a \in Nat, NEW b \in Nat \ {0}
  PROVE  /\ a \div b \in Nat
         /\ a = (b * (a \div b)) + (a % b)
OBVIOUS

LEMMA DifferentSlots ==
  ASSUME NEW a \in Counters, NEW b \in Counters,
         0 < Distance(a, b), Distance(a, b) < Capacity
  PROVE  SlotOf(a) # SlotOf(b)
<1> SUFFICES ASSUME a % Capacity = b % Capacity PROVE FALSE
  BY DEF SlotOf
<1> DEFINE p == a \div Capacity
           q == b \div Capacity
           m == Modulus \div Capacity
<1>1. a \in Nat /\ b \in Nat
  BY CapacityAssumption DEF Counters
<1>2. p \in Nat /\ q \in Nat /\ m \in Nat
  BY <1>1, CapacityAssumption, DivisionFacts
<1>3. /\ a = (Capacity * p) + (a % Capacity)
      /\ b = (Capacity * q) + (b % Capacity)
      /\ Modulus = (Capacity * m) + 0
  BY <1>1, CapacityAssumption, DivisionFacts
<1>4. a % Capacity \in Nat
  BY <1>1, CapacityAssumption
<1> HIDE DEF p, q, m
<1>5. CASE a <= b
  <2>1. Distance(a, b) = Capacity * (q - p)
    BY <1>1, <1>2, <1>3, <1>4, <1>5, DistanceFacts, CapacityAssumption
  <2> QED
    BY <2>1, <1>2, NoMultipleBetween, CapacityAssumption
<1>6. CASE b < a
  <2>1. Distance(a, b) = Capacity * ((m + q) - p)
    BY <1>1, <1>2, <1>3, <1>4, <1>6, DistanceFacts, CapacityAssumption
  <2> QED
    BY <2>1, <1>2, NoMultipleBetween, CapacityAssumption
<1> QED
  BY <1>1, <1>5, <1>6

(***************************************************************************)
(* The inductive invariant.                                                *)
(***************************************************************************)
Writing == producer.at \in {"write", "writing", "publish"}
Reading == consumer.at \in {"read", "release"}

\* What each thread has seen of the other lies between the two counters, and a thread
\* that is past its check acts on a slot the check has given it.
Window ==
  /\ OnTheWay(producer.head, head, tail)
  /\ OnTheWay(head, consumer.tail, tail)
  /\ Distance(producer.head, tail) <= Capacity
  /\ Writing => Distance(producer.head, tail) < Capacity
  /\ Reading => head # consumer.tail

\* A slot holds no value only while the producer copies into it.
TornOnlyWhileWriting ==
  \A i \in Indexes :
    slots[i] \notin Values \cup {NoValue} => producer.at = "writing" /\ i = SlotOf(tail)

IInv == TypeOK /\ Window /\ TornOnlyWhileWriting

\* In a state of the invariant the two threads are at different slots.
LEMMA SlotsApart ==
  ASSUME TypeOK, Window
  PROVE  /\ Distance(head, tail) <= Capacity
         /\ Reading /\ Writing => SlotOf(head) # SlotOf(tail)
<1>1. /\ head \in Counters /\ tail \in Counters
      /\ producer.head \in Counters /\ consumer.tail \in Counters
  BY DEF TypeOK
<1>2. /\ Distance(producer.head, head) \in Nat
      /\ Distance(head, consumer.tail) \in Nat
      /\ Distance(consumer.tail, tail) \in Nat
      /\ Distance(head, tail) \in Nat
      /\ Distance(producer.head, tail) \in Nat
  BY <1>1, DistanceFacts, CapacityAssumption
<1>3. Distance(head, tail) <= Distance(producer.head, tail)
  BY <1>2 DEF Window, OnTheWay
<1>4. Reading => 0 < Distance(head, tail)
  <2>1. Reading => Distance(head, consumer.tail) # 0
    BY <1>1, DistanceZero DEF Window
  <2> QED
    BY <2>1, <1>2 DEF Window, OnTheWay
<1>5. Reading /\ Writing => SlotOf(head) # SlotOf(tail)
  <2> SUFFICES ASSUME Reading, Writing PROVE SlotOf(head) # SlotOf(tail)
    OBVIOUS
  <2>1. Distance(head, tail) < Capacity
    BY <1>2, <1>3, CapacityAssumption DEF Window
  <2> QED
    BY <1>1, <1>4, <2>1, DifferentSlots
<1> QED
  BY <1>2, <1>3, <1>5, CapacityAssumption DEF Window

LEMMA IInvSaysEnough == IInv => TypeOK /\ NoSlotRace
<1> SUFFICES ASSUME IInv PROVE NoSlotRace
  BY DEF IInv
<1>1. Distance(producer.head, tail) <= Capacity
  BY DEF IInv, Window
<1> QED
  BY <1>1, SlotsApart DEF IInv, NoSlotRace, Reading, Writing

LEMMA SlotIsIndex ==
  ASSUME NEW n \in Counters
  PROVE  SlotOf(n) \in Indexes
BY CapacityAssumption DEF SlotOf, Indexes, Counters

LEMMA InitEstablishes == Init => IInv
<1> SUFFICES ASSUME Init PROVE IInv
  OBVIOUS
<1>1. 0 \in Counters
  BY CapacityAssumption DEF Counters
<1>2. TypeOK
  BY <1>1 DEF Init, TypeOK
<1>3. Distance(0, 0) = 0
  BY <1>1, DistanceZero
<1>4. Window
  BY <1>3, CapacityAssumption DEF Init, Window, OnTheWay, Writing, Reading
<1>5. TornOnlyWhileWriting
  BY DEF Init, TornOnlyWhileWriting
<1> QED
  BY <1>2, <1>4, <1>5 DEF IInv

(***************************************************************************)
(* One lemma per action.                                                   *)
(***************************************************************************)
LEMMA OfferPreserves ==
  ASSUME IInv, NEW v \in Values, Offer(v)
  PROVE  IInv'
<1>1. TypeOK'
  BY DEF IInv, TypeOK, Offer
<1>2. Window'
  BY DEF IInv, TypeOK, Window, Offer, Writing, Reading, OnTheWay, Distance, Wrap
<1>3. TornOnlyWhileWriting'
  BY DEF IInv, TypeOK, TornOnlyWhileWriting, Offer, SlotOf
<1> QED
  BY <1>1, <1>2, <1>3 DEF IInv

LEMMA LoadHeadPreserves ==
  ASSUME IInv, NEW h \in Counters, LoadHead(h)
  PROVE  IInv'
<1>1. /\ head \in Counters /\ tail \in Counters /\ producer.head \in Counters
      /\ UNCHANGED <<head, tail, slots, consumer>>
      /\ producer.at \in {"load", "refused"}
      /\ producer'.head = h
      /\ producer'.at = IF Full(h) THEN "refused" ELSE "write"
  BY DEF IInv, TypeOK, LoadHead
<1>2. TypeOK'
  BY DEF IInv, TypeOK, LoadHead
<1>3. OnTheWay(producer.head, h, head)
  BY <1>1, VisibleFacts DEF LoadHead
<1>4. OnTheWay(producer.head, head, tail) /\ Distance(producer.head, tail) <= Capacity
  BY DEF IInv, Window
<1>5. OnTheWay(producer.head, h, tail) /\ OnTheWay(h, head, tail)
  BY <1>1, <1>3, <1>4, OnTheWayTwice
<1>6. /\ Distance(producer.head, h) \in Nat /\ Distance(h, tail) \in Nat
      /\ Distance(producer.head, tail) \in Nat
  BY <1>1, DistanceFacts, CapacityAssumption
<1>7. Distance(h, tail) <= Capacity
  BY <1>4, <1>5, <1>6, CapacityAssumption DEF OnTheWay
<1>8. Writing' => Distance(h, tail) < Capacity
  BY <1>1, <1>6, <1>7, CapacityAssumption DEF Writing, Full
<1>9. Window'
  <2>1. OnTheWay(producer'.head, head', tail') /\ OnTheWay(head', consumer'.tail, tail')
    BY <1>1, <1>5 DEF IInv, Window
  <2>2. Distance(producer'.head, tail') <= Capacity
    BY <1>1, <1>7
  <2>3. Reading' => head' # consumer'.tail
    BY <1>1 DEF IInv, Window, Reading
  <2> QED
    BY <1>1, <1>8, <2>1, <2>2, <2>3 DEF Window, OnTheWay, Distance, Wrap
<1>10. TornOnlyWhileWriting'
  BY <1>1 DEF IInv, TornOnlyWhileWriting
<1> QED
  BY <1>2, <1>9, <1>10 DEF IInv

LEMMA BeginWritePreserves ==
  ASSUME IInv, BeginWrite
  PROVE  IInv'
<1>1. SlotOf(tail) \in Indexes
  BY SlotIsIndex DEF IInv, TypeOK
<1>2. TypeOK'
  BY <1>1 DEF IInv, TypeOK, BeginWrite
<1>3. Window'
  BY DEF IInv, TypeOK, Window, BeginWrite, Writing, Reading, OnTheWay, Distance, Wrap
<1>4. TornOnlyWhileWriting'
  BY <1>1 DEF IInv, TypeOK, TornOnlyWhileWriting, BeginWrite, SlotOf
<1> QED
  BY <1>2, <1>3, <1>4 DEF IInv

LEMMA EndWritePreserves ==
  ASSUME IInv, EndWrite
  PROVE  IInv'
<1>1. SlotOf(tail) \in Indexes
  BY SlotIsIndex DEF IInv, TypeOK
<1>2. TypeOK'
  BY <1>1 DEF IInv, TypeOK, EndWrite
<1>3. Window'
  BY DEF IInv, TypeOK, Window, EndWrite, Writing, Reading, OnTheWay, Distance, Wrap
<1>4. TornOnlyWhileWriting'
  BY <1>1 DEF IInv, TypeOK, TornOnlyWhileWriting, EndWrite, SlotOf
<1> QED
  BY <1>2, <1>3, <1>4 DEF IInv

LEMMA PublishPreserves ==
  ASSUME IInv, Publish
  PROVE  IInv'
<1>1. /\ head \in Counters /\ tail \in Counters
      /\ producer.head \in Counters /\ consumer.tail \in Counters
      /\ UNCHANGED <<head, slots, consumer>>
      /\ tail' = Wrap(tail + 1)
      /\ producer.at = "publish"
      /\ producer'.head = producer.head
      /\ producer'.at = "idle"
  BY DEF IInv, TypeOK, Publish
<1>2. TypeOK'
  BY <1>1, NextCounter DEF IInv, TypeOK, Publish
<1>3. /\ OnTheWay(producer.head, head, tail) /\ OnTheWay(head, consumer.tail, tail)
      /\ Distance(producer.head, tail) < Capacity
  BY <1>1 DEF IInv, Window, Writing
<1>4. \A a \in {producer.head, head, consumer.tail} : Distance(a, tail) < Modulus - 1
  <2>1. /\ Distance(producer.head, tail) \in Nat /\ Distance(head, tail) \in Nat
        /\ Distance(producer.head, head) \in Nat /\ Distance(head, consumer.tail) \in Nat
        /\ Distance(consumer.tail, tail) \in Nat
    BY <1>1, DistanceFacts, CapacityAssumption
  <2> QED
    BY <1>3, <2>1, CapacityAssumption DEF OnTheWay
<1>5. \A a \in {producer.head, head, consumer.tail} :
         Distance(a, tail') = Distance(a, tail) + 1
  BY <1>1, <1>4, DistanceGrows
<1>6. /\ Distance(producer.head, tail) \in Nat /\ Distance(head, tail) \in Nat
      /\ Distance(producer.head, head) \in Nat /\ Distance(head, consumer.tail) \in Nat
      /\ Distance(consumer.tail, tail) \in Nat
  BY <1>1, DistanceFacts, CapacityAssumption
<1>7. Window'
  <2>1. OnTheWay(producer.head, head, tail') /\ OnTheWay(head, consumer.tail, tail')
    BY <1>3, <1>5, <1>6 DEF OnTheWay
  <2>2. Distance(producer.head, tail') <= Capacity
    BY <1>3, <1>5, <1>6, CapacityAssumption
  <2>3. ~Writing' /\ (Reading' => head # consumer.tail)
    BY <1>1 DEF IInv, Window, Writing, Reading
  <2> QED
    BY <1>1, <2>1, <2>2, <2>3 DEF Window, OnTheWay, Distance, Wrap
<1>8. TornOnlyWhileWriting'
  BY <1>1 DEF IInv, TornOnlyWhileWriting
<1> QED
  BY <1>2, <1>7, <1>8 DEF IInv

LEMMA LoadTailPreserves ==
  ASSUME IInv, NEW t \in Counters, LoadTail(t)
  PROVE  IInv'
<1>1. /\ head \in Counters /\ tail \in Counters /\ consumer.tail \in Counters
      /\ UNCHANGED <<head, tail, slots, producer>>
      /\ consumer'.tail = t
      /\ consumer'.at = IF Empty(t) THEN "empty" ELSE "read"
  BY DEF IInv, TypeOK, LoadTail
<1>2. TypeOK'
  BY DEF IInv, TypeOK, LoadTail
<1>3. OnTheWay(consumer.tail, t, tail)
  BY <1>1, VisibleFacts DEF LoadTail
<1>4. OnTheWay(head, consumer.tail, tail)
  BY DEF IInv, Window
<1>5. OnTheWay(head, t, tail)
  BY <1>1, <1>3, <1>4, OnTheWayLast
<1>6. Window'
  <2>1. Reading' => head # t
    BY <1>1 DEF Reading, Empty
  <2> QED
    BY <1>1, <1>5, <2>1 DEF IInv, Window, Writing, OnTheWay, Distance, Wrap
<1>7. TornOnlyWhileWriting'
  BY <1>1 DEF IInv, TornOnlyWhileWriting, SlotOf
<1> QED
  BY <1>2, <1>6, <1>7 DEF IInv

\* The slot that is read holds a value: the slot that may not is the producer's.
LEMMA ReadPreserves ==
  ASSUME IInv, Read
  PROVE  IInv'
<1>1. SlotOf(head) \in Indexes
  BY SlotIsIndex DEF IInv, TypeOK
<1>2. slots[SlotOf(head)] \in Values \cup {NoValue}
  <2>1. Writing => SlotOf(head) # SlotOf(tail)
    BY SlotsApart DEF IInv, Read, Reading
  <2> QED
    BY <1>1, <2>1 DEF IInv, TornOnlyWhileWriting, Writing
<1>3. TypeOK'
  BY <1>2 DEF IInv, TypeOK, Read
<1>4. Window'
  BY DEF IInv, TypeOK, Window, Read, Writing, Reading, OnTheWay, Distance, Wrap
<1>5. TornOnlyWhileWriting'
  BY DEF IInv, TornOnlyWhileWriting, Read, SlotOf
<1> QED
  BY <1>3, <1>4, <1>5 DEF IInv

LEMMA ReleasePreserves ==
  ASSUME IInv, Release
  PROVE  IInv'
<1>1. /\ head \in Counters /\ tail \in Counters
      /\ producer.head \in Counters /\ consumer.tail \in Counters
      /\ UNCHANGED <<tail, slots, producer>>
      /\ head' = Wrap(head + 1)
      /\ consumer.at = "release"
      /\ consumer'.tail = consumer.tail
      /\ consumer'.at = "idle"
  BY DEF IInv, TypeOK, Release
<1>2. TypeOK'
  BY <1>1, NextCounter DEF IInv, TypeOK, Release
<1>3. /\ OnTheWay(producer.head, head, tail) /\ OnTheWay(head, consumer.tail, tail)
      /\ Distance(producer.head, tail) <= Capacity
      /\ head # consumer.tail
  BY <1>1 DEF IInv, Window, Reading
<1>4. /\ Distance(producer.head, tail) \in Nat /\ Distance(head, tail) \in Nat
      /\ Distance(producer.head, head) \in Nat /\ Distance(head, consumer.tail) \in Nat
      /\ Distance(consumer.tail, tail) \in Nat
  BY <1>1, DistanceFacts, CapacityAssumption
<1>5. Distance(head, consumer.tail) # 0
  BY <1>1, <1>3, DistanceZero
<1>6. head # tail
  BY <1>1, <1>3, <1>4, <1>5, DistanceZero DEF OnTheWay
<1>7. /\ Distance(head', consumer.tail) = Distance(head, consumer.tail) - 1
      /\ Distance(head', tail) = Distance(head, tail) - 1
  BY <1>1, <1>3, <1>6, DistanceShrinks
<1>8. Distance(producer.head, head') = Distance(producer.head, head) + 1
  <2>1. Distance(producer.head, head) < Modulus - 1
    BY <1>3, <1>4, <1>6, <1>1, DistanceZero, CapacityAssumption DEF OnTheWay
  <2> QED
    BY <1>1, <2>1, DistanceGrows
<1>9. Window'
  <2>1. OnTheWay(producer.head, head', tail) /\ OnTheWay(head', consumer.tail, tail)
    BY <1>3, <1>4, <1>7, <1>8 DEF OnTheWay
  <2>2. ~Reading'
    BY <1>1 DEF Reading
  <2> QED
    BY <1>1, <1>3, <2>1, <2>2 DEF IInv, Window, Writing, OnTheWay, Distance, Wrap
<1>10. TornOnlyWhileWriting'
  BY <1>1 DEF IInv, TornOnlyWhileWriting, SlotOf
<1> QED
  BY <1>2, <1>9, <1>10 DEF IInv

LEMMA StepPreserves == IInv /\ [Next]_vars => IInv'
<1> SUFFICES ASSUME IInv, [Next]_vars PROVE IInv'
  OBVIOUS
<1>1. ASSUME NEW v \in Values, Offer(v) PROVE IInv'
  BY <1>1, OfferPreserves
<1>2. ASSUME NEW h \in Counters, LoadHead(h) PROVE IInv'
  BY <1>2, LoadHeadPreserves
<1>3. CASE BeginWrite
  BY <1>3, BeginWritePreserves
<1>4. CASE EndWrite
  BY <1>4, EndWritePreserves
<1>5. CASE Publish
  BY <1>5, PublishPreserves
<1>6. ASSUME NEW t \in Counters, LoadTail(t) PROVE IInv'
  BY <1>6, LoadTailPreserves
<1>7. CASE Read
  BY <1>7, ReadPreserves
<1>8. CASE Release
  BY <1>8, ReleasePreserves
<1>9. CASE UNCHANGED vars
  BY <1>9 DEF vars, IInv, TypeOK, Window, TornOnlyWhileWriting, Writing, Reading,
              OnTheWay, Distance, Wrap, SlotOf
<1> QED
  BY <1>1, <1>2, <1>3, <1>4, <1>5, <1>6, <1>7, <1>8, <1>9 DEF Next

LEMMA InvariantHolds == Spec => []IInv
<1>1. Spec => Init /\ [][Next]_vars
  BY DEF Spec
<1> QED
  BY <1>1, InitEstablishes, StepPreserves, PTL

\* There is no data race on slots_, however stale the counters the threads load and
\* wherever the counters wrap: the two threads are never in the same slot.
THEOREM RaceFree == Spec => []NoSlotRace
<1>1. IInv => NoSlotRace
  BY IInvSaysEnough
<1> QED
  BY <1>1, InvariantHolds, PTL

(***************************************************************************)
(* The ring implements BoundedFifo.                                        *)
(***************************************************************************)
Contents == Values \cup {NoValue, Torn}

(***************************************************************************)
(* Positions of the buffer.                                                *)
(***************************************************************************)
LEMMA PositionFacts ==
  ASSUME NEW a \in Counters, NEW b \in Counters, NEW k \in 0..Distance(a, b)
  PROVE  /\ Wrap(a + k) \in Counters
         /\ Distance(Wrap(a + k), b) = Distance(a, b) - k
<1> DEFINE n == Wrap(a + k)
<1>1. Distance(a, b) = IF a <= b THEN b - a ELSE (Modulus + b) - a
  BY DistanceFacts
<1>2. k \in 0..(Modulus - 1) /\ k <= Distance(a, b)
  BY DistanceFacts, CapacityAssumption
<1>3. n = IF a + k < Modulus THEN a + k ELSE (a + k) - Modulus
  BY <1>2, CapacityAssumption DEF Wrap, Counters
<1>4. n \in Counters
  BY <1>2, <1>3, CapacityAssumption DEF Counters
<1>5. Distance(n, b) = IF n <= b THEN b - n ELSE (Modulus + b) - n
  BY <1>4, DistanceFacts
<1> HIDE DEF n
<1>6. CASE a <= b
  BY <1>1, <1>2, <1>3, <1>4, <1>5, <1>6, CapacityAssumption DEF Counters, n
<1>7. CASE b < a
  BY <1>1, <1>2, <1>3, <1>4, <1>5, <1>7, CapacityAssumption DEF Counters, n
<1> QED
  BY <1>6, <1>7 DEF Counters

LEMMA EndOfWindow ==
  ASSUME NEW a \in Counters, NEW b \in Counters
  PROVE  Wrap(a + Distance(a, b)) = b
<1>1. Distance(a, b) \in 0..Distance(a, b) /\ Distance(a, b) \in Nat
  BY DistanceFacts, CapacityAssumption
<1>2. /\ Wrap(a + Distance(a, b)) \in Counters
      /\ Distance(Wrap(a + Distance(a, b)), b) = 0
  BY <1>1, PositionFacts
<1> QED
  BY <1>2, DistanceZero

LEMMA WrapTwice ==
  ASSUME NEW a \in Counters, NEW i \in 1..(Modulus - 1)
  PROVE  Wrap(Wrap(a + 1) + i - 1) = Wrap(a + (i + 1) - 1)
<1>1. CASE a = Modulus - 1
  <2>1. Wrap(a + 1) = 0
    BY <1>1, NextCounter
  <2>2. 0 + i - 1 = i - 1 /\ a + (i + 1) - 1 = Modulus + (i - 1)
    BY <1>1, CapacityAssumption
  <2>3. (i - 1) % Modulus = i - 1 /\ (Modulus + (i - 1)) % Modulus = i - 1
    BY CapacityAssumption
  <2> QED
    BY <2>1, <2>2, <2>3 DEF Wrap
<1>2. CASE a # Modulus - 1
  BY <1>2, NextCounter, CapacityAssumption DEF Wrap, Counters
<1> QED
  BY <1>1, <1>2

LEMMA BufferFacts ==
  ASSUME TypeOK
  PROVE  /\ Distance(head, tail) \in Nat
         /\ Buffer \in Seq(Contents)
         /\ Len(Buffer) = Distance(head, tail)
         /\ \A k \in 1..Distance(head, tail) :
              /\ Wrap(head + k - 1) \in Counters
              /\ Buffer[k] = slots[SlotOf(Wrap(head + k - 1))]
<1>1. Distance(head, tail) \in Nat
  BY DistanceFacts, CapacityAssumption DEF TypeOK
<1>2. ASSUME NEW k \in 1..Distance(head, tail)
      PROVE  /\ Wrap(head + k - 1) \in Counters
             /\ slots[SlotOf(Wrap(head + k - 1))] \in Contents
  <2>1. k - 1 \in 0..Distance(head, tail)
    BY <1>1
  <2>2. head \in Nat /\ head + k - 1 = head + (k - 1)
    BY CapacityAssumption DEF TypeOK, Counters
  <2>3. Wrap(head + k - 1) \in Counters
    BY <2>1, <2>2, PositionFacts DEF TypeOK
  <2> QED
    BY <2>3, SlotIsIndex DEF TypeOK, Contents
<1>3. Buffer \in [1..Distance(head, tail) -> Contents]
  BY <1>2 DEF Buffer
<1>4. Buffer \in Seq(Contents)
  BY <1>1, <1>3, SeqDef
<1>5. Len(Buffer) = Distance(head, tail)
  BY <1>1, <1>3, <1>4, LenProperties
<1> QED
  BY <1>1, <1>2, <1>4, <1>5 DEF Buffer

\* The slot the producer writes to is none of the buffer's.
LEMMA BufferAwayFromTail ==
  ASSUME IInv, Writing, NEW k \in 1..Distance(head, tail)
  PROVE  SlotOf(Wrap(head + k - 1)) # SlotOf(tail)
<1>1. /\ head \in Counters /\ tail \in Counters /\ producer.head \in Counters
  BY DEF IInv, TypeOK
<1>2. /\ Distance(head, tail) \in Nat /\ Distance(producer.head, head) \in Nat
      /\ Distance(producer.head, tail) \in Nat
  BY <1>1, DistanceFacts, CapacityAssumption
<1>3. Distance(head, tail) < Capacity
  BY <1>2, CapacityAssumption DEF IInv, Window, OnTheWay
<1>4. k - 1 \in 0..Distance(head, tail) /\ head + k - 1 = head + (k - 1)
  BY <1>1, <1>2, CapacityAssumption DEF Counters
<1>5. /\ Wrap(head + k - 1) \in Counters
      /\ Distance(Wrap(head + k - 1), tail) = Distance(head, tail) - (k - 1)
  BY <1>1, <1>4, PositionFacts
<1>6. /\ 0 < Distance(Wrap(head + k - 1), tail)
      /\ Distance(Wrap(head + k - 1), tail) < Capacity
  BY <1>2, <1>3, <1>5, CapacityAssumption
<1> QED
  BY <1>1, <1>5, <1>6, DifferentSlots

(***************************************************************************)
(* The invariant of the refinement: what is about to be published is in    *)
(* the producer's slot, and what is about to be delivered is the oldest    *)
(* value of the buffer.                                                    *)
(***************************************************************************)
CopiesComplete ==
  /\ producer.at = "publish" => slots[SlotOf(tail)] = producer.value
  /\ consumer.at = "release" => consumer.value = slots[SlotOf(head)]

FInv == IInv /\ CopiesComplete

LEMMA FInvInit == Init => FInv
BY InitEstablishes DEF Init, FInv, CopiesComplete

LEMMA FInvStep == FInv /\ [Next]_vars => FInv'
<1> SUFFICES ASSUME FInv, [Next]_vars PROVE CopiesComplete'
  BY StepPreserves DEF FInv
<1> USE DEF CopiesComplete, SlotOf
<1>1. ASSUME NEW v \in Values, Offer(v) PROVE CopiesComplete'
  BY <1>1 DEF FInv, IInv, TypeOK, Offer
<1>2. ASSUME NEW h \in Counters, LoadHead(h) PROVE CopiesComplete'
  BY <1>2 DEF FInv, IInv, TypeOK, LoadHead
<1>3. CASE BeginWrite
  <2>1. Reading => SlotOf(head) # SlotOf(tail)
    BY <1>3, SlotsApart DEF FInv, IInv, BeginWrite, Writing
  <2> QED
    BY <1>3, <2>1 DEF FInv, IInv, TypeOK, BeginWrite, Reading
<1>4. CASE EndWrite
  <2>1. Reading => SlotOf(head) # SlotOf(tail)
    BY <1>4, SlotsApart DEF FInv, IInv, EndWrite, Writing
  <2>2. SlotOf(tail) \in Indexes
    BY SlotIsIndex DEF FInv, IInv, TypeOK
  <2> QED
    BY <1>4, <2>1, <2>2 DEF FInv, IInv, TypeOK, EndWrite, Reading
<1>5. CASE Publish
  BY <1>5 DEF FInv, IInv, TypeOK, Publish
<1>6. ASSUME NEW t \in Counters, LoadTail(t) PROVE CopiesComplete'
  BY <1>6 DEF FInv, IInv, TypeOK, LoadTail
<1>7. CASE Read
  BY <1>7 DEF FInv, IInv, TypeOK, Read
<1>8. CASE Release
  BY <1>8 DEF FInv, IInv, TypeOK, Release
<1>9. CASE UNCHANGED vars
  BY <1>9 DEF vars, FInv
<1> QED
  BY <1>1, <1>2, <1>3, <1>4, <1>5, <1>6, <1>7, <1>8, <1>9 DEF Next

(***************************************************************************)
(* Every step of the ring is a step of the buffer or leaves it alone.      *)
(***************************************************************************)
LEMMA SameBuffer ==
  ASSUME UNCHANGED <<head, tail, slots>>
  PROVE  Buffer' = Buffer
BY DEF Buffer, Distance, Wrap, SlotOf

\* A copy into the producer's slot is not seen in the buffer.
LEMMA WritesAreHidden ==
  ASSUME IInv, IInv', Writing, UNCHANGED <<head, tail>>,
         \A i \in Indexes : i # SlotOf(tail) => slots'[i] = slots[i]
  PROVE  Buffer' = Buffer
<1>1. ASSUME NEW k \in 1..Distance(head, tail)
      PROVE  slots'[SlotOf(Wrap(head + k - 1))] = slots[SlotOf(Wrap(head + k - 1))]
  BY BufferAwayFromTail, BufferFacts, SlotIsIndex DEF IInv
<1> QED
  BY <1>1 DEF Buffer, Distance, Wrap, SlotOf

LEMMA PublishAccepts ==
  ASSUME FInv, FInv', Publish
  PROVE  Len(Buffer) < Capacity /\ Buffer' = Append(Buffer, producer.value)
<1> DEFINE d == Distance(head, tail)
<1>1. /\ head \in Counters /\ tail \in Counters /\ producer.head \in Counters
      /\ head' = head /\ slots' = slots /\ tail' = Wrap(tail + 1)
      /\ slots[SlotOf(tail)] = producer.value
  BY DEF FInv, IInv, TypeOK, Publish, CopiesComplete
<1>2. /\ d \in Nat /\ Distance(producer.head, head) \in Nat
      /\ Distance(producer.head, tail) \in Nat
  BY <1>1, DistanceFacts, CapacityAssumption
<1>3. d < Capacity
  BY <1>2, CapacityAssumption DEF FInv, IInv, Window, OnTheWay, Writing, Publish
<1>4. Distance(head', tail') = d + 1
  BY <1>1, <1>2, <1>3, DistanceGrows, CapacityAssumption
<1>5. /\ Buffer \in Seq(Contents) /\ Len(Buffer) = d
      /\ \A k \in 1..d : Buffer[k] = slots[SlotOf(Wrap(head + k - 1))]
  BY BufferFacts DEF FInv, IInv
<1>6. /\ Buffer' = [k \in 1..(d + 1) |-> slots[SlotOf(Wrap(head + k - 1))]]
  BY <1>1, <1>4 DEF Buffer, SlotOf, Wrap
<1>7. Wrap(head + (d + 1) - 1) = tail
  <2>1. head + (d + 1) - 1 = head + d
    BY <1>1, <1>2, CapacityAssumption DEF Counters
  <2> QED
    BY <1>1, <2>1, EndOfWindow
<1>8. producer.value \in Contents
  BY DEF FInv, IInv, TypeOK, Contents
<1>9. Append(Buffer, producer.value)
        = [k \in 1..(d + 1) |-> IF k = d + 1 THEN producer.value ELSE Buffer[k]]
  BY <1>2, <1>5, <1>8
<1>10. ASSUME NEW k \in 1..(d + 1)
       PROVE  slots[SlotOf(Wrap(head + k - 1))]
                = IF k = d + 1 THEN producer.value ELSE Buffer[k]
  BY <1>1, <1>2, <1>5, <1>7
<1> HIDE DEF d
<1>11. Buffer' = Append(Buffer, producer.value)
  BY <1>6, <1>9, <1>10
<1> QED
  BY <1>3, <1>5, <1>11

LEMMA ReleaseDelivers ==
  ASSUME FInv, FInv', Release
  PROVE  /\ Buffer # <<>>
         /\ consumer'.popped = Head(Buffer)
         /\ Buffer' = Tail(Buffer)
<1> DEFINE d == Distance(head, tail)
<1>1. /\ head \in Counters /\ tail \in Counters /\ consumer.tail \in Counters
      /\ tail' = tail /\ slots' = slots /\ head' = Wrap(head + 1)
      /\ consumer'.popped = slots[SlotOf(head)]
      /\ OnTheWay(head, consumer.tail, tail) /\ head # consumer.tail
  BY DEF FInv, IInv, TypeOK, Release, CopiesComplete, Window, Reading
<1>2. /\ d \in Nat /\ Distance(head, consumer.tail) \in Nat
      /\ Distance(consumer.tail, tail) \in Nat
      /\ Distance(head, consumer.tail) # 0
      /\ d <= Modulus - 1
  BY <1>1, DistanceFacts, DistanceZero, CapacityAssumption
<1>3. d \in Nat \ {0}
  BY <1>1, <1>2 DEF OnTheWay
<1>4. Distance(head', tail') = d - 1
  BY <1>1, <1>3, DistanceZero, DistanceShrinks
<1>5. /\ Buffer \in Seq(Contents) /\ Len(Buffer) = d
      /\ \A k \in 1..d : Buffer[k] = slots[SlotOf(Wrap(head + k - 1))]
  BY BufferFacts DEF FInv, IInv
<1>6. Buffer # <<>>
  BY <1>3, <1>5
<1>7. Head(Buffer) = slots[SlotOf(head)]
  <2>1. head + 1 - 1 = head /\ Wrap(head) = head
    BY <1>1, CapacityAssumption DEF Counters, Wrap
  <2> QED
    BY <1>3, <1>5, <1>6, <2>1
<1>8. Buffer' = [k \in 1..(d - 1) |-> slots[SlotOf(Wrap(Wrap(head + 1) + k - 1))]]
  BY <1>1, <1>4 DEF Buffer, SlotOf, Wrap
<1>9. Tail(Buffer) = [k \in 1..(d - 1) |-> Buffer[k + 1]]
  <2>1. /\ Tail(Buffer) \in Seq(Contents)
        /\ Len(Tail(Buffer)) = d - 1
        /\ \A k \in 1..(d - 1) : Tail(Buffer)[k] = Buffer[k + 1]
    BY <1>5, <1>6, HeadTailProperties
  <2>2. Tail(Buffer) \in [1..(d - 1) -> Contents]
    BY <2>1, LenProperties
  <2> QED
    BY <2>1, <2>2
<1>10. ASSUME NEW k \in 1..(d - 1)
       PROVE  slots[SlotOf(Wrap(Wrap(head + 1) + k - 1))] = Buffer[k + 1]
  <2>1. k + 1 \in 1..d /\ k \in 1..(Modulus - 1)
    BY <1>2, <1>3, CapacityAssumption
  <2>2. Wrap(Wrap(head + 1) + k - 1) = Wrap(head + (k + 1) - 1)
    BY <1>1, <2>1, WrapTwice
  <2> QED
    BY <1>5, <2>1, <2>2
<1> HIDE DEF d
<1>11. Buffer' = Tail(Buffer)
  BY <1>8, <1>9, <1>10
<1> QED
  BY <1>1, <1>6, <1>7, <1>11

LEMMA InitImplements == Init => Promise!Init
<1> SUFFICES ASSUME Init PROVE Buffer = <<>>
  BY DEF Promise!Init
<1>1. TypeOK
  BY InitEstablishes DEF IInv
<1>2. Distance(head, tail) = 0
  BY <1>1, DistanceZero DEF Init, TypeOK
<1> QED
  BY <1>1, <1>2, BufferFacts, EmptySeq

LEMMA StepImplements ==
  FInv /\ FInv' /\ [Next]_vars => [Promise!Next]_(Promise!fifoVars)
<1> SUFFICES ASSUME FInv, FInv', [Next]_vars
             PROVE  Promise!Next \/ UNCHANGED <<producer.value, Buffer, consumer.popped>>
  BY DEF Promise!fifoVars
<1>1. ASSUME NEW v \in Values, Offer(v) PROVE Promise!Offer
  BY <1>1, SameBuffer DEF FInv, IInv, TypeOK, Offer, Promise!Offer
<1>2. ASSUME NEW h \in Counters, LoadHead(h)
      PROVE  UNCHANGED <<producer.value, Buffer, consumer.popped>>
  BY <1>2, SameBuffer DEF FInv, IInv, TypeOK, LoadHead
<1>3. CASE BeginWrite
  <2>1. Buffer' = Buffer
    BY <1>3, WritesAreHidden DEF FInv, IInv, TypeOK, BeginWrite, Writing
  <2> QED
    BY <1>3, <2>1 DEF FInv, IInv, TypeOK, BeginWrite
<1>4. CASE EndWrite
  <2>1. Buffer' = Buffer
    BY <1>4, WritesAreHidden DEF FInv, IInv, TypeOK, EndWrite, Writing
  <2> QED
    BY <1>4, <2>1 DEF FInv, IInv, TypeOK, EndWrite
<1>5. CASE Publish
  <2>1. producer'.value = producer.value /\ consumer' = consumer
    BY <1>5 DEF FInv, IInv, TypeOK, Publish
  <2>2. Promise!Accept
    BY <1>5, <2>1, PublishAccepts DEF Promise!Accept
  <2> QED
    BY <2>2 DEF Promise!Next
<1>6. ASSUME NEW t \in Counters, LoadTail(t)
      PROVE  UNCHANGED <<producer.value, Buffer, consumer.popped>>
  BY <1>6, SameBuffer DEF FInv, IInv, TypeOK, LoadTail
<1>7. CASE Read
  BY <1>7, SameBuffer DEF FInv, IInv, TypeOK, Read
<1>8. CASE Release
  <2>1. producer' = producer
    BY <1>8 DEF Release
  <2>2. Promise!Deliver
    BY <1>8, <2>1, ReleaseDelivers DEF Promise!Deliver
  <2> QED
    BY <2>2 DEF Promise!Next
<1>9. CASE UNCHANGED vars
  BY <1>9, SameBuffer DEF vars
<1> QED
  BY <1>1, <1>2, <1>3, <1>4, <1>5, <1>6, <1>7, <1>8, <1>9 DEF Next, Promise!Next

\* The ring is a bounded first-in first-out buffer: whatever old counters its threads
\* load, every accepted value is delivered whole, once and in order.
THEOREM RingIsFifo == Spec => ImplementsBoundedFifo
<1>1. Spec => Init /\ [][Next]_vars
  BY DEF Spec
<1>2. Spec => []FInv
  BY <1>1, FInvInit, FInvStep, PTL
<1> QED
  BY <1>1, <1>2, InitImplements, StepImplements, PTL DEF ImplementsBoundedFifo, Promise!Spec

(***************************************************************************)
(* A refusal holds for as long as the thread does not try again: only the  *)
(* refused thread moves the counter its distance ends at or begins with.   *)
(***************************************************************************)
Refusals ==
  /\ producer.at = "refused" => Distance(producer.head, tail) = Capacity
  /\ consumer.at = "empty" => consumer.tail = head

RInv == IInv /\ Refusals

LEMMA RInvInit == Init => RInv
BY InitEstablishes DEF Init, RInv, Refusals

LEMMA RInvStep == RInv /\ [Next]_vars => RInv'
<1> SUFFICES ASSUME RInv, [Next]_vars PROVE Refusals'
  BY StepPreserves DEF RInv
<1> USE DEF RInv, Refusals, Distance, Wrap
<1>1. ASSUME NEW v \in Values, Offer(v) PROVE Refusals'
  BY <1>1 DEF IInv, TypeOK, Offer
<1>2. ASSUME NEW h \in Counters, LoadHead(h) PROVE Refusals'
  BY <1>2 DEF IInv, TypeOK, LoadHead, Full
<1>3. CASE BeginWrite
  BY <1>3 DEF IInv, TypeOK, BeginWrite
<1>4. CASE EndWrite
  BY <1>4 DEF IInv, TypeOK, EndWrite
<1>5. CASE Publish
  BY <1>5 DEF IInv, TypeOK, Publish
<1>6. ASSUME NEW t \in Counters, LoadTail(t) PROVE Refusals'
  BY <1>6 DEF IInv, TypeOK, LoadTail, Empty
<1>7. CASE Read
  BY <1>7 DEF IInv, TypeOK, Read
<1>8. CASE Release
  BY <1>8 DEF IInv, TypeOK, Release
<1>9. CASE UNCHANGED vars
  BY <1>9 DEF vars
<1> QED
  BY <1>1, <1>2, <1>3, <1>4, <1>5, <1>6, <1>7, <1>8, <1>9 DEF Next

\* The values the producer counts are those the consumer has taken since and those
\* still in the ring.
LEMMA RefusalsSayWhy == RInv => RefusedForReason
<1> SUFFICES ASSUME RInv PROVE RefusedForReason
  OBVIOUS
<1>1. /\ head \in Counters /\ tail \in Counters
      /\ producer.head \in Counters /\ consumer.tail \in Counters
  BY DEF RInv, IInv, TypeOK
<1>2. /\ Distance(producer.head, head) \in Nat /\ Distance(head, tail) \in Nat
      /\ Distance(producer.head, tail) \in Nat
  BY <1>1, DistanceFacts, CapacityAssumption
<1>3. Len(Buffer) = Distance(head, tail)
  BY BufferFacts DEF RInv, IInv
<1>4. Distance(producer.head, head) + Distance(head, tail) = Distance(producer.head, tail)
  BY DEF RInv, IInv, Window, OnTheWay
<1> QED
  BY <1>2, <1>3, <1>4 DEF RInv, Refusals, RefusedForReason

\* The ring uses all its slots and hides nothing it holds: a push is refused only for
\* Capacity values that were there after the counter it loaded, and a pop that finds
\* nothing has missed only what was published after the counter it loaded.
THEOREM RefusalsAreReal == Spec => []RefusedForReason
<1>1. Spec => Init /\ [][Next]_vars
  BY DEF Spec
<1>2. Spec => []RInv
  BY <1>1, RInvInit, RInvStep, PTL
<1> QED
  BY <1>2, RefusalsSayWhy, PTL
==============================================================================
