-------------------------- MODULE IngressRoundProofs --------------------------
(***************************************************************************)
(* Theorems about the ingress round, for every capacity of the queue and   *)
(* every set of inputs.                                                    *)
(***************************************************************************)
EXTENDS IngressRound, EventReplayProofs

(***************************************************************************)
(* The inductive invariant.                                                *)
(***************************************************************************)
ConsumerPlaces == {"loop", "pop", "ended"}

Types ==
  /\ events \in Seq(InputEvents)
  /\ producer \in [at : {"next", "push", "pushed", "ended"}, sent : 0..Len(events)]
  /\ \E engines :
       consumer \in [at : ConsumerPlaces, engine : engines, processed : Nat, popped : Nat]
  /\ queue \in Seq(InputEvents)

\* What is popped or in the queue are the first events of the input, in their order:
\* those the producer is done with, and the one it has just pushed.
Flow ==
  /\ Pushed <= Len(events)
  /\ \A i \in 1..Len(queue) : queue[i] = events[consumer.popped + i]
  /\ producer.at \in {"next", "push"} => Pushed = producer.sent
  /\ producer.at = "pushed" => Pushed = producer.sent + 1
  /\ producer.at = "push" => producer.sent < Len(events)

\* The book is the replay of what was popped, and the first refusal ends the loop.
Book ==
  /\ consumer.engine = Replay(SubSeq(events, 1, consumer.popped))
  /\ consumer.engine.rejected = consumer.popped - consumer.processed
  /\ consumer.popped = IF failed THEN consumer.processed + 1 ELSE consumer.processed
  /\ failed => consumer.at = "ended"
  /\ consumer.at = "ended" /\ ~failed => consumer.processed >= Len(events)

IInv == Types /\ Flow /\ Book

LEMMA InitEstablishes == Init => IInv
<1> SUFFICES ASSUME Init PROVE IInv
  OBVIOUS
<1>1. events \in Seq(InputEvents) /\ <<>> \in Seq(InputEvents) /\ Len(<<>>) = 0
  BY RoundAssumption DEF Init
<1>2. Len(events) \in Nat
  BY <1>1, LenProperties
<1>3. /\ consumer.at = "loop" /\ consumer.engine = Fresh
      /\ consumer.processed = 0 /\ consumer.popped = 0
      /\ consumer \in [at : ConsumerPlaces, engine : {Fresh}, processed : Nat, popped : Nat]
  BY DEF Init, ConsumerPlaces
<1>4. Types
  <2>1. producer \in [at : {"next", "push", "pushed", "ended"}, sent : 0..Len(events)]
    BY <1>2 DEF Init
  <2> QED
    BY <1>1, <1>3, <2>1 DEF Init, Types
<1>5. Flow
  BY <1>1, <1>2, <1>3 DEF Init, Flow, Pushed
<1>6. Book
  <2>1. 0 \in 0..Len(events)
    BY <1>2
  <2>2. SubSeq(events, 1, 0) \in Seq(InputEvents) /\ Len(SubSeq(events, 1, 0)) = 0
    BY <1>1, <2>1, FirstPart
  <2>3. SubSeq(events, 1, 0) = <<>>
    BY <2>2, EmptySeq
  <2>4. consumer.engine.rejected = 0 /\ consumer.engine.rejected = consumer.popped - consumer.processed
    BY <1>3 DEF Fresh
  <2>5. consumer.engine = Replay(SubSeq(events, 1, consumer.popped))
    BY <1>3, <2>3, ReplayOfNothing
  <2>6. ~failed
    BY DEF Init
  <2> QED
    BY <1>3, <2>4, <2>5, <2>6 DEF Book
<1> QED
  BY <1>4, <1>5, <1>6 DEF IInv

(***************************************************************************)
(* One lemma per action that moves an event, and one for the others.       *)
(***************************************************************************)
LEMMA SizeFacts ==
  ASSUME Types
  PROVE  /\ Len(events) \in Nat /\ Len(queue) \in Nat
         /\ consumer.popped \in Nat /\ consumer.processed \in Nat
         /\ producer.sent \in Nat /\ producer.sent <= Len(events)
         /\ Pushed \in Nat /\ Pushed = consumer.popped + Len(queue)
<1>1. Len(events) \in Nat /\ Len(queue) \in Nat
  BY LenProperties DEF Types
<1>2. consumer.popped \in Nat /\ consumer.processed \in Nat
  BY DEF Types
<1> QED
  BY <1>1, <1>2 DEF Types, Pushed

\* The producer's steps other than a push.
LEMMA ProducerMovePreserves ==
  ASSUME IInv, SeeStop \/ Begin \/ GoOn \/ Finish
  PROVE  IInv'
<1>1. UNCHANGED <<events, consumer, queue, failed>>
  BY DEF SeeStop, Begin, GoOn, Finish, flags
<1>2. Book' /\ Pushed' = Pushed
  BY <1>1 DEF IInv, Book, Pushed
<1>3. /\ producer' \in [at : {"next", "push", "pushed", "ended"}, sent : 0..Len(events)]
      /\ producer'.at \in {"next", "push"} => Pushed = producer'.sent
      /\ producer'.at = "pushed" => Pushed = producer'.sent + 1
      /\ producer'.at = "push" => producer'.sent < Len(events)
  <2>1. CASE SeeStop \/ Begin \/ Finish
    BY <2>1 DEF IInv, Types, Flow, SeeStop, Begin, Finish
  <2>2. CASE GoOn
    <3>1. Pushed = producer.sent + 1 /\ Pushed <= Len(events)
      BY <2>2 DEF IInv, Flow, GoOn
    <3>2. producer.sent + 1 \in 0..Len(events)
      BY <3>1, SizeFacts DEF IInv
    <3> QED
      BY <2>2, <3>1, <3>2 DEF GoOn
  <2> QED
    BY <2>1, <2>2
<1>4. Types'
  BY <1>1, <1>3 DEF IInv, Types
<1>5. Flow'
  BY <1>1, <1>2, <1>3 DEF IInv, Flow
<1> QED
  BY <1>2, <1>4, <1>5 DEF IInv

LEMMA PushPreserves ==
  ASSUME IInv, Push
  PROVE  IInv'
<1> DEFINE event == events[producer.sent + 1]
<1>1. /\ UNCHANGED <<events, consumer, failed>>
      /\ queue' = Append(queue, event)
      /\ producer.at = "push" /\ producer'.at = "pushed" /\ producer'.sent = producer.sent
      /\ producer' \in [at : {"next", "push", "pushed", "ended"}, sent : 0..Len(events)]
  BY DEF IInv, Types, Push, flags
<1>2. Pushed = producer.sent /\ producer.sent < Len(events)
  BY <1>1 DEF IInv, Flow
<1>3. event \in InputEvents
  <2>1. producer.sent + 1 \in 1..Len(events)
    BY <1>2, SizeFacts DEF IInv
  <2> QED
    BY <2>1, ElementOfSeq DEF IInv, Types
<1> HIDE DEF event
<1>4. /\ queue' \in Seq(InputEvents) /\ Len(queue') = Len(queue) + 1
      /\ \A i \in 1..Len(queue) : queue'[i] = queue[i]
      /\ queue'[Len(queue) + 1] = event
  BY <1>1, <1>3, AppendProperties DEF IInv, Types
<1>5. Pushed' = producer.sent + 1
  BY <1>1, <1>2, <1>4, SizeFacts DEF IInv, Pushed
<1>6. event = events[consumer.popped + (Len(queue) + 1)]
  <2>1. producer.sent + 1 = consumer.popped + (Len(queue) + 1)
    BY <1>2, SizeFacts DEF IInv
  <2> QED
    BY <2>1 DEF event
<1>7. Types'
  BY <1>1, <1>4 DEF IInv, Types
<1>8. Flow'
  <2>1. ASSUME NEW i \in 1..Len(queue')
        PROVE  queue'[i] = events[consumer.popped + i]
    <3>1. i \in 1..Len(queue) \/ i = Len(queue) + 1
      BY <1>4, SizeFacts DEF IInv
    <3> QED
      BY <1>4, <1>6, <3>1 DEF IInv, Flow
  <2>2. Pushed' <= Len(events)
    BY <1>2, <1>5, SizeFacts DEF IInv
  <2> QED
    BY <1>1, <1>5, <2>1, <2>2 DEF Flow
<1>9. Book'
  BY <1>1 DEF IInv, Book
<1> QED
  BY <1>7, <1>8, <1>9 DEF IInv

\* The consumer's steps other than a pop.
LEMMA ConsumerMovePreserves ==
  ASSUME IInv, StayInLoop \/ SeeDone \/ FindEmpty
  PROVE  IInv'
<1>1. /\ UNCHANGED <<events, producer, queue, failed>>
      /\ \E place \in ConsumerPlaces :
           /\ consumer' = [consumer EXCEPT !.at = place]
           /\ place = "ended" => ~MoreEvents
      /\ consumer.at # "ended"
  BY DEF StayInLoop, SeeDone, FindEmpty, flags, ConsumerPlaces
<1>2. PICK engines : consumer \in [at : ConsumerPlaces, engine : engines,
                                   processed : Nat, popped : Nat]
  BY DEF IInv, Types
<1>3. /\ consumer' \in [at : ConsumerPlaces, engine : engines, processed : Nat, popped : Nat]
      /\ consumer'.engine = consumer.engine /\ consumer'.processed = consumer.processed
      /\ consumer'.popped = consumer.popped
      /\ consumer'.at = "ended" => ~(consumer.processed < Len(events))
  BY <1>1, <1>2 DEF MoreEvents
<1>4. Types'
  BY <1>1, <1>3 DEF IInv, Types
<1>5. Flow'
  BY <1>1, <1>3 DEF IInv, Flow, Pushed
<1>6. Book'
  <2>1. ~failed
    BY <1>1 DEF IInv, Book
  <2>2. consumer'.at = "ended" => consumer.processed >= Len(events)
    BY <1>3, SizeFacts DEF IInv
  <2> QED
    BY <1>1, <1>3, <2>1, <2>2 DEF IInv, Book
<1> QED
  BY <1>4, <1>5, <1>6 DEF IInv

\* A pop takes the next event of the input, and the book is the replay with it.
LEMMA PopFacts ==
  ASSUME IInv, queue # <<>>, consumer.at = "pop", UNCHANGED <<events, producer>>,
         NEW at \in ConsumerPlaces, NEW processed \in Nat,
         consumer' = [at |-> at, engine |-> Process(consumer.engine, Head(queue)),
                      processed |-> processed, popped |-> consumer.popped + 1],
         queue' = Tail(queue)
  PROVE  /\ Types' /\ Flow'
         /\ consumer'.engine = Replay(SubSeq(events, 1, consumer'.popped))
         /\ consumer'.engine.rejected =
              IF Refused(consumer.engine, Head(queue)) THEN consumer.engine.rejected + 1
              ELSE consumer.engine.rejected
         /\ ~failed
<1>1. /\ consumer'.at = at /\ consumer'.popped = consumer.popped + 1
      /\ consumer'.engine = Process(consumer.engine, Head(queue))
      /\ consumer' \in [at : ConsumerPlaces, engine : {consumer'.engine},
                        processed : Nat, popped : Nat]
  BY SizeFacts DEF IInv
<1>2. queue \in Seq(InputEvents) /\ events \in Seq(InputEvents)
  BY DEF IInv, Types
<1>3. /\ Tail(queue) \in Seq(InputEvents) /\ Len(Tail(queue)) = Len(queue) - 1
      /\ \A i \in 1..Len(Tail(queue)) : Tail(queue)[i] = queue[i + 1]
      /\ Head(queue) = queue[1] /\ Len(queue) \in Nat \ {0}
  BY <1>2, HeadTailProperties, LenProperties, EmptySeq
<1>4. /\ Pushed' = Pushed /\ Pushed <= Len(events)
      /\ consumer.popped \in Nat /\ consumer.popped < Len(events)
  <2>1. /\ consumer.popped \in Nat /\ Len(events) \in Nat
        /\ Pushed = consumer.popped + Len(queue) /\ Pushed <= Len(events)
    BY SizeFacts DEF IInv, Flow
  <2>2. Pushed' = (consumer.popped + 1) + (Len(queue) - 1)
    BY <1>1, <1>3 DEF Pushed
  <2> QED
    BY <1>3, <2>1, <2>2
<1>5. Types'
  BY <1>1, <1>3 DEF IInv, Types
<1>6. Flow'
  <2>1. ASSUME NEW i \in 1..Len(Tail(queue))
        PROVE  queue'[i] = events[consumer'.popped + i]
    <3>1. i \in 1..(Len(queue) - 1)
      BY <1>3
    <3>2. i + 1 \in 1..Len(queue)
      <4>1. Len(queue) \in Nat
        BY <1>3
      <4> QED
        BY <3>1, <4>1
    <3> DEFINE first == consumer.popped
    <3>3. (first + 1) + i = first + (i + 1)
      <4>1. first \in Nat /\ i \in Int
        BY <1>4, <3>1
      <4> HIDE DEF first
      <4> QED
        BY <4>1
    <3>4. queue[i + 1] = events[first + (i + 1)]
      BY <3>2 DEF IInv, Flow
    <3>5. queue'[i] = queue[i + 1]
      BY <1>3
    <3> QED
      BY <1>1, <3>3, <3>4, <3>5
  <2> QED
    BY <1>4, <2>1 DEF IInv, Flow
<1>7. Head(queue) = events[consumer.popped + 1]
  <2>1. 1 \in 1..Len(queue)
    BY <1>3
  <2> QED
    BY <1>3, <2>1 DEF IInv, Flow
<1>8. consumer'.engine = Replay(SubSeq(events, 1, consumer'.popped))
  <2>1. Replay(SubSeq(events, 1, consumer.popped + 1)) =
          Process(Replay(SubSeq(events, 1, consumer.popped)), events[consumer.popped + 1])
    BY <1>2, <1>4, ReplayOfNext
  <2>2. consumer.engine = Replay(SubSeq(events, 1, consumer.popped))
    BY DEF IInv, Book
  <2>3. consumer'.engine = Replay(SubSeq(events, 1, consumer.popped + 1))
    BY <1>1, <1>7, <2>1, <2>2
  <2> QED
    BY <1>1, <2>3
<1>9. consumer'.engine.rejected =
        IF Refused(consumer.engine, Head(queue)) THEN consumer.engine.rejected + 1
        ELSE consumer.engine.rejected
  <2> DEFINE state == consumer.engine
  <2>1. Len(SubSeq(events, 1, consumer.popped)) \in Nat
    BY <1>2, <1>4, SizeFacts, FirstPart DEF IInv
  <2>2. DOMAIN state = {"book", "trades", "rejected"} /\ state.rejected \in Nat
    BY <2>1, ReplayIsState DEF IInv, Book
  <2> HIDE DEF state
  <2>3. Process(state, Head(queue)).rejected =
          IF Refused(state, Head(queue)) THEN state.rejected + 1 ELSE state.rejected
    BY <2>2, ProcessFacts
  <2> QED
    BY <1>1, <2>3 DEF state
<1>10. ~failed
  BY DEF IInv, Book
<1> QED
  BY <1>5, <1>6, <1>8, <1>9, <1>10

LEMMA TakePreserves ==
  ASSUME IInv, Take
  PROVE  IInv'
<1>1. /\ queue # <<>> /\ consumer.at = "pop" /\ ~Refused(consumer.engine, Head(queue))
      /\ UNCHANGED <<events, producer, failed>>
      /\ consumer' = [at |-> "loop", engine |-> Process(consumer.engine, Head(queue)),
                      processed |-> consumer.processed + 1, popped |-> consumer.popped + 1]
      /\ queue' = Tail(queue)
  BY DEF Take, PopInto
<1>2. consumer.processed + 1 \in Nat /\ "loop" \in ConsumerPlaces
  BY SizeFacts DEF IInv, ConsumerPlaces
<1>3. /\ Types' /\ Flow' /\ ~failed
      /\ consumer'.engine = Replay(SubSeq(events, 1, consumer'.popped))
      /\ consumer'.engine.rejected = consumer.engine.rejected
  BY <1>1, <1>2, PopFacts
<1>4. /\ consumer'.at = "loop"
      /\ consumer'.processed = consumer.processed + 1 /\ consumer'.popped = consumer.popped + 1
  BY <1>1
<1>5. /\ consumer.engine.rejected = consumer.popped - consumer.processed
      /\ consumer.popped = consumer.processed
  BY <1>3 DEF IInv, Book
<1>6. /\ consumer'.engine.rejected = consumer'.popped - consumer'.processed
      /\ consumer'.popped = consumer'.processed
  BY <1>3, <1>4, <1>5, SizeFacts DEF IInv
<1>7. Book'
  BY <1>1, <1>3, <1>4, <1>6 DEF Book
<1> QED
  BY <1>3, <1>7 DEF IInv

LEMMA FailPreserves ==
  ASSUME IInv, Fail
  PROVE  IInv'
<1>1. /\ queue # <<>> /\ consumer.at = "pop" /\ Refused(consumer.engine, Head(queue))
      /\ UNCHANGED <<events, producer>> /\ failed' = TRUE
      /\ consumer' = [at |-> "ended", engine |-> Process(consumer.engine, Head(queue)),
                      processed |-> consumer.processed, popped |-> consumer.popped + 1]
      /\ queue' = Tail(queue)
  BY DEF Fail, PopInto, Leaves, StopBoth
<1>2. consumer.processed \in Nat /\ "ended" \in ConsumerPlaces
  BY SizeFacts DEF IInv, ConsumerPlaces
<1>3. /\ Types' /\ Flow' /\ ~failed
      /\ consumer'.engine = Replay(SubSeq(events, 1, consumer'.popped))
      /\ consumer'.engine.rejected = consumer.engine.rejected + 1
  BY <1>1, <1>2, PopFacts
<1>4. /\ consumer'.at = "ended"
      /\ consumer'.processed = consumer.processed /\ consumer'.popped = consumer.popped + 1
  BY <1>1
<1>5. /\ consumer.engine.rejected = consumer.popped - consumer.processed
      /\ consumer.popped = consumer.processed
  BY <1>3 DEF IInv, Book
<1>6. /\ consumer'.engine.rejected = consumer'.popped - consumer'.processed
      /\ consumer'.popped = consumer'.processed + 1
  BY <1>3, <1>4, <1>5, SizeFacts DEF IInv
<1>7. Book'
  BY <1>1, <1>3, <1>4, <1>6 DEF Book
<1> QED
  BY <1>3, <1>7 DEF IInv

LEMMA StepPreserves == IInv /\ [Next]_vars => IInv'
<1> SUFFICES ASSUME IInv, [Next]_vars PROVE IInv'
  OBVIOUS
<1>1. CASE SeeStop \/ Begin \/ GoOn \/ Finish
  BY <1>1, ProducerMovePreserves
<1>2. CASE Push
  BY <1>2, PushPreserves
<1>3. CASE StayInLoop \/ SeeDone \/ FindEmpty
  BY <1>3, ConsumerMovePreserves
<1>4. CASE Take
  BY <1>4, TakePreserves
<1>5. CASE Fail
  BY <1>5, FailPreserves
<1>6. CASE UNCHANGED vars
  BY <1>6 DEF vars, flags, IInv, Types, Flow, Book, Pushed
<1> QED
  BY <1>1, <1>2, <1>3, <1>4, <1>5, <1>6 DEF Next

LEMMA InvariantHolds == Spec => []IInv
<1>1. Spec => Init /\ [][Next]_vars
  BY DEF Spec
<1> QED
  BY <1>1, InitEstablishes, StepPreserves, PTL

\* At every moment the consumer's book is the direct replay of what it has popped, and
\* the first event the book refuses is the last one popped.
THEOREM RoundFollowsReplay == Spec => []BookIsReplay
<1>1. IInv => BookIsReplay
  <2> SUFFICES ASSUME IInv PROVE consumer.popped - consumer.processed = (IF failed THEN 1 ELSE 0)
    BY DEF IInv, Book, BookIsReplay
  <2>1. consumer.popped = IF failed THEN consumer.processed + 1 ELSE consumer.processed
    BY DEF IInv, Book
  <2> QED
    BY <2>1, SizeFacts DEF IInv
<1> QED
  BY <1>1, InvariantHolds, PTL

\* Once both threads have been joined, run_round has failed exactly if the direct replay
\* of the same events has one refused, and otherwise has the replay's book.
THEOREM RoundOutcome == Spec => []RoundAgreesWithReplay
<1>1. IInv => RoundAgreesWithReplay
  <2> SUFFICES ASSUME IInv, Joined
               PROVE  /\ Throws <=> Replay(events).rejected > 0
                      /\ ~Throws => ~Differs
    BY DEF RoundAgreesWithReplay
  <2>1. consumer.at = "ended" /\ events \in Seq(InputEvents)
    BY DEF Joined, IInv, Types
  <2>2. /\ consumer.popped \in 0..Len(events)
        /\ consumer.popped \in Nat /\ consumer.processed \in Nat /\ Len(events) \in Nat
    BY SizeFacts DEF IInv, Flow
  <2>3. /\ consumer.engine.rejected \in Nat
        /\ Replay(events).rejected \in Nat
        /\ consumer.engine.rejected <= Replay(events).rejected
    BY <2>1, <2>2, RefusalsRemain DEF IInv, Book
  <2>4. consumer.engine.rejected = consumer.popped - consumer.processed
    BY DEF IInv, Book
  <2>5. CASE failed
    <3>1. consumer.popped = consumer.processed + 1
      BY <2>5 DEF IInv, Book
    <3>2. Replay(events).rejected > 0
      BY <2>2, <2>3, <2>4, <3>1
    <3> QED
      BY <2>5, <3>2 DEF Throws
  <2>6. CASE ~failed
    <3>1. consumer.popped = consumer.processed /\ consumer.processed >= Len(events)
      BY <2>1, <2>6 DEF IInv, Book
    <3>2. consumer.popped = Len(events) /\ consumer.processed = Len(events)
      BY <2>2, <3>1
    <3>3. consumer.engine = Replay(events)
      BY <2>1, <3>2, FirstPartOfAll DEF IInv, Book
    <3>4. ~(Replay(events).rejected > 0)
      BY <2>2, <2>4, <3>1, <3>3
    <3> QED
      BY <2>6, <3>2, <3>3, <3>4 DEF Throws, Differs
  <2> QED
    BY <2>5, <2>6
<1> QED
  BY <1>1, InvariantHolds, PTL
==============================================================================
