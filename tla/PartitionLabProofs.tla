-------------------------- MODULE PartitionLabProofs --------------------------
(***************************************************************************)
(* Theorems about the partition lab, for every number of shards, every     *)
(* capacity of their queues and every set of inputs.                       *)
(***************************************************************************)
EXTENDS PartitionLab, EventReplayProofs

(***************************************************************************)
(* Sequences of events.                                                    *)
(***************************************************************************)
LEMMA AppendToConcat ==
  ASSUME NEW S, NEW s \in Seq(S), NEW t \in Seq(S), NEW e \in S
  PROVE  s \o Append(t, e) = (s \o t) \o <<e>>
<1>1. <<e>> \in Seq(S)
  OBVIOUS
<1>2. Append(t, e) = t \o <<e>>
  BY AppendIsConcat
<1> QED
  BY <1>1, <1>2, ConcatAssociative

LEMMA AppendEvent ==
  \A s, t \in Seq(InputEvents) : \A event \in InputEvents :
    s \o Append(t, event) = (s \o t) \o <<event>>
BY AppendToConcat

LEMMA HeadMovesOver ==
  ASSUME NEW S, NEW s \in Seq(S), NEW t \in Seq(S), t # <<>>
  PROVE  Append(s, Head(t)) \o Tail(t) = s \o t
<1>1. /\ Head(t) \in S /\ Tail(t) \in Seq(S) /\ Len(Tail(t)) = Len(t) - 1
      /\ \A i \in 1..Len(Tail(t)) : Tail(t)[i] = t[i + 1]
  BY HeadTailProperties
<1>2. /\ Append(s, Head(t)) \in Seq(S)
      /\ Len(Append(s, Head(t))) = Len(s) + 1
      /\ \A i \in 1..Len(s) : Append(s, Head(t))[i] = s[i]
      /\ Append(s, Head(t))[Len(s) + 1] = Head(t)
  BY <1>1, AppendProperties
<1>3. Len(s) \in Nat /\ Len(t) \in Nat \ {0} /\ Head(t) = t[1]
  BY LenProperties, EmptySeq
<1> DEFINE left  == Append(s, Head(t)) \o Tail(t)
           right == s \o t
<1>4. /\ left \in Seq(S)
      /\ Len(left) = Len(s) + 1 + (Len(t) - 1)
      /\ \A i \in 1..(Len(s) + 1 + (Len(t) - 1)) :
           left[i] = IF i <= Len(s) + 1 THEN Append(s, Head(t))[i] ELSE Tail(t)[i - (Len(s) + 1)]
  BY <1>1, <1>2, ConcatProperties
<1>5. /\ right \in Seq(S)
      /\ Len(right) = Len(s) + Len(t)
      /\ \A i \in 1..(Len(s) + Len(t)) : right[i] = IF i <= Len(s) THEN s[i] ELSE t[i - Len(s)]
  BY ConcatProperties
<1> HIDE DEF left, right
<1>6. Len(left) = Len(right)
  BY <1>3, <1>4, <1>5
<1>7. ASSUME NEW i \in 1..Len(left) PROVE left[i] = right[i]
  <2>1. i \in 1..(Len(s) + 1 + (Len(t) - 1)) /\ i \in 1..(Len(s) + Len(t))
    BY <1>4, <1>5, <1>6
  <2>2. CASE i <= Len(s)
    <3>1. i \in 1..Len(s) /\ i <= Len(s) + 1
      BY <2>1, <2>2, <1>3
    <3>2. left[i] = Append(s, Head(t))[i] /\ right[i] = s[i]
      BY <2>1, <3>1, <1>4, <1>5
    <3> QED
      BY <3>1, <3>2, <1>2
  <2>3. CASE i = Len(s) + 1
    BY <2>1, <2>3, <1>2, <1>3, <1>4, <1>5
  <2>4. CASE i > Len(s) + 1
    <3>1. i - (Len(s) + 1) \in 1..Len(Tail(t)) /\ (i - (Len(s) + 1)) + 1 = i - Len(s)
      BY <2>1, <2>4, <1>1, <1>3
    <3> QED
      BY <2>1, <2>4, <3>1, <1>1, <1>3, <1>4, <1>5
  <2> QED
    BY <2>1, <2>2, <2>3, <2>4, <1>3
<1> QED
  BY <1>4, <1>5, <1>6, <1>7, SeqEqual DEF left, right

LEMMA RouteIsShard ==
  ASSUME NEW event \in InputEvents
  PROVE  route_symbol(event) \in Shards
<1>1. event.order_id \in Nat
  BY LabAssumption
<1> QED
  BY <1>1, LabAssumption DEF route_symbol, Shards

\* What a push does to the counts.
LEMMA OneMorePush ==
  ASSUME NEW taken \in Nat, NEW held \in Nat, NEW count \in Nat, NEW known \in Nat,
         held < QueueCapacity, count = taken + held, taken <= known, known <= count
  PROVE  /\ held + 1 <= QueueCapacity
         /\ count + 1 = taken + (held + 1)
         /\ known <= count + 1
BY LabAssumption

LEMMA NothingAdded ==
  ASSUME NEW taken \in Nat, NEW held \in Nat, taken = taken + held
  PROVE  held = 0
OBVIOUS

(***************************************************************************)
(* The inductive invariant.                                                *)
(***************************************************************************)
Places == {"polling", "checking", "draining", "ended"}

Types ==
  /\ events \in Seq(InputEvents)
  /\ writer \in [at : {"stage", "enqueue", "ended"}, seq : 0..Len(events)]
  /\ staged \in [Shards -> Seq(InputEvents)]
  /\ queues \in [Shards -> Seq(InputEvents)]
  /\ consumed \in [Shards -> Seq(InputEvents)]
  /\ pushed \in [Shards -> Nat]
  /\ seen \in [Shards -> Nat]
  /\ producer_done \in BOOLEAN
  /\ \E engines : matchers \in [Shards -> [at : Places, engine : engines]]
  /\ \A s \in Shards :
       /\ DOMAIN matchers[s].engine = {"book", "trades", "rejected"}
       /\ matchers[s].engine.rejected \in 0..Len(consumed[s])

\* The statistics agree with the queues, and what a matcher has seen lies between
\* what it has taken and what has been pushed.
Counts ==
  \A s \in Shards :
    /\ Len(queues[s]) <= QueueCapacity
    /\ pushed[s] = Len(consumed[s]) + Len(queues[s])
    /\ Len(consumed[s]) <= seen[s] /\ seen[s] <= pushed[s]

\* The event the writer has staged and not enqueued.
InFlight(s) ==
  IF writer.at = "enqueue" /\ route_symbol(events[writer.seq + 1]) = s
  THEN <<events[writer.seq + 1]>> ELSE <<>>

\* Nothing is lost, repeated or reordered on the way from the writer to a matcher.
Flow ==
  \A s \in Shards : staged[s] = (consumed[s] \o queues[s]) \o InFlight(s)

\* The flag tells the truth, and a matcher that has seen it has seen every push.
Shutdown ==
  /\ writer.at = "enqueue" => writer.seq < Len(events)
  /\ producer_done <=> writer.at = "ended"
  /\ \A s \in Shards :
       /\ matchers[s].at \in {"draining", "ended"} => producer_done /\ seen[s] = pushed[s]
       /\ matchers[s].at = "ended" => queues[s] = <<>>

IInv == Types /\ Counts /\ Flow /\ Shutdown

LEMMA InitEstablishes == Init => IInv
<1> SUFFICES ASSUME Init PROVE IInv
  OBVIOUS
<1>1. events \in Seq(InputEvents) /\ <<>> \in Seq(InputEvents)
  BY LabAssumption DEF Init
<1>2. Len(events) \in Nat
  BY <1>1, LenProperties
<1>3. Types
  <2>1. /\ matchers \in [Shards -> [at : Places, engine : {Fresh}]]
        /\ \A s \in Shards : matchers[s].engine = Fresh
    BY DEF Init, Places
  <2>2. \A s \in Shards :
          /\ DOMAIN matchers[s].engine = {"book", "trades", "rejected"}
          /\ matchers[s].engine.rejected \in 0..Len(consumed[s])
    BY <2>1 DEF Init, Fresh
  <2>3. /\ staged \in [Shards -> Seq(InputEvents)] /\ queues \in [Shards -> Seq(InputEvents)]
        /\ consumed \in [Shards -> Seq(InputEvents)]
        /\ pushed \in [Shards -> Nat] /\ seen \in [Shards -> Nat]
        /\ writer \in [at : {"stage", "enqueue", "ended"}, seq : 0..Len(events)]
    BY <1>1, <1>2 DEF Init
  <2> QED
    BY <1>1, <2>1, <2>2, <2>3 DEF Init, Types
<1>4. Counts
  BY LabAssumption DEF Init, Counts
<1>5. Flow
  BY DEF Init, Flow, InFlight
<1>6. Shutdown
  BY DEF Init, Shutdown
<1> QED
  BY <1>3, <1>4, <1>5, <1>6 DEF IInv

(***************************************************************************)
(* One lemma per action.                                                   *)
(***************************************************************************)
LEMMA NextEvent ==
  ASSUME Types, writer.seq < Len(events)
  PROVE  /\ events[writer.seq + 1] \in InputEvents
         /\ route_symbol(events[writer.seq + 1]) \in Shards
<1>1. Len(events) \in Nat /\ writer.seq + 1 \in 1..Len(events)
  BY LenProperties DEF Types
<1>2. events[writer.seq + 1] \in InputEvents
  BY <1>1, ElementOfSeq DEF Types
<1> QED
  BY <1>2, RouteIsShard

LEMMA StagePreserves ==
  ASSUME IInv, Stage
  PROVE  IInv'
<1> DEFINE event == events[writer.seq + 1]
           shard == route_symbol(event)
<1>1. /\ event \in InputEvents /\ shard \in Shards
  BY NextEvent DEF IInv, Stage
<1>2. /\ UNCHANGED <<events, queues, pushed, producer_done, matchers, consumed, seen>>
      /\ staged' = [staged EXCEPT ![shard] = Append(@, event)]
      /\ writer.at = "stage" /\ writer.seq < Len(events)
      /\ writer'.at = "enqueue" /\ writer'.seq = writer.seq
  BY DEF IInv, Types, Stage
<1>3. Types'
  <2>1. staged' \in [Shards -> Seq(InputEvents)]
    BY <1>1, <1>2 DEF IInv, Types
  <2>2. writer' \in [at : {"stage", "enqueue", "ended"}, seq : 0..Len(events)]
    BY DEF IInv, Types, Stage
  <2> QED
    BY <1>2, <2>1, <2>2 DEF IInv, Types
<1>4. Counts'
  BY <1>2 DEF IInv, Counts
<1>5. Flow'
  <2> SUFFICES ASSUME NEW s \in Shards
               PROVE  staged'[s] = (consumed'[s] \o queues'[s]) \o InFlight(s)'
    BY DEF Flow
  <2>1. consumed[s] \o queues[s] \in Seq(InputEvents)
    BY ConcatProperties DEF IInv, Types
  <2>2. staged[s] = consumed[s] \o queues[s]
    BY <1>2, <2>1, ConcatEmptySeq DEF IInv, Flow, InFlight
  <2>3. InFlight(s)' = IF shard = s THEN <<event>> ELSE <<>>
    BY <1>2 DEF InFlight, route_symbol
  <2>4. CASE shard = s
    <3>1. staged'[s] = Append(staged[s], event)
      BY <1>1, <1>2, <2>4 DEF IInv, Types
    <3>2. Append(staged[s], event) = staged[s] \o <<event>>
      BY <1>1, <2>1, <2>2, AppendIsConcat
    <3> QED
      BY <1>2, <2>2, <2>3, <2>4, <3>1, <3>2
  <2>5. CASE shard # s
    <3>1. staged'[s] = staged[s]
      BY <1>2, <2>5 DEF IInv, Types
    <3> QED
      BY <1>2, <2>1, <2>2, <2>3, <2>5, <3>1, ConcatEmptySeq
  <2> QED
    BY <2>4, <2>5
<1>6. Shutdown'
  BY <1>2 DEF IInv, Shutdown
<1> QED
  BY <1>3, <1>4, <1>5, <1>6 DEF IInv

LEMMA EnqueuePreserves ==
  ASSUME IInv, Enqueue
  PROVE  IInv'
<1> DEFINE event == events[writer.seq + 1]
           shard == route_symbol(event)
<1>1. /\ event \in InputEvents /\ shard \in Shards
  BY NextEvent DEF IInv, Shutdown, Enqueue
<1>2. /\ UNCHANGED <<events, staged, producer_done, matchers, consumed, seen>>
      /\ queues' = [queues EXCEPT ![shard] = Append(@, event)]
      /\ pushed' = [pushed EXCEPT ![shard] = @ + 1]
      /\ Len(queues[shard]) < QueueCapacity
      /\ writer.at = "enqueue" /\ writer.seq < Len(events)
      /\ writer'.at = "stage" /\ writer'.seq = writer.seq + 1
  BY DEF IInv, Types, Shutdown, Enqueue, HasRoom
<1>3. Len(events) \in Nat
  BY LenProperties DEF IInv, Types
<1>4. /\ Append(queues[shard], event) \in Seq(InputEvents)
      /\ Len(Append(queues[shard], event)) = Len(queues[shard]) + 1
      /\ Len(queues[shard]) \in Nat /\ Len(consumed[shard]) \in Nat
  BY <1>1, AppendProperties, LenProperties DEF IInv, Types
<1>5. Types'
  <2>1. queues' \in [Shards -> Seq(InputEvents)]
    BY <1>2, <1>4 DEF IInv, Types
  <2>2. pushed' \in [Shards -> Nat]
    <3>1. pushed \in [Shards -> Nat] /\ pushed[shard] + 1 \in Nat
      BY <1>1 DEF IInv, Types
    <3> HIDE DEF shard
    <3> QED
      BY <1>2, <3>1
  <2>3. writer' \in [at : {"stage", "enqueue", "ended"}, seq : 0..Len(events)]
    <3>1. writer' = [at |-> "stage", seq |-> writer.seq + 1]
      BY DEF Enqueue
    <3>2. writer.seq \in 0..Len(events)
      BY DEF IInv, Types
    <3>3. writer.seq + 1 \in 0..Len(events)
      BY <1>2, <1>3, <3>2
    <3> QED
      BY <3>1, <3>3
  <2> QED
    BY <1>2, <2>1, <2>2, <2>3 DEF IInv, Types
<1>6. Counts'
  <2> SUFFICES ASSUME NEW s \in Shards
               PROVE  /\ Len(queues'[s]) <= QueueCapacity
                      /\ pushed'[s] = Len(consumed[s]) + Len(queues'[s])
                      /\ Len(consumed[s]) <= seen[s] /\ seen[s] <= pushed'[s]
    BY <1>2 DEF Counts
  <2>1. CASE s = shard
    <3>1. queues'[s] = Append(queues[s], event) /\ pushed'[s] = pushed[s] + 1
      BY <1>2, <2>1 DEF IInv, Types
    <3>2. /\ Len(queues'[s]) = Len(queues[s]) + 1
          /\ Len(queues[s]) \in Nat /\ Len(consumed[s]) \in Nat
          /\ Len(queues[s]) < QueueCapacity
      BY <1>2, <1>4, <2>1, <3>1
    <3>3. pushed[s] \in Nat /\ seen[s] \in Nat
      BY DEF IInv, Types
    <3>4. /\ pushed[s] = Len(consumed[s]) + Len(queues[s])
          /\ Len(consumed[s]) <= seen[s] /\ seen[s] <= pushed[s]
      BY DEF IInv, Counts
    <3>5. /\ Len(queues[s]) + 1 <= QueueCapacity
          /\ pushed[s] + 1 = Len(consumed[s]) + (Len(queues[s]) + 1)
          /\ seen[s] <= pushed[s] + 1
      BY <3>2, <3>3, <3>4, OneMorePush
    <3>6. pushed'[s] = pushed[s] + 1
      BY <3>1
    <3> QED
      BY <3>2, <3>4, <3>5, <3>6
  <2>2. CASE s # shard
    BY <1>2, <2>2 DEF IInv, Types, Counts
  <2> QED
    BY <2>1, <2>2
<1>7. Flow'
  <2> SUFFICES ASSUME NEW s \in Shards
               PROVE  staged[s] = (consumed[s] \o queues'[s]) \o InFlight(s)'
    BY <1>2 DEF Flow
  <2>1. /\ consumed[s] \in Seq(InputEvents) /\ queues[s] \in Seq(InputEvents)
        /\ consumed[s] \o queues[s] \in Seq(InputEvents)
    BY ConcatProperties DEF IInv, Types
  <2>2. staged[s] = (consumed[s] \o queues[s]) \o (IF shard = s THEN <<event>> ELSE <<>>)
    BY <1>2 DEF IInv, Flow, InFlight
  <2>3. InFlight(s)' = <<>>
    BY <1>2 DEF InFlight
  <2>4. CASE shard = s
    <3>1. queues'[s] = Append(queues[s], event)
      BY <1>1, <1>2, <2>4 DEF IInv, Types
    <3>2. consumed[s] \o queues'[s] = (consumed[s] \o queues[s]) \o <<event>>
      <4>1. consumed[s] \o queues'[s] = consumed[s] \o Append(queues[s], event)
        BY <3>1
      <4>3. consumed[s] \o Append(queues[s], event) = (consumed[s] \o queues[s]) \o <<event>>
        BY <1>1, <2>1, AppendEvent
      <4> QED
        BY <4>1, <4>3
    <3>3. consumed[s] \o queues'[s] \in Seq(InputEvents)
      BY <1>1, <2>1, <3>1, AppendProperties, ConcatProperties
    <3> QED
      BY <2>2, <2>3, <2>4, <3>2, <3>3, ConcatEmptySeq
  <2>5. CASE shard # s
    <3>1. queues'[s] = queues[s]
      BY <1>2, <2>5 DEF IInv, Types
    <3> QED
      BY <2>2, <2>3, <2>5, <3>1
  <2> QED
    BY <2>4, <2>5
<1>8. Shutdown'
  BY <1>2 DEF IInv, Shutdown
<1> QED
  BY <1>5, <1>6, <1>7, <1>8 DEF IInv

LEMMA FinishPreserves ==
  ASSUME IInv, Finish
  PROVE  IInv'
<1>1. /\ UNCHANGED <<events, staged, queues, pushed, matchers, consumed, seen>>
      /\ writer.at = "stage" /\ writer'.at = "ended" /\ writer'.seq = writer.seq
      /\ producer_done' = TRUE
  BY DEF IInv, Types, Finish, DeclareDone
<1>2. Types'
  <2>1. writer' \in [at : {"stage", "enqueue", "ended"}, seq : 0..Len(events)]
    BY DEF IInv, Types, Finish
  <2> QED
    BY <1>1, <2>1 DEF IInv, Types
<1>3. Counts'
  BY <1>1 DEF IInv, Counts
<1>4. Flow'
  BY <1>1 DEF IInv, Flow, InFlight
<1>5. Shutdown'
  BY <1>1 DEF IInv, Shutdown
<1> QED
  BY <1>2, <1>3, <1>4, <1>5 DEF IInv

LEMMA TakePreserves ==
  ASSUME IInv, NEW s \in Shards, Take(s)
  PROVE  IInv'
<1> DEFINE event == Head(queues[s])
<1>1. /\ queues[s] \in Seq(InputEvents) /\ queues[s] # <<>>
      /\ consumed[s] \in Seq(InputEvents)
  BY DEF IInv, Types, Take
<1>2. /\ event \in InputEvents /\ Tail(queues[s]) \in Seq(InputEvents)
      /\ Len(Tail(queues[s])) = Len(queues[s]) - 1
      /\ Len(queues[s]) \in Nat /\ Len(consumed[s]) \in Nat
      /\ Append(consumed[s], event) \in Seq(InputEvents)
      /\ Len(Append(consumed[s], event)) = Len(consumed[s]) + 1
  BY <1>1, HeadTailProperties, AppendProperties, LenProperties
<1>3. /\ UNCHANGED <<events, pushed, writer, staged, producer_done>>
      /\ consumed' = [consumed EXCEPT ![s] = Append(@, event)]
      /\ queues' = [queues EXCEPT ![s] = Tail(@)]
      /\ matchers' = [matchers EXCEPT ![s].engine = Process(@, event)]
  BY DEF Take, Oldest, writerVars
<1>4. PICK n \in (Len(consumed[s]) + 1)..pushed[s] :
        n >= seen[s] /\ seen' = [seen EXCEPT ![s] = n]
  BY DEF Take
<1>5. /\ DOMAIN Process(matchers[s].engine, event) = {"book", "trades", "rejected"}
      /\ Process(matchers[s].engine, event).rejected \in 0..(Len(consumed[s]) + 1)
  <2> DEFINE state == matchers[s].engine
  <2>1. DOMAIN state = {"book", "trades", "rejected"} /\ state.rejected \in 0..Len(consumed[s])
    BY DEF IInv, Types
  <2> HIDE DEF state, event
  <2>2. state.rejected \in Nat
    BY <1>2, <2>1
  <2>3. /\ DOMAIN Process(state, event) = {"book", "trades", "rejected"}
        /\ Process(state, event).rejected =
             IF Refused(state, event) THEN state.rejected + 1 ELSE state.rejected
    BY <2>1, <2>2, ProcessFacts
  <2> QED
    BY <1>2, <2>1, <2>3 DEF state
<1>6. /\ \E engines : matchers' \in [Shards -> [at : Places, engine : engines]]
      /\ matchers'[s].engine = Process(matchers[s].engine, event)
      /\ \A t \in Shards \ {s} : matchers'[t] = matchers[t]
      /\ \A t \in Shards : matchers'[t].at = matchers[t].at
  <2>1. PICK engines : matchers \in [Shards -> [at : Places, engine : engines]]
    BY DEF IInv, Types
  <2> DEFINE after == Process(matchers[s].engine, event)
  <2>2. matchers' = [matchers EXCEPT ![s].engine = after]
    BY <1>3
  <2> HIDE DEF after
  <2>3. matchers' \in [Shards -> [at : Places, engine : engines \cup {after}]]
    BY <2>1, <2>2
  <2>4. /\ matchers'[s].engine = after
        /\ \A t \in Shards \ {s} : matchers'[t] = matchers[t]
        /\ \A t \in Shards : matchers'[t].at = matchers[t].at
    BY <2>1, <2>2
  <2> QED
    BY <2>3, <2>4 DEF after
<1>7. n \in Nat /\ n <= pushed[s] /\ Len(consumed[s]) + 1 <= n /\ seen[s] <= n
  BY <1>2, <1>4 DEF IInv, Types
<1>8. /\ consumed'[s] = Append(consumed[s], event) /\ queues'[s] = Tail(queues[s])
      /\ seen'[s] = n
      /\ \A t \in Shards \ {s} : /\ consumed'[t] = consumed[t] /\ queues'[t] = queues[t]
                                 /\ seen'[t] = seen[t]
  BY <1>3, <1>4 DEF IInv, Types
<1>9. Types'
  <2>1. /\ consumed' \in [Shards -> Seq(InputEvents)]
        /\ queues' \in [Shards -> Seq(InputEvents)]
        /\ seen' \in [Shards -> Nat]
    BY <1>2, <1>3, <1>4, <1>7 DEF IInv, Types
  <2>2. ASSUME NEW t \in Shards
        PROVE  /\ DOMAIN matchers'[t].engine = {"book", "trades", "rejected"}
               /\ matchers'[t].engine.rejected \in 0..Len(consumed'[t])
    <3>1. CASE t = s
      BY <3>1, <1>2, <1>5, <1>6, <1>8 DEF IInv, Types
    <3>2. CASE t # s
      BY <3>2, <1>6, <1>8 DEF IInv, Types
    <3> QED
      BY <3>1, <3>2
  <2> QED
    BY <1>3, <1>6, <2>1, <2>2 DEF IInv, Types
<1>10. Counts'
  <2> SUFFICES ASSUME NEW t \in Shards
               PROVE  /\ Len(queues'[t]) <= QueueCapacity
                      /\ pushed[t] = Len(consumed'[t]) + Len(queues'[t])
                      /\ Len(consumed'[t]) <= seen'[t] /\ seen'[t] <= pushed[t]
    BY <1>3 DEF Counts
  <2>1. CASE t = s
    BY <2>1, <1>2, <1>7, <1>8, LabAssumption DEF IInv, Types, Counts
  <2>2. CASE t # s
    BY <2>2, <1>8 DEF IInv, Counts
  <2> QED
    BY <2>1, <2>2
<1>11. Flow'
  <2> SUFFICES ASSUME NEW t \in Shards
               PROVE  staged[t] = (consumed'[t] \o queues'[t]) \o InFlight(t)'
    BY <1>3 DEF Flow
  <2>1. InFlight(t)' = InFlight(t)
    BY <1>3 DEF InFlight
  <2>2. consumed'[t] \o queues'[t] = consumed[t] \o queues[t]
    <3>1. CASE t = s
      BY <3>1, <1>1, <1>8, HeadMovesOver
    <3>2. CASE t # s
      BY <3>2, <1>8
    <3> QED
      BY <3>1, <3>2
  <2> QED
    BY <2>1, <2>2 DEF IInv, Flow
<1>12. Shutdown'
  <2>1. ASSUME NEW t \in Shards
        PROVE  /\ matchers'[t].at \in {"draining", "ended"} => producer_done /\ seen'[t] = pushed[t]
               /\ matchers'[t].at = "ended" => queues'[t] = <<>>
    <3>1. CASE t = s
      <4>1. matchers[s].at # "ended"
        BY <1>1 DEF IInv, Shutdown
      <4>2. matchers[s].at = "draining" => n = pushed[s]
        BY <1>7 DEF IInv, Shutdown, Types
      <4> QED
        BY <3>1, <4>1, <4>2, <1>6, <1>8 DEF IInv, Shutdown
    <3>2. CASE t # s
      BY <3>2, <1>6, <1>8 DEF IInv, Shutdown
    <3> QED
      BY <3>1, <3>2
  <2> QED
    BY <1>3, <2>1 DEF IInv, Shutdown
<1> QED
  BY <1>9, <1>10, <1>11, <1>12 DEF IInv

\* A step of a matcher that changes nothing but where it is, and perhaps what it has seen.
LEMMA MovePreserves ==
  ASSUME IInv, NEW s \in Shards, NEW place \in Places, NEW n \in Nat,
         UNCHANGED <<events, queues, pushed, consumed, writer, staged, producer_done>>,
         matchers' = [matchers EXCEPT ![s].at = place],
         seen' = [seen EXCEPT ![s] = n],
         Len(consumed[s]) <= n, n <= pushed[s],
         place \in {"draining", "ended"} => producer_done /\ n = pushed[s],
         place = "ended" => queues[s] = <<>>
  PROVE  IInv'
<1>1. /\ \E engines : matchers' \in [Shards -> [at : Places, engine : engines]]
      /\ matchers'[s].at = place /\ matchers'[s].engine = matchers[s].engine
      /\ \A t \in Shards \ {s} : matchers'[t] = matchers[t]
  <2>1. PICK engines : matchers \in [Shards -> [at : Places, engine : engines]]
    BY DEF IInv, Types
  <2> QED
    BY <2>1
<1>2. seen'[s] = n /\ \A t \in Shards \ {s} : seen'[t] = seen[t]
  BY DEF IInv, Types
<1>3. Types'
  <2>1. seen' \in [Shards -> Nat]
    BY DEF IInv, Types
  <2>2. ASSUME NEW t \in Shards
        PROVE  /\ DOMAIN matchers'[t].engine = {"book", "trades", "rejected"}
               /\ matchers'[t].engine.rejected \in 0..Len(consumed'[t])
    BY <1>1 DEF IInv, Types
  <2> QED
    BY <1>1, <2>1, <2>2 DEF IInv, Types
<1>4. Counts'
  BY <1>2 DEF IInv, Counts
<1>5. Flow'
  BY DEF IInv, Flow, InFlight
<1>6. Shutdown'
  BY <1>1, <1>2 DEF IInv, Shutdown
<1> QED
  BY <1>3, <1>4, <1>5, <1>6 DEF IInv

LEMMA FindEmptyPreserves ==
  ASSUME IInv, NEW s \in Shards, FindEmpty(s)
  PROVE  IInv'
<1> DEFINE place == IF matchers[s].at = "polling" THEN "checking" ELSE "ended"
<1>1. /\ UNCHANGED <<events, queues, pushed, consumed, writer, staged, producer_done>>
      /\ matchers' = [matchers EXCEPT ![s].at = place]
      /\ seen' = [seen EXCEPT ![s] = seen[s]]
      /\ place \in Places
      /\ seen[s] = Len(consumed[s]) /\ seen[s] \in Nat
  BY DEF IInv, Types, FindEmpty, writerVars, Places
<1>2. seen[s] <= pushed[s]
  BY DEF IInv, Counts
<1>3. place \in {"draining", "ended"} =>
        producer_done /\ seen[s] = pushed[s] /\ queues[s] = <<>>
  <2> SUFFICES ASSUME matchers[s].at = "draining"
               PROVE  producer_done /\ seen[s] = pushed[s] /\ queues[s] = <<>>
    BY DEF FindEmpty, Popping
  <2>1. producer_done /\ seen[s] = pushed[s]
    BY DEF IInv, Shutdown
  <2>2. /\ Len(queues[s]) \in Nat /\ Len(consumed[s]) \in Nat
        /\ pushed[s] = Len(consumed[s]) + Len(queues[s])
        /\ queues[s] \in Seq(InputEvents)
    BY LenProperties DEF IInv, Types, Counts
  <2>3. seen[s] = Len(consumed[s])
    BY DEF FindEmpty
  <2>4. Len(consumed[s]) = Len(consumed[s]) + Len(queues[s])
    BY <2>1, <2>2, <2>3
  <2>5. Len(queues[s]) = 0
    BY <2>2, <2>4, NothingAdded
  <2> QED
    BY <2>1, <2>2, <2>5, EmptySeq
<1>4. Len(consumed[s]) <= seen[s]
  BY DEF IInv, Counts
<1> HIDE DEF place
<1> QED
  BY <1>1, <1>2, <1>3, <1>4, MovePreserves

LEMMA SeeNotDonePreserves ==
  ASSUME IInv, NEW s \in Shards, SeeNotDone(s)
  PROVE  IInv'
<1>1. /\ UNCHANGED <<events, queues, pushed, consumed, writer, staged, producer_done>>
      /\ matchers' = [matchers EXCEPT ![s].at = "polling"]
      /\ seen' = [seen EXCEPT ![s] = seen[s]]
      /\ seen[s] \in Nat
      /\ Len(consumed[s]) <= seen[s] /\ seen[s] <= pushed[s]
  BY DEF IInv, Types, Counts, SeeNotDone, writerVars
<1> QED
  BY <1>1, MovePreserves DEF Places

LEMMA SeeDonePreserves ==
  ASSUME IInv, NEW s \in Shards, SeeDone(s)
  PROVE  IInv'
<1>1. /\ UNCHANGED <<events, queues, pushed, consumed, writer, staged, producer_done>>
      /\ matchers' = [matchers EXCEPT ![s].at = "draining"]
      /\ seen' = [seen EXCEPT ![s] = pushed[s]]
      /\ producer_done
      /\ pushed[s] \in Nat /\ seen[s] \in Nat
      /\ Len(consumed[s]) <= seen[s] /\ seen[s] <= pushed[s]
      /\ Len(consumed[s]) \in Nat
  BY LenProperties DEF IInv, Types, Counts, SeeDone, SeeAllPushes, writerVars
<1>2. Len(consumed[s]) <= pushed[s] /\ pushed[s] <= pushed[s]
  BY <1>1
<1> QED
  BY <1>1, <1>2, MovePreserves DEF Places

LEMMA StepPreserves == IInv /\ [Next]_vars => IInv'
<1> SUFFICES ASSUME IInv, [Next]_vars PROVE IInv'
  OBVIOUS
<1>1. CASE Stage
  BY <1>1, StagePreserves
<1>2. CASE Enqueue
  BY <1>2, EnqueuePreserves
<1>3. CASE Finish
  BY <1>3, FinishPreserves
<1>4. ASSUME NEW s \in Shards, Take(s) PROVE IInv'
  BY <1>4, TakePreserves
<1>5. ASSUME NEW s \in Shards, FindEmpty(s) PROVE IInv'
  BY <1>5, FindEmptyPreserves
<1>6. ASSUME NEW s \in Shards, SeeNotDone(s) PROVE IInv'
  BY <1>6, SeeNotDonePreserves
<1>7. ASSUME NEW s \in Shards, SeeDone(s) PROVE IInv'
  BY <1>7, SeeDonePreserves
<1>8. CASE UNCHANGED vars
  BY <1>8 DEF vars, IInv, Types, Counts, Flow, InFlight, Shutdown
<1> QED
  BY <1>1, <1>2, <1>3, <1>4, <1>5, <1>6, <1>7, <1>8 DEF Next

LEMMA InvariantHolds == Spec => []IInv
<1>1. Spec => Init /\ [][Next]_vars
  BY DEF Spec
<1> QED
  BY <1>1, InitEstablishes, StepPreserves, PTL

LEMMA IInvSaysEnough == IInv => TypeOK
<1> SUFFICES ASSUME IInv PROVE TypeOK
  OBVIOUS
<1>1. ASSUME NEW s \in Shards PROVE seen[s] \in Len(consumed[s])..pushed[s]
  <2>1. Len(consumed[s]) \in Nat /\ seen[s] \in Nat /\ pushed[s] \in Nat
    BY LenProperties DEF IInv, Types
  <2>2. Len(consumed[s]) <= seen[s] /\ seen[s] <= pushed[s]
    BY DEF IInv, Counts
  <2> QED
    BY <2>1, <2>2
<1> QED
  BY <1>1 DEF IInv, Types, Counts, TypeOK, Places

\* The queues never hold more than their capacity, no push is uncounted, no matcher sees
\* a push that has not happened, and a book refuses no more events than it was given.
THEOREM TypeCorrect == Spec => []TypeOK
<1>1. IInv => TypeOK
  BY IInvSaysEnough
<1> QED
  BY <1>1, InvariantHolds, PTL

\* A matcher that has ended has taken exactly the events staged for its shard, in that
\* order, and none will follow.
NothingLeftBehind ==
  \A s \in Shards :
    matchers[s].at = "ended" =>
      writer.at = "ended" /\ queues[s] = <<>> /\ consumed[s] = staged[s]

\* The drain after producer_done is enough: however late the loads of the matchers, no
\* shard loses, repeats or reorders an event.
THEOREM DrainIsComplete == Spec => []NothingLeftBehind
<1>1. IInv => NothingLeftBehind
  <2> SUFFICES ASSUME IInv, NEW s \in Shards, matchers[s].at = "ended"
               PROVE  writer.at = "ended" /\ queues[s] = <<>> /\ consumed[s] = staged[s]
    BY DEF NothingLeftBehind
  <2>1. writer.at = "ended" /\ queues[s] = <<>>
    BY DEF IInv, Shutdown
  <2>2. InFlight(s) = <<>>
    BY <2>1 DEF InFlight
  <2>3. staged[s] = (consumed[s] \o queues[s]) \o InFlight(s)
    BY DEF IInv, Flow
  <2>4. consumed[s] \in Seq(InputEvents)
    BY DEF IInv, Types
  <2> QED
    BY <2>1, <2>2, <2>3, <2>4, ConcatEmptySeq
<1> QED
  BY <1>1, InvariantHolds, PTL

(***************************************************************************)
(* What the writer stages is what the input has for the shard.             *)
(***************************************************************************)
BeginsWith(long, short) ==
  Len(short) <= Len(long) /\ \A i \in 1..Len(short) : long[i] = short[i]

\* The defining equation of SharesOfFirst(s).
FirstShares(s, first) ==
  first = [n \in 0..Len(events) |->
             IF n = 0 THEN <<>>
             ELSE IF events[n].order_id % ShardCount = s THEN Append(first[n - 1], events[n])
             ELSE first[n - 1]]

LEMMA SharesOfFirstExist ==
  ASSUME NEW s, Len(events) \in Nat
  PROVE  FirstShares(s, SharesOfFirst(s))
<1> DEFINE NextShare(before, k) ==
             IF events[k].order_id % ShardCount = s THEN Append(before, events[k]) ELSE before
           UpTo(n, first) ==
             first = [k \in 0..n |-> IF k = 0 THEN <<>> ELSE NextShare(first[k - 1], k)]
           reached == {n \in Nat : \E first : UpTo(n, first)}
<1>1. 0 \in reached
  <2>1. UpTo(0, [k \in 0..0 |-> <<>>])
    OBVIOUS
  <2> QED
    BY <2>1
<1>2. ASSUME NEW n \in Nat, n \in reached
      PROVE  n + 1 \in reached
  <2>1. PICK first : UpTo(n, first)
    BY <1>2
  <2> HIDE DEF NextShare
  <2> DEFINE longer == [k \in 0..(n + 1) |-> IF k <= n THEN first[k] ELSE NextShare(first[n], n + 1)]
  <2>2. UpTo(n + 1, longer)
    BY <2>1
  <2> HIDE DEF UpTo, longer
  <2>3. \E f : UpTo(n + 1, f)
    BY <2>2
  <2> QED
    BY <2>3
<1>3. Len(events) \in reached
  <2> HIDE DEF reached
  <2> QED
    BY <1>1, <1>2, NaturalsAreReached
<1>4. PICK some : FirstShares(s, some)
  BY <1>3 DEF FirstShares
<1> DEFINE first == CHOOSE first : FirstShares(s, first)
<1>5. FirstShares(s, first)
  BY <1>4
<1>6. SharesOfFirst(s) = first
  BY DEF FirstShares, SharesOfFirst
<1> HIDE DEF first
<1> QED
  BY <1>5, <1>6

\* The share of one more event has that event more, or is the same.
LEMMA ShareOfNext ==
  ASSUME NEW s, events \in Seq(InputEvents), NEW n \in Nat, n < Len(events)
  PROVE  SharesOfFirst(s)[n + 1] =
           IF route_symbol(events[n + 1]) = s THEN Append(SharesOfFirst(s)[n], events[n + 1])
           ELSE SharesOfFirst(s)[n]
<1> DEFINE f == SharesOfFirst(s)
<1>1. Len(events) \in Nat
  BY LenProperties
<1>2. f = [k \in 0..Len(events) |->
             IF k = 0 THEN <<>>
             ELSE IF events[k].order_id % ShardCount = s THEN Append(f[k - 1], events[k])
             ELSE f[k - 1]]
  BY <1>1, SharesOfFirstExist DEF FirstShares
<1> HIDE DEF f
<1>3. n + 1 \in 0..Len(events) /\ n + 1 # 0 /\ (n + 1) - 1 = n
  BY <1>1
<1>4. f[n + 1] = IF events[n + 1].order_id % ShardCount = s THEN Append(f[n], events[n + 1])
                 ELSE f[n]
  BY <1>2, <1>3, Zenon
<1> QED
  BY <1>4 DEF f, route_symbol

LEMMA ShareOfNone ==
  ASSUME NEW s, events \in Seq(InputEvents)
  PROVE  SharesOfFirst(s)[0] = <<>>
<1> DEFINE f == SharesOfFirst(s)
<1>1. Len(events) \in Nat
  BY LenProperties
<1>2. f = [k \in 0..Len(events) |->
             IF k = 0 THEN <<>>
             ELSE IF events[k].order_id % ShardCount = s THEN Append(f[k - 1], events[k])
             ELSE f[k - 1]]
  BY <1>1, SharesOfFirstExist DEF FirstShares
<1> HIDE DEF f
<1>3. 0 \in 0..Len(events)
  BY <1>1
<1>4. f[0] = <<>>
  BY <1>2, <1>3, Zenon
<1> QED
  BY <1>4 DEF f

\* The share of the whole input begins with the share of each first part of it.
LEMMA SharesGrow ==
  ASSUME NEW s, events \in Seq(InputEvents), NEW m \in 0..Len(events)
  PROVE  /\ Share(s) \in Seq(InputEvents)
         /\ SharesOfFirst(s)[m] \in Seq(InputEvents)
         /\ BeginsWith(Share(s), SharesOfFirst(s)[m])
<1> DEFINE f == SharesOfFirst(s)
           good == {n \in Nat : n <= Len(events) =>
                      /\ f[n] \in Seq(InputEvents)
                      /\ m <= n => f[m] \in Seq(InputEvents) /\ BeginsWith(f[n], f[m])}
<1>1. Len(events) \in Nat /\ m \in Nat /\ m <= Len(events)
  BY LenProperties
<1>2. 0 \in good
  <2>1. f[0] = <<>> /\ <<>> \in Seq(InputEvents)
    BY ShareOfNone
  <2>2. m <= 0 => m = 0
    BY <1>1
  <2> HIDE DEF f
  <2>3. BeginsWith(f[0], f[0])
    BY <2>1 DEF BeginsWith
  <2> QED
    BY <2>1, <2>2, <2>3
<1>3. ASSUME NEW n \in Nat, n \in good
      PROVE  n + 1 \in good
  <2> HIDE DEF f
  <2> SUFFICES ASSUME n + 1 <= Len(events)
               PROVE  /\ f[n + 1] \in Seq(InputEvents)
                      /\ m <= n + 1 => f[m] \in Seq(InputEvents) /\ BeginsWith(f[n + 1], f[m])
    OBVIOUS
  <2>1. n < Len(events) /\ n <= Len(events) /\ n + 1 \in 1..Len(events)
    BY <1>1
  <2>2. events[n + 1] \in InputEvents
    BY <2>1, ElementOfSeq
  <2>3. /\ f[n] \in Seq(InputEvents)
        /\ m <= n => f[m] \in Seq(InputEvents) /\ BeginsWith(f[n], f[m])
    BY <1>3, <2>1
  <2>4. /\ f[n + 1] \in Seq(InputEvents)
        /\ Len(f[n]) \in Nat /\ Len(f[n]) <= Len(f[n + 1])
        /\ \A i \in 1..Len(f[n]) : f[n + 1][i] = f[n][i]
    <3>1. f[n + 1] = Append(f[n], events[n + 1]) \/ f[n + 1] = f[n]
      BY <2>1, ShareOfNext DEF f
    <3>2. Len(f[n]) \in Nat
      BY <2>3, LenProperties
    <3>3. CASE f[n + 1] = f[n]
      BY <2>3, <3>2, <3>3
    <3>4. CASE f[n + 1] = Append(f[n], events[n + 1])
      BY <2>2, <2>3, <3>2, <3>4, AppendProperties
    <3> QED
      BY <3>1, <3>3, <3>4
  <2>5. CASE m <= n
    <3>1. Len(f[m]) \in Nat
      BY <2>3, <2>5, LenProperties
    <3> QED
      BY <2>3, <2>4, <2>5, <3>1 DEF BeginsWith
  <2>6. CASE m = n + 1
    <3>1. Len(f[m]) \in Nat
      BY <2>4, <2>6, LenProperties
    <3> QED
      BY <2>4, <2>6, <3>1 DEF BeginsWith
  <2> QED
    BY <1>1, <2>4, <2>5, <2>6
<1>4. \A n \in Nat : n \in good
  <2> HIDE DEF good
  <2> QED
    BY <1>2, <1>3, NaturalsAreReached
<1> QED
  BY <1>1, <1>4 DEF Share

(***************************************************************************)
(* The totals of the statistics.                                           *)
(***************************************************************************)
SumsOf(counts, sum) ==
  sum = [n \in 0..ShardCount |-> IF n = 0 THEN 0 ELSE sum[n - 1] + counts[n - 1]]

LEMMA TotalIsLastSum ==
  ASSUME NEW counts
  PROVE  \E sum : /\ sum[0] = 0
                  /\ \A n \in Nat : n < ShardCount => sum[n + 1] = sum[n] + counts[n]
                  /\ Total(counts) = sum[ShardCount]
<1> DEFINE UpTo(n, sum) ==
             sum = [k \in 0..n |-> IF k = 0 THEN 0 ELSE sum[k - 1] + counts[k - 1]]
           reached == {n \in Nat : \E sum : UpTo(n, sum)}
<1>1. 0 \in reached
  <2>1. UpTo(0, [k \in 0..0 |-> 0])
    OBVIOUS
  <2> QED
    BY <2>1
<1>2. ASSUME NEW n \in Nat, n \in reached
      PROVE  n + 1 \in reached
  <2>1. PICK sum : UpTo(n, sum)
    BY <1>2
  <2> DEFINE longer ==
               [k \in 0..(n + 1) |-> IF k <= n THEN sum[k] ELSE sum[n] + counts[n]]
  <2>2. UpTo(n + 1, longer)
    BY <2>1
  <2> HIDE DEF UpTo, longer
  <2>3. \E f : UpTo(n + 1, f)
    BY <2>2
  <2> QED
    BY <2>3
<1>3. ShardCount \in reached
  <2> HIDE DEF reached
  <2> QED
    BY <1>1, <1>2, NaturalsAreReached, LabAssumption
<1>4. PICK some : SumsOf(counts, some)
  BY <1>3 DEF SumsOf
<1> DEFINE sum == CHOOSE sum : SumsOf(counts, sum)
<1>5. SumsOf(counts, sum)
  BY <1>4
<1>6. Total(counts) = sum[ShardCount]
  BY DEF Total, SumsOf
<1> HIDE DEF sum
<1>7. sum[0] = 0
  BY <1>5, LabAssumption DEF SumsOf
<1>8. ASSUME NEW n \in Nat, n < ShardCount
      PROVE  sum[n + 1] = sum[n] + counts[n]
  <2>1. n + 1 \in 0..ShardCount /\ n + 1 # 0 /\ (n + 1) - 1 = n
    BY <1>8, LabAssumption
  <2>2. sum[n + 1] = sum[(n + 1) - 1] + counts[(n + 1) - 1]
    BY <1>5, <2>1, Zenon DEF SumsOf
  <2> QED
    BY <2>1, <2>2
<1> QED
  BY <1>6, <1>7, <1>8

LEMMA TotalOfNothing ==
  ASSUME NEW counts, \A s \in Shards : counts[s] = 0
  PROVE  Total(counts) = 0
<1>1. PICK sum : /\ sum[0] = 0
                 /\ \A n \in Nat : n < ShardCount => sum[n + 1] = sum[n] + counts[n]
                 /\ Total(counts) = sum[ShardCount]
  BY TotalIsLastSum
<1> DEFINE zero == {n \in Nat : n <= ShardCount => sum[n] = 0}
<1>2. 0 \in zero
  BY <1>1
<1>3. ASSUME NEW n \in Nat, n \in zero PROVE n + 1 \in zero
  <2> SUFFICES ASSUME n + 1 <= ShardCount PROVE sum[n + 1] = 0
    OBVIOUS
  <2>1. n < ShardCount /\ n <= ShardCount /\ n \in Shards
    BY LabAssumption DEF Shards
  <2> QED
    BY <1>1, <1>3, <2>1
<1>4. \A n \in Nat : n \in zero
  <2> HIDE DEF zero
  <2> QED
    BY <1>2, <1>3, NaturalsAreReached
<1> QED
  BY <1>1, <1>4, LabAssumption

LEMMA TotalOfOneMore ==
  ASSUME NEW old \in [Shards -> Nat], NEW new \in [Shards -> Nat], NEW s \in Shards,
         new[s] = old[s] + 1, \A t \in Shards \ {s} : new[t] = old[t]
  PROVE  Total(new) = Total(old) + 1
<1>1. PICK before : /\ before[0] = 0
                    /\ \A n \in Nat : n < ShardCount => before[n + 1] = before[n] + old[n]
                    /\ Total(old) = before[ShardCount]
  BY TotalIsLastSum
<1>2. PICK after : /\ after[0] = 0
                   /\ \A n \in Nat : n < ShardCount => after[n + 1] = after[n] + new[n]
                   /\ Total(new) = after[ShardCount]
  BY TotalIsLastSum
<1>3. s \in Nat /\ s < ShardCount /\ ShardCount \in Nat
  BY LabAssumption DEF Shards
<1> DEFINE good == {n \in Nat : n <= ShardCount =>
                      /\ before[n] \in Nat
                      /\ after[n] = before[n] + (IF s < n THEN 1 ELSE 0)}
<1>4. 0 \in good
  BY <1>1, <1>2, <1>3
<1>5. ASSUME NEW n \in Nat, n \in good PROVE n + 1 \in good
  <2> SUFFICES ASSUME n + 1 <= ShardCount
               PROVE  /\ before[n + 1] \in Nat
                      /\ after[n + 1] = before[n + 1] + (IF s < n + 1 THEN 1 ELSE 0)
    OBVIOUS
  <2>1. n < ShardCount /\ n <= ShardCount /\ n \in Shards
    BY <1>3 DEF Shards
  <2>2. /\ before[n] \in Nat /\ old[n] \in Nat /\ new[n] \in Nat
        /\ after[n] = before[n] + (IF s < n THEN 1 ELSE 0)
        /\ before[n + 1] = before[n] + old[n]
        /\ after[n + 1] = after[n] + new[n]
    BY <1>1, <1>2, <1>5, <2>1
  <2>3. CASE s = n
    <3>1. ~(s < n) /\ s < n + 1 /\ new[n] = old[n] + 1
      BY <2>3, <1>3
    <3> QED
      BY <2>2, <3>1
  <2>4. CASE s # n
    <3>1. (s < n + 1 <=> s < n) /\ new[n] = old[n]
      BY <2>1, <2>4, <1>3
    <3> QED
      BY <2>2, <3>1
  <2> QED
    BY <2>3, <2>4
<1>6. \A n \in Nat : n \in good
  <2> HIDE DEF good
  <2> QED
    BY <1>4, <1>5, NaturalsAreReached
<1> QED
  BY <1>1, <1>2, <1>3, <1>6

(***************************************************************************)
(* The invariant of the report.                                            *)
(***************************************************************************)
\* A book is the replay of what its matcher has taken.
Books == \A s \in Shards : matchers[s].engine = Replay(consumed[s])

StagedSoFar == IF writer.at = "enqueue" THEN writer.seq + 1 ELSE writer.seq

\* What is staged for a shard is its share of the events the writer has come to.
Routed == \A s \in Shards : staged[s] = SharesOfFirst(s)[StagedSoFar]

\* Every event the writer is done with is counted once, and it ends with the input.
AllCounted ==
  /\ Total(pushed) = writer.seq
  /\ writer.at = "ended" => writer.seq = Len(events)

LabInv == IInv /\ Books /\ Routed /\ AllCounted

LEMMA LabInvInit == Init => LabInv
<1> SUFFICES ASSUME Init PROVE Books /\ Routed /\ AllCounted
  BY InitEstablishes DEF LabInv
<1>1. Books
  BY ReplayOfNothing DEF Init, Books
<1>2. events \in Seq(InputEvents) /\ StagedSoFar = 0
  BY LabAssumption DEF Init, StagedSoFar
<1>3. Routed
  BY <1>2, ShareOfNone DEF Init, Routed
<1>4. AllCounted
  <2>1. \A s \in Shards : pushed[s] = 0
    BY DEF Init
  <2> QED
    BY <2>1, TotalOfNothing DEF Init, AllCounted
<1> QED
  BY <1>1, <1>3, <1>4

LEMMA StageIsRouted ==
  ASSUME LabInv, Stage
  PROVE  Books' /\ Routed' /\ AllCounted'
<1> DEFINE event == events[writer.seq + 1]
           shard == route_symbol(event)
<1>1. /\ UNCHANGED <<events, pushed, matchers, consumed>>
      /\ staged' = [staged EXCEPT ![shard] = Append(@, event)]
      /\ writer.at = "stage" /\ writer.seq < Len(events)
      /\ writer'.at = "enqueue" /\ writer'.seq = writer.seq
      /\ writer.seq \in Nat /\ events \in Seq(InputEvents)
  BY DEF LabInv, IInv, Types, Stage
<1>2. shard \in Shards /\ staged \in [Shards -> Seq(InputEvents)]
  BY NextEvent DEF LabInv, IInv, Types, Stage
<1>3. Books' /\ AllCounted'
  <2>1. Books'
    BY <1>1 DEF LabInv, Books
  <2>2. Total(pushed)' = Total(pushed)
    BY <1>1 DEF Total
  <2> QED
    BY <1>1, <2>1, <2>2 DEF LabInv, AllCounted
<1>4. StagedSoFar = writer.seq /\ StagedSoFar' = writer.seq + 1
  BY <1>1 DEF StagedSoFar
<1>5. ASSUME NEW s \in Shards
      PROVE  staged'[s] = SharesOfFirst(s)[writer.seq + 1]
  <2>1. staged[s] = SharesOfFirst(s)[writer.seq]
    BY <1>4 DEF LabInv, Routed
  <2>2. SharesOfFirst(s)[writer.seq + 1] =
          IF shard = s THEN Append(SharesOfFirst(s)[writer.seq], event)
          ELSE SharesOfFirst(s)[writer.seq]
    BY <1>1, ShareOfNext
  <2> HIDE DEF shard, event
  <2>3. staged'[s] = IF shard = s THEN Append(staged[s], event) ELSE staged[s]
    BY <1>1, <1>2
  <2> QED
    BY <2>1, <2>2, <2>3
<1>6. \A s \in Shards : SharesOfFirst(s)' = SharesOfFirst(s)
  BY <1>1 DEF SharesOfFirst
<1>7. Routed'
  BY <1>4, <1>5, <1>6 DEF Routed
<1> QED
  BY <1>3, <1>7

LEMMA EnqueueIsCounted ==
  ASSUME LabInv, Enqueue
  PROVE  Books' /\ Routed' /\ AllCounted'
<1> DEFINE shard == route_symbol(events[writer.seq + 1])
<1>1. /\ UNCHANGED <<events, staged, matchers, consumed>>
      /\ pushed' = [pushed EXCEPT ![shard] = @ + 1]
      /\ writer.at = "enqueue"
      /\ writer'.at = "stage" /\ writer'.seq = writer.seq + 1
  BY DEF LabInv, IInv, Types, Enqueue
<1>2. shard \in Shards /\ pushed \in [Shards -> Nat]
  BY NextEvent DEF LabInv, IInv, Types, Shutdown, Enqueue
<1>3. Books'
  BY <1>1 DEF LabInv, Books
<1>4. Routed'
  <2>1. StagedSoFar' = StagedSoFar
    BY <1>1 DEF StagedSoFar
  <2>2. \A s \in Shards : SharesOfFirst(s)' = SharesOfFirst(s)
    BY <1>1 DEF SharesOfFirst
  <2> QED
    BY <1>1, <2>1, <2>2 DEF LabInv, Routed
<1>5. AllCounted'
  <2> HIDE DEF shard
  <2>1. PICK new : new = [pushed EXCEPT ![shard] = @ + 1]
    OBVIOUS
  <2>2. /\ new \in [Shards -> Nat] /\ new[shard] = pushed[shard] + 1
        /\ \A t \in Shards \ {shard} : new[t] = pushed[t]
    BY <1>2, <2>1
  <2>3. Total(new) = Total(pushed) + 1
    BY <1>2, <2>2, TotalOfOneMore
  <2>4. Total(pushed)' = Total(new)
    BY <1>1, <2>1 DEF Total
  <2> QED
    BY <1>1, <2>3, <2>4 DEF LabInv, AllCounted
<1> QED
  BY <1>3, <1>4, <1>5

LEMMA FinishIsCounted ==
  ASSUME LabInv, Finish
  PROVE  Books' /\ Routed' /\ AllCounted'
<1>1. /\ UNCHANGED <<events, staged, pushed, matchers, consumed>>
      /\ writer.at = "stage" /\ writer'.at = "ended" /\ writer'.seq = writer.seq
      /\ writer.seq = Len(events)
  BY DEF LabInv, IInv, Types, Finish
<1>2. Books'
  BY <1>1 DEF LabInv, Books
<1>3. Routed'
  <2>1. StagedSoFar' = StagedSoFar
    BY <1>1 DEF StagedSoFar
  <2>2. \A s \in Shards : SharesOfFirst(s)' = SharesOfFirst(s)
    BY <1>1 DEF SharesOfFirst
  <2> QED
    BY <1>1, <2>1, <2>2 DEF LabInv, Routed
<1>4. AllCounted'
  <2>1. Total(pushed)' = Total(pushed)
    BY <1>1 DEF Total
  <2> QED
    BY <1>1, <2>1 DEF LabInv, AllCounted
<1> QED
  BY <1>2, <1>3, <1>4

\* The steps of a matcher leave the writer's part alone.
LEMMA WriterUntouched ==
  ASSUME LabInv, UNCHANGED <<events, pushed, writerVars>>
  PROVE  Routed' /\ AllCounted'
<1>1. /\ StagedSoFar' = StagedSoFar /\ Total(pushed)' = Total(pushed)
      /\ \A s \in Shards : SharesOfFirst(s)' = SharesOfFirst(s)
  BY DEF StagedSoFar, Total, SharesOfFirst, writerVars
<1> QED
  BY <1>1 DEF LabInv, Routed, AllCounted, writerVars

LEMMA TakeIsReplayed ==
  ASSUME LabInv, NEW s \in Shards, Take(s)
  PROVE  Books'
<1> DEFINE event == Head(queues[s])
<1>1. /\ queues[s] \in Seq(InputEvents) /\ queues[s] # <<>>
      /\ consumed[s] \in Seq(InputEvents)
      /\ consumed \in [Shards -> Seq(InputEvents)]
  BY DEF LabInv, IInv, Types, Take
<1>2. event \in InputEvents
  BY <1>1, HeadTailProperties
<1>3. PICK engines : matchers \in [Shards -> [at : Places, engine : engines]]
  BY DEF LabInv, IInv, Types
<1> HIDE DEF event
<1>4. /\ consumed' = [consumed EXCEPT ![s] = Append(@, event)]
      /\ matchers' = [matchers EXCEPT ![s].engine = Process(@, event)]
  BY DEF Take, Oldest, event
<1>5. /\ consumed'[s] = Append(consumed[s], event)
      /\ matchers'[s].engine = Process(matchers[s].engine, event)
      /\ \A t \in Shards \ {s} : consumed'[t] = consumed[t] /\ matchers'[t] = matchers[t]
  BY <1>1, <1>3, <1>4
<1>6. Replay(Append(consumed[s], event)) = Process(Replay(consumed[s]), event)
  BY <1>1, <1>2, ReplayOfAppend
<1>7. matchers'[s].engine = Replay(consumed'[s])
  BY <1>5, <1>6 DEF LabInv, Books
<1> QED
  BY <1>5, <1>7 DEF LabInv, Books

LEMMA MovesKeepBooks ==
  ASSUME LabInv, NEW s \in Shards, FindEmpty(s) \/ SeeNotDone(s) \/ SeeDone(s)
  PROVE  Books' /\ UNCHANGED <<events, pushed, writerVars>>
<1>1. PICK engines : matchers \in [Shards -> [at : Places, engine : engines]]
  BY DEF LabInv, IInv, Types
<1>2. /\ UNCHANGED <<events, pushed, consumed, writerVars>>
      /\ \E place : matchers' = [matchers EXCEPT ![s].at = place]
  BY DEF FindEmpty, SeeNotDone, SeeDone
<1>3. \A t \in Shards : matchers'[t].engine = matchers[t].engine
  BY <1>1, <1>2
<1> QED
  BY <1>2, <1>3 DEF LabInv, Books

LEMMA LabInvStep == LabInv /\ [Next]_vars => LabInv'
<1> SUFFICES ASSUME LabInv, [Next]_vars PROVE Books' /\ Routed' /\ AllCounted'
  BY StepPreserves DEF LabInv
<1>1. CASE Stage
  BY <1>1, StageIsRouted
<1>2. CASE Enqueue
  BY <1>2, EnqueueIsCounted
<1>3. CASE Finish
  BY <1>3, FinishIsCounted
<1>4. ASSUME NEW s \in Shards, Take(s) PROVE Books' /\ Routed' /\ AllCounted'
  <2>1. UNCHANGED <<events, pushed, writerVars>>
    BY <1>4 DEF Take
  <2> QED
    BY <1>4, <2>1, TakeIsReplayed, WriterUntouched
<1>5. ASSUME NEW s \in Shards, FindEmpty(s) \/ SeeNotDone(s) \/ SeeDone(s)
      PROVE  Books' /\ Routed' /\ AllCounted'
  BY <1>5, MovesKeepBooks, WriterUntouched
<1>6. CASE UNCHANGED vars
  <2>1. Books'
    BY <1>6 DEF vars, LabInv, Books
  <2> QED
    BY <1>6, <2>1, WriterUntouched DEF vars, writerVars
<1> QED
  BY <1>1, <1>2, <1>3, <1>4, <1>5, <1>6 DEF Next

LEMMA ReportIsKept == Spec => []LabInv
<1>1. Spec => Init /\ [][Next]_vars
  BY DEF Spec
<1> QED
  BY <1>1, LabInvInit, LabInvStep, PTL

\* What a matcher has taken is a first part of its shard's events.
LEMMA TakenIsFirstPart ==
  ASSUME LabInv, NEW s \in Shards
  PROVE  /\ Len(consumed[s]) <= Len(Share(s))
         /\ SubSeq(Share(s), 1, Len(consumed[s])) = consumed[s]
<1> DEFINE taken == consumed[s]
           share == Share(s)
<1>1. /\ taken \in Seq(InputEvents) /\ queues[s] \in Seq(InputEvents)
      /\ events \in Seq(InputEvents) /\ Len(events) \in Nat
      /\ writer \in [at : {"stage", "enqueue", "ended"}, seq : 0..Len(events)]
      /\ writer.at = "enqueue" => writer.seq < Len(events)
  BY LenProperties DEF LabInv, IInv, Types, Shutdown
<1>2. StagedSoFar \in 0..Len(events)
  BY <1>1 DEF StagedSoFar
<1>3. /\ share \in Seq(InputEvents) /\ staged[s] \in Seq(InputEvents)
      /\ BeginsWith(share, staged[s])
  BY <1>1, <1>2, SharesGrow DEF LabInv, Routed
<1>4. InFlight(s) \in Seq(InputEvents)
  <2>1. CASE writer.at = "enqueue"
    <3>1. events[writer.seq + 1] \in InputEvents
      BY <1>1, <2>1, NextEvent DEF LabInv, IInv
    <3> QED
      BY <3>1 DEF InFlight
  <2>2. CASE writer.at # "enqueue"
    BY <2>2 DEF InFlight
  <2> QED
    BY <2>1, <2>2
<1>5. staged[s] = (taken \o queues[s]) \o InFlight(s)
  BY DEF LabInv, IInv, Flow
<1> HIDE DEF taken, share
<1>6. /\ taken \o queues[s] \in Seq(InputEvents)
      /\ Len(taken \o queues[s]) = Len(taken) + Len(queues[s])
      /\ \A i \in 1..Len(taken) : (taken \o queues[s])[i] = taken[i]
      /\ Len(taken) \in Nat /\ Len(queues[s]) \in Nat
  BY <1>1, ConcatProperties, LenProperties
<1>7. BeginsWith(staged[s], taken)
  <2>1. PICK early : early = taken \o queues[s]
    OBVIOUS
  <2>2. PICK late : late = InFlight(s)
    OBVIOUS
  <2>3. /\ early \in Seq(InputEvents) /\ late \in Seq(InputEvents)
        /\ Len(early) \in Nat /\ Len(late) \in Nat /\ Len(taken) <= Len(early)
        /\ staged[s] = early \o late
    BY <1>4, <1>5, <1>6, <2>1, <2>2, LenProperties
  <2>4. /\ Len(early \o late) = Len(early) + Len(late)
        /\ \A i \in 1..Len(early) : (early \o late)[i] = early[i]
    BY <2>3, ConcatProperties
  <2>5. Len(taken) <= Len(staged[s])
    BY <1>6, <2>3, <2>4
  <2>6. ASSUME NEW i \in 1..Len(taken) PROVE staged[s][i] = taken[i]
    <3>1. i \in 1..Len(early)
      BY <1>6, <2>3
    <3>2. (early \o late)[i] = early[i] /\ early[i] = taken[i]
      BY <1>6, <2>1, <2>4, <3>1
    <3> QED
      BY <2>3, <3>2
  <2> QED
    BY <2>5, <2>6 DEF BeginsWith
<1>8. /\ Len(taken) <= Len(share)
      /\ \A i \in 1..Len(taken) : share[i] = taken[i]
      /\ Len(share) \in Nat
  BY <1>3, <1>6, <1>7, LenProperties DEF BeginsWith
<1>9. SubSeq(share, 1, Len(taken)) = taken
  <2> DEFINE part == SubSeq(share, 1, Len(taken))
  <2>1. part = [i \in 1..Len(taken) |-> share[i]]
    BY <1>3, <1>6, <1>8
  <2>2. taken = [i \in 1..Len(taken) |-> taken[i]]
    BY <1>1 DEF taken
  <2> QED
    BY <1>8, <2>1, <2>2
<1> QED
  BY <1>8, <1>9 DEF taken, share

\* At every moment each book is the direct replay of a first part of its shard's events,
\* whatever the order in which the threads run and however old the counters they load.
THEOREM BooksAreReplays == Spec => []EachBookIsReplay
<1>1. LabInv => EachBookIsReplay
  BY TakenIsFirstPart DEF LabInv, Books, EachBookIsReplay
<1> QED
  BY <1>1, ReportIsKept, PTL

\* Once the threads have been joined run_lab finds every event counted twice, as pushed
\* and as consumed, and every book equal to the replay of what was staged for it.
THEOREM NoLossNoMismatch == Spec => []LabFindsNoFault
<1>1. LabInv => LabFindsNoFault
  <2> SUFFICES ASSUME LabInv, Joined PROVE ~Loss /\ ~Mismatch
    BY DEF LabFindsNoFault
  <2>1. ASSUME NEW s \in Shards
        PROVE  consumed[s] = staged[s] /\ Len(consumed[s]) = pushed[s]
    <3>1. writer.at = "ended" /\ queues[s] = <<>>
      BY DEF LabInv, IInv, Shutdown, Joined
    <3>2. /\ consumed[s] \in Seq(InputEvents) /\ Len(consumed[s]) \in Nat
          /\ InFlight(s) = <<>>
          /\ staged[s] = (consumed[s] \o queues[s]) \o InFlight(s)
          /\ pushed[s] = Len(consumed[s]) + Len(queues[s])
      BY <3>1, LenProperties DEF LabInv, IInv, Types, Flow, Counts, InFlight
    <3>3. staged[s] = consumed[s]
      BY <3>1, <3>2, ConcatEmptySeq
    <3> QED
      BY <3>1, <3>2, <3>3, EmptySeq
  <2>2. Total(pushed) = Len(events)
    BY DEF LabInv, AllCounted, Joined
  <2>3. [s \in Shards |-> Len(consumed[s])] = pushed
    BY <2>1 DEF LabInv, IInv, Types
  <2>4. ~Loss
    BY <2>2, <2>3 DEF Loss
  <2>5. ~Mismatch
    BY <2>1 DEF LabInv, Books, Mismatch
  <2> QED
    BY <2>4, <2>5
<1> QED
  BY <1>1, ReportIsKept, PTL
==============================================================================
