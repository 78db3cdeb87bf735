----------------------------- MODULE IngressRound -----------------------------
(***************************************************************************)
(* src/src/ingress_benchmark_main.cpp, run_round: a producer thread feeds  *)
(* the events through one bounded queue to a consumer thread with a book.  *)
(* Here a refused event is a failure: the consumer raises `stop` and       *)
(* leaves, perhaps with the queue full and the producer inside its loop.   *)
(*                                                                         *)
(* main gives run_round only vectors its own direct replay accepts; the    *)
(* model gives it every vector, as run_round is written for.  A push or a  *)
(* pop is one step, and a load may return an old value, as in              *)
(* PartitionLab; `processed` and queue_latencies are counters of the       *)
(* consumer, the measured times are left out.                              *)
(***************************************************************************)
EXTENDS EventReplay

CONSTANTS QueueCapacity, Inputs

InputEvents == UNION {{input[i] : i \in DOMAIN input} : input \in Inputs}

ASSUME RoundAssumption ==
  /\ QueueCapacity \in Nat \ {0}
  /\ Inputs \subseteq Seq(InputEvents)

VARIABLES events,
          producer,       \* where the producer is, and sent: events it is done with
          consumer,       \* where the consumer is, its book, processed, and popped:
                          \* the length of queue_latencies
          queue,
          seen,           \* events the consumer has seen pushed
          done_seen,      \* the consumer has loaded TRUE from producer_done
          producer_done,
          stop,
          failed

flags == <<producer_done, stop, failed>>
vars == <<events, producer, consumer, queue, seen, done_seen, flags>>

Pushed == consumer.popped + Len(queue)

Init ==
  /\ events \in Inputs
  /\ producer = [at |-> "next", sent |-> 0]
  /\ consumer = [at |-> "loop", engine |-> Fresh, processed |-> 0, popped |-> 0]
  /\ queue = <<>>
  /\ seen = 0
  /\ done_seen = FALSE
  /\ producer_done = FALSE
  /\ stop = FALSE
  /\ failed = FALSE

(***************************************************************************)
(* The producer asks for stop before an event, before every attempt to     *)
(* push it, and after it.                                                  *)
(***************************************************************************)
AsksBetweenEvents ==
  \/ producer.at = "next" /\ producer.sent < Len(events)
  \/ producer.at = "pushed"
AsksForStop == AsksBetweenEvents \/ producer.at = "push"

\* A load of stop returns TRUE: the producer leaves without producer_done.
SeeStop ==
  /\ AsksForStop
  /\ stop
  /\ producer' = [producer EXCEPT !.at = "ended"]
  /\ UNCHANGED <<events, consumer, queue, seen, done_seen, flags>>

Begin ==
  /\ producer.at = "next"
  /\ producer.sent < Len(events)
  /\ producer' = [producer EXCEPT !.at = "push"]
  /\ UNCHANGED <<events, consumer, queue, seen, done_seen, flags>>

HasRoom == Len(queue) < QueueCapacity

\* try_push accepts; refused, the producer yields and asks for stop again.
Push ==
  /\ producer.at = "push"
  /\ HasRoom
  /\ queue' = Append(queue, events[producer.sent + 1])
  /\ producer' = [producer EXCEPT !.at = "pushed"]
  /\ UNCHANGED <<events, consumer, seen, done_seen, flags>>

GoOn ==
  /\ producer.at = "pushed"
  /\ producer' = [at |-> "next", sent |-> producer.sent + 1]
  /\ UNCHANGED <<events, consumer, queue, seen, done_seen, flags>>

Finish ==
  /\ producer.at = "next"
  /\ producer.sent = Len(events)
  /\ producer_done' = TRUE
  /\ producer' = [producer EXCEPT !.at = "ended"]
  /\ UNCHANGED <<events, consumer, queue, seen, done_seen, stop, failed>>

(***************************************************************************)
(* The consumer's loop ends when producer_done is set and it has processed *)
(* as many events as there are.                                            *)
(***************************************************************************)
FlagOnly == FALSE
MoreEvents == consumer.processed < Len(events)

\* The load of producer_done returns FALSE, or there is more to process.
StayInLoop ==
  /\ consumer.at = "loop"
  /\ ~done_seen \/ MoreEvents
  /\ consumer' = [consumer EXCEPT !.at = "pop"]
  /\ UNCHANGED <<events, producer, queue, seen, done_seen, flags>>

\* The load returns TRUE, and with it every push before the store is visible.
SeeDone ==
  /\ consumer.at = "loop"
  /\ producer_done
  /\ done_seen' = TRUE
  /\ seen' = Pushed
  /\ consumer' = [consumer EXCEPT !.at = IF MoreEvents THEN "pop" ELSE "ended"]
  /\ UNCHANGED <<events, producer, queue, flags>>

FindEmpty ==
  /\ consumer.at = "pop"
  /\ seen = consumer.popped
  /\ consumer' = [consumer EXCEPT !.at = "loop"]
  /\ UNCHANGED <<events, producer, queue, seen, done_seen, flags>>

PopInto(at, processed) ==
  /\ consumer.at = "pop"
  /\ consumer' = [at |-> at, engine |-> Process(consumer.engine, Head(queue)),
                  processed |-> processed, popped |-> consumer.popped + 1]
  /\ queue' = Tail(queue)
  /\ \E n \in (consumer.popped + 1)..Pushed : n >= seen /\ seen' = n
  /\ UNCHANGED <<events, producer, done_seen, producer_done>>

Take ==
  /\ queue # <<>>
  /\ ~Refused(consumer.engine, Head(queue))
  /\ PopInto("loop", consumer.processed + 1)
  /\ UNCHANGED <<stop, failed>>

StopBoth == failed' = TRUE /\ stop' = TRUE

GoesOn == "loop"
Leaves == "ended"

\* The book refuses the event, and the consumer leaves the queue as it is.
Fail ==
  /\ queue # <<>>
  /\ Refused(consumer.engine, Head(queue))
  /\ PopInto(Leaves, consumer.processed)
  /\ StopBoth

Next ==
  \/ SeeStop \/ Begin \/ Push \/ GoOn \/ Finish
  \/ StayInLoop \/ SeeDone \/ FindEmpty \/ Take \/ Fail

\* Both threads are scheduled, and a thread that loads again and again does not
\* see an old value for ever.
Fairness ==
  /\ SF_vars(SeeStop) /\ WF_vars(Begin) /\ WF_vars(Push) /\ WF_vars(GoOn) /\ WF_vars(Finish)
  /\ WF_vars(StayInLoop) /\ SF_vars(SeeDone) /\ WF_vars(FindEmpty)
  /\ SF_vars(Take) /\ SF_vars(Fail)

Spec == Init /\ [][Next]_vars /\ Fairness

(***************************************************************************)
(* After both joins: run_round throws, or main compares with direct_replay.*)
(***************************************************************************)
Joined == producer.at = "ended" /\ consumer.at = "ended"

Throws == failed \/ consumer.popped # Len(events)

Differs == consumer.processed # Len(events) \/ consumer.engine # Replay(events)
-----------------------------------------------------------------------------
(***************************************************************************)
(* Properties.                                                             *)
(***************************************************************************)
\* The round fails exactly when a direct replay of the same events has one refused,
\* at the same event, and never for another reason; otherwise it ends with the book
\* of the direct replay.  So after main's direct replay run_round never throws.
RoundAgreesWithReplay ==
  Joined => /\ Throws <=> Replay(events).rejected > 0
            /\ ~Throws => ~Differs

\* The consumer's book is at every moment the direct replay of what it has popped,
\* and it stops at the first refusal.
BookIsReplay ==
  /\ consumer.engine = Replay(SubSeq(events, 1, consumer.popped))
  /\ consumer.engine.rejected = consumer.popped - consumer.processed
  /\ consumer.popped - consumer.processed = (IF failed THEN 1 ELSE 0)

\* Both threads end, also when the consumer leaves a full queue behind.
RoundEnds == <>Joined
==============================================================================
