----------------------------- MODULE PartitionLab -----------------------------
(***************************************************************************)
(* src/src/partition_lab_main.cpp: one writer thread routes the events to  *)
(* one bounded queue per shard, one matcher thread per shard applies them  *)
(* to its own book, and the main thread compares the outcome with a direct *)
(* replay.                                                                 *)
(*                                                                         *)
(* A push or a pop of SpscQueue is one step here, with one liberty of the  *)
(* real one kept: an acquire load may return an old counter, so that a pop *)
(* may find a queue empty that is not.  seen[s] is the last count of       *)
(* pushes matcher s is known to have seen; reading producer_done, stored   *)
(* after the last push and loaded with acquire, makes all of them visible. *)
(* A refused push changes nothing but the statistic `full`, left out.      *)
(***************************************************************************)
EXTENDS EventReplay

CONSTANTS ShardCount, QueueCapacity,
          Inputs          \* the event sequences the lab may be given

InputEvents == UNION {{input[i] : i \in DOMAIN input} : input \in Inputs}

ASSUME LabAssumption ==
  /\ ShardCount \in Nat \ {0}
  /\ QueueCapacity \in Nat \ {0}
  /\ Inputs \subseteq Seq(InputEvents)
  /\ \A event \in InputEvents : event.order_id \in Nat

VARIABLES events,         \* the input, the same for the whole run
          writer,         \* where the writer is, and seq: events enqueued so far
          staged,         \* report.staged, per shard
          queues,         \* what each queue holds
          pushed,         \* report.pushed, per shard: what tail_ of its queue is
          producer_done,
          matchers,       \* where each matcher is, and the state of its book
          consumed,       \* report.consumed, per shard
          seen            \* pushes each matcher has seen

writerVars == <<writer, staged, producer_done>>
vars == <<events, writer, staged, queues, pushed, producer_done, matchers,
          consumed, seen>>

Shards == 0..(ShardCount - 1)

RoutedByLine(event) == event.line_number % ShardCount
route_symbol(event) == event.order_id % ShardCount

Init ==
  /\ events \in Inputs
  /\ writer = [at |-> "stage", seq |-> 0]
  /\ staged = [s \in Shards |-> <<>>]
  /\ queues = [s \in Shards |-> <<>>]
  /\ pushed = [s \in Shards |-> 0]
  /\ producer_done = FALSE
  /\ matchers = [s \in Shards |-> [at |-> "polling", engine |-> Fresh]]
  /\ consumed = [s \in Shards |-> <<>>]
  /\ seen = [s \in Shards |-> 0]

(***************************************************************************)
(* The writer.                                                             *)
(***************************************************************************)
Stage ==
  /\ writer.at = "stage"
  /\ writer.seq < Len(events)
  /\ writer' = [writer EXCEPT !.at = "enqueue"]
  /\ LET event == events[writer.seq + 1]
     IN  staged' = [staged EXCEPT ![route_symbol(event)] = Append(@, event)]
  /\ UNCHANGED <<events, queues, pushed, producer_done, matchers, consumed, seen>>

HasRoom(queue) == Len(queue) < QueueCapacity

\* try_enqueue on a queue that has room; on a full one the writer yields and retries.
Enqueue ==
  /\ writer.at = "enqueue"
  /\ LET event == events[writer.seq + 1]
         shard == route_symbol(event)
     IN  /\ HasRoom(queues[shard])
         /\ queues' = [queues EXCEPT ![shard] = Append(@, event)]
         /\ pushed' = [pushed EXCEPT ![shard] = @ + 1]
  /\ writer' = [at |-> "stage", seq |-> writer.seq + 1]
  /\ UNCHANGED <<events, staged, producer_done, matchers, consumed, seen>>

KeepQuiet == UNCHANGED producer_done
DeclareDone == producer_done' = TRUE

Finish ==
  /\ writer.at = "stage"
  /\ writer.seq = Len(events)
  /\ writer' = [writer EXCEPT !.at = "ended"]
  /\ DeclareDone
  /\ UNCHANGED <<events, staged, queues, pushed, matchers, consumed, seen>>

(***************************************************************************)
(* The matcher of shard s: it polls, and when a pop fails looks at         *)
(* producer_done; once that is set it drains what is left and ends.        *)
(***************************************************************************)
Popping(s) == matchers[s].at \in {"polling", "draining"}

Oldest(queue) == Head(queue)

\* try_pop sees n pushes, more than have been taken.
Take(s) ==
  /\ Popping(s)
  /\ queues[s] # <<>>
  /\ LET event == Oldest(queues[s])
     IN  /\ consumed' = [consumed EXCEPT ![s] = Append(@, event)]
         /\ matchers' = [matchers EXCEPT ![s].engine = Process(@, event)]
  /\ queues' = [queues EXCEPT ![s] = Tail(@)]
  /\ \E n \in (Len(consumed[s]) + 1)..pushed[s] :
       n >= seen[s] /\ seen' = [seen EXCEPT ![s] = n]
  /\ UNCHANGED <<events, pushed, writerVars>>

\* try_pop sees no more pushes than have been taken.
FindEmpty(s) ==
  /\ Popping(s)
  /\ seen[s] = Len(consumed[s])
  /\ matchers' = [matchers EXCEPT ![s].at = IF @ = "polling" THEN "checking" ELSE "ended"]
  /\ UNCHANGED <<events, queues, pushed, consumed, seen, writerVars>>

\* A store the matcher has not seen yet does not oblige its load to return TRUE.
SeeNotDone(s) ==
  /\ matchers[s].at = "checking"
  /\ matchers' = [matchers EXCEPT ![s].at = "polling"]
  /\ UNCHANGED <<events, queues, pushed, consumed, seen, writerVars>>

SeeNothingMore(s) == UNCHANGED seen
SeeAllPushes(s) == seen' = [seen EXCEPT ![s] = pushed[s]]

SeeDone(s) ==
  /\ matchers[s].at = "checking"
  /\ producer_done
  /\ matchers' = [matchers EXCEPT ![s].at = "draining"]
  /\ SeeAllPushes(s)
  /\ UNCHANGED <<events, queues, pushed, consumed, writerVars>>

Next ==
  \/ Stage \/ Enqueue \/ Finish
  \/ \E s \in Shards : Take(s) \/ FindEmpty(s) \/ SeeNotDone(s) \/ SeeDone(s)

\* Every thread is scheduled.  A matcher that polls on cannot see old values for
\* ever: infinitely many loads after a store return what was stored.
Fairness ==
  /\ WF_vars(Stage) /\ WF_vars(Enqueue) /\ WF_vars(Finish)
  /\ \A s \in Shards :
       /\ SF_vars(Take(s)) /\ SF_vars(SeeDone(s))
       /\ WF_vars(FindEmpty(s)) /\ WF_vars(SeeNotDone(s))

Spec == Init /\ [][Next]_vars /\ Fairness

(***************************************************************************)
(* What run_lab reports when all threads have been joined.                 *)
(***************************************************************************)
Joined == writer.at = "ended" /\ \A s \in Shards : matchers[s].at = "ended"

Total(counts) ==
  LET sum[n \in 0..ShardCount] == IF n = 0 THEN 0 ELSE sum[n - 1] + counts[n - 1]
  IN  sum[ShardCount]

Loss ==
  \/ Total(pushed) # Len(events)
  \/ Total([s \in Shards |-> Len(consumed[s])]) # Len(events)

Mismatch == \E s \in Shards : matchers[s].engine # Replay(staged[s])
-----------------------------------------------------------------------------
(***************************************************************************)
(* Properties.                                                             *)
(***************************************************************************)
TypeOK ==
  /\ writer \in [at : {"stage", "enqueue", "ended"}, seq : 0..Len(events)]
  /\ \A s \in Shards :
       /\ Len(queues[s]) <= QueueCapacity
       /\ pushed[s] = Len(consumed[s]) + Len(queues[s])
       /\ seen[s] \in Len(consumed[s])..pushed[s]
       /\ matchers[s].at \in {"polling", "checking", "draining", "ended"}
       /\ matchers[s].engine.rejected \in 0..Len(consumed[s])
  /\ producer_done \in BOOLEAN

\* The events of shard s among the first n of the input, for every n, and among all.
SharesOfFirst(s) ==
  LET first[n \in 0..Len(events)] ==
        IF n = 0 THEN <<>>
        ELSE IF events[n].order_id % ShardCount = s THEN Append(first[n - 1], events[n])
        ELSE first[n - 1]
  IN  first
Share(s) == SharesOfFirst(s)[Len(events)]

\* At every moment each book is the direct replay of a first part of its shard's
\* events: threads and queues add, drop, repeat and reorder nothing.
EachBookIsReplay ==
  \A s \in Shards :
    /\ Len(consumed[s]) <= Len(Share(s))
    /\ matchers[s].engine = Replay(SubSeq(Share(s), 1, Len(consumed[s])))

\* However late a matcher sees what the writer stored, none ends before it has taken
\* every event of its shard: the lab never reports a loss or a mismatch.
LabFindsNoFault == Joined => ~Loss /\ ~Mismatch

\* The writer and the matchers do not wait for each other for ever.
LabEnds == <>Joined
==============================================================================
