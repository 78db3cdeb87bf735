---------------------------- MODULE MCPartitionLab ----------------------------
(* Instances of the partition lab for TLC. *)
EXTENDS PartitionLab, TLC

CONSTANTS InputLength, GeneratedLength

\* Ids 1 and 3 share a shard of two, id 2 has the other one.
Requests ==
  {[type |-> "Add", order_id |-> 1, side |-> "Bid", price |-> 2, qty |-> 1],
   [type |-> "Add", order_id |-> 2, side |-> "Ask", price |-> 2, qty |-> 1],
   [type |-> "Add", order_id |-> 3, side |-> "Ask", price |-> 1, qty |-> 2],
   [type |-> "Modify", order_id |-> 3, price |-> 3, qty |-> 1],
   [type |-> "Cancel", order_id |-> 1]}

\* event.line_number is the position of an event in the file.
AtLine(request, n) == [line_number |-> n] @@ request @@ DefaultPolicies

FileInputs ==
  UNION {{[n \in 1..length |-> AtLine(requests[n], n)] :
            requests \in [1..length -> Requests]} : length \in 0..InputLength}

\* One price and one quantity: any two orders of different sides meet.
Generator == INSTANCE LabWorkload WITH Prices <- {1}, Quantities <- {1}
GeneratedInputs == Generator!generate_workload(GeneratedLength)

MCInputs == FileInputs \union GeneratedInputs
-----------------------------------------------------------------------------
Took(taken, type, id) ==
  \E i \in DOMAIN taken : taken[i].type = type /\ taken[i].order_id = id

\* The books refuse an event of a generated stream only if it cancels or modifies an
\* order that has been filled meanwhile: routing and queues bring the add of an order
\* to its book before anything that refers to it, nothing refers to it after its
\* cancel, and no id is added twice (partition_lab_main.cpp:262-264).
RefusalsComeFromFills ==
  [][\A s \in Shards :
       /\ events \in GeneratedInputs
       /\ matchers'[s].engine.rejected > matchers[s].engine.rejected
       => LET event == consumed'[s][Len(consumed'[s])]
          IN  /\ event.type \in {"Cancel", "Modify"}
              /\ Took(consumed[s], "Add", event.order_id)
              /\ ~Took(consumed[s], "Cancel", event.order_id)]_vars
==============================================================================
