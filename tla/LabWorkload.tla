----------------------------- MODULE LabWorkload -----------------------------
(***************************************************************************)
(* generate_workload of src/src/partition_lab_main.cpp: every stream of a  *)
(* given length that some seed may give.  Each draw of the generator is a  *)
(* free choice; live holds the ids the generator has added and has not     *)
(* cancelled, whatever became of them in a book.                           *)
(***************************************************************************)
EXTENDS Integers, Sequences, SequencesExt

CONSTANTS Prices, Quantities    \* 1..1000 and 1..100 in the program

LOCAL Nothing == [events |-> <<>>, live |-> <<>>, next_id |-> 1]

Adds(made) ==
  {[events  |-> Append(made.events,
                  [line_number |-> Len(made.events) + 1, type |-> "Add",
                   order_id |-> made.next_id, side |-> side, price |-> price, qty |-> qty,
                   is_market |-> FALSE, time_in_force |-> "GTC", post_only |-> FALSE]),
    live    |-> Append(made.live, made.next_id),
    next_id |-> made.next_id + 1] :
     side \in {"Bid", "Ask"}, price \in Prices, qty \in Quantities}

CancelsKeepingLive(made) ==
  {[made EXCEPT !.events = Append(@, [line_number |-> Len(@) + 1, type |-> "Cancel",
                                      order_id |-> made.live[i]])] : i \in DOMAIN made.live}

Cancels(made) ==
  {[made EXCEPT !.events = Append(@, [line_number |-> Len(@) + 1, type |-> "Cancel",
                                      order_id |-> made.live[i]]),
                !.live = RemoveAt(@, i)] : i \in DOMAIN made.live}

Modifies(made) ==
  {[made EXCEPT !.events = Append(@, [line_number |-> Len(@) + 1, type |-> "Modify",
                                      order_id |-> made.live[i], price |-> price,
                                      qty |-> qty])] :
     i \in DOMAIN made.live, price \in Prices, qty \in Quantities}

\* An add while nothing is live, otherwise any of the three.
generate_workload(count) ==
  LET made[n \in 0..count] ==
        IF n = 0 THEN {Nothing}
        ELSE UNION {Adds(m) \union Cancels(m) \union Modifies(m) : m \in made[n - 1]}
  IN  {m.events : m \in made[count]}
==============================================================================
