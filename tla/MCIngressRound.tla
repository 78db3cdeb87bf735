---------------------------- MODULE MCIngressRound ----------------------------
(* Instances of the ingress round for TLC. *)
EXTENDS IngressRound, TLC

CONSTANT InputLength

\* With few ids most sequences have a refused event, and where it comes differs.
Requests ==
  {[type |-> "Add", order_id |-> 1, side |-> "Bid", price |-> 2, qty |-> 2],
   [type |-> "Add", order_id |-> 2, side |-> "Ask", price |-> 2, qty |-> 1],
   [type |-> "Modify", order_id |-> 1, price |-> 3, qty |-> 1],
   [type |-> "Cancel", order_id |-> 2]}

Events == {request @@ DefaultPolicies : request \in Requests}

MCInputs == UNION {[1..length -> Events] : length \in 0..InputLength}
==============================================================================
