-------------------------- MODULE MCPooledOrderBook --------------------------
(* Instances of the pooled engine for TLC. *)
EXTENDS PooledRefinement, TLC

CONSTANTS o1, o2, o3

Interchangeable == Permutations(OrderIds)

EveryAdd == Adds

\* A market order has no price and its time in force is overwritten.  Post-only is
\* refused or irrelevant unless the order may rest, and then asks only whether it
\* crosses; the quantity of an order that may not rest matters when it is more than
\* one order holds.  A price of 0 is refused whatever the rest says.
OneOfEachKind ==
  {add \in Adds :
     \/ add.is_market /\ add.price = 1 /\ add.time_in_force = "FOK" /\ ~add.post_only
     \/ /\ ~add.is_market
        /\ add.post_only => add.time_in_force = "GTC" /\ add.qty = 1
        /\ add.time_in_force # "GTC" => add.qty = 2
        /\ add.price = 0 => add = [add EXCEPT !.side = "Bid", !.qty = 1, !.post_only = TRUE]}
=============================================================================
