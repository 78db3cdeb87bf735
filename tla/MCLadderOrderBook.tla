-------------------------- MODULE MCLadderOrderBook --------------------------
(* Instances of the price ladder for TLC. *)
EXTENDS LadderRefinement, TLC

CONSTANTS o1, o2, o3

Interchangeable == Permutations(OrderIds)

\* Below, in and above a ladder of the prices 1 to 3.
AroundLadder == 0..4

LOCAL Plain(add) == add.side = "Bid" /\ add.time_in_force = "GTC" /\ ~add.post_only

\* A market order has no price and its time in force is overwritten; post-only is only
\* told apart for orders that may rest, and nothing of an order outside the ladder.
\* An order whose policy differs from the plain one comes in the quantity that shows
\* it: two units may trade in part, one unit may not rest.
OneOfEachKind ==
  {add \in Adds :
     \/ add.is_market /\ add.price = 1 /\ add.time_in_force = "IOC"
     \/ /\ ~add.is_market
        /\ add.time_in_force # "GTC" => ~add.post_only /\ add.qty = 2
        /\ add.post_only => add.qty = 1
        /\ add.price \notin Ladder \/ add.qty = 0 => Plain(add)
        /\ add.price \notin Ladder => add.qty = 1
        /\ add.qty = 0 => add.price = MinPrice}
=============================================================================
