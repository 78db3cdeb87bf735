---------------------------- MODULE MCOrderBook ----------------------------
(* Instances of the baseline engine for TLC. *)
EXTENDS OrderBookRefinement, TLC

CONSTANTS o1, o2, o3

Interchangeable == Permutations(OrderIds)

EveryAdd == Adds

LOCAL Plain(add) == add.side = "Bid" /\ add.time_in_force = "GTC" /\ ~add.post_only

\* One add of each kind the engine tells apart: a market order has no price and
\* its time in force is overwritten; post-only is refused or irrelevant unless
\* the order may rest, and a price or quantity of 0 is refused whatever the rest says.
OneOfEachKind ==
  {add \in Adds :
     \/ add.is_market /\ add.price = 1 /\ add.time_in_force = "FOK" /\ ~add.post_only
     \/ /\ ~add.is_market
        /\ add.post_only => add.time_in_force = "GTC"
        /\ add.price = 0 => Plain(add) /\ add.qty = 1
        /\ add.qty = 0 => Plain(add) /\ add.price = 1}
=============================================================================
