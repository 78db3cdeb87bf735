-------------------------- MODULE LadderRefinement --------------------------
(***************************************************************************)
(* An admitted call of the price ladder has exactly its price-time effect: *)
(* the same trades in the same order and the same resting orders as the    *)
(* abstract queues.  The mapping is that of OrderBookRefinement.  Which    *)
(* calls are refused is left open, because the ladder's prediction of the  *)
(* crossing quantity is wrong against two or more bid levels (the README   *)
(* says more): the prediction decides nothing but the refusal.             *)
(***************************************************************************)
EXTENDS LadderOrderBook

PT == INSTANCE PriceTime

\* The prices of a side, from the best to the worst.
Ranked(side, k) == IF side = "Ask" THEN MinPrice - 1 + k ELSE MaxPrice + 1 - k

\* The orders of a level, for the side that occupies it.
OrdersAt(side, price) ==
  IF index_for(price) \notin occupied[side] THEN <<>>
  ELSE [i \in DOMAIN levels[price].orders |->
          [order_id |-> levels[price].orders[i].order_id,
           price    |-> levels[price].orders[i].price,
           qty      |-> levels[price].orders[i].qty]]

\* orders(side).
OrdersOf(side) ==
  LET upTo[k \in 1..(MaxPrice - MinPrice + 1)] ==
        IF k = 1 THEN OrdersAt(side, Ranked(side, k))
        ELSE upTo[k - 1] \o OrdersAt(side, Ranked(side, k))
  IN  upTo[MaxPrice - MinPrice + 1]

Book == [side \in Sides |-> OrdersOf(side)]
Opposing == Book[OtherSide(incoming.side)]

AbstractQueue == IF Idle THEN Book ELSE PT!Matched(Book, incoming, incoming.can_rest)
AbstractTrades == IF Idle THEN trades ELSE trades \o PT!TradesOf(incoming, Opposing)
AbstractTradedQty ==
  IF Idle THEN traded_qty ELSE traded_qty + PT!Executed(incoming, Opposing)

Promise == INSTANCE PriceTimeMatching
  WITH queue      <- AbstractQueue,
       trades     <- AbstractTrades,
       traded_qty <- AbstractTradedQty

Exact == INSTANCE PriceTimeBook
  WITH queue <- Book, LimitPrices <- Ladder,
       Capacity <- 2 * (MaxPrice - MinPrice + 1) * MaxQty + 1

\* Between calls, the ladder would refuse exactly the buy requests PriceTimeBook
\* refuses and for the same reason: against ask levels the scan of the bitmaps finds
\* every level once and in order.
BuyRefusalsAgree ==
  Idle =>
    \A queues \in {Book} :
      /\ \A add \in {a \in AddRequests : a.side = "Bid"} :
           AddError(add) = Exact!AddError(queues, add)
      /\ \A id \in OrderIds, price \in RequestPrices, qty \in Quantities :
           (id \in DOMAIN order_index => OrderOf(id).side = "Bid")
           => ModifyError(id, price, qty) = Exact!ModifyError(queues, id, price, qty)

\* Every call is refused without effect or has the effect of one atomic price-time
\* match on the queues.
ImplementsPriceTimeMatching == Promise!MatchingSpec
==============================================================================
