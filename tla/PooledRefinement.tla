-------------------------- MODULE PooledRefinement --------------------------
(***************************************************************************)
(* The pooled engine implements PriceTimeBook with the capacity of its     *)
(* pool: a client cannot tell it from the baseline until the pool is full, *)
(* and then only by CapacityExceeded.  The mapping is that of              *)
(* OrderBookRefinement.                                                    *)
(***************************************************************************)
EXTENDS PooledOrderBook

\* The orders of a level from each slot on; no list is longer than the pool.
OrdersFrom ==
  LET upTo[n \in 0..Capacity] ==
        [slot \in 0..Capacity |->
           IF n = 0 \/ slot = kInvalidSlot THEN <<>>
           ELSE <<[order_id |-> slots[slot].order_id, price |-> slots[slot].price,
                   qty |-> slots[slot].qty]>> \o upTo[n - 1][slots[slot].next]]
  IN  upTo[Capacity]

\* orders(side).
OrdersOf(side) ==
  FlattenSeq([k \in 1..MaxPrice |-> OrdersFrom[LevelAt(side, Ranked(side, k)).head]])

Book == [side \in Sides |-> OrdersOf(side)]
Opposing == Book[OtherSide(incoming.side)]

AbstractQueue == IF Idle THEN Book ELSE Matched(Book, incoming, incoming.can_rest)
AbstractTrades == IF Idle THEN trades ELSE trades \o TradesOf(incoming, Opposing)
AbstractTradedQty == IF Idle THEN traded_qty ELSE traded_qty + Executed(incoming, Opposing)

Promise == INSTANCE PriceTimeBook
  WITH queue         <- AbstractQueue,
       trades        <- AbstractTrades,
       traded_qty    <- AbstractTradedQty,
       RequestPrices <- 0..MaxPrice,
       LimitPrices   <- Prices

\* Between calls, the engine would refuse exactly the requests the promise refuses and
\* for the same reason; a full pool refuses an order that would rest only when no
\* fill frees a slot for it.
RefusalsAgree ==
  Idle =>
    \A queues \in {Book} :
      /\ \A add \in AddRequests : AddError(add) = Promise!AddError(queues, add)
      /\ \A id \in OrderIds, price \in 0..MaxPrice, qty \in Quantities :
           ModifyError(id, price, qty) = Promise!ModifyError(queues, id, price, qty)

\* What a second reserve_orders means to a client: an empty book that has traded nothing.
Forgotten ==
  /\ Reserve
  /\ \A side \in Sides : Book'[side] = <<>>
  /\ traded_qty' = 0

\* Each call has the effect of one atomic call on a price-time queue of bounded size,
\* and reserve_orders on a book in use (pooled_order_book.cpp:12-31) that of starting
\* afresh, whatever the pool, the links and the index looked like before.
ImplementsPriceTimeBook ==
  Promise!Init /\ [][Promise!Next \/ Forgotten]_(Promise!bookVars)
==============================================================================
