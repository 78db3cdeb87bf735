------------------------- MODULE OrderBookRefinement -------------------------
(***************************************************************************)
(* The baseline engine implements PriceTimeBook.  The abstract call takes  *)
(* effect when the concrete one is admitted: while the matching loop runs, *)
(* the abstract book is the concrete one with the rest of the match done,  *)
(* so every later fill and the return are stuttering steps.  That this     *)
(* mapping is a refinement says that the loop does exactly what the closed *)
(* form predicts, that the admission checks computed from the level totals *)
(* agree with those computed from the orders, and that all the calls of a  *)
(* client see the book as if each were atomic.                             *)
(***************************************************************************)
EXTENDS OrderBook

\* orders(side): the levels from the best on, each with its list of orders.
OrdersOf(side) ==
  FlattenSeq([k \in 1..MaxPrice |-> LevelAt(side, Ranked(side, k)).orders])

Book == [side \in Sides |-> OrdersOf(side)]
Opposing == Book[OtherSide(incoming.side)]

AbstractQueue == IF Idle THEN Book ELSE Matched(Book, incoming, incoming.can_rest)
AbstractTrades == IF Idle THEN trades ELSE trades \o TradesOf(incoming, Opposing)
AbstractTradedQty == IF Idle THEN traded_qty ELSE traded_qty + Executed(incoming, Opposing)

Promise == INSTANCE PriceTimeBook
  WITH queue         <- AbstractQueue,
       trades        <- AbstractTrades,
       traded_qty    <- AbstractTradedQty,
       RequestPrices <- 0..MaxPrice,
       LimitPrices   <- Prices,
       Capacity      <- 2 * MaxPrice * MaxQty + 1  \* more than the totals let rest

\* Between calls, the engine would refuse exactly the requests the promise refuses and
\* for the same reason, although it decides from the cached totals of the levels
\* and the promise from the orders one by one.
RefusalsAgree ==
  Idle =>
    \A queues \in {Book} :
      /\ \A add \in AddRequests : AddError(add) = Promise!AddError(queues, add)
      /\ \A id \in OrderIds, price \in 0..MaxPrice, qty \in Quantities :
           ModifyError(id, price, qty) = Promise!ModifyError(queues, id, price, qty)

\* Each call has the effect of one atomic call on a price-time queue: the same
\* error, the same trades in the same order, the same resting orders.
ImplementsPriceTimeBook == Promise!Spec
==============================================================================
