------------------------------ MODULE PriceTime ------------------------------
(***************************************************************************)
(* What price-time priority means, as operators on the list a book         *)
(* publishes: OrderBook::orders(side), the resting orders of one side from *)
(* the best price to the worst and, at one price, from the oldest to the   *)
(* youngest.  Nothing here knows of levels, indexes, slots or bitmaps: the *)
(* quantity an incoming order takes from the i-th resting order is a       *)
(* closed formula in the quantities ahead of it.                           *)
(*                                                                         *)
(* An order is a record [order_id, price, qty]; an incoming order is a     *)
(* record with at least side, price, qty and is_market.                    *)
(***************************************************************************)
EXTENDS Integers, Sequences, FiniteSets, SequencesExt

Sides == {"Bid", "Ask"}

OtherSide(side) == IF side = "Bid" THEN "Ask" ELSE "Bid"

\* p is at least as good a resting price as r on the given side.
AtLeastAsGood(side, p, r) == IF side = "Bid" THEN p >= r ELSE p <= r

(***************************************************************************)
(* An incoming order reaches a resting price when it is a market order or  *)
(* its limit is at or through that price.                                  *)
(***************************************************************************)
Reaches(in, restingPrice) ==
  \/ in.is_market
  \/ AtLeastAsGood(in.side, in.price, restingPrice)

Smaller(a, b) == IF a <= b THEN a ELSE b

QtyOf(queue, positions) ==
  LET sum[i \in 0..Len(queue)] ==
        IF i = 0 THEN 0 ELSE sum[i - 1] + (IF i \in positions THEN queue[i].qty ELSE 0)
  IN  sum[Len(queue)]

Ahead(queue, i) == QtyOf(queue, 1..(i - 1))

\* All the opposing quantity the incoming order could trade with.
Available(in, queue) ==
  QtyOf(queue, {i \in DOMAIN queue : Reaches(in, queue[i].price)})

\* How much of the incoming order is executed at once.
Executed(in, queue) == Smaller(in.qty, Available(in, queue))

\* How much of the i-th opposing order is executed.
FillAt(in, queue, i) ==
  IF ~Reaches(in, queue[i].price) \/ Ahead(queue, i) >= in.qty
  THEN 0
  ELSE Smaller(queue[i].qty, in.qty - Ahead(queue, i))

TradesOf(in, queue) ==
  LET touched == {i \in DOMAIN queue : FillAt(in, queue, i) > 0}
  IN  [i \in 1..Cardinality(touched) |->
         [resting_order_id |-> queue[i].order_id,
          price            |-> queue[i].price,
          qty              |-> FillAt(in, queue, i)]]

\* The opposing orders that survive, the partly filled one keeping its place.
AfterFills(in, queue) ==
  LET gone == Cardinality({i \in DOMAIN queue : FillAt(in, queue, i) = queue[i].qty})
  IN  [i \in 1..(Len(queue) - gone) |->
         [queue[i + gone] EXCEPT !.qty = @ - FillAt(in, queue, i + gone)]]

\* A newcomer stands behind every order whose price is at least as good.
Enqueue(side, queue, order) ==
  LET before == {i \in DOMAIN queue : AtLeastAsGood(side, queue[i].price, order.price)}
  IN  InsertAt(queue, Cardinality(before) + 1, order)

\* Quantity resting at one price of a side.
QtyAtPrice(queue, price) ==
  QtyOf(queue, {i \in DOMAIN queue : queue[i].price = price})

Positions(queue, id) == {i \in DOMAIN queue : queue[i].order_id = id}

\* The first order of the id is found and erased.
WithoutOrder(queue, id) ==
  LET found == Positions(queue, id)
  IN  IF found = {} THEN queue
      ELSE RemoveAt(queue, CHOOSE i \in found : \A j \in found : i <= j)

(***************************************************************************)
(* A price-time matched book: the incoming order trades against the        *)
(* opposite queue, and what is left over rests when canRest says so.       *)
(***************************************************************************)
Matched(queues, in, canRest) ==
  LET opposite == OtherSide(in.side)
      left     == in.qty - Executed(in, queues[opposite])
      rested   == [order_id |-> in.order_id, price |-> in.price, qty |-> left]
  IN  [side \in Sides |->
         IF side = opposite THEN AfterFills(in, queues[side])
         ELSE IF left > 0 /\ canRest THEN Enqueue(side, queues[side], rested)
         ELSE queues[side]]
==============================================================================
