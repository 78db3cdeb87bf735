----------------------------- MODULE TraceCharts -----------------------------
(***************************************************************************)
(* The arithmetic of the visualizer's charts, src/visualizer/trace.mjs: the *)
(* price rows of a replay, the cumulative depth a frame draws on each of    *)
(* them, and the depth of each side after every event.  A frame has the     *)
(* orders of each side, the oldest of the best price first.                 *)
(***************************************************************************)
EXTENDS Integers, Sequences, FiniteSets, SequencesExt, FiniteSetsExt

\* A row a side draws nothing on (null).
NoDepth == -1

PricesOf(orders) == {orders[i].price : i \in DOMAIN orders}

\* priceOrder: the k-th price has k - 1 before it; bids descend.
Sorted(prices, descending) ==
  LET before(p) == {q \in prices : IF descending THEN q > p ELSE q < p}
  IN  [k \in 1..Cardinality(prices) |->
         CHOOSE p \in prices : Cardinality(before(p)) = k - 1]

\* groupOrders, for one price.
TotalAt(orders, price) ==
  FoldLeft(LAMBDA total, order : IF order.price = price THEN total + order.qty ELSE total,
           0, orders)

\* cumulativeDepth: the totals of the levels, added up from the touch outward.
CumulativeDepth(orders, descending) ==
  LET walked == Sorted(PricesOf(orders), descending)
      running[k \in 0..Len(walked)] ==
        IF k = 0 THEN 0 ELSE running[k - 1] + TotalAt(orders, walked[k])
  IN  [price \in PricesOf(orders) |-> running[CHOOSE k \in DOMAIN walked : walked[k] = price]]

\* The walk over the rows goes down for bids and up for asks, and carries the last
\* total over rows without an order.
depthProfile(orders, descending, priceLevels) ==
  LET cumulative == CumulativeDepth(orders, descending)
      walked == Sorted(PricesOf(orders), descending)
      row(price) == CHOOSE r \in DOMAIN priceLevels : priceLevels[r] = price
      step == IF descending THEN 1 ELSE -1
      at[r \in DOMAIN priceLevels] ==
        IF priceLevels[r] \in DOMAIN cumulative THEN cumulative[priceLevels[r]]
        ELSE at[r - step]
      Between(r) == \/ row(Head(walked)) <= r /\ r <= row(Last(walked))
                    \/ row(Last(walked)) <= r /\ r <= row(Head(walked))
  IN  [r \in DOMAIN priceLevels |->
         IF walked # <<>> /\ Between(r) THEN at[r] ELSE NoDepth]

\* The deepest point of a profile; a side without orders has depth 0.
Deepest(depths) == Max({0} \cup depths)

\* priceScale: the rows and the longest bar of a whole replay.
priceScale(frames) ==
  LET books == {frames[k].book : k \in DOMAIN frames}
  IN  [priceLevels |->
         Sorted(UNION {PricesOf(book["Bid"]) \cup PricesOf(book["Ask"]) : book \in books}, TRUE),
       maximumCumulativeDepth |->
         Deepest(UNION {Range(CumulativeDepth(book["Bid"], TRUE))
                        \cup Range(CumulativeDepth(book["Ask"], FALSE)) : book \in books})]

\* depthByEvent: the history chart, one point for each frame.
depthByEvent(frames, priceLevels) ==
  LET series(side) ==
        [k \in DOMAIN frames |->
           Deepest(Range(depthProfile(frames[k].book[side], side = "Bid", priceLevels)))]
  IN  [Bid |-> series("Bid"), Ask |-> series("Ask")]
==============================================================================
