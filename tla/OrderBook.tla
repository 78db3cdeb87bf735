------------------------------ MODULE OrderBook ------------------------------
(***************************************************************************)
(* The baseline engine, src/src/order_book.{hpp,cpp}: two ordered maps of  *)
(* price levels, a list of orders in each level, and an index from order   *)
(* id to the place of the order.  A call is validated in one step, then    *)
(* the matching loop runs one fill per step, then the call returns, so the *)
(* intermediate states of the loop are states of the model.                *)
(*                                                                         *)
(* Quantity and Price are bounded as in the program: MaxQty and MaxPrice   *)
(* stand for the numeric limits of the two types.  Prices and quantities   *)
(* that are not positive are all alike and represented by 0.  The request  *)
(* and reject counters of EngineStats are written and never read by the    *)
(* engine and are left out; traded_qty, which guards read, is kept.        *)
(***************************************************************************)
EXTENDS PriceTime

CONSTANTS OrderIds,    \* ids the callers use
          MaxPrice,    \* std::numeric_limits<Price>::max()
          MaxQty,      \* std::numeric_limits<Quantity>::max()
          Quantities,  \* quantities the callers send
          AddRequests  \* add events the callers send

VARIABLES levels,       \* bids_ and asks_: levels[side] maps a price to its level
          order_index,  \* order_index_: where each resting order is
          traded_qty,   \* EngineStats::traded_qty
          incoming,     \* the order being matched, NoOrder between calls
          trades,       \* the trades of the current or of the last call
          error         \* the BookError of the last call

vars == <<levels, order_index, traded_qty, incoming, trades, error>>

Policies == {"GTC", "IOC", "FOK"}
Prices == 1..MaxPrice

Order == [order_id : OrderIds, price : Prices, qty : Nat \ {0}]
Level == [total_qty : Int, orders : Seq(Order)]

Adds == [order_id : OrderIds, side : Sides, price : 0..MaxPrice, qty : Quantities,
         is_market : BOOLEAN, time_in_force : Policies, post_only : BOOLEAN]

ASSUME PriceAssumption == MaxPrice \in Nat \ {0}
ASSUME QuantityAssumption == MaxQty \in Nat /\ Quantities \subseteq 0..MaxQty
ASSUME RequestAssumption == AddRequests \subseteq Adds

NoOrder == [order_id |-> "none"]
Idle == incoming = NoOrder

\* A map with one entry set, and with one entry erased.
Put(map, key, value) ==
  [k \in DOMAIN map \cup {key} |-> IF k = key THEN value ELSE map[k]]
Erase(map, key) == [k \in DOMAIN map \ {key} |-> map[k]]

OverflowsLate(left, right) == right > 0 /\ left > MaxQty
AddWouldOverflow(left, right) == right > 0 /\ left > MaxQty - right
-----------------------------------------------------------------------------
(***************************************************************************)
(* The book: where an order is, which level is best, how an order enters   *)
(* and leaves its level.                                                   *)
(***************************************************************************)
\* A boundary slip: an order at the resting price does not trade.
CrossesStrictly(side, price, restingPrice) ==
  AtLeastAsGood(side, price, restingPrice) /\ price # restingPrice
Crosses(side, price, restingPrice) == AtLeastAsGood(side, price, restingPrice)

\* begin() of the map of a side: bids_ is sorted downwards, asks_ upwards.
AnyLevel(side) == CHOOSE p \in DOMAIN levels[side] : TRUE
BestPrice(side) ==
  CHOOSE p \in DOMAIN levels[side] :
    \A r \in DOMAIN levels[side] : AtLeastAsGood(side, p, r)

Position(orders, id) == CHOOSE i \in DOMAIN orders : orders[i].order_id = id

OrderOf(id) ==
  LET place  == order_index[id]
      orders == levels[place.side][place.price].orders
  IN  orders[Position(orders, id)]

\* Jumps the queue of the level.
LevelWithFirst(level, order) ==
  [total_qty |-> level.total_qty + order.qty, orders |-> <<order>> \o level.orders]
LevelWith(level, order) ==
  [total_qty |-> level.total_qty + order.qty, orders |-> Append(level.orders, order)]

LevelAt(side, price) ==
  IF price \in DOMAIN levels[side] THEN levels[side][price]
  ELSE [total_qty |-> 0, orders |-> <<>>]

\* Forgets that the quantity of the order leaves the level with it.
LevelWithoutStale(level, i) ==
  [total_qty |-> level.total_qty, orders |-> RemoveAt(level.orders, i)]
LevelWithout(level, i) ==
  [total_qty |-> level.total_qty - level.orders[i].qty, orders |-> RemoveAt(level.orders, i)]

\* A level is erased from its map with its last order.
Stored(side, price, level) ==
  IF level.orders = <<>> THEN Erase(levels[side], price) ELSE Put(levels[side], price, level)

\* The levels and the index once the order has left, as remove_order does.
LevelsWithout(id) ==
  LET place == order_index[id]
      level == levels[place.side][place.price]
  IN  [levels EXCEPT ![place.side] =
         Stored(place.side, place.price, LevelWithout(level, Position(level.orders, id)))]

\* Leaves a dangling entry behind.
StillIndexed(id) == order_index
Unindexed(id) == Erase(order_index, id)
-----------------------------------------------------------------------------
(***************************************************************************)
(* The quantity that would trade: the levels of the other side from the    *)
(* best one on, until the order's limit or its quantity is reached.        *)
(***************************************************************************)
Ranked(side, k) == IF side = "Ask" THEN k ELSE MaxPrice + 1 - k

MaxCrossingQty(side, limit, qty) ==
  LET opposite == levels[OtherSide(side)]
      reached[k \in 0..MaxPrice] ==
        IF k = 0 THEN 0
        ELSE LET price == Ranked(OtherSide(side), k)
             IN  IF price \in DOMAIN opposite /\ Crosses(side, limit, price)
                 THEN reached[k - 1]
                      + Smaller(qty - reached[k - 1], opposite[price].total_qty)
                 ELSE reached[k - 1]
  IN  reached[MaxPrice]

\* A market order is immediate-or-cancel at a price every level crosses.
MatchPrice(add) ==
  IF ~add.is_market THEN add.price
  ELSE IF add.side = "Bid" THEN MaxPrice ELSE -MaxPrice - 1
MatchPolicy(add) == IF add.is_market THEN "IOC" ELSE add.time_in_force

\* Anything but fill-or-kill may rest.
RestsUnlessFok(add) == ~add.is_market /\ add.time_in_force # "FOK"
CanRest(add) == ~add.is_market /\ MatchPolicy(add) = "GTC"

AddError(add) ==
  LET price    == MatchPrice(add)
      crossing == MaxCrossingQty(add.side, price, add.qty)
  IN  IF ~add.is_market /\ add.price <= 0 THEN "InvalidPrice"
      ELSE IF add.is_market /\ add.post_only THEN "WouldTakeLiquidity"
      ELSE IF add.qty <= 0 THEN "InvalidQuantity"
      ELSE IF add.order_id \in DOMAIN order_index THEN "DuplicateOrderId"
      ELSE IF MatchPolicy(add) = "FOK" /\ crossing < add.qty THEN "InsufficientLiquidity"
      ELSE IF add.post_only /\ crossing # 0 THEN "WouldTakeLiquidity"
      ELSE IF \/ /\ CanRest(add) /\ price \in DOMAIN levels[add.side]
                 /\ AddWouldOverflow(levels[add.side][price].total_qty, add.qty - crossing)
              \/ AddWouldOverflow(traded_qty, crossing)
           THEN "QuantityOverflow"
      ELSE "None"

ModifyError(id, price, qty) ==
  IF id \notin DOMAIN order_index THEN "UnknownOrderId"
  ELSE IF price <= 0 THEN "InvalidPrice"
  ELSE IF qty <= 0 THEN "InvalidQuantity"
  ELSE LET place    == order_index[id]
           own      == IF place.price = price THEN OrderOf(id).qty ELSE 0
           crossing == MaxCrossingQty(place.side, price, qty)
       IN  IF \/ AddWouldOverflow(LevelAt(place.side, price).total_qty - own, qty - crossing)
              \/ AddWouldOverflow(traded_qty, crossing)
           THEN "QuantityOverflow"
           ELSE "None"
-----------------------------------------------------------------------------
Init ==
  /\ levels = [side \in Sides |-> <<>>]
  /\ order_index = <<>>
  /\ traded_qty = 0
  /\ incoming = NoOrder
  /\ trades = <<>>
  /\ error = "None"

Reject(reason) ==
  /\ error' = reason
  /\ trades' = <<>>
  /\ UNCHANGED <<levels, order_index, traded_qty, incoming>>

Add(add) ==
  /\ Idle
  /\ \/ AddError(add) # "None" /\ Reject(AddError(add))
     \/ /\ AddError(add) = "None"
        /\ incoming' = [order_id |-> add.order_id, side |-> add.side,
                        price |-> MatchPrice(add), qty |-> add.qty, can_rest |-> CanRest(add),
                        is_market |-> add.is_market, time_in_force |-> add.time_in_force,
                        post_only |-> add.post_only]
        /\ trades' = <<>>
        /\ error' = "None"
        /\ UNCHANGED <<levels, order_index, traded_qty>>

Cancel(id) ==
  /\ Idle
  /\ \/ id \notin DOMAIN order_index /\ Reject("UnknownOrderId")
     \/ /\ id \in DOMAIN order_index
        /\ levels' = LevelsWithout(id)
        /\ order_index' = Unindexed(id)
        /\ trades' = <<>>
        /\ error' = "None"
        /\ UNCHANGED <<traded_qty, incoming>>

\* The order leaves its place and comes back as a limit order that may rest.
Modify(id, price, qty) ==
  /\ Idle
  /\ \/ ModifyError(id, price, qty) # "None" /\ Reject(ModifyError(id, price, qty))
     \/ /\ ModifyError(id, price, qty) = "None"
        /\ levels' = LevelsWithout(id)
        /\ order_index' = Unindexed(id)
        /\ incoming' = [order_id |-> id, side |-> order_index[id].side,
                        price |-> price, qty |-> qty, can_rest |-> TRUE,
                        is_market |-> FALSE, time_in_force |-> "GTC", post_only |-> FALSE]
        /\ trades' = <<>>
        /\ error' = "None"
        /\ UNCHANGED traded_qty

\* The condition of the outer loop of match_incoming.
Matching ==
  LET opposite == OtherSide(incoming.side)
  IN  /\ incoming.qty > 0
      /\ DOMAIN levels[opposite] # {}
      /\ Crosses(incoming.side, incoming.price, BestPrice(opposite))

\* An order filled to the last unit stays in its level.
LevelKeepingFilled(level, fill) ==
  [total_qty |-> level.total_qty - fill,
   orders    |-> <<[Head(level.orders) EXCEPT !.qty = @ - fill]>> \o Tail(level.orders)]

\* The level once `fill` of its first order has traded.
LevelAfterFill(level, fill) ==
  LET first == Head(level.orders)
  IN  [total_qty |-> level.total_qty - fill,
       orders    |-> IF first.qty = fill THEN Tail(level.orders)
                     ELSE <<[first EXCEPT !.qty = @ - fill]>> \o Tail(level.orders)]

\* One iteration of the inner loop, and the erasure of the level it empties.
Fill ==
  /\ ~Idle /\ Matching
  /\ LET opposite == OtherSide(incoming.side)
         price    == BestPrice(opposite)
         resting  == Head(levels[opposite][price].orders)
         fill     == Smaller(incoming.qty, resting.qty)
     IN  /\ trades' = Append(trades, [resting_order_id |-> resting.order_id,
                                      price |-> resting.price, qty |-> fill])
         /\ traded_qty' = traded_qty + fill
         /\ incoming' = [incoming EXCEPT !.qty = @ - fill]
         /\ levels' = [levels EXCEPT ![opposite] =
              Stored(opposite, price, LevelAfterFill(levels[opposite][price], fill))]
         /\ order_index' = IF fill = resting.qty THEN Unindexed(resting.order_id)
                           ELSE order_index
  /\ UNCHANGED error

\* The loop is over: the remainder rests if it may, and the call returns.
Return ==
  /\ ~Idle /\ ~Matching
  /\ \/ /\ incoming.qty > 0 /\ incoming.can_rest
        /\ levels' = [levels EXCEPT ![incoming.side] =
             Put(@, incoming.price,
                 LevelWith(LevelAt(incoming.side, incoming.price),
                           [order_id |-> incoming.order_id, price |-> incoming.price,
                            qty |-> incoming.qty]))]
        /\ order_index' = Put(order_index, incoming.order_id,
                              [side |-> incoming.side, price |-> incoming.price])
     \/ /\ ~(incoming.qty > 0 /\ incoming.can_rest)
        /\ UNCHANGED <<levels, order_index>>
  /\ incoming' = NoOrder
  /\ UNCHANGED <<traded_qty, trades, error>>

Next ==
  \/ \E add \in AddRequests : Add(add)
  \/ \E id \in OrderIds : Cancel(id)
  \/ \E id \in OrderIds, price \in 0..MaxPrice, qty \in Quantities : Modify(id, price, qty)
  \/ Fill
  \/ Return

\* A call is an ordinary function call: once begun it runs on.
Spec == Init /\ [][Next]_vars /\ WF_vars(Fill \/ Return)
-----------------------------------------------------------------------------
(***************************************************************************)
(* Properties.                                                             *)
(***************************************************************************)
Call == [order_id : OrderIds, side : Sides, price : Int, qty : Nat, can_rest : BOOLEAN,
         is_market : BOOLEAN, time_in_force : Policies, post_only : BOOLEAN]

Errors == {"None", "InvalidPrice", "InvalidQuantity", "DuplicateOrderId", "UnknownOrderId",
           "InsufficientLiquidity", "WouldTakeLiquidity", "QuantityOverflow"}

LevelMap(map) ==
  /\ map = [p \in DOMAIN map |-> map[p]]
  /\ DOMAIN map \subseteq Prices
  /\ \A p \in DOMAIN map : map[p] \in Level

\* Every variable has its type; a resting quantity is positive and a resting
\* price valid, whatever prices market orders match at.
TypeOK ==
  /\ levels = [side \in Sides |-> levels[side]]
  /\ \A side \in Sides : LevelMap(levels[side])
  /\ order_index = [id \in DOMAIN order_index |-> order_index[id]]
  /\ DOMAIN order_index \subseteq OrderIds
  /\ \A id \in DOMAIN order_index : order_index[id] \in [side : Sides, price : Prices]
  /\ traded_qty \in Int
  /\ incoming \in Call \cup {NoOrder}
  /\ ~Idle /\ incoming.can_rest => incoming.price \in Prices
  /\ trades \in Seq([resting_order_id : OrderIds, price : Prices, qty : Nat])
  /\ error \in Errors

\* No bid is at or above an ask, in any state the matching loop passes through:
\* match_incoming takes every crossing level before a remainder rests, and a
\* modified order that now crosses is matched and not re-inserted.
BookUncrossed ==
  \A bid \in DOMAIN levels["Bid"], ask \in DOMAIN levels["Ask"] : bid < ask

\* Position i of a level's list holds an order the index places there, and no
\* other position holds the same order.
HeldOnce(orders, side, p, index) ==
  /\ orders # <<>>
  /\ \A i \in DOMAIN orders :
       /\ orders[i].price = p
       /\ orders[i].order_id \in DOMAIN index
       /\ index[orders[i].order_id] = [side |-> side, price |-> p]
  /\ \A i, j \in DOMAIN orders : orders[i].order_id = orders[j].order_id => i = j

Holds(map, p, id) ==
  p \in DOMAIN map /\ \E i \in DOMAIN map[p].orders : map[p].orders[i].order_id = id

\* order_index_ names exactly the resting orders, each once and at the level
\* that holds it: no entry is left pointing into an erased list or level, and
\* cancel and modify reach every resting order.  No level is empty, so begin()
\* is the top of the book.  The order being matched is not in the book.
IndexMatchesLevels ==
  /\ \A id \in DOMAIN order_index :
       Holds(levels[order_index[id].side], order_index[id].price, id)
  /\ \A side \in Sides : \A p \in DOMAIN levels[side] :
       HeldOnce(levels[side][p].orders, side, p, order_index)
  /\ ~Idle => incoming.order_id \notin DOMAIN order_index

TotalQty(orders) ==
  LET sum[i \in 0..Len(orders)] == IF i = 0 THEN 0 ELSE sum[i - 1] + orders[i].qty
  IN  sum[Len(orders)]

\* A level's cached total is the sum of its orders, so the asserts that an
\* emptied level totals 0 hold, and it never leaves the range of Quantity.
LevelTotalsExact ==
  \A side \in Sides : \A p \in DOMAIN levels[side] :
    /\ levels[side][p].total_qty = TotalQty(levels[side][p].orders)
    /\ levels[side][p].total_qty <= MaxQty

\* What was admitted on a prediction stays true of the book while the loop runs:
\* the traded total and the level the remainder would join still have room, an
\* admitted fill-or-kill limit order can still be filled, and an admitted
\* post-only order still takes nothing.
AdmissionHolds ==
  ~Idle =>
    LET crossing == MaxCrossingQty(incoming.side, incoming.price, incoming.qty)
    IN  /\ traded_qty + crossing <= MaxQty
        /\ incoming.can_rest =>
             LevelAt(incoming.side, incoming.price).total_qty + incoming.qty - crossing <= MaxQty
        /\ incoming.time_in_force = "FOK" /\ ~incoming.is_market => crossing = incoming.qty
        /\ incoming.post_only => crossing = 0 /\ trades = <<>>

\* A returning call keeps its policy: fill-or-kill limit orders are complete,
\* immediate-or-cancel and market orders leave nothing behind, and a good-til-cancel
\* remainder is resting with exactly the quantity that did not trade.
PolicyKept ==
  [][~Idle /\ Idle' =>
       /\ incoming.time_in_force = "FOK" /\ ~incoming.is_market => incoming.qty = 0
       /\ (incoming.order_id \in DOMAIN order_index') =
            (incoming.qty > 0 /\ incoming.time_in_force = "GTC" /\ ~incoming.is_market)
       /\ \A id \in DOMAIN order_index' :
            id = incoming.order_id => OrderOf(id)'.qty = incoming.qty
    ]_vars

\* Whoever is ahead of an order in its level was already ahead of it before the
\* step: fills take from the front, a newcomer goes to the back, and a partly
\* filled order keeps its place.
TimePriorityKept ==
  [][\A side \in Sides : \A p \in DOMAIN levels[side] :
       LET before == levels[side][p].orders
           after  == LevelAt(side, p)'.orders
       IN  \A k, l \in DOMAIN after : \A j \in DOMAIN before :
             k < l /\ after[l].order_id = before[j].order_id
             => \E i \in DOMAIN before : i < j /\ before[i].order_id = after[k].order_id
    ]_vars

\* The nested loops of match_incoming end: a step of a call under way returns, or takes
\* from the incoming order exactly what it adds to the traded total, and never nothing.
\* (That a call under way can always take a step is the check for deadlock.)
LoopConsumes ==
  [][~Idle =>
       \/ Idle'
       \/ /\ incoming'.qty < incoming.qty
          /\ traded_qty' - traded_qty = incoming.qty - incoming'.qty
          /\ DOMAIN order_index' \subseteq DOMAIN order_index
    ]_vars
==============================================================================
