--------------------------- MODULE LadderOrderBook ---------------------------
(***************************************************************************)
(* The bounded price ladder, src/src/ladder_order_book.{hpp,cpp}: one      *)
(* level object for every price of a fixed range, shared by both sides,    *)
(* and for each side a two-level bitmap of the levels it occupies.  Words  *)
(* have WordBits bits (64 in the program); a bitmap is the set of its set  *)
(* bits, and word_occupied the set of its words that are not zero.  The    *)
(* words of word_occupied itself, scanned one after the other, are not     *)
(* told apart.                                                             *)
(*                                                                         *)
(* As in OrderBook a call is validated in one step, then the matching loop *)
(* runs one fill per step, then the call returns.                          *)
(***************************************************************************)
EXTENDS Integers, Sequences, SequencesExt

CONSTANTS OrderIds,       \* ids the callers use
          MinPrice,       \* min_price_
          MaxPrice,       \* max_price_
          WordBits,       \* bits of a word of a bitmap
          MaxQty,         \* std::numeric_limits<Quantity>::max()
          RequestPrices,  \* prices the callers send
          Quantities,     \* quantities the callers send
          AddRequests     \* add events the callers send

VARIABLES levels,         \* levels_, by price
          occupied,       \* bid_occupied_ and ask_occupied_: the set bits of each side
          word_occupied,  \* bid_word_occupied_ and ask_word_occupied_, likewise
          order_index,    \* order_index_: the price of the level of each resting order
          traded_qty,     \* EngineStats::traded_qty
          incoming,       \* the order being matched, NoOrder between calls
          trades,         \* the trades of the current or of the last call
          error           \* the BookError of the last call

vars == <<levels, occupied, word_occupied, order_index, traded_qty, incoming, trades, error>>

Sides == {"Bid", "Ask"}
OtherSide(side) == IF side = "Bid" THEN "Ask" ELSE "Bid"
Policies == {"GTC", "IOC", "FOK"}
Ladder == MinPrice..MaxPrice
Indexes == 0..(MaxPrice - MinPrice)

Adds == [order_id : OrderIds, side : Sides, price : RequestPrices, qty : Quantities,
         is_market : BOOLEAN, time_in_force : Policies, post_only : BOOLEAN]

ASSUME LadderAssumption ==
  /\ MinPrice \in Nat /\ MaxPrice \in Nat /\ MinPrice <= MaxPrice
  /\ WordBits \in Nat \ {0}
  /\ MaxQty \in Nat /\ Quantities \subseteq 0..MaxQty
  /\ RequestPrices \subseteq Int
  /\ AddRequests \subseteq Adds

NoOrder == [order_id |-> "none"]
Idle == incoming = NoOrder

Put(map, key, value) ==
  [k \in DOMAIN map \cup {key} |-> IF k = key THEN value ELSE map[k]]
Erase(map, key) == [k \in DOMAIN map \ {key} |-> map[k]]
Smaller(a, b) == IF a <= b THEN a ELSE b
AddWouldOverflow(left, right) == right > 0 /\ left > MaxQty - right
-----------------------------------------------------------------------------
(***************************************************************************)
(* The bitmaps.                                                            *)
(***************************************************************************)
index_for(price) == price - MinPrice
PriceAt(index) == MinPrice + index
WordOf(index) == index \div WordBits
BitsOf(side, word) == {index \in occupied[side] : WordOf(index) = word}

\* set_occupied.
Marked(side, index) ==
  /\ occupied' = [occupied EXCEPT ![side] = @ \cup {index}]
  /\ word_occupied' = [word_occupied EXCEPT ![side] = @ \cup {WordOf(index)}]

\* clear_occupied: the summary bit goes with the last bit of its word.  The slip: it
\* goes with any bit.
ClearsWordToo(side, index) ==
  /\ occupied' = [occupied EXCEPT ![side] = @ \ {index}]
  /\ word_occupied' = [word_occupied EXCEPT ![side] = @ \ {WordOf(index)}]
Cleared(side, index) ==
  /\ occupied' = [occupied EXCEPT ![side] = @ \ {index}]
  /\ word_occupied' =
       [word_occupied EXCEPT ![side] =
          IF BitsOf(side, WordOf(index)) \subseteq {index} THEN @ \ {WordOf(index)} ELSE @]

\* __builtin_ctzll, and 63 - __builtin_clzll.
Lowest(bits) == CHOOSE b \in bits : \A c \in bits : b <= c
Highest(bits) == CHOOSE b \in bits : \A c \in bits : b >= c

\* The bit a scan of a side takes from a word.
FirstBit(side, bits) == IF side = "Ask" THEN Lowest(bits) ELSE Highest(bits)

\* best_index, for a side that occupies some level.
best_index(side) ==
  FirstBit(side, BitsOf(side, FirstBit(side, word_occupied[side])))

\* The bits max_crossing_qty takes from a word, one after the other: whichever it
\* takes, it goes on with bits &= bits - 1, which clears the lowest one.
\* The slip: it takes one bit of a word.
OneBit(side, bits) == IF bits = {} THEN <<>> ELSE <<FirstBit(side, bits)>>
ScanOf(side, bits) ==
  LET scan[b \in SUBSET Indexes] ==
        IF b = {} THEN <<>> ELSE <<FirstBit(side, b)>> \o scan[b \ {Lowest(b)}]
  IN  scan[bits]

\* The levels of a side in the order max_crossing_qty visits them.
Visited(side) ==
  LET words == ScanOf(side, word_occupied[side])
  IN  FlattenSeq([k \in DOMAIN words |-> ScanOf(side, BitsOf(side, words[k]))])
-----------------------------------------------------------------------------
Crosses(side, price, restingPrice) ==
  IF side = "Bid" THEN price >= restingPrice ELSE price <= restingPrice

\* max_crossing_qty: up to the first level that does not cross, or the quantity.
MaxCrossingQty(side, limit, qty) ==
  LET visited == Visited(OtherSide(side))
      reached[k \in 0..Len(visited)] ==
        IF k = 0 THEN 0
        ELSE IF Crosses(side, limit, PriceAt(visited[k]))
        THEN reached[k - 1]
             + Smaller(qty - reached[k - 1], levels[PriceAt(visited[k])].total_qty)
        ELSE reached[k - 1]
  IN  reached[Len(visited)]

\* A market order is immediate-or-cancel at the end of the ladder.
MatchPrice(add) ==
  IF ~add.is_market THEN add.price ELSE IF add.side = "Bid" THEN MaxPrice ELSE MinPrice
MatchPolicy(add) == IF add.is_market THEN "IOC" ELSE add.time_in_force
CanRest(add) == ~add.is_market /\ MatchPolicy(add) = "GTC"

PriceError(price) == IF price > 0 THEN "PriceOutOfRange" ELSE "InvalidPrice"

AddError(add) ==
  LET price    == MatchPrice(add)
      crossing == MaxCrossingQty(add.side, price, add.qty)
  IN  IF ~add.is_market /\ add.price \notin Ladder THEN PriceError(add.price)
      ELSE IF add.is_market /\ add.post_only THEN "WouldTakeLiquidity"
      ELSE IF add.qty <= 0 THEN "InvalidQuantity"
      ELSE IF add.order_id \in DOMAIN order_index THEN "DuplicateOrderId"
      ELSE IF MatchPolicy(add) = "FOK" /\ crossing < add.qty THEN "InsufficientLiquidity"
      ELSE IF add.post_only /\ crossing # 0 THEN "WouldTakeLiquidity"
      ELSE IF \/ CanRest(add) /\ AddWouldOverflow(levels[price].total_qty, add.qty - crossing)
              \/ AddWouldOverflow(traded_qty, crossing)
           THEN "QuantityOverflow"
      ELSE "None"

Position(orders, id) == CHOOSE i \in DOMAIN orders : orders[i].order_id = id
OrderOf(id) ==
  LET orders == levels[order_index[id]].orders IN orders[Position(orders, id)]

ModifyError(id, price, qty) ==
  IF id \notin DOMAIN order_index THEN "UnknownOrderId"
  ELSE IF price \notin Ladder THEN PriceError(price)
  ELSE IF qty <= 0 THEN "InvalidQuantity"
  ELSE LET own      == IF order_index[id] = price THEN OrderOf(id).qty ELSE 0
           crossing == MaxCrossingQty(OrderOf(id).side, price, qty)
       IN  IF \/ AddWouldOverflow(levels[price].total_qty - own, qty - crossing)
              \/ AddWouldOverflow(traded_qty, crossing)
           THEN "QuantityOverflow"
           ELSE "None"
-----------------------------------------------------------------------------
Init ==
  /\ levels = [price \in Ladder |-> [total_qty |-> 0, orders |-> <<>>]]
  /\ occupied = [side \in Sides |-> {}]
  /\ word_occupied = [side \in Sides |-> {}]
  /\ order_index = <<>>
  /\ traded_qty = 0
  /\ incoming = NoOrder
  /\ trades = <<>>
  /\ error = "None"

Reject(reason) ==
  /\ error' = reason
  /\ trades' = <<>>
  /\ UNCHANGED <<levels, occupied, word_occupied, order_index, traded_qty, incoming>>

\* A bit is cleared when, and only when, its level has lost its last order.
UpdateLevel(side, price, level) ==
  /\ levels' = [levels EXCEPT ![price] = level]
  /\ \/ level.orders = <<>> /\ Cleared(side, index_for(price))
     \/ level.orders # <<>> /\ UNCHANGED <<occupied, word_occupied>>

\* remove_order.  The slip: the total of the level is not reduced.
KeepsTotal(level, i) == [total_qty |-> level.total_qty, orders |-> RemoveAt(level.orders, i)]
LevelWithout(level, i) ==
  [total_qty |-> level.total_qty - level.orders[i].qty, orders |-> RemoveAt(level.orders, i)]

RemoveOrder(id) ==
  LET price == order_index[id]
      level == levels[price]
  IN  /\ UpdateLevel(OrderOf(id).side, price,
                     LevelWithout(level, Position(level.orders, id)))
      /\ order_index' = Erase(order_index, id)

Add(add) ==
  /\ Idle
  /\ \/ AddError(add) # "None" /\ Reject(AddError(add))
     \/ /\ AddError(add) = "None"
        /\ incoming' = [order_id |-> add.order_id, side |-> add.side,
                        price |-> MatchPrice(add), qty |-> add.qty, can_rest |-> CanRest(add),
                        is_market |-> add.is_market, time_in_force |-> add.time_in_force]
        /\ trades' = <<>>
        /\ error' = "None"
        /\ UNCHANGED <<levels, occupied, word_occupied, order_index, traded_qty>>

Cancel(id) ==
  /\ Idle
  /\ \/ id \notin DOMAIN order_index /\ Reject("UnknownOrderId")
     \/ /\ id \in DOMAIN order_index
        /\ RemoveOrder(id)
        /\ trades' = <<>>
        /\ error' = "None"
        /\ UNCHANGED <<traded_qty, incoming>>

Modify(id, price, qty) ==
  /\ Idle
  /\ \/ ModifyError(id, price, qty) # "None" /\ Reject(ModifyError(id, price, qty))
     \/ /\ ModifyError(id, price, qty) = "None"
        /\ RemoveOrder(id)
        /\ incoming' = [order_id |-> id, side |-> OrderOf(id).side, price |-> price,
                        qty |-> qty, can_rest |-> TRUE,
                        is_market |-> FALSE, time_in_force |-> "GTC"]
        /\ trades' = <<>>
        /\ error' = "None"
        /\ UNCHANGED traded_qty

\* The condition of the outer loop of match_incoming.
Matching ==
  LET opposite == OtherSide(incoming.side)
  IN  /\ incoming.qty > 0
      /\ word_occupied[opposite] # {}
      /\ Crosses(incoming.side, incoming.price, PriceAt(best_index(opposite)))

\* The level once `fill` of its first order has traded.
LevelAfterFill(level, fill) ==
  LET first == Head(level.orders)
  IN  [total_qty |-> level.total_qty - fill,
       orders    |-> IF first.qty = fill THEN Tail(level.orders)
                     ELSE <<[first EXCEPT !.qty = @ - fill]>> \o Tail(level.orders)]

\* One iteration of the inner loop, and the clearing of the level it empties.
Fill ==
  /\ ~Idle /\ Matching
  /\ LET price   == PriceAt(best_index(OtherSide(incoming.side)))
         resting == Head(levels[price].orders)
         fill    == Smaller(incoming.qty, resting.qty)
     IN  /\ trades' = Append(trades, [resting_order_id |-> resting.order_id,
                                      price |-> resting.price, qty |-> fill])
         /\ traded_qty' = traded_qty + fill
         /\ incoming' = [incoming EXCEPT !.qty = @ - fill]
         /\ UpdateLevel(OtherSide(incoming.side), price, LevelAfterFill(levels[price], fill))
         /\ order_index' = IF fill = resting.qty THEN Erase(order_index, resting.order_id)
                           ELSE order_index
  /\ UNCHANGED error

\* The end of the call; add_resting_order for a remainder that may rest.  The slip:
\* any remainder rests.
RestsAlways(call) == call.qty > 0
Rests(call) == call.qty > 0 /\ call.can_rest

Return ==
  /\ ~Idle /\ ~Matching
  /\ \/ /\ Rests(incoming)
        /\ levels' = [levels EXCEPT ![incoming.price] =
             [total_qty |-> @.total_qty + incoming.qty,
              orders    |-> Append(@.orders, [order_id |-> incoming.order_id,
                                              side |-> incoming.side,
                                              price |-> incoming.price,
                                              qty |-> incoming.qty])]]
        /\ order_index' = Put(order_index, incoming.order_id, incoming.price)
        /\ Marked(incoming.side, index_for(incoming.price))
     \/ /\ ~Rests(incoming)
        /\ UNCHANGED <<levels, order_index, occupied, word_occupied>>
  /\ incoming' = NoOrder
  /\ UNCHANGED <<traded_qty, trades, error>>

Next ==
  \/ \E add \in AddRequests : Add(add)
  \/ \E id \in OrderIds : Cancel(id)
  \/ \E id \in OrderIds, price \in RequestPrices, qty \in Quantities : Modify(id, price, qty)
  \/ Fill
  \/ Return

Spec == Init /\ [][Next]_vars
-----------------------------------------------------------------------------
(***************************************************************************)
(* Properties.                                                             *)
(***************************************************************************)
\* The bitmaps of a side say exactly which levels hold its orders, and the summary
\* exactly which words are not zero, so that ctz and clz are never applied to an
\* empty word (where they are undefined) and the first bit found is the best level.
\* A level, shared by the two sides, never holds orders of both.
BitmapsExact ==
  \A side \in Sides :
    /\ occupied[side] =
         {index_for(price) : price \in {p \in Ladder :
            \E i \in DOMAIN levels[p].orders : levels[p].orders[i].side = side}}
    /\ word_occupied[side] = {WordOf(index) : index \in occupied[side]}
    /\ occupied[side] \cap occupied[OtherSide(side)] = {}

TotalQty(orders) ==
  LET sum[i \in 0..Len(orders)] == IF i = 0 THEN 0 ELSE sum[i - 1] + orders[i].qty
  IN  sum[Len(orders)]

\* order_index_ names exactly the resting orders; a level's cached total is the sum
\* of its orders and never leaves the range of Quantity, although the overflow check
\* subtracts a predicted crossing quantity that may be too large.
IndexAndTotalsExact ==
  /\ \A id \in OrderIds :
       id \in DOMAIN order_index <=>
         \E p \in Ladder : \E i \in DOMAIN levels[p].orders : levels[p].orders[i].order_id = id
  /\ \A p \in Ladder :
       LET orders == levels[p].orders
       IN  /\ levels[p].total_qty = TotalQty(orders)
           /\ levels[p].total_qty <= MaxQty
           /\ \A i, j \in DOMAIN orders :
                /\ orders[i].price = p
                /\ order_index[orders[i].order_id] = p
                /\ orders[i].order_id = orders[j].order_id => i = j

\* README.md:31: a fill-or-kill limit order fills completely or changes nothing.
FokLimitAllOrNothing ==
  [][~Idle /\ Idle' /\ incoming.time_in_force = "FOK" /\ ~incoming.is_market
       => incoming.qty = 0]_vars
==============================================================================
