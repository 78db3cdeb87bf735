--------------------------- MODULE PooledOrderBook ---------------------------
(***************************************************************************)
(* The pooled engine, src/src/pooled_order_book.{hpp,cpp}: the orders live *)
(* in a pool of slots allocated once; a level is a doubly linked list of   *)
(* slots, and the slots in no level are a singly linked free list.         *)
(*                                                                         *)
(* As in OrderBook a call is validated in one step, then the matching loop *)
(* runs one fill per step, then the call returns.  The initial state is    *)
(* the one reserve_orders(Capacity) leaves; a caller may call it again, on *)
(* a book in use.                                                          *)
(***************************************************************************)
EXTENDS PriceTime

CONSTANTS OrderIds,    \* ids the callers use
          MaxPrice,    \* std::numeric_limits<Price>::max()
          MaxQty,      \* std::numeric_limits<Quantity>::max()
          Capacity,    \* the argument of reserve_orders
          Quantities,  \* quantities the callers send
          AddRequests  \* add events the callers send

VARIABLES levels,       \* bids_ and asks_: levels[side] maps a price to its level
          slots,        \* slots_, without the unused slot 0
          free_head,    \* free_head_
          order_index,  \* order_index_: the slot of each resting order
          traded_qty,   \* EngineStats::traded_qty
          incoming,     \* the order being matched, NoOrder between calls
          trades,       \* the trades of the current or of the last call
          error         \* the BookError of the last call, or the exception it threw

book == <<levels, slots, free_head, order_index>>
vars == <<book, traded_qty, incoming, trades, error>>

Policies == {"GTC", "IOC", "FOK"}
Prices == 1..MaxPrice
SlotIndexes == 1..Capacity
kInvalidSlot == 0

Adds == [order_id : OrderIds, side : Sides, price : 0..MaxPrice, qty : Quantities,
         is_market : BOOLEAN, time_in_force : Policies, post_only : BOOLEAN]

ASSUME PoolAssumption ==
  /\ MaxPrice \in Nat \ {0} /\ Capacity \in Nat
  /\ MaxQty \in Nat /\ Quantities \subseteq 0..MaxQty
  /\ AddRequests \subseteq Adds

NoId == "none"
NoOrder == [order_id |-> NoId]
Idle == incoming = NoOrder

Put(map, key, value) ==
  [k \in DOMAIN map \cup {key} |-> IF k = key THEN value ELSE map[k]]
Erase(map, key) == [k \in DOMAIN map \ {key} |-> map[k]]
AddWouldOverflow(left, right) == right > 0 /\ left > MaxQty - right
-----------------------------------------------------------------------------
(***************************************************************************)
(* The pool.                                                               *)
(***************************************************************************)
EmptySlot ==
  [order_id |-> NoId, side |-> "Bid", price |-> 0, qty |-> 0, prev |-> kInvalidSlot,
   next |-> kInvalidSlot, free_next |-> kInvalidSlot, live |-> FALSE]

\* release_slot: the slot goes to the front of the free list.  The slip: the rest
\* of the list is lost.
Lost(pool, slot) == [pool EXCEPT ![slot] = EmptySlot]
Released(pool, slot) == [pool EXCEPT ![slot] = [EmptySlot EXCEPT !.free_next = free_head]]

\* A link of a slot set, unless the slot is kInvalidSlot.
NextSet(pool, slot, next) ==
  IF slot = kInvalidSlot THEN pool ELSE [pool EXCEPT ![slot].next = next]
PrevSet(pool, slot, prev) ==
  IF slot = kInvalidSlot THEN pool ELSE [pool EXCEPT ![slot].prev = prev]

\* append_slot, and allocate_slot before it: the first free slot becomes the tail.
Allocated(level, order) ==
  NextSet([slots EXCEPT ![free_head] =
             [order_id |-> order.order_id, side |-> order.side, price |-> order.price,
              qty |-> order.qty, prev |-> level.tail, next |-> kInvalidSlot,
              free_next |-> kInvalidSlot, live |-> TRUE]],
          level.tail, free_head)

LevelWith(level, qty) ==
  [total_qty   |-> level.total_qty + qty,
   head        |-> IF level.tail = kInvalidSlot THEN free_head ELSE level.head,
   tail        |-> free_head,
   order_count |-> level.order_count + 1]

NewLevel == [total_qty |-> 0, head |-> kInvalidSlot, tail |-> kInvalidSlot, order_count |-> 0]
LevelAt(side, price) ==
  IF price \in DOMAIN levels[side] THEN levels[side][price] ELSE NewLevel

\* unlink_slot.
Unlinked(slot) ==
  PrevSet(NextSet(slots, slots[slot].prev, slots[slot].next), slots[slot].next, slots[slot].prev)

\* The tail keeps pointing at the slot that has left.
LevelKeepingTail(level, slot) ==
  [total_qty   |-> level.total_qty - slots[slot].qty,
   head        |-> IF slots[slot].prev = kInvalidSlot THEN slots[slot].next ELSE level.head,
   tail        |-> level.tail,
   order_count |-> level.order_count - 1]
LevelWithout(level, slot) ==
  [total_qty   |-> level.total_qty - slots[slot].qty,
   head        |-> IF slots[slot].prev = kInvalidSlot THEN slots[slot].next ELSE level.head,
   tail        |-> IF slots[slot].next = kInvalidSlot THEN slots[slot].prev ELSE level.tail,
   order_count |-> level.order_count - 1]

\* A level is erased from its map with its last order.
Stored(side, price, level) ==
  IF level.order_count = 0 THEN Erase(levels[side], price)
  ELSE Put(levels[side], price, level)
-----------------------------------------------------------------------------
Crosses(side, price, restingPrice) == AtLeastAsGood(side, price, restingPrice)

BestPrice(side) ==
  CHOOSE p \in DOMAIN levels[side] :
    \A r \in DOMAIN levels[side] : AtLeastAsGood(side, p, r)

Ranked(side, k) == IF side = "Ask" THEN k ELSE MaxPrice + 1 - k

\* max_crossing_qty.
MaxCrossingQty(side, limit, qty) ==
  LET opposite == OtherSide(side)
      reached[k \in 0..MaxPrice] ==
        IF k = 0 THEN 0
        ELSE LET price == Ranked(opposite, k)
             IN  IF price \in DOMAIN levels[opposite] /\ Crosses(side, limit, price)
                 THEN reached[k - 1]
                      + Smaller(qty - reached[k - 1], levels[opposite][price].total_qty)
                 ELSE reached[k - 1]
  IN  reached[MaxPrice]

MatchPrice(add) ==
  IF ~add.is_market THEN add.price
  ELSE IF add.side = "Bid" THEN MaxPrice ELSE -MaxPrice - 1
MatchPolicy(add) == IF add.is_market THEN "IOC" ELSE add.time_in_force
CanRest(add) == ~add.is_market /\ MatchPolicy(add) = "GTC"

\* The order would rest, no slot is free and no fill will free one.  The slips
\* forget the slots the fills will free, and look for a slot only with a new level.
OutOfSlotsForLevel(add, crossing) ==
  /\ CanRest(add) /\ crossing < add.qty /\ free_head = kInvalidSlot /\ crossing = 0
  /\ add.price \notin DOMAIN levels[add.side]
OutOfSlotsNow(add, crossing) ==
  CanRest(add) /\ crossing < add.qty /\ free_head = kInvalidSlot
OutOfSlots(add, crossing) ==
  CanRest(add) /\ crossing < add.qty /\ free_head = kInvalidSlot /\ crossing = 0

AddError(add) ==
  LET price    == MatchPrice(add)
      crossing == MaxCrossingQty(add.side, price, add.qty)
  IN  IF ~add.is_market /\ add.price <= 0 THEN "InvalidPrice"
      ELSE IF add.is_market /\ add.post_only THEN "WouldTakeLiquidity"
      ELSE IF add.qty <= 0 THEN "InvalidQuantity"
      ELSE IF add.order_id \in DOMAIN order_index THEN "DuplicateOrderId"
      ELSE IF MatchPolicy(add) = "FOK" /\ crossing < add.qty THEN "InsufficientLiquidity"
      ELSE IF add.post_only /\ crossing # 0 THEN "WouldTakeLiquidity"
      ELSE IF \/ /\ CanRest(add)
                 /\ AddWouldOverflow(LevelAt(add.side, price).total_qty, add.qty - crossing)
              \/ AddWouldOverflow(traded_qty, crossing)
           THEN "QuantityOverflow"
      ELSE IF OutOfSlots(add, crossing) THEN "CapacityExceeded"
      ELSE "None"

ModifyError(id, price, qty) ==
  IF id \notin DOMAIN order_index THEN "UnknownOrderId"
  ELSE IF price <= 0 THEN "InvalidPrice"
  ELSE IF qty <= 0 THEN "InvalidQuantity"
  ELSE LET current  == slots[order_index[id]]
           own      == IF current.price = price THEN current.qty ELSE 0
           crossing == MaxCrossingQty(current.side, price, qty)
       IN  IF \/ AddWouldOverflow(LevelAt(current.side, price).total_qty - own, qty - crossing)
              \/ AddWouldOverflow(traded_qty, crossing)
           THEN "QuantityOverflow"
           ELSE "None"
-----------------------------------------------------------------------------
\* reserve_orders: every slot is on the free list, in the order of the pool.
FreshSlots ==
  [slot \in SlotIndexes |->
     [EmptySlot EXCEPT !.free_next = IF slot = Capacity THEN kInvalidSlot ELSE slot + 1]]
FreshHead == IF Capacity = 0 THEN kInvalidSlot ELSE 1
EmptyIndex == <<>>
EmptyLevels == [side \in Sides |-> <<>>]

Init ==
  /\ levels = EmptyLevels
  /\ slots = FreshSlots
  /\ free_head = FreshHead
  /\ order_index = EmptyIndex
  /\ traded_qty = 0
  /\ incoming = NoOrder
  /\ trades = <<>>
  /\ error = "None"

\* The orders that rest and the statistics are gone.  A book that reserves another
\* capacity goes on like a new book of that capacity; one above the range of SlotIndex
\* throws before anything changes.  The slip: the index is not emptied.
ReserveKeepingIndex ==
  /\ Idle
  /\ levels' = EmptyLevels
  /\ slots' = FreshSlots
  /\ free_head' = FreshHead
  /\ traded_qty' = 0
  /\ UNCHANGED <<order_index, incoming, trades, error>>
Reserve ==
  /\ Idle
  /\ levels' = EmptyLevels
  /\ slots' = FreshSlots
  /\ free_head' = FreshHead
  /\ order_index' = EmptyIndex
  /\ traded_qty' = 0
  /\ UNCHANGED <<incoming, trades, error>>

Reject(reason) ==
  /\ error' = reason
  /\ trades' = <<>>
  /\ UNCHANGED <<book, traded_qty, incoming>>

Add(add) ==
  /\ Idle
  /\ \/ AddError(add) # "None" /\ Reject(AddError(add))
     \/ /\ AddError(add) = "None"
        /\ incoming' = [order_id |-> add.order_id, side |-> add.side,
                        price |-> MatchPrice(add), qty |-> add.qty, can_rest |-> CanRest(add),
                        is_market |-> add.is_market]
        /\ trades' = <<>>
        /\ error' = "None"
        /\ UNCHANGED <<book, traded_qty>>

\* remove_order.
RemoveOrder(id) ==
  LET slot  == order_index[id]
      order == slots[slot]
  IN  /\ levels' = [levels EXCEPT ![order.side] =
           Stored(order.side, order.price, LevelWithout(@[order.price], slot))]
      /\ order_index' = Erase(order_index, id)
      /\ slots' = Released(Unlinked(slot), slot)
      /\ free_head' = slot

Cancel(id) ==
  /\ Idle
  /\ \/ id \notin DOMAIN order_index /\ Reject("UnknownOrderId")
     \/ /\ id \in DOMAIN order_index
        /\ RemoveOrder(id)
        /\ trades' = <<>>
        /\ error' = "None"
        /\ UNCHANGED <<traded_qty, incoming>>

Modify(id, price, qty) ==
  /\ Idle
  /\ \/ ModifyError(id, price, qty) # "None" /\ Reject(ModifyError(id, price, qty))
     \/ /\ ModifyError(id, price, qty) = "None"
        /\ RemoveOrder(id)
        /\ incoming' = [order_id |-> id, side |-> slots[order_index[id]].side, price |-> price,
                        qty |-> qty, can_rest |-> TRUE, is_market |-> FALSE]
        /\ trades' = <<>>
        /\ error' = "None"
        /\ UNCHANGED traded_qty

\* The condition of the loops of match_incoming.
Matching ==
  LET opposite == OtherSide(incoming.side)
  IN  /\ incoming.qty > 0
      /\ DOMAIN levels[opposite] # {}
      /\ Crosses(incoming.side, incoming.price, BestPrice(opposite))

\* The filled order at the head leaves the level, and the level after that.
LevelAfterPop(level, slot) ==
  [total_qty   |-> level.total_qty - slots[slot].qty,
   head        |-> slots[slot].next,
   tail        |-> IF level.tail = slot THEN kInvalidSlot ELSE level.tail,
   order_count |-> level.order_count - 1]

\* One iteration of the inner loop, and the erasure of the level it empties.
Fill ==
  /\ ~Idle /\ Matching
  /\ LET side    == OtherSide(incoming.side)
         price   == BestPrice(side)
         level   == levels[side][price]
         slot    == level.head
         resting == slots[slot]
         fill    == Smaller(incoming.qty, resting.qty)
     IN  /\ trades' = Append(trades, [resting_order_id |-> resting.order_id,
                                      price |-> resting.price, qty |-> fill])
         /\ traded_qty' = traded_qty + fill
         /\ incoming' = [incoming EXCEPT !.qty = @ - fill]
         /\ \/ /\ fill < resting.qty
               /\ levels' = [levels EXCEPT ![side][price].total_qty = @ - fill]
               /\ slots' = [slots EXCEPT ![slot].qty = @ - fill]
               /\ UNCHANGED <<free_head, order_index>>
            \/ /\ fill = resting.qty
               /\ levels' = [levels EXCEPT ![side] =
                               Stored(side, price, LevelAfterPop(level, slot))]
               /\ order_index' = Erase(order_index, resting.order_id)
               /\ slots' = Released(PrevSet(slots, resting.next, kInvalidSlot), slot)
               /\ free_head' = slot
  /\ UNCHANGED error

Rests == incoming.qty > 0 /\ incoming.can_rest

\* add_resting_order, with the std::logic_error it throws when no slot is free.
AddRestingOrder(order) ==
  IF free_head = kInvalidSlot
  THEN error' = "LogicError" /\ UNCHANGED book
  ELSE LET level == LevelAt(order.side, order.price)
       IN  /\ levels' = [levels EXCEPT ![order.side] =
                Put(@, order.price, LevelWith(level, order.qty))]
           /\ slots' = Allocated(level, order)
           /\ free_head' = slots[free_head].free_next
           /\ order_index' = Put(order_index, order.order_id, free_head)
           /\ UNCHANGED error

Rest ==
  /\ ~Idle /\ ~Matching /\ Rests
  /\ AddRestingOrder(incoming)
  /\ incoming' = NoOrder
  /\ UNCHANGED <<traded_qty, trades>>

Return ==
  /\ ~Idle /\ ~Matching /\ ~Rests
  /\ incoming' = NoOrder
  /\ UNCHANGED <<book, traded_qty, trades, error>>

Next ==
  \/ Reserve
  \/ \E add \in AddRequests : Add(add)
  \/ \E id \in OrderIds : Cancel(id)
  \/ \E id \in OrderIds, price \in 0..MaxPrice, qty \in Quantities : Modify(id, price, qty)
  \/ Fill
  \/ Rest
  \/ Return

Spec == Init /\ [][Next]_vars
-----------------------------------------------------------------------------
(***************************************************************************)
(* Properties.                                                             *)
(***************************************************************************)
\* The slots met from `first` on, following `link`: Capacity + 1 of them, all
\* kInvalidSlot from some place on unless the links run in a circle.
Walk(first, link) ==
  LET at[k \in 1..(Capacity + 1)] ==
        IF k = 1 THEN first
        ELSE IF at[k - 1] = kInvalidSlot THEN kInvalidSlot ELSE link[at[k - 1]]
  IN  at

ListOf(first, link) ==
  LET walk   == Walk(first, link)
      length == CHOOSE n \in 0..(Capacity + 1) :
                  \A k \in 1..(Capacity + 1) : k <= n <=> walk[k] # kInvalidSlot
  IN  [k \in 1..length |-> walk[k]]

FreeList == ListOf(free_head, [slot \in SlotIndexes |-> slots[slot].free_next])
Forward(level) == ListOf(level.head, [slot \in SlotIndexes |-> slots[slot].next])
Backward(level) == ListOf(level.tail, [slot \in SlotIndexes |-> slots[slot].prev])

Members(list) == {list[i] : i \in DOMAIN list}
Distinct(list) == \A i, j \in DOMAIN list : list[i] = list[j] => i = j

TotalQty(list) ==
  LET sum[n \in 0..Len(list)] == IF n = 0 THEN 0 ELSE sum[n - 1] + slots[list[n]].qty
  IN  sum[Len(list)]

\* Every slot is on the free list or in the list of one level, once and never both:
\* no slot leaks, none is handed out twice, and no list runs in a circle.
PoolPartitioned ==
  LET places == {place \in Sides \X Prices : place[2] \in DOMAIN levels[place[1]]}
      list(place) == Forward(levels[place[1]][place[2]])
  IN  /\ Members(FreeList) \cup UNION {Members(list(place)) : place \in places} = SlotIndexes
      /\ \A place \in places :
           /\ Distinct(list(place))
           /\ Members(list(place)) \cap Members(FreeList) = {}
           /\ \A other \in places : other # place =>
                Members(list(place)) \cap Members(list(other)) = {}
      /\ Distinct(FreeList)
      /\ \A slot \in SlotIndexes : slots[slot].live <=> slot \notin Members(FreeList)

\* A level's list reads the same from the tail, its count and total are those of its
\* orders, and the index finds each of them.
LevelsWellLinked ==
  /\ \A side \in Sides : \A p \in DOMAIN levels[side] :
       LET level == levels[side][p]
           list  == Forward(level)
       IN  /\ Backward(level) = [i \in DOMAIN list |-> list[Len(list) + 1 - i]]
           /\ level.order_count = Len(list) /\ level.order_count > 0
           /\ level.total_qty = TotalQty(list)
           /\ \A i \in DOMAIN list :
                /\ slots[list[i]].side = side /\ slots[list[i]].price = p
                /\ slots[list[i]].order_id \in DOMAIN order_index
                /\ order_index[slots[list[i]].order_id] = list[i]
  /\ \A id \in DOMAIN order_index :
       slots[order_index[id]].live /\ slots[order_index[id]].order_id = id

\* The std::logic_error of add_resting_order (pooled_order_book.cpp:99) is never thrown:
\* while a call has something to rest and no slot is free, a fill that frees one is still
\* to come, whatever the call was admitted on.
SlotForRest == ~Idle /\ Rests /\ free_head = kInvalidSlot => Matching
==============================================================================
