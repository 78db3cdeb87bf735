--------------------------- MODULE OrderBookProofs ---------------------------
(***************************************************************************)
(* Theorems about the baseline engine, for every set of ids, every range   *)
(* of prices and quantities and every set of requests.                     *)
(*                                                                         *)
(* The first part keeps the book well formed: types, index, and no crossed *)
(* levels.  The second part is about quantities.  The cached total of a    *)
(* level and the prediction max_crossing_qty are recursive functions, over *)
(* the orders of a level and over the prices of a side; each is first      *)
(* shown to have the equation that defines it and is then reasoned about   *)
(* by induction.  The invariant needs both: a level's total is exact       *)
(* because fills and removals subtract what they take, and stays in range  *)
(* because the admission checks counted on the prediction, which is right  *)
(* because the totals it adds up are.                                      *)
(*                                                                         *)
(* The last part shows that the engine implements PriceTimeBook.  The      *)
(* queue of a side is the lists of its levels put end to end, so a fill    *)
(* takes or shrinks the head of that queue, and what the rest of the match *)
(* takes from the queue it leaves is what was still to come: fills and the *)
(* return are stuttering steps, and an admitted call is the atomic call.   *)
(* That the same calls are refused follows from the exact totals.          *)
(***************************************************************************)
EXTENDS OrderBookRefinement, Induction, FiniteSetTheorems

(***************************************************************************)
(* Lists of orders.                                                        *)
(***************************************************************************)
LEMMA RemoveAtFacts ==
  ASSUME NEW S, NEW s \in Seq(S), NEW i \in 1..Len(s)
  PROVE  /\ RemoveAt(s, i) \in Seq(S)
         /\ Len(RemoveAt(s, i)) = Len(s) - 1
         /\ \A j \in 1..(Len(s) - 1) : RemoveAt(s, i)[j] = IF j < i THEN s[j] ELSE s[j + 1]
  <1>1. RemoveAt(s, i) = Without(s, i)
    BY DEF RemoveAt, Without
  <1> QED
    BY <1>1, WithoutFacts

LEMMA OrdersCount == Counted(Order)
  BY DEF Counted, Order

LEMMA TotalIsSum ==
  ASSUME NEW orders
  PROVE  TotalQty(orders) = SumOfQty(orders)
  BY DEF TotalQty, SumOfQty

\* A total is a natural, and 0 only for the empty list.
LEMMA TotalFacts ==
  ASSUME NEW orders \in Seq(Order)
  PROVE  /\ TotalQty(orders) \in Nat
         /\ orders # <<>> => TotalQty(orders) > 0
         /\ orders = <<>> => TotalQty(orders) = 0
  BY OrdersCount, TotalIsSum, SumFacts

\* One order more at the back, one less, another quantity for the first.
LEMMA TotalOfAppend ==
  ASSUME NEW orders \in Seq(Order), NEW order \in Order
  PROVE  TotalQty(Append(orders, order)) = TotalQty(orders) + order.qty
  BY OrdersCount, TotalIsSum, SumOfAppend

LEMMA TotalOfRemoveAt ==
  ASSUME NEW orders \in Seq(Order), NEW at \in 1..Len(orders)
  PROVE  TotalQty(RemoveAt(orders, at)) = TotalQty(orders) - orders[at].qty
  <1>1. RemoveAt(orders, at) = Without(orders, at)
    BY DEF RemoveAt, Without
  <1> QED
    BY <1>1, OrdersCount, TotalIsSum, SumOfWithout

LEMMA TotalOfShrunk ==
  ASSUME NEW orders \in Seq(Order), orders # <<>>,
         NEW new \in Seq(Order), Len(new) = Len(orders),
         \A i \in 2..Len(orders) : new[i] = orders[i]
  PROVE  TotalQty(new) = TotalQty(orders) - orders[1].qty + new[1].qty
  BY OrdersCount, TotalIsSum, SumOfShrunk

(***************************************************************************)
(* Setting and erasing one entry of a map.                                 *)
(***************************************************************************)
LEMMA PutFacts ==
  ASSUME NEW map, NEW key, NEW value
  PROVE  /\ DOMAIN Put(map, key, value) = DOMAIN map \cup {key}
         /\ Put(map, key, value)[key] = value
         /\ \A k \in DOMAIN map : k # key => Put(map, key, value)[k] = map[k]
         /\ Put(map, key, value) =
              [k \in DOMAIN Put(map, key, value) |-> Put(map, key, value)[k]]
  BY DEF Put

LEMMA EraseFacts ==
  ASSUME NEW map, NEW key
  PROVE  /\ DOMAIN Erase(map, key) = DOMAIN map \ {key}
         /\ \A k \in DOMAIN map : k # key => Erase(map, key)[k] = map[k]
         /\ Erase(map, key) = [k \in DOMAIN Erase(map, key) |-> Erase(map, key)[k]]
  BY DEF Erase

(***************************************************************************)
(* The parts of the invariants that speak of the book and its index, as    *)
(* predicates on any such pair, so that lemmas can state what a change of  *)
(* the pair preserves.                                                     *)
(***************************************************************************)
WellTyped(lv, ix) ==
  /\ lv = [side \in Sides |-> lv[side]]
  /\ \A side \in Sides : LevelMap(lv[side])
  /\ ix = [id \in DOMAIN ix |-> ix[id]]
  /\ DOMAIN ix \subseteq OrderIds
  /\ \A id \in DOMAIN ix : ix[id] \in [side : Sides, price : Prices]

Indexed(lv, ix) ==
  /\ \A id \in DOMAIN ix : Holds(lv[ix[id].side], ix[id].price, id)
  /\ \A side \in Sides : \A p \in DOMAIN lv[side] :
       HeldOnce(lv[side][p].orders, side, p, ix)

\* Erasing an order that is elsewhere leaves a list correctly indexed.
LEMMA HeldOnceElsewhere ==
  ASSUME NEW orders, NEW side, NEW p, NEW index, NEW id,
         HeldOnce(orders, side, p, index),
         index[id] # [side |-> side, price |-> p]
  PROVE  HeldOnce(orders, side, p, Erase(index, id))
  <1>1. ASSUME NEW i \in DOMAIN orders
        PROVE  /\ orders[i].order_id \in DOMAIN Erase(index, id)
               /\ Erase(index, id)[orders[i].order_id] = [side |-> side, price |-> p]
    <2>1. /\ orders[i].order_id \in DOMAIN index
          /\ index[orders[i].order_id] = [side |-> side, price |-> p]
          /\ orders[i].order_id # id
      BY DEF HeldOnce
    <2> QED
      BY <2>1 DEF Erase
  <1> QED
    BY <1>1 DEF HeldOnce

\* Erasing an order from its list and from the index leaves the rest of the
\* list correctly indexed.
LEMMA HeldOnceRemoved ==
  ASSUME NEW orders \in Seq(Order), NEW side, NEW p, NEW index,
         NEW i \in DOMAIN orders,
         HeldOnce(orders, side, p, index),
         RemoveAt(orders, i) # <<>>
  PROVE  HeldOnce(RemoveAt(orders, i), side, p, Erase(index, orders[i].order_id))
  <1> DEFINE left == RemoveAt(orders, i)
             ix   == Erase(index, orders[i].order_id)
             old(j) == IF j < i THEN j ELSE j + 1
  <1>1. /\ left \in Seq(Order)
        /\ DOMAIN left = 1..(Len(orders) - 1)
        /\ \A j \in DOMAIN left : left[j] = orders[old(j)]
    <2>1. i \in 1..Len(orders)
      OBVIOUS
    <2>2. /\ left \in Seq(Order)
          /\ Len(left) = Len(orders) - 1
          /\ \A j \in 1..(Len(orders) - 1) : left[j] = orders[old(j)]
      BY <2>1, RemoveAtFacts
    <2> QED
      BY <2>2
  <1>2. \A j \in DOMAIN left : old(j) \in DOMAIN orders /\ old(j) # i
    BY <1>1
  <1>3. \A j, k \in DOMAIN left : old(j) = old(k) => j = k
    BY <1>1
  <1> HIDE DEF left, old
  <1>4. ASSUME NEW j \in DOMAIN left
        PROVE  /\ left[j].price = p
               /\ left[j].order_id \in DOMAIN ix
               /\ ix[left[j].order_id] = [side |-> side, price |-> p]
    <2>1. /\ old(j) \in DOMAIN orders /\ left[j] = orders[old(j)]
          /\ orders[old(j)].order_id # orders[i].order_id
      BY <1>1, <1>2 DEF HeldOnce
    <2>2. /\ left[j].price = p
          /\ left[j].order_id \in DOMAIN index
          /\ index[left[j].order_id] = [side |-> side, price |-> p]
      BY <2>1 DEF HeldOnce
    <2> QED
      BY <2>1, <2>2 DEF Erase
  <1>5. \A j, k \in DOMAIN left : left[j].order_id = left[k].order_id => j = k
    BY <1>1, <1>2, <1>3 DEF HeldOnce
  <1>6. left # <<>>
    BY DEF left
  <1> QED
    BY <1>4, <1>5, <1>6 DEF HeldOnce, left
-----------------------------------------------------------------------------
(***************************************************************************)
(* What each way of changing the book preserves.                           *)
(***************************************************************************)

LevelsRemoved(side, p, i, total) ==
  [levels EXCEPT ![side] =
     Stored(side, p, [total_qty |-> total, orders |-> RemoveAt(levels[side][p].orders, i)])]

LevelsShrunk(side, p, total, qty) ==
  [levels EXCEPT ![side] =
     Stored(side, p,
            [total_qty |-> total,
             orders    |-> <<[Head(levels[side][p].orders) EXCEPT !.qty = qty]>>
                             \o Tail(levels[side][p].orders)])]

LevelsJoined(side, order) ==
  [levels EXCEPT ![side] =
     Put(@, order.price, LevelWith(LevelAt(side, order.price), order))]

\* An order leaves its level, and the level its map when it was the last one.
LEMMA Removal ==
  ASSUME WellTyped(levels, order_index), Indexed(levels, order_index),
         NEW side \in Sides, NEW p \in DOMAIN levels[side],
         NEW i \in DOMAIN levels[side][p].orders, NEW total \in Int,
         NEW lv, NEW ix,
         lv = LevelsRemoved(side, p, i, total),
         ix = Erase(order_index, levels[side][p].orders[i].order_id)
  PROVE  /\ WellTyped(lv, ix)
         /\ Indexed(lv, ix)
         /\ levels[side][p].orders[i].order_id \notin DOMAIN ix
         /\ \A s \in Sides : DOMAIN lv[s] \subseteq DOMAIN levels[s]
  <1> DEFINE orders == levels[side][p].orders
             id     == orders[i].order_id
             left   == RemoveAt(orders, i)
             level  == [total_qty |-> total, orders |-> left]
  <1>1. orders \in Seq(Order) /\ i \in 1..Len(orders)
    BY DEF WellTyped, LevelMap, Level
  <1>2. /\ left \in Seq(Order)
        /\ Len(left) = Len(orders) - 1
        /\ \A j \in 1..(Len(orders) - 1) : left[j] = IF j < i THEN orders[j] ELSE orders[j + 1]
    BY <1>1, RemoveAtFacts
  <1>3. level \in Level
    BY <1>2 DEF Level
  <1>4. /\ HeldOnce(orders, side, p, order_index)
        /\ id \in DOMAIN order_index
        /\ order_index[id] = [side |-> side, price |-> p]
    BY DEF Indexed, HeldOnce
  <1>5. lv = [levels EXCEPT ![side] = Stored(side, p, level)]
    BY DEF LevelsRemoved
  <1>6. /\ DOMAIN levels = Sides /\ DOMAIN lv = Sides
        /\ lv = [s \in Sides |-> lv[s]]
        /\ lv[side] = Stored(side, p, level)
        /\ \A s \in Sides : s # side => lv[s] = levels[s]
    BY <1>5 DEF WellTyped
  <1>7. /\ DOMAIN ix = DOMAIN order_index \ {id}
        /\ ix = [k \in DOMAIN ix |-> ix[k]]
        /\ \A k \in DOMAIN ix : ix[k] = order_index[k]
    BY DEF Erase
  <1>8. /\ DOMAIN lv[side] = IF left = <<>> THEN DOMAIN levels[side] \ {p}
                                            ELSE DOMAIN levels[side]
        /\ lv[side] = [q \in DOMAIN lv[side] |-> lv[side][q]]
        /\ \A q \in DOMAIN lv[side] :
             lv[side][q] = IF q = p THEN level ELSE levels[side][q]
    <2>1. CASE left = <<>>
      <3>1. lv[side] = Erase(levels[side], p)
        BY <1>6, <2>1 DEF Stored
      <3> QED
        BY <3>1, <2>1 DEF Erase
    <2>2. CASE left # <<>>
      <3>1. lv[side] = Put(levels[side], p, level)
        BY <1>6, <2>2 DEF Stored
      <3> QED
        BY <3>1, <2>2 DEF Put
    <2> QED
      BY <2>1, <2>2
  <1> HIDE DEF orders, id, left, level
  <1>9. LevelMap(lv[side])
    BY <1>3, <1>8 DEF LevelMap, WellTyped
  <1>10. WellTyped(lv, ix)
    BY <1>6, <1>7, <1>9 DEF WellTyped
  <1>11. ASSUME NEW k \in DOMAIN ix
         PROVE  Holds(lv[ix[k].side], ix[k].price, k)
    <2>1. k \in DOMAIN order_index /\ k # id /\ ix[k] = order_index[k]
      BY <1>7
    <2>2. PICK s \in Sides, q \in Prices : ix[k] = [side |-> s, price |-> q]
      BY <2>1 DEF WellTyped
    <2>3. q \in DOMAIN levels[s] /\ \E j \in DOMAIN levels[s][q].orders :
                                     levels[s][q].orders[j].order_id = k
      <3>1. Holds(levels[order_index[k].side], order_index[k].price, k)
        BY <2>1 DEF Indexed
      <3>2. order_index[k].side = s /\ order_index[k].price = q
        BY <2>1, <2>2
      <3>3. Holds(levels[s], q, k)
        BY <3>1, <3>2
      <3> QED
        BY <3>3 DEF Holds
    <2>4. CASE s = side /\ q = p
      <3>1. PICK j \in DOMAIN orders : orders[j].order_id = k
        BY <2>3, <2>4 DEF orders
      <3>2. j # i
        BY <3>1, <2>1 DEF id
      <3> DEFINE at == IF j < i THEN j ELSE j - 1
      <3>3. at \in DOMAIN left /\ left[at].order_id = k
        <4>1. j \in 1..Len(orders) /\ i \in 1..Len(orders)
          BY <1>1
        <4>2. DOMAIN left = 1..(Len(orders) - 1) /\ Len(orders) \in Nat
          BY <1>1, <1>2
        <4>3. CASE j < i
          BY <4>1, <4>2, <4>3, <3>1, <1>2
        <4>4. CASE ~(j < i)
          <5>1. at = j - 1 /\ at \in 1..(Len(orders) - 1) /\ ~(at < i) /\ at + 1 = j
            BY <4>1, <4>2, <4>4, <3>2
          <5> QED
            BY <5>1, <4>2, <3>1, <1>2
        <4> QED
          BY <4>3, <4>4
      <3>4. left # <<>>
        BY <3>3
      <3>5. p \in DOMAIN lv[side] /\ lv[side][p].orders = left
        BY <3>4, <1>8 DEF level
      <3> QED
        BY <3>3, <3>5, <2>2, <2>4 DEF Holds
    <2>5. CASE ~(s = side /\ q = p)
      <3>1. q \in DOMAIN lv[s] /\ lv[s][q] = levels[s][q]
        BY <2>3, <2>5, <1>6, <1>8
      <3> QED
        BY <3>1, <2>2, <2>3 DEF Holds
    <2> QED
      BY <2>4, <2>5
  <1>12. ASSUME NEW s \in Sides, NEW q \in DOMAIN lv[s]
         PROVE  HeldOnce(lv[s][q].orders, s, q, ix)
    <2>1. CASE s = side /\ q = p
      <3>1. left # <<>> /\ lv[s][q].orders = left
        BY <2>1, <1>8 DEF level
      <3>2. HeldOnce(left, side, p, Erase(order_index, id))
        BY <1>1, <1>4, <3>1, HeldOnceRemoved DEF left, id
      <3> QED
        BY <3>1, <3>2, <2>1 DEF id, orders
    <2>2. CASE ~(s = side /\ q = p)
      <3>1. q \in DOMAIN levels[s] /\ lv[s][q] = levels[s][q]
        BY <2>2, <1>6, <1>8
      <3>2. HeldOnce(levels[s][q].orders, s, q, order_index)
        BY <3>1 DEF Indexed
      <3>3. order_index[id] # [side |-> s, price |-> q]
        BY <1>4, <2>2
      <3>4. HeldOnce(levels[s][q].orders, s, q, Erase(order_index, id))
        BY <3>2, <3>3, HeldOnceElsewhere
      <3> QED
        BY <3>1, <3>4 DEF id, orders
    <2> QED
      BY <2>1, <2>2
  <1>13. \A s \in Sides : DOMAIN lv[s] \subseteq DOMAIN levels[s]
    BY <1>6, <1>8
  <1> QED
    BY <1>7, <1>10, <1>11, <1>12, <1>13 DEF Indexed, id, orders

\* The first order of a level keeps its place with another quantity.
LEMMA Shrinking ==
  ASSUME WellTyped(levels, order_index), Indexed(levels, order_index),
         NEW side \in Sides, NEW p \in DOMAIN levels[side],
         NEW total \in Int, NEW qty \in Nat \ {0}, NEW lv,
         lv = LevelsShrunk(side, p, total, qty)
  PROVE  /\ WellTyped(lv, order_index)
         /\ Indexed(lv, order_index)
         /\ \A s \in Sides : DOMAIN lv[s] = DOMAIN levels[s]
  <1> DEFINE old    == levels[side][p].orders
             orders == <<[Head(old) EXCEPT !.qty = qty]>> \o Tail(old)
             level  == [total_qty |-> total, orders |-> orders]
  <1>0. lv = [levels EXCEPT ![side] = Stored(side, p, level)]
    BY DEF LevelsShrunk
  <1>1. old \in Seq(Order) /\ HeldOnce(old, side, p, order_index) /\ old # <<>>
    BY DEF WellTyped, LevelMap, Level, Indexed, HeldOnce
  <1>2. Head(old) \in Order /\ Head(old) = old[1]
    BY <1>1
  <1> DEFINE first == [Head(old) EXCEPT !.qty = qty]
  <1>3. /\ first \in Order
        /\ first.order_id = old[1].order_id
        /\ first.price = old[1].price
    BY <1>2 DEF Order
  <1>4. orders = <<first>> \o Tail(old)
    OBVIOUS
  <1> HIDE DEF first, old, orders, level
  <1>5. /\ orders \in Seq(Order) /\ orders # <<>>
        /\ DOMAIN orders = DOMAIN old
        /\ orders[1] = first
        /\ \A i \in DOMAIN old : i # 1 => orders[i] = old[i]
    <2>1. /\ Tail(old) \in Seq(Order) /\ Len(old) \in Nat \ {0} /\ DOMAIN old = 1..Len(old)
          /\ Len(Tail(old)) = Len(old) - 1
          /\ \A i \in 1..(Len(old) - 1) : Tail(old)[i] = old[i + 1]
      BY <1>1
    <2>2. <<first>> \in Seq(Order) /\ Len(<<first>>) = 1 /\ <<first>>[1] = first
      BY <1>3
    <2>3. /\ <<first>> \o Tail(old) \in Seq(Order)
          /\ Len(<<first>> \o Tail(old)) = Len(old)
          /\ (<<first>> \o Tail(old))[1] = first
          /\ \A i \in 1..Len(old) : i # 1 => (<<first>> \o Tail(old))[i] = Tail(old)[i - 1]
      BY <2>1, <2>2
    <2>4. \A i \in 1..Len(old) : i # 1 => Tail(old)[i - 1] = old[i]
      BY <2>1
    <2> DEFINE joined == <<first>> \o Tail(old)
    <2>5. joined # <<>> /\ DOMAIN joined = 1..Len(old)
      BY <2>1, <2>3
    <2> HIDE DEF joined
    <2>6. joined \in Seq(Order) /\ joined[1] = first
          /\ \A i \in 1..Len(old) : i # 1 => joined[i] = old[i]
      BY <2>3, <2>4 DEF joined
    <2>7. orders = joined
      BY <1>4 DEF joined
    <2> QED
      BY <2>1, <2>5, <2>6, <2>7
  <1>6. \A i \in DOMAIN old : orders[i].order_id = old[i].order_id /\ orders[i].price = old[i].price
    BY <1>3, <1>5
  <1>7. HeldOnce(orders, side, p, order_index)
    <2>1. \A i \in DOMAIN orders :
            /\ orders[i].price = p
            /\ orders[i].order_id \in DOMAIN order_index
            /\ order_index[orders[i].order_id] = [side |-> side, price |-> p]
      BY <1>1, <1>5, <1>6 DEF HeldOnce
    <2>2. \A i, j \in DOMAIN orders : orders[i].order_id = orders[j].order_id => i = j
      BY <1>1, <1>5, <1>6 DEF HeldOnce
    <2> QED
      BY <1>5, <2>1, <2>2 DEF HeldOnce
  <1>8. lv = [levels EXCEPT ![side] = Put(levels[side], p, level)]
    BY <1>0, <1>5 DEF Stored, level
  <1>9. /\ DOMAIN levels = Sides /\ DOMAIN lv = Sides
        /\ lv = [s \in Sides |-> lv[s]]
        /\ lv[side] = Put(levels[side], p, level)
        /\ \A s \in Sides : s # side => lv[s] = levels[s]
    BY <1>8 DEF WellTyped
  <1>10. /\ DOMAIN lv[side] = DOMAIN levels[side]
         /\ lv[side] = [q \in DOMAIN lv[side] |-> lv[side][q]]
         /\ \A q \in DOMAIN lv[side] :
              lv[side][q] = IF q = p THEN level ELSE levels[side][q]
    BY <1>9 DEF Put
  <1>11. level \in Level
    BY <1>5 DEF Level, level
  <1>12. level.orders = orders
    BY DEF level
  <1>13. WellTyped(lv, order_index)
    <2>1. LevelMap(lv[side])
      BY <1>10, <1>11 DEF WellTyped, LevelMap
    <2>2. \A s \in Sides : LevelMap(lv[s])
      BY <1>9, <2>1 DEF WellTyped
    <2> QED
      BY <1>9, <2>2 DEF WellTyped
  <1>14. ASSUME NEW k \in DOMAIN order_index
         PROVE  Holds(lv[order_index[k].side], order_index[k].price, k)
    <2>1. PICK s \in Sides, q \in Prices : order_index[k] = [side |-> s, price |-> q]
      BY DEF WellTyped
    <2>2. order_index[k].side = s /\ order_index[k].price = q
      BY <2>1
    <2>3. Holds(levels[s], q, k)
      BY <2>2 DEF Indexed
    <2>4. Holds(lv[s], q, k)
      <3>1. CASE s = side /\ q = p
        <4>1. PICK i \in DOMAIN old : old[i].order_id = k
          BY <3>1, <2>3 DEF Holds, old
        <4>2. i \in DOMAIN orders /\ orders[i].order_id = k
          BY <4>1, <1>5, <1>6
        <4>3. p \in DOMAIN lv[side] /\ lv[side][p].orders = orders
          BY <1>10, <1>12
        <4> QED
          BY <3>1, <4>2, <4>3 DEF Holds
      <3>2. CASE ~(s = side /\ q = p)
        <4>1. q \in DOMAIN levels[s]
          BY <2>3 DEF Holds
        <4>2. q \in DOMAIN lv[s] /\ lv[s][q] = levels[s][q]
          BY <3>2, <4>1, <1>9, <1>10
        <4> QED
          BY <2>3, <4>2 DEF Holds
      <3> QED
        BY <3>1, <3>2
    <2> QED
      BY <2>2, <2>4
  <1>15. ASSUME NEW s \in Sides, NEW q \in DOMAIN lv[s]
         PROVE  HeldOnce(lv[s][q].orders, s, q, order_index)
    <2>1. CASE s = side /\ q = p
      BY <2>1, <1>7, <1>10, <1>12
    <2>2. CASE ~(s = side /\ q = p)
      BY <2>2, <1>9, <1>10 DEF Indexed
    <2> QED
      BY <2>1, <2>2
  <1> QED
    BY <1>9, <1>10, <1>13, <1>14, <1>15 DEF Indexed

\* An order that is not in the book joins the back of a level, which it creates
\* if there is none at its price.
LEMMA Arrival ==
  ASSUME WellTyped(levels, order_index), Indexed(levels, order_index),
         NEW side \in Sides, NEW order \in Order, order.price \in Prices,
         order.order_id \notin DOMAIN order_index,
         NEW lv, NEW ix,
         lv = LevelsJoined(side, order),
         ix = Put(order_index, order.order_id, [side |-> side, price |-> order.price])
  PROVE  /\ WellTyped(lv, ix)
         /\ Indexed(lv, ix)
         /\ \A s \in Sides :
              DOMAIN lv[s] = IF s = side THEN DOMAIN levels[s] \cup {order.price}
                             ELSE DOMAIN levels[s]
  <1> DEFINE p     == order.price
             id    == order.order_id
             old   == LevelAt(side, p).orders
             new   == Append(old, order)
             level == LevelWith(LevelAt(side, p), order)
  <1>1. /\ old \in Seq(Order) /\ LevelAt(side, p).total_qty \in Int
        /\ p \in DOMAIN levels[side] => old = levels[side][p].orders
        /\ p \notin DOMAIN levels[side] => old = <<>>
    BY DEF LevelAt, WellTyped, LevelMap, Level
  <1>2. id \in OrderIds /\ order.qty \in Nat \ {0}
    BY DEF Order
  <1>3. level \in Level /\ level.orders = new
    BY <1>1, <1>2 DEF LevelWith, Level
  <1>4. /\ DOMAIN levels = Sides /\ DOMAIN lv = Sides
        /\ lv = [s \in Sides |-> lv[s]]
        /\ lv[side] = Put(levels[side], p, level)
        /\ \A s \in Sides : s # side => lv[s] = levels[s]
    BY DEF WellTyped, LevelsJoined
  <1> HIDE DEF level, old
  <1>5. /\ DOMAIN lv[side] = DOMAIN levels[side] \cup {p}
        /\ lv[side] = [q \in DOMAIN lv[side] |-> lv[side][q]]
        /\ \A q \in DOMAIN lv[side] :
             lv[side][q] = IF q = p THEN level ELSE levels[side][q]
    BY <1>4 DEF Put
  <1>6. /\ DOMAIN ix = DOMAIN order_index \cup {id}
        /\ ix = [k \in DOMAIN ix |-> ix[k]]
        /\ ix[id] = [side |-> side, price |-> p]
        /\ \A k \in DOMAIN order_index : k # id /\ ix[k] = order_index[k]
    BY DEF Put
  <1>7. /\ new \in Seq(Order) /\ new # <<>> /\ Len(new) = Len(old) + 1
        /\ DOMAIN new = 1..(Len(old) + 1)
        /\ new[Len(old) + 1] = order
        /\ \A i \in 1..Len(old) : new[i] = old[i]
    BY <1>1
  <1> HIDE DEF new, p, id
  <1>8. WellTyped(lv, ix)
    <2>1. p \in Prices
      BY DEF p
    <2>2. LevelMap(lv[side])
      BY <1>3, <1>5, <2>1 DEF LevelMap, WellTyped
    <2>3. \A s \in Sides : LevelMap(lv[s])
      BY <2>2, <1>4 DEF WellTyped
    <2>4. \A k \in DOMAIN ix : ix[k] \in [side : Sides, price : Prices]
      BY <1>6, <2>1 DEF WellTyped
    <2>5. DOMAIN ix \subseteq OrderIds
      BY <1>2, <1>6 DEF WellTyped
    <2> QED
      BY <1>4, <1>6, <2>3, <2>4, <2>5 DEF WellTyped
  <1>9. ASSUME NEW k \in DOMAIN ix
        PROVE  Holds(lv[ix[k].side], ix[k].price, k)
    <2>1. CASE k = id
      <3>1. ix[k].side = side /\ ix[k].price = p
        BY <2>1, <1>6
      <3>2. Len(old) + 1 \in DOMAIN new /\ new[Len(old) + 1].order_id = id
        BY <1>1, <1>7 DEF id
      <3>3. p \in DOMAIN lv[side] /\ lv[side][p].orders = new
        BY <1>3, <1>5
      <3> QED
        BY <2>1, <3>1, <3>2, <3>3 DEF Holds
    <2>2. CASE k # id
      <3>1. k \in DOMAIN order_index /\ ix[k] = order_index[k]
        BY <2>2, <1>6
      <3>2. PICK s \in Sides, q \in Prices : order_index[k] = [side |-> s, price |-> q]
        BY <3>1 DEF WellTyped
      <3>3. order_index[k].side = s /\ order_index[k].price = q
        BY <3>2
      <3>4. Holds(levels[s], q, k)
        BY <3>1, <3>3 DEF Indexed
      <3>5. Holds(lv[s], q, k)
        <4>1. CASE s = side /\ q = p
          <5>1. p \in DOMAIN levels[side] /\ old = levels[side][p].orders
            BY <4>1, <3>4, <1>1 DEF Holds, p
          <5>2. PICK i \in DOMAIN old : old[i].order_id = k
            BY <4>1, <3>4, <5>1 DEF Holds
          <5>3. i \in DOMAIN new /\ new[i].order_id = k
            BY <5>2, <1>1, <1>7
          <5> QED
            BY <4>1, <5>3, <1>3, <1>5 DEF Holds
        <4>2. CASE ~(s = side /\ q = p)
          <5>1. q \in DOMAIN levels[s]
            BY <3>4 DEF Holds
          <5>2. q \in DOMAIN lv[s] /\ lv[s][q] = levels[s][q]
            BY <4>2, <5>1, <1>4, <1>5
          <5> QED
            BY <3>4, <5>2 DEF Holds
        <4> QED
          BY <4>1, <4>2
      <3> QED
        BY <3>1, <3>3, <3>5
    <2> QED
      BY <2>1, <2>2
  <1>10. ASSUME NEW s \in Sides, NEW q \in DOMAIN lv[s]
         PROVE  HeldOnce(lv[s][q].orders, s, q, ix)
    <2>1. CASE s = side /\ q = p
      <3>1. lv[s][q].orders = new
        BY <2>1, <1>3, <1>5
      <3>2. \A i \in 1..Len(old) :
              /\ old[i].price = p
              /\ old[i].order_id \in DOMAIN order_index
              /\ order_index[old[i].order_id] = [side |-> side, price |-> p]
              /\ \A j \in 1..Len(old) : old[i].order_id = old[j].order_id => i = j
        <4>1. CASE p \in DOMAIN levels[side]
          <5>1. HeldOnce(old, side, p, order_index)
            BY <4>1, <1>1 DEF Indexed, p
          <5> QED
            BY <5>1, <1>1 DEF HeldOnce
        <4>2. CASE p \notin DOMAIN levels[side]
          BY <4>2, <1>1 DEF p
        <4> QED
          BY <4>1, <4>2
      <3>3. Len(old) \in Nat
        BY <1>1
      <3>4. ASSUME NEW i \in DOMAIN new
            PROVE  /\ new[i].price = p
                   /\ new[i].order_id \in DOMAIN ix
                   /\ ix[new[i].order_id] = [side |-> side, price |-> p]
        <4>1. CASE i = Len(old) + 1
          BY <4>1, <1>6, <1>7 DEF p, id
        <4>2. CASE i # Len(old) + 1
          BY <4>2, <1>6, <1>7, <3>2, <3>3
        <4> QED
          BY <4>1, <4>2
      <3>5. ASSUME NEW i \in DOMAIN new, NEW j \in DOMAIN new,
                   new[i].order_id = new[j].order_id
            PROVE  i = j
        <4>1. \A k \in 1..Len(old) : new[k].order_id # id
          BY <1>6, <1>7, <3>2
        <4>2. new[Len(old) + 1].order_id = id
          BY <1>7 DEF id
        <4> QED
          BY <3>2, <3>3, <3>5, <4>1, <4>2, <1>7
      <3> QED
        BY <2>1, <3>1, <3>4, <3>5, <1>7 DEF HeldOnce
    <2>2. CASE ~(s = side /\ q = p)
      <3>1. q \in DOMAIN levels[s] /\ lv[s][q] = levels[s][q]
        BY <2>2, <1>4, <1>5
      <3>2. HeldOnce(levels[s][q].orders, s, q, order_index)
        BY <3>1 DEF Indexed
      <3> QED
        <4>1. \A i \in DOMAIN levels[s][q].orders :
                /\ levels[s][q].orders[i].order_id \in DOMAIN ix
                /\ ix[levels[s][q].orders[i].order_id]
                     = order_index[levels[s][q].orders[i].order_id]
          BY <3>2, <1>6 DEF HeldOnce
        <4> QED
          BY <3>1, <3>2, <4>1 DEF HeldOnce
    <2> QED
      BY <2>1, <2>2
  <1> QED
    BY <1>4, <1>5, <1>8, <1>9, <1>10 DEF Indexed, p

\* remove_order: what Cancel and Modify do to the book.
LEMMA Withdrawal ==
  ASSUME WellTyped(levels, order_index), Indexed(levels, order_index),
         NEW id \in DOMAIN order_index
  PROVE  /\ WellTyped(LevelsWithout(id), Unindexed(id))
         /\ Indexed(LevelsWithout(id), Unindexed(id))
         /\ id \notin DOMAIN Unindexed(id)
         /\ \A s \in Sides : DOMAIN LevelsWithout(id)[s] \subseteq DOMAIN levels[s]
  <1>1. PICK side \in Sides, p \in Prices : order_index[id] = [side |-> side, price |-> p]
    BY DEF WellTyped
  <1>2. order_index[id].side = side /\ order_index[id].price = p
    BY <1>1
  <1>3. Holds(levels[side], p, id)
    BY <1>2 DEF Indexed
  <1> DEFINE level == levels[side][p]
             i     == Position(level.orders, id)
  <1>4. p \in DOMAIN levels[side] /\ \E j \in DOMAIN level.orders : level.orders[j].order_id = id
    BY <1>3 DEF Holds
  <1>5. i \in DOMAIN level.orders /\ level.orders[i].order_id = id
    BY <1>4 DEF Position
  <1>6. level \in Level
    BY <1>4 DEF WellTyped, LevelMap
  <1>7. level.orders[i].qty \in Nat /\ level.total_qty \in Int
    <2>1. level.orders \in Seq(Order) /\ level.total_qty \in Int
      BY <1>6 DEF Level
    <2>2. level.orders[i] \in Order
      BY <2>1, <1>5
    <2> QED
      BY <2>1, <2>2 DEF Order
  <1> DEFINE total == level.total_qty - level.orders[i].qty
             lv    == LevelsRemoved(side, p, i, total)
  <1>8. LevelsWithout(id) = lv
    BY <1>2 DEF LevelsWithout, LevelWithout, LevelsRemoved
  <1>9. Unindexed(id) = Erase(order_index, level.orders[i].order_id)
    BY <1>5 DEF Unindexed
  <1>10. total \in Int
    BY <1>7
  <1> HIDE DEF i, total
  <1>11. /\ WellTyped(lv, Unindexed(id))
         /\ Indexed(lv, Unindexed(id))
         /\ id \notin DOMAIN Unindexed(id)
         /\ \A s \in Sides : DOMAIN lv[s] \subseteq DOMAIN levels[s]
    BY <1>4, <1>5, <1>9, <1>10, Removal
  <1> QED
    BY <1>8, <1>11
-----------------------------------------------------------------------------
(***************************************************************************)
(* The best level of a side exists: its prices are finitely many.          *)
(***************************************************************************)
LEMMA BestPriceIsBest ==
  ASSUME NEW side \in Sides, WellTyped(levels, order_index), DOMAIN levels[side] # {}
  PROVE  /\ BestPrice(side) \in DOMAIN levels[side]
         /\ \A r \in DOMAIN levels[side] : AtLeastAsGood(side, BestPrice(side), r)
  <1>1. DOMAIN levels[side] \subseteq Prices /\ MaxPrice \in Nat
    BY PriceAssumption DEF WellTyped, LevelMap
  <1>2. \E p \in DOMAIN levels[side] : \A r \in DOMAIN levels[side] : AtLeastAsGood(side, p, r)
    <2>1. CASE side = "Ask"
      <3>1. DOMAIN levels[side] \subseteq Nat
        BY <1>1 DEF Prices
      <3>2. PICK p \in DOMAIN levels[side] : \A r \in DOMAIN levels[side] : p <= r
        BY <3>1, SmallestExists
      <3> QED
        BY <2>1, <3>2 DEF AtLeastAsGood
    <2>2. CASE side = "Bid"
      <3> DEFINE depth == {d \in Nat : MaxPrice - d \in DOMAIN levels[side]}
      <3>1. depth # {} /\ depth \subseteq Nat
        <4>1. PICK r \in DOMAIN levels[side] : TRUE
          OBVIOUS
        <4>2. MaxPrice - r \in Nat /\ MaxPrice - (MaxPrice - r) = r
          BY <1>1 DEF Prices
        <4> QED
          BY <4>2
      <3>2. PICK d \in depth : \A e \in depth : d <= e
        BY <3>1, SmallestExists
      <3>3. \A r \in DOMAIN levels[side] : MaxPrice - d >= r
        <4>1. TAKE r \in DOMAIN levels[side]
        <4>2. r \in Int /\ MaxPrice - r \in Nat /\ MaxPrice - (MaxPrice - r) = r
          BY <1>1 DEF Prices
        <4>3. MaxPrice - r \in depth
          BY <4>2
        <4> QED
          <5>1. d <= MaxPrice - r
            BY <4>3, <3>2
          <5>2. d \in Nat /\ MaxPrice \in Nat
            BY <1>1, <3>1
          <5> QED
            BY <5>1, <5>2, <4>2
      <3> QED
        BY <2>2, <3>2, <3>3 DEF AtLeastAsGood
    <2> QED
      BY <2>1, <2>2 DEF Sides
  <1> QED
    BY <1>2 DEF BestPrice
-----------------------------------------------------------------------------
(***************************************************************************)
(* The invariant.  TypeOK and IndexMatchesLevels are inductive only        *)
(* together: an order found through the index has its type because the     *)
(* index points at a level, and the index stays a function of resting      *)
(* orders because the lists have theirs.  BookUncrossed is inductive       *)
(* above them.                                                             *)
(***************************************************************************)
CallTyped ==
  /\ traded_qty \in Int
  /\ incoming \in Call \cup {NoOrder}
  /\ ~Idle /\ incoming.can_rest => incoming.price \in Prices
  /\ trades \in Seq([resting_order_id : OrderIds, price : Prices, qty : Nat])
  /\ error \in Errors

IncomingOutside == ~Idle => incoming.order_id \notin DOMAIN order_index

IInv ==
  /\ WellTyped(levels, order_index)
  /\ CallTyped
  /\ Indexed(levels, order_index)
  /\ IncomingOutside
  /\ BookUncrossed

LEMMA IInvSaysEnough == IInv => TypeOK /\ IndexMatchesLevels /\ BookUncrossed
  BY DEF IInv, TypeOK, IndexMatchesLevels, WellTyped, CallTyped, Indexed, IncomingOutside

LEMMA InitEstablishes == Init => IInv
  <1> SUFFICES ASSUME Init PROVE IInv
    OBVIOUS
  <1> USE DEF Init
  <1>1. DOMAIN order_index = {} /\ \A side \in Sides : DOMAIN levels[side] = {}
    OBVIOUS
  <1>2. WellTyped(levels, order_index)
    <2>1. \A side \in Sides : LevelMap(levels[side])
      BY <1>1 DEF LevelMap
    <2> QED
      BY <1>1, <2>1 DEF WellTyped
  <1>3. Indexed(levels, order_index) /\ IncomingOutside /\ BookUncrossed
    BY <1>1 DEF Indexed, IncomingOutside, BookUncrossed, Sides
  <1>4. CallTyped
    BY DEF CallTyped, Idle, Errors
  <1> QED
    BY <1>2, <1>3, <1>4 DEF IInv

\* A side that only loses levels cannot come to cross the other.
LEMMA FewerLevelsUncrossed ==
  ASSUME BookUncrossed, \A s \in Sides : DOMAIN levels'[s] \subseteq DOMAIN levels[s]
  PROVE  BookUncrossed'
  BY DEF BookUncrossed, Sides

LEMMA RejectPreserves ==
  ASSUME IInv, NEW reason \in Errors, Reject(reason)
  PROVE  IInv'
  <1>1. WellTyped(levels, order_index)' /\ Indexed(levels, order_index)' /\ BookUncrossed'
    BY DEF IInv, Reject, WellTyped, Indexed, BookUncrossed
  <1>2. CallTyped' /\ IncomingOutside'
    BY DEF IInv, Reject, CallTyped, IncomingOutside, Idle
  <1> QED
    BY <1>1, <1>2 DEF IInv

LEMMA AddPreserves ==
  ASSUME IInv, NEW add \in AddRequests, Add(add)
  PROVE  IInv'
  <1>1. /\ add \in Adds /\ add.order_id \in OrderIds /\ add.side \in Sides
        /\ add.price \in 0..MaxPrice /\ add.qty \in 0..MaxQty /\ add.is_market \in BOOLEAN
        /\ add.time_in_force \in Policies /\ add.post_only \in BOOLEAN
    BY RequestAssumption, QuantityAssumption DEF Adds
  <1>2. CASE AddError(add) # "None"
    <2>1. AddError(add) \in Errors
      BY DEF AddError, Errors
    <2> QED
      BY <1>2, <2>1, RejectPreserves DEF Add
  <1>3. CASE AddError(add) = "None"
    <2>1. /\ incoming' = [order_id |-> add.order_id, side |-> add.side,
                          price |-> MatchPrice(add), qty |-> add.qty, can_rest |-> CanRest(add),
                          is_market |-> add.is_market, time_in_force |-> add.time_in_force,
                          post_only |-> add.post_only]
          /\ trades' = <<>> /\ error' = "None"
          /\ UNCHANGED <<levels, order_index, traded_qty>>
      BY <1>3 DEF Add
    <2>2. /\ ~add.is_market => add.price > 0
          /\ add.order_id \notin DOMAIN order_index
      BY <1>1, <1>3 DEF AddError
    <2>3. /\ MatchPrice(add) \in Int
          /\ CanRest(add) \in BOOLEAN
          /\ CanRest(add) => MatchPrice(add) \in Prices
      BY <1>1, <2>2, PriceAssumption DEF MatchPrice, CanRest, Prices
    <2>4. incoming' \in Call
      BY <1>1, <2>1, <2>3, QuantityAssumption DEF Call
    <2>5. CallTyped'
      BY <2>1, <2>3, <2>4 DEF IInv, CallTyped, Errors
    <2>6. IncomingOutside'
      BY <2>1, <2>2 DEF IncomingOutside
    <2>7. WellTyped(levels, order_index)' /\ Indexed(levels, order_index)' /\ BookUncrossed'
      BY <2>1 DEF IInv, WellTyped, Indexed, BookUncrossed
    <2> QED
      BY <2>5, <2>6, <2>7 DEF IInv
  <1> QED
    BY <1>2, <1>3

LEMMA CancelPreserves ==
  ASSUME IInv, NEW id \in OrderIds, Cancel(id)
  PROVE  IInv'
  <1>1. CASE id \notin DOMAIN order_index
    BY <1>1, RejectPreserves DEF Cancel, Errors
  <1>2. CASE id \in DOMAIN order_index
    <2>1. /\ Idle /\ levels' = LevelsWithout(id) /\ order_index' = Unindexed(id)
          /\ trades' = <<>> /\ error' = "None" /\ UNCHANGED <<traded_qty, incoming>>
      BY <1>2 DEF Cancel
    <2>2. /\ WellTyped(levels', order_index') /\ Indexed(levels', order_index')
          /\ \A s \in Sides : DOMAIN levels'[s] \subseteq DOMAIN levels[s]
      BY <1>2, <2>1, Withdrawal DEF IInv
    <2>3. BookUncrossed'
      BY <2>2, FewerLevelsUncrossed DEF IInv
    <2>4. CallTyped' /\ IncomingOutside'
      BY <2>1 DEF IInv, CallTyped, IncomingOutside, Idle, Errors
    <2> QED
      BY <2>2, <2>3, <2>4 DEF IInv
  <1> QED
    BY <1>1, <1>2

LEMMA ModifyPreserves ==
  ASSUME IInv, NEW id \in OrderIds, NEW price \in 0..MaxPrice, NEW qty \in Quantities,
         Modify(id, price, qty)
  PROVE  IInv'
  <1>1. CASE ModifyError(id, price, qty) # "None"
    <2>1. ModifyError(id, price, qty) \in Errors
      BY DEF ModifyError, Errors
    <2> QED
      BY <1>1, <2>1, RejectPreserves DEF Modify
  <1>2. CASE ModifyError(id, price, qty) = "None"
    <2>1. /\ levels' = LevelsWithout(id) /\ order_index' = Unindexed(id)
          /\ incoming' = [order_id |-> id, side |-> order_index[id].side,
                          price |-> price, qty |-> qty, can_rest |-> TRUE,
                          is_market |-> FALSE, time_in_force |-> "GTC", post_only |-> FALSE]
          /\ trades' = <<>> /\ error' = "None" /\ UNCHANGED traded_qty
      BY <1>2 DEF Modify
    <2>2. id \in DOMAIN order_index /\ price \in Prices /\ qty \in Nat
      BY <1>2, QuantityAssumption, PriceAssumption DEF ModifyError, Prices
    <2>3. /\ WellTyped(levels', order_index') /\ Indexed(levels', order_index')
          /\ id \notin DOMAIN order_index'
          /\ \A s \in Sides : DOMAIN levels'[s] \subseteq DOMAIN levels[s]
      BY <2>1, <2>2, Withdrawal DEF IInv
    <2>4. BookUncrossed'
      BY <2>3, FewerLevelsUncrossed DEF IInv
    <2>5. order_index[id].side \in Sides
      BY <2>2 DEF IInv, WellTyped
    <2>6. incoming' \in Call /\ incoming'.price \in Prices /\ incoming'.order_id = id
      BY <2>1, <2>2, <2>5, PriceAssumption DEF Call, Policies, Prices
    <2>7. CallTyped' /\ IncomingOutside'
      BY <2>1, <2>3, <2>6 DEF IInv, CallTyped, IncomingOutside, Errors
    <2> QED
      BY <2>3, <2>4, <2>7 DEF IInv
  <1> QED
    BY <1>1, <1>2

\* Erasing the first position is taking the tail.
LEMMA TailIsRemoveAt ==
  ASSUME NEW S, NEW s \in Seq(S), s # <<>>
  PROVE  Tail(s) = RemoveAt(s, 1)
  <1>1. Len(s) \in Nat \ {0} /\ 1 \in 1..Len(s)
    OBVIOUS
  <1>2. /\ Tail(s) \in Seq(S) /\ Len(Tail(s)) = Len(s) - 1
        /\ \A j \in 1..(Len(s) - 1) : Tail(s)[j] = s[j + 1]
    OBVIOUS
  <1>3. /\ RemoveAt(s, 1) \in Seq(S) /\ Len(RemoveAt(s, 1)) = Len(s) - 1
        /\ \A j \in 1..(Len(s) - 1) : RemoveAt(s, 1)[j] = IF j < 1 THEN s[j] ELSE s[j + 1]
    BY <1>1, RemoveAtFacts
  <1>4. \A j \in 1..(Len(s) - 1) : Tail(s)[j] = RemoveAt(s, 1)[j]
    BY <1>1, <1>2, <1>3
  <1> QED
    BY <1>2, <1>3, <1>4

LEMMA FillPreserves ==
  ASSUME IInv, Fill
  PROVE  IInv'
  <1> DEFINE opposite == OtherSide(incoming.side)
             price    == BestPrice(opposite)
             level    == levels[opposite][price]
             resting  == Head(level.orders)
             fill     == Smaller(incoming.qty, resting.qty)
             total    == level.total_qty - fill
  <1>1. /\ ~Idle /\ incoming.qty > 0 /\ DOMAIN levels[opposite] # {}
        /\ trades' = Append(trades, [resting_order_id |-> resting.order_id,
                                     price |-> resting.price, qty |-> fill])
        /\ traded_qty' = traded_qty + fill
        /\ incoming' = [incoming EXCEPT !.qty = @ - fill]
        /\ levels' = [levels EXCEPT ![opposite] =
                        Stored(opposite, price, LevelAfterFill(level, fill))]
        /\ order_index' = IF fill = resting.qty THEN Unindexed(resting.order_id)
                          ELSE order_index
        /\ error' = error
    BY DEF Fill, Matching
  <1>2. incoming \in Call /\ incoming.qty \in Nat /\ opposite \in Sides
    BY <1>1 DEF IInv, CallTyped, Call, Idle, OtherSide, Sides
  <1>3. price \in DOMAIN levels[opposite] /\ price \in Prices
    BY <1>1, <1>2, BestPriceIsBest DEF IInv, WellTyped, LevelMap
  <1>4. /\ level.orders \in Seq(Order) /\ level.total_qty \in Int
        /\ HeldOnce(level.orders, opposite, price, order_index)
        /\ level.orders # <<>>
    BY <1>2, <1>3 DEF IInv, WellTyped, LevelMap, Level, Indexed, HeldOnce
  <1>5. /\ 1 \in DOMAIN level.orders /\ resting = level.orders[1]
        /\ resting \in Order
    BY <1>4
  <1>6. /\ resting.order_id \in OrderIds /\ resting.qty \in Nat \ {0}
        /\ resting.price \in Prices
    BY <1>3, <1>4, <1>5 DEF Order, HeldOnce
  <1>7. fill \in Nat \ {0} /\ fill <= incoming.qty /\ fill <= resting.qty
    <2> DEFINE wanted == incoming.qty
               held   == resting.qty
    <2>1. /\ wanted \in Nat \ {0} /\ held \in Nat \ {0}
          /\ fill = IF wanted <= held THEN wanted ELSE held
      BY <1>1, <1>2, <1>6 DEF Smaller
    <2> HIDE DEF wanted, held, fill
    <2>2. fill \in Nat \ {0} /\ fill <= wanted /\ fill <= held
      BY <2>1
    <2> QED
      BY <2>2 DEF wanted, held
  <1>8. total \in Int
    BY <1>4, <1>7
  <1> HIDE DEF opposite, price, fill, resting, total
  <1>9. /\ WellTyped(levels', order_index') /\ Indexed(levels', order_index')
        /\ DOMAIN order_index' \subseteq DOMAIN order_index
        /\ \A s \in Sides : DOMAIN levels'[s] \subseteq DOMAIN levels[s]
    <2>1. CASE fill = resting.qty
      <3>1. LevelAfterFill(level, fill) = [total_qty |-> total,
                                           orders    |-> RemoveAt(level.orders, 1)]
        BY <2>1, <1>4, TailIsRemoveAt DEF LevelAfterFill, resting, total
      <3>2. levels' = LevelsRemoved(opposite, price, 1, total)
        BY <1>1, <3>1 DEF LevelsRemoved
      <3>3. order_index' = Erase(order_index, level.orders[1].order_id)
        BY <1>1, <1>5, <2>1 DEF Unindexed
      <3>4. /\ WellTyped(levels', order_index') /\ Indexed(levels', order_index')
            /\ \A s \in Sides : DOMAIN levels'[s] \subseteq DOMAIN levels[s]
        BY <1>2, <1>3, <1>5, <1>8, <3>2, <3>3, Removal DEF IInv
      <3> QED
        BY <3>3, <3>4 DEF Erase
    <2>2. CASE fill # resting.qty
      <3> DEFINE qty    == resting.qty - fill
                 orders == <<[Head(level.orders) EXCEPT !.qty = qty]>> \o Tail(level.orders)
      <3>1. qty \in Nat \ {0}
        BY <1>6, <1>7, <2>2
      <3>2. LevelAfterFill(level, fill) = [total_qty |-> total, orders |-> orders]
        BY <2>2 DEF LevelAfterFill, resting, total
      <3> HIDE DEF qty
      <3>3. levels' = LevelsShrunk(opposite, price, total, qty)
        BY <1>1, <3>2 DEF LevelsShrunk
      <3>4. order_index' = order_index
        BY <1>1, <2>2
      <3>5. /\ WellTyped(levels', order_index) /\ Indexed(levels', order_index)
            /\ \A s \in Sides : DOMAIN levels'[s] = DOMAIN levels[s]
        BY <1>2, <1>3, <1>8, <3>1, <3>3, Shrinking DEF IInv
      <3> QED
        BY <3>4, <3>5
    <2> QED
      BY <2>1, <2>2
  <1>10. BookUncrossed'
    BY <1>9, FewerLevelsUncrossed DEF IInv
  <1>11. /\ incoming' \in Call /\ incoming'.order_id = incoming.order_id
         /\ incoming'.can_rest = incoming.can_rest /\ incoming'.price = incoming.price
    <2>1. incoming.qty - fill \in Nat
      BY <1>2, <1>7
    <2> QED
      BY <1>1, <1>2, <2>1 DEF Call
  <1>12. CallTyped'
    <2>1. traded_qty' \in Int
      BY <1>1, <1>7 DEF IInv, CallTyped
    <2>2. trades' \in Seq([resting_order_id : OrderIds, price : Prices, qty : Nat])
      BY <1>1, <1>6, <1>7 DEF IInv, CallTyped
    <2>3. incoming'.can_rest => incoming'.price \in Prices
      BY <1>1, <1>11 DEF IInv, CallTyped
    <2> QED
      BY <1>1, <1>11, <2>1, <2>2, <2>3 DEF IInv, CallTyped
  <1>13. IncomingOutside'
    BY <1>1, <1>9, <1>11 DEF IInv, IncomingOutside
  <1> QED
    BY <1>9, <1>10, <1>12, <1>13 DEF IInv

LEMMA ReturnPreserves ==
  ASSUME IInv, Return
  PROVE  IInv'
  <1> DEFINE side  == incoming.side
             order == [order_id |-> incoming.order_id, price |-> incoming.price,
                       qty |-> incoming.qty]
  <1>1. ~Idle /\ ~Matching /\ incoming' = NoOrder /\ UNCHANGED <<traded_qty, trades, error>>
    BY DEF Return
  <1>2. CallTyped' /\ IncomingOutside'
    BY <1>1 DEF IInv, CallTyped, IncomingOutside, Idle
  <1>3. CASE ~(incoming.qty > 0 /\ incoming.can_rest)
    <2>1. levels' = levels /\ order_index' = order_index
      BY <1>3 DEF Return
    <2> QED
      BY <1>2, <2>1 DEF IInv, WellTyped, Indexed, BookUncrossed
  <1>4. CASE incoming.qty > 0 /\ incoming.can_rest
    <2>1. /\ levels' = LevelsJoined(side, order)
          /\ order_index' = Put(order_index, incoming.order_id,
                                [side |-> side, price |-> incoming.price])
      BY <1>4 DEF Return, LevelsJoined
    <2>2. /\ side \in Sides /\ incoming.price \in Prices /\ incoming.order_id \in OrderIds
          /\ incoming.qty \in Nat \ {0} /\ incoming.order_id \notin DOMAIN order_index
      BY <1>1, <1>4 DEF IInv, CallTyped, Call, IncomingOutside, Idle
    <2>3. order \in Order /\ order.price = incoming.price /\ order.order_id = incoming.order_id
      BY <2>2 DEF Order
    <2> HIDE DEF order, side
    <2>4. /\ WellTyped(levels', order_index') /\ Indexed(levels', order_index')
          /\ \A s \in Sides :
               DOMAIN levels'[s] = IF s = side THEN DOMAIN levels[s] \cup {incoming.price}
                                   ELSE DOMAIN levels[s]
      BY <2>1, <2>2, <2>3, Arrival DEF IInv
    <2>5. OtherSide(side) \in Sides /\ OtherSide(side) # side
      BY <2>2 DEF OtherSide, Sides
    <2>6. \A r \in DOMAIN levels[OtherSide(side)] : ~AtLeastAsGood(side, incoming.price, r)
      <3>1. SUFFICES ASSUME NEW r \in DOMAIN levels[OtherSide(side)]
                     PROVE  ~AtLeastAsGood(side, incoming.price, r)
        OBVIOUS
      <3>2. /\ BestPrice(OtherSide(side)) \in DOMAIN levels[OtherSide(side)]
            /\ AtLeastAsGood(OtherSide(side), BestPrice(OtherSide(side)), r)
        BY <2>5, BestPriceIsBest DEF IInv
      <3>3. ~AtLeastAsGood(side, incoming.price, BestPrice(OtherSide(side)))
        BY <1>1, <1>4 DEF Matching, Crosses, side
      <3>4. r \in Int /\ BestPrice(OtherSide(side)) \in Int /\ incoming.price \in Int
        BY <2>2, <2>5, <3>2, PriceAssumption DEF IInv, WellTyped, LevelMap, Prices
      <3> QED
        BY <2>2, <3>2, <3>3, <3>4 DEF AtLeastAsGood, OtherSide, Sides
    <2>7. BookUncrossed'
      <3>1. SUFFICES ASSUME NEW bid \in DOMAIN levels'["Bid"], NEW ask \in DOMAIN levels'["Ask"]
                     PROVE  bid < ask
        BY DEF BookUncrossed
      <3>2. bid \in Int /\ ask \in Int
        BY <2>4, PriceAssumption DEF WellTyped, LevelMap, Sides, Prices
      <3>3. CASE side = "Bid"
        BY <2>2, <2>4, <2>6, <3>2, <3>3 DEF IInv, BookUncrossed, AtLeastAsGood, OtherSide, Sides
      <3>4. CASE side = "Ask"
        BY <2>2, <2>4, <2>6, <3>2, <3>4 DEF IInv, BookUncrossed, AtLeastAsGood, OtherSide, Sides
      <3> QED
        BY <2>2, <3>3, <3>4 DEF Sides
    <2> QED
      BY <1>2, <2>4, <2>7 DEF IInv
  <1> QED
    BY <1>3, <1>4
-----------------------------------------------------------------------------
LEMMA StepPreserves == IInv /\ [Next]_vars => IInv'
  <1> SUFFICES ASSUME IInv, [Next]_vars
               PROVE  IInv'
    OBVIOUS
  <1>1. CASE \E add \in AddRequests : Add(add)
    BY <1>1, AddPreserves
  <1>2. CASE \E id \in OrderIds : Cancel(id)
    BY <1>2, CancelPreserves
  <1>3. CASE \E id \in OrderIds, price \in 0..MaxPrice, qty \in Quantities :
               Modify(id, price, qty)
    BY <1>3, ModifyPreserves
  <1>4. CASE Fill
    BY <1>4, FillPreserves
  <1>5. CASE Return
    BY <1>5, ReturnPreserves
  <1>6. CASE UNCHANGED vars
    BY <1>6 DEF vars, IInv, WellTyped, CallTyped, Indexed, IncomingOutside, BookUncrossed, Idle
  <1> QED
    BY <1>1, <1>2, <1>3, <1>4, <1>5, <1>6 DEF Next

LEMMA InvariantHolds == Spec => []IInv
  BY InitEstablishes, StepPreserves, PTL DEF Spec

\* Every variable keeps its type: in particular every resting order has a
\* positive quantity and a valid price, whatever was sent.
THEOREM TypeCorrect == Spec => []TypeOK
  BY InvariantHolds, IInvSaysEnough, PTL

\* The index and the levels agree in every state, the ones inside the matching
\* loop included: no dangling entry, no unreachable order, no empty level.
THEOREM IndexIsExact == Spec => []IndexMatchesLevels
  BY InvariantHolds, IInvSaysEnough, PTL

\* No sequence of adds, cancels and modifies leaves the book crossed.
THEOREM NeverCrossed == Spec => []BookUncrossed
  BY InvariantHolds, IInvSaysEnough, PTL

(***************************************************************************)
(* The matching loop ends: each fill takes a positive quantity.            *)
(***************************************************************************)
Consumes ==
  \/ Idle'
  \/ /\ incoming'.qty < incoming.qty
     /\ traded_qty' - traded_qty = incoming.qty - incoming'.qty
     /\ DOMAIN order_index' \subseteq DOMAIN order_index

LEMMA FillConsumes ==
  ASSUME IInv, Fill
  PROVE  Consumes
  <1> DEFINE opposite == OtherSide(incoming.side)
             price    == BestPrice(opposite)
             level    == levels[opposite][price]
             resting  == Head(level.orders)
             fill     == Smaller(incoming.qty, resting.qty)
  <1>1. /\ ~Idle /\ incoming.qty > 0 /\ DOMAIN levels[opposite] # {}
        /\ traded_qty' = traded_qty + fill
        /\ incoming' = [incoming EXCEPT !.qty = @ - fill]
        /\ order_index' = IF fill = resting.qty THEN Unindexed(resting.order_id)
                          ELSE order_index
    BY DEF Fill, Matching
  <1>2. incoming \in Call /\ incoming.qty \in Nat /\ opposite \in Sides /\ traded_qty \in Int
    BY <1>1 DEF IInv, CallTyped, Call, Idle, OtherSide, Sides
  <1>3. price \in DOMAIN levels[opposite] /\ price \in Prices
    BY <1>1, <1>2, BestPriceIsBest DEF IInv, WellTyped, LevelMap
  <1>4. /\ level.orders \in Seq(Order) /\ level.total_qty \in Int
        /\ HeldOnce(level.orders, opposite, price, order_index)
        /\ level.orders # <<>>
    BY <1>2, <1>3 DEF IInv, WellTyped, LevelMap, Level, Indexed, HeldOnce
  <1>5. resting \in Order
    BY <1>4
  <1>6. fill \in Nat \ {0}
    BY <1>1, <1>2, <1>5 DEF Smaller, Order
  <1> HIDE DEF opposite, price, level, resting, fill
  <1>7. incoming'.qty = incoming.qty - fill
    BY <1>1, <1>2 DEF Call
  <1>8. DOMAIN order_index' \subseteq DOMAIN order_index
    BY <1>1 DEF Unindexed, Erase
  <1> QED
    BY <1>1, <1>2, <1>6, <1>7, <1>8 DEF Consumes

LEMMA CallConsumes == IInv /\ [Next]_vars => [~Idle => Consumes]_vars
  <1> SUFFICES ASSUME IInv, Next, ~Idle
               PROVE  Consumes
    OBVIOUS
  <1>1. CASE Fill
    BY <1>1, FillConsumes
  <1>2. CASE Return
    BY <1>2 DEF Return, Consumes, Idle
  <1> QED
    BY <1>1, <1>2 DEF Next, Add, Cancel, Modify

\* A call under way never runs without trading: each step ends it or moves a
\* positive quantity from the incoming order to the traded total.
THEOREM CallsMakeProgress == Spec => LoopConsumes
  <1>1. IInv /\ [Next]_vars => [~Idle => Consumes]_vars
    BY CallConsumes
  <1>2. Spec => []IInv
    BY InvariantHolds
  <1> QED
    BY <1>1, <1>2, PTL DEF Spec, LoopConsumes, Consumes
-----------------------------------------------------------------------------
(***************************************************************************)
(* The prediction.  Level by level from the best one on, an order takes    *)
(* from what is offered as much as it still wants.                         *)
(***************************************************************************)
\* The price of rank k has a level, and the order crosses it.
Meets(opposite, side, limit, k) ==
  /\ Ranked(OtherSide(side), k) \in DOMAIN opposite
  /\ Crosses(side, limit, Ranked(OtherSide(side), k))

\* What the order is offered at each rank.
Offered(opposite, side, limit) ==
  [k \in 1..MaxPrice |->
     IF Meets(opposite, side, limit, k)
     THEN opposite[Ranked(OtherSide(side), k)].total_qty ELSE 0]

\* The quantities reached, rank by rank, when qty is wanted.
Takes(offered, qty, reached) ==
  /\ reached[0] = 0
  /\ \A k \in 1..MaxPrice : reached[k] = reached[k - 1] + Smaller(qty - reached[k - 1], offered[k])
  /\ \A k \in 0..MaxPrice : reached[k] \in 0..qty

\* What max_crossing_qty computes from the levels of the other side.
CrossingQty(opposite, side, limit, qty) ==
  LET reached[k \in 0..MaxPrice] ==
        IF k = 0 THEN 0
        ELSE LET price == Ranked(OtherSide(side), k)
             IN  IF price \in DOMAIN opposite /\ Crosses(side, limit, price)
                 THEN reached[k - 1]
                      + Smaller(qty - reached[k - 1], opposite[price].total_qty)
                 ELSE reached[k - 1]
  IN  reached[MaxPrice]

\* The prediction is the quantity reached at the last rank.
LEMMA CrossingIsTaken ==
  ASSUME NEW opposite, NEW side, NEW limit, NEW qty \in Nat,
         \A p \in DOMAIN opposite : opposite[p].total_qty \in Nat
  PROVE  \E reached : /\ Takes(Offered(opposite, side, limit), qty, reached)
                      /\ CrossingQty(opposite, side, limit, qty) = reached[MaxPrice]
  <1> DEFINE price(k) == Ranked(OtherSide(side), k)
             Meet(k)  == Meets(opposite, side, limit, k)
             More(before, k) ==
               IF Meet(k) THEN before + Smaller(qty - before, opposite[price(k)].total_qty)
               ELSE before
             UpTo(n, reached) ==
               reached = [k \in 0..n |-> IF k = 0 THEN 0 ELSE More(reached[k - 1], k)]
             defined == {n \in Nat : \E reached : UpTo(n, reached)}
  <1> HIDE DEF More
  <1>1. 0 \in defined
    <2>1. UpTo(0, [k \in 0..0 |-> 0])
      OBVIOUS
    <2> QED
      BY <2>1
  <1>2. ASSUME NEW n \in Nat, n \in defined
        PROVE  n + 1 \in defined
    <2>1. PICK reached : UpTo(n, reached)
      BY <1>2
    <2> DEFINE longer == [k \in 0..(n + 1) |-> IF k <= n THEN reached[k] ELSE More(reached[n], n + 1)]
    <2>2. UpTo(n + 1, longer)
      BY <2>1
    <2> HIDE DEF UpTo, longer
    <2>3. \E f : UpTo(n + 1, f)
      BY <2>2
    <2> QED
      BY <2>3
  <1>3. MaxPrice \in defined
    <2> HIDE DEF defined
    <2> QED
      BY <1>1, <1>2, NaturalsAreReached, PriceAssumption
  <1>4. PICK reached : UpTo(MaxPrice, reached) /\ CrossingQty(opposite, side, limit, qty) = reached[MaxPrice]
    BY <1>3 DEF CrossingQty, More, Meets
  <1>5. /\ reached[0] = 0
        /\ \A k \in 1..MaxPrice : reached[k] = More(reached[k - 1], k)
    BY <1>4, PriceAssumption
  <1> DEFINE offered == Offered(opposite, side, limit)
             good == {n \in Nat : n <= MaxPrice => reached[n] \in 0..qty}
  <1>6. ASSUME NEW k \in 1..MaxPrice, NEW before \in 0..qty
        PROVE  /\ More(before, k) = before + Smaller(qty - before, offered[k])
               /\ More(before, k) \in 0..qty
    <2>1. offered[k] = IF Meet(k) THEN opposite[price(k)].total_qty ELSE 0
      BY DEF Offered
    <2>2. CASE Meet(k)
      <3>1. opposite[price(k)].total_qty \in Nat
        BY <2>2 DEF Meets
      <3> QED
        BY <2>1, <2>2, <3>1 DEF More, Smaller
    <2>3. CASE ~Meet(k)
      BY <2>1, <2>3 DEF More, Smaller
    <2> QED
      BY <2>2, <2>3
  <1>7. 0 \in good
    BY <1>5
  <1>8. ASSUME NEW n \in Nat, n \in good
        PROVE  n + 1 \in good
    <2> SUFFICES ASSUME n + 1 <= MaxPrice PROVE reached[n + 1] \in 0..qty
      OBVIOUS
    <2>1. n + 1 \in 1..MaxPrice /\ (n + 1) - 1 = n /\ reached[n] \in 0..qty
      BY <1>8, PriceAssumption
    <2> QED
      BY <2>1, <1>5, <1>6
  <1>9. \A n \in Nat : n \in good
    <2> HIDE DEF good
    <2> QED
      BY <1>7, <1>8, NaturalsAreReached
  <1>10. \A k \in 0..MaxPrice : reached[k] \in 0..qty
    BY <1>9, PriceAssumption
  <1>11. ASSUME NEW k \in 1..MaxPrice
         PROVE  reached[k] = reached[k - 1] + Smaller(qty - reached[k - 1], offered[k])
    <2>1. k - 1 \in 0..MaxPrice
      BY PriceAssumption
    <2> QED
      BY <2>1, <1>5, <1>6, <1>10
  <1> QED
    BY <1>4, <1>5, <1>10, <1>11 DEF Takes

\* Nothing is taken where nothing is offered.
LEMMA NothingTaken ==
  ASSUME NEW offered, NEW qty \in Nat, NEW reached, Takes(offered, qty, reached),
         \A k \in 1..MaxPrice : offered[k] = 0
  PROVE  reached[MaxPrice] = 0
  <1> DEFINE zero == {n \in Nat : n <= MaxPrice => reached[n] = 0}
  <1>1. 0 \in zero
    BY DEF Takes
  <1>2. ASSUME NEW n \in Nat, n \in zero
        PROVE  n + 1 \in zero
    <2> SUFFICES ASSUME n + 1 <= MaxPrice PROVE reached[n + 1] = 0
      OBVIOUS
    <2>1. n + 1 \in 1..MaxPrice /\ (n + 1) - 1 = n /\ reached[n] = 0
      BY <1>2, PriceAssumption
    <2>2. reached[n + 1] = reached[n] + Smaller(qty - reached[n], offered[n + 1])
      BY <2>1 DEF Takes
    <2> QED
      BY <2>1, <2>2 DEF Smaller
  <1>3. \A n \in Nat : n \in zero
    <2> HIDE DEF zero
    <2> QED
      BY <1>1, <1>2, NaturalsAreReached
  <1> QED
    BY <1>3, PriceAssumption

\* Something is taken where something is offered and wanted.
LEMMA SomethingTaken ==
  ASSUME NEW offered, NEW qty \in Nat \ {0}, NEW reached, Takes(offered, qty, reached),
         \A k \in 1..MaxPrice : offered[k] \in Nat,
         NEW b \in 1..MaxPrice, offered[b] > 0
  PROVE  reached[MaxPrice] > 0
  <1> DEFINE some == {n \in Nat : b + n <= MaxPrice => reached[b + n] > 0}
  <1>0. b \in Nat /\ MaxPrice \in Nat
    BY PriceAssumption
  <1>1. 0 \in some
    <2>1. b - 1 \in 0..MaxPrice
      BY <1>0
    <2>2. reached[b] = reached[b - 1] + Smaller(qty - reached[b - 1], offered[b])
      BY DEF Takes
    <2>3. reached[b - 1] \in 0..qty
      BY <2>1 DEF Takes
    <2>4. reached[b] > 0
      BY <2>2, <2>3 DEF Smaller
    <2> QED
      BY <2>4, <1>0
  <1>2. ASSUME NEW n \in Nat, n \in some
        PROVE  n + 1 \in some
    <2> SUFFICES ASSUME b + (n + 1) <= MaxPrice PROVE reached[b + (n + 1)] > 0
      OBVIOUS
    <2> DEFINE k == b + (n + 1)
    <2>1. k \in 1..MaxPrice /\ k - 1 = b + n /\ k - 1 \in 0..MaxPrice
      BY <1>0
    <2> HIDE DEF k
    <2>2. reached[k - 1] > 0
      BY <2>1, <1>0, <1>2
    <2>3. /\ reached[k] = reached[k - 1] + Smaller(qty - reached[k - 1], offered[k])
          /\ reached[k - 1] \in 0..qty /\ offered[k] \in Nat
      BY <2>1 DEF Takes
    <2>4. reached[k] > 0
      BY <2>2, <2>3 DEF Smaller
    <2> QED
      BY <2>4 DEF k
  <1>3. \A n \in Nat : n \in some
    <2> HIDE DEF some
    <2> QED
      BY <1>1, <1>2, NaturalsAreReached
  <1>4. MaxPrice - b \in Nat /\ b + (MaxPrice - b) = MaxPrice
    BY <1>0
  <1>5. reached[b + (MaxPrice - b)] > 0
    BY <1>3, <1>4, <1>0
  <1> QED
    BY <1>4, <1>5

\* A part of the first offer is gone.
FirstOfferShrinks(offered, after, b, part) ==
  /\ b \in 1..MaxPrice /\ part <= offered[b]
  /\ \A k \in 1..MaxPrice :
       /\ offered[k] \in Nat
       /\ k < b => offered[k] = 0
       /\ after[k] = IF k = b THEN offered[k] - part ELSE offered[k]

\* Taking a part of the first offer in advance leaves the rest to be taken.
LEMMA TakenInParts ==
  ASSUME NEW offered, NEW after, NEW b, NEW qty \in Nat, NEW part \in Nat, part <= qty,
         FirstOfferShrinks(offered, after, b, part),
         NEW reached, Takes(offered, qty, reached),
         NEW rest, rest = qty - part, NEW then, Takes(after, rest, then)
  PROVE  then[MaxPrice] = reached[MaxPrice] - part
  <1> DEFINE apart == {n \in Nat : n <= MaxPrice =>
                         IF n < b THEN reached[n] = 0 /\ then[n] = 0
                         ELSE then[n] = reached[n] - part}
  <1>0. b \in Nat /\ MaxPrice \in Nat /\ b <= MaxPrice /\ b >= 1 /\ part <= offered[b]
    BY PriceAssumption DEF FirstOfferShrinks
  <1>1. 0 \in apart
    BY <1>0 DEF Takes
  <1>2. ASSUME NEW n \in Nat, n \in apart
        PROVE  n + 1 \in apart
    <2> SUFFICES ASSUME n + 1 <= MaxPrice
                 PROVE  IF n + 1 < b THEN reached[n + 1] = 0 /\ then[n + 1] = 0
                        ELSE then[n + 1] = reached[n + 1] - part
      OBVIOUS
    <2> DEFINE k == n + 1
    <2>1. k \in 1..MaxPrice /\ k - 1 = n /\ n \in 0..MaxPrice
      BY <1>0
    <2>2. IF n < b THEN reached[n] = 0 /\ then[n] = 0 ELSE then[n] = reached[n] - part
      BY <2>1, <1>2, <1>0
    <2> HIDE DEF k
    <2>3. /\ reached[k] = reached[n] + Smaller(qty - reached[n], offered[k])
          /\ then[k] = then[n] + Smaller((qty - part) - then[n], after[k])
          /\ reached[n] \in 0..qty /\ then[n] \in 0..(qty - part)
          /\ offered[k] \in Nat
          /\ after[k] = IF k = b THEN offered[k] - part ELSE offered[k]
          /\ k < b => offered[k] = 0
      BY <2>1 DEF Takes, FirstOfferShrinks
    <2>4. CASE k < b
      BY <2>1, <2>2, <2>3, <2>4, <1>0 DEF Smaller, k
    <2>5. CASE k = b
      <3>1. reached[n] = 0 /\ then[n] = 0
        BY <2>2, <2>5, <1>0 DEF k
      <3>2. after[k] = offered[k] - part /\ part <= offered[k]
        BY <2>3, <2>5, <1>0
      <3>3. then[k] = reached[k] - part
        BY <2>3, <3>1, <3>2 DEF Smaller
      <3> QED
        BY <2>5, <3>3, <1>0 DEF k
    <2>6. CASE k > b
      <3>1. then[n] = reached[n] - part
        BY <2>2, <2>6, <1>0 DEF k
      <3>2. after[k] = offered[k]
        BY <2>3, <2>6, <1>0
      <3>3. then[k] = reached[k] - part
        BY <2>3, <3>1, <3>2 DEF Smaller
      <3> QED
        BY <2>6, <3>3, <1>0 DEF k
    <2> QED
      BY <2>1, <2>4, <2>5, <2>6, <1>0
  <1>3. \A n \in Nat : n \in apart
    <2> HIDE DEF apart
    <2> QED
      BY <1>1, <1>2, NaturalsAreReached
  <1>4. MaxPrice \in apart
    BY <1>0, <1>3
  <1> QED
    BY <1>0, <1>4

(***************************************************************************)
(* The book by quantities: what rests at each price of each side.          *)
(***************************************************************************)
\* The total quantity at a price, 0 where there is no level.
Resting(lv, side, p) == IF p \in DOMAIN lv[side] THEN lv[side][p].total_qty ELSE 0

\* LevelTotalsExact, for any book.
TotalsExact(lv) ==
  \A side \in Sides : \A p \in DOMAIN lv[side] :
    /\ lv[side][p].total_qty = TotalQty(lv[side][p].orders)
    /\ lv[side][p].total_qty <= MaxQty

\* What rests at a price is a Quantity.
LEMMA RestingIsNat ==
  ASSUME NEW lv, NEW ix, WellTyped(lv, ix), TotalsExact(lv), NEW side \in Sides, NEW p
  PROVE  Resting(lv, side, p) \in 0..MaxQty
  <1>1. CASE p \in DOMAIN lv[side]
    <2>1. lv[side][p].orders \in Seq(Order)
      BY <1>1 DEF WellTyped, LevelMap, Level
    <2>2. TotalQty(lv[side][p].orders) \in Nat
      BY <2>1, TotalFacts
    <2> QED
      BY <1>1, <2>2, QuantityAssumption DEF Resting, TotalsExact
  <1>2. CASE p \notin DOMAIN lv[side]
    BY <1>2, QuantityAssumption DEF Resting
  <1> QED
    BY <1>1, <1>2

\* A level put in its place, or erased when it is empty.
LevelsStored(side, p, level) == [levels EXCEPT ![side] = Stored(side, p, level)]

\* A level stored with its right total changes what rests at its price and nothing else.
LEMMA StoredQuantities ==
  ASSUME NEW ix, WellTyped(levels, ix), TotalsExact(levels),
         NEW side \in Sides, NEW p, NEW level \in Level,
         level.total_qty = TotalQty(level.orders), level.total_qty <= MaxQty,
         NEW lv, lv = LevelsStored(side, p, level)
  PROVE  /\ TotalsExact(lv)
         /\ \A s \in Sides : \A q : Resting(lv, s, q) = IF s = side /\ q = p THEN level.total_qty
                                                        ELSE Resting(levels, s, q)
         /\ \A s \in Sides : s # side => lv[s] = levels[s]
  <1>0. level.orders \in Seq(Order)
    BY DEF Level
  <1>1. /\ lv[side] = Stored(side, p, level)
        /\ \A s \in Sides : s # side => lv[s] = levels[s]
    BY DEF WellTyped, LevelsStored
  <1>2. CASE level.orders = <<>>
    <2>1. /\ DOMAIN lv[side] = DOMAIN levels[side] \ {p}
          /\ \A q \in DOMAIN lv[side] : lv[side][q] = levels[side][q]
      BY <1>1, <1>2 DEF Stored, Erase
    <2>2. level.total_qty = 0
      BY <1>0, <1>2, TotalFacts
    <2>3. TotalsExact(lv)
      BY <1>1, <2>1 DEF TotalsExact
    <2>4. ASSUME NEW s \in Sides, NEW q
          PROVE  Resting(lv, s, q) = IF s = side /\ q = p THEN level.total_qty
                                     ELSE Resting(levels, s, q)
      <3>1. CASE s = side
        BY <3>1, <2>1, <2>2 DEF Resting
      <3>2. CASE s # side
        BY <3>2, <1>1 DEF Resting
      <3> QED
        BY <3>1, <3>2
    <2> QED
      BY <1>1, <2>3, <2>4
  <1>3. CASE level.orders # <<>>
    <2>1. /\ DOMAIN lv[side] = DOMAIN levels[side] \cup {p}
          /\ \A q \in DOMAIN lv[side] : lv[side][q] = IF q = p THEN level ELSE levels[side][q]
      BY <1>1, <1>3 DEF Stored, Put
    <2>2. ASSUME NEW s \in Sides, NEW q \in DOMAIN lv[s]
          PROVE  /\ lv[s][q].total_qty = TotalQty(lv[s][q].orders)
                 /\ lv[s][q].total_qty <= MaxQty
      <3>1. CASE s = side /\ q = p
        BY <3>1, <2>1
      <3>2. CASE ~(s = side /\ q = p)
        <4>1. q \in DOMAIN levels[s] /\ lv[s][q] = levels[s][q]
          BY <3>2, <1>1, <2>1
        <4> QED
          BY <4>1 DEF TotalsExact
      <3> QED
        BY <3>1, <3>2
    <2>3. TotalsExact(lv)
      BY <2>2 DEF TotalsExact
    <2>4. ASSUME NEW s \in Sides, NEW q
          PROVE  Resting(lv, s, q) = IF s = side /\ q = p THEN level.total_qty
                                     ELSE Resting(levels, s, q)
      <3>1. CASE s = side
        BY <3>1, <2>1 DEF Resting
      <3>2. CASE s # side
        BY <3>2, <1>1 DEF Resting
      <3> QED
        BY <3>1, <3>2
    <2> QED
      BY <1>1, <2>3, <2>4
  <1> QED
    BY <1>2, <1>3

(***************************************************************************)
(* The prediction in terms of what rests.                                  *)
(***************************************************************************)
\* The rank of a price, the inverse of Ranked.
RankOf(side, p) == IF side = "Ask" THEN p ELSE MaxPrice + 1 - p

\* Ranks and prices correspond, and better prices have smaller ranks.
LEMMA RankFacts ==
  ASSUME NEW side \in Sides
  PROVE  /\ \A k \in 1..MaxPrice : Ranked(side, k) \in Prices /\ RankOf(side, Ranked(side, k)) = k
         /\ \A p \in Prices : RankOf(side, p) \in 1..MaxPrice /\ Ranked(side, RankOf(side, p)) = p
         /\ \A p, q \in Prices :
              AtLeastAsGood(side, p, q) <=> RankOf(side, p) <= RankOf(side, q)
  <1>1. MaxPrice \in Nat
    BY PriceAssumption
  <1> QED
    BY <1>1 DEF RankOf, Ranked, Prices, AtLeastAsGood, Sides

\* An order is offered what rests at the prices it crosses.
LEMMA OfferedIsResting ==
  ASSUME NEW lv, NEW side, NEW limit, NEW k \in 1..MaxPrice
  PROVE  Offered(lv[OtherSide(side)], side, limit)[k] =
           IF Crosses(side, limit, Ranked(OtherSide(side), k))
           THEN Resting(lv, OtherSide(side), Ranked(OtherSide(side), k)) ELSE 0
  BY DEF Offered, Meets, Resting

\* The prediction, where totals are exact, is a part of the quantity wanted.
LEMMA MaxCrossingIsTaken ==
  ASSUME NEW lv, NEW ix, WellTyped(lv, ix), TotalsExact(lv),
         NEW side \in Sides, NEW limit, NEW qty \in Nat
  PROVE  \E reached :
           /\ Takes(Offered(lv[OtherSide(side)], side, limit), qty, reached)
           /\ CrossingQty(lv[OtherSide(side)], side, limit, qty) = reached[MaxPrice]
           /\ reached[MaxPrice] \in 0..qty
           /\ \A k \in 1..MaxPrice : Offered(lv[OtherSide(side)], side, limit)[k] \in Nat
  <1>1. OtherSide(side) \in Sides
    BY DEF OtherSide, Sides
  <1>2. ASSUME NEW p \in DOMAIN lv[OtherSide(side)]
        PROVE  lv[OtherSide(side)][p].total_qty \in Nat
    <2>1. Resting(lv, OtherSide(side), p) \in Nat
      BY <1>1, RestingIsNat, QuantityAssumption
    <2> QED
      BY <2>1 DEF Resting
  <1>3. PICK reached :
           /\ Takes(Offered(lv[OtherSide(side)], side, limit), qty, reached)
           /\ CrossingQty(lv[OtherSide(side)], side, limit, qty) = reached[MaxPrice]
    BY <1>2, CrossingIsTaken
  <1>4. reached[MaxPrice] \in 0..qty
    BY <1>3, PriceAssumption DEF Takes
  <1>5. \A k \in 1..MaxPrice : Offered(lv[OtherSide(side)], side, limit)[k] \in Nat
    BY <1>2 DEF Offered, Meets
  <1> QED
    BY <1>3, <1>4, <1>5

\* MaxCrossingQty looks at nothing but the levels of the other side.
LEMMA PredictionOfLevels ==
  ASSUME NEW side, NEW limit, NEW qty
  PROVE  MaxCrossingQty(side, limit, qty) = CrossingQty(levels[OtherSide(side)], side, limit, qty)
  BY DEF MaxCrossingQty, CrossingQty

(***************************************************************************)
(* What each step does to the quantities.                                  *)
(***************************************************************************)
\* remove_order takes one order out of one level.
LEMMA WithdrawnLevel ==
  ASSUME IInv, NEW id \in DOMAIN order_index
  PROVE  \E side \in Sides : \E p \in DOMAIN levels[side] :
         \E i \in 1..Len(levels[side][p].orders) :
           /\ order_index[id] = [side |-> side, price |-> p]
           /\ OrderOf(id) = levels[side][p].orders[i]
           /\ LevelsWithout(id) = LevelsStored(side, p, LevelWithout(levels[side][p], i))
  <1> DEFINE side  == order_index[id].side
             p     == order_index[id].price
             level == levels[side][p]
             i     == Position(level.orders, id)
  <1>1. side \in Sides /\ order_index[id] = [side |-> side, price |-> p]
    BY DEF IInv, WellTyped
  <1>2. Holds(levels[side], p, id)
    BY DEF IInv, Indexed
  <1>3. p \in DOMAIN levels[side] /\ \E j \in DOMAIN level.orders : level.orders[j].order_id = id
    BY <1>2 DEF Holds
  <1>4. i \in DOMAIN level.orders
    BY <1>3 DEF Position
  <1>5. i \in 1..Len(level.orders)
    <2>1. level \in Level
      BY <1>1, <1>3 DEF IInv, WellTyped, LevelMap
    <2> HIDE DEF level, i
    <2>2. level.orders \in Seq(Order)
      BY <2>1 DEF Level
    <2> QED
      BY <2>2, <1>4
  <1>6. LevelsWithout(id) = LevelsStored(side, p, LevelWithout(level, i))
    BY DEF LevelsWithout, LevelsStored
  <1>7. OrderOf(id) = level.orders[i]
    BY DEF OrderOf
  <1> QED
    BY <1>1, <1>3, <1>5, <1>6, <1>7

\* A withdrawn order takes its quantity with it, and nothing else changes.
LEMMA WithdrawnQuantities ==
  ASSUME IInv, TotalsExact(levels), NEW id \in DOMAIN order_index
  PROVE  LET place == order_index[id]
         IN  /\ place.side \in Sides /\ place.price \in Prices
             /\ OrderOf(id).qty \in Nat
             /\ TotalsExact(LevelsWithout(id))
             /\ \A s \in Sides : \A q :
                  Resting(LevelsWithout(id), s, q) =
                    IF s = place.side /\ q = place.price THEN Resting(levels, s, q) - OrderOf(id).qty
                    ELSE Resting(levels, s, q)
             /\ \A s \in Sides : s # place.side => LevelsWithout(id)[s] = levels[s]
  <1>0. PICK side \in Sides :
          \E p \in DOMAIN levels[side] : \E i \in 1..Len(levels[side][p].orders) :
            /\ order_index[id] = [side |-> side, price |-> p]
            /\ OrderOf(id) = levels[side][p].orders[i]
            /\ LevelsWithout(id) = LevelsStored(side, p, LevelWithout(levels[side][p], i))
    BY WithdrawnLevel
  <1>1. PICK p \in DOMAIN levels[side] :
          \E i \in 1..Len(levels[side][p].orders) :
            /\ order_index[id] = [side |-> side, price |-> p]
            /\ OrderOf(id) = levels[side][p].orders[i]
            /\ LevelsWithout(id) = LevelsStored(side, p, LevelWithout(levels[side][p], i))
    BY <1>0
  <1> DEFINE level == levels[side][p]
  <1>2. PICK i \in 1..Len(level.orders) :
          /\ order_index[id] = [side |-> side, price |-> p]
          /\ OrderOf(id) = level.orders[i]
          /\ LevelsWithout(id) = LevelsStored(side, p, LevelWithout(level, i))
    BY <1>1
  <1> DEFINE left == LevelWithout(level, i)
  <1>3. order_index[id].side = side /\ order_index[id].price = p /\ p \in Prices
    BY <1>2 DEF IInv, WellTyped, LevelMap
  <1>4. level \in Level
    BY DEF IInv, WellTyped, LevelMap
  <1> HIDE DEF level
  <1>5. level.orders \in Seq(Order)
    BY <1>4 DEF Level
  <1>6. level.orders[i] \in Order
    BY <1>5
  <1>7. level.orders[i].qty \in Nat
    BY <1>6 DEF Order
  <1>8. level.total_qty = TotalQty(level.orders) /\ level.total_qty <= MaxQty
        /\ level.total_qty \in Nat
    BY <1>5, TotalFacts DEF TotalsExact, level
  <1>9. /\ left \in Level /\ left.total_qty = TotalQty(left.orders)
        /\ left.total_qty <= MaxQty
    <2> DEFINE rest == RemoveAt(level.orders, i)
    <2>1. rest \in Seq(Order) /\ TotalQty(rest) = TotalQty(level.orders) - level.orders[i].qty
      BY <1>5, RemoveAtFacts, TotalOfRemoveAt
    <2>2. left = [total_qty |-> level.total_qty - level.orders[i].qty, orders |-> rest]
      BY DEF LevelWithout
    <2> HIDE DEF rest, left
    <2> QED
      BY <2>1, <2>2, <1>7, <1>8, QuantityAssumption DEF Level
  <1>10. left.total_qty = Resting(levels, side, p) - level.orders[i].qty
    BY DEF LevelWithout, Resting, level
  <1>11. WellTyped(levels, order_index)
    BY DEF IInv
  <1>12. LevelsWithout(id) = LevelsStored(side, p, left)
    BY <1>2
  <1> HIDE DEF left
  <1>13. /\ TotalsExact(LevelsWithout(id))
         /\ \A s \in Sides : \A q :
              Resting(LevelsWithout(id), s, q) = IF s = side /\ q = p THEN left.total_qty
                                                 ELSE Resting(levels, s, q)
         /\ \A s \in Sides : s # side => LevelsWithout(id)[s] = levels[s]
    BY <1>9, <1>11, <1>12, StoredQuantities
  <1> QED
    BY <1>2, <1>3, <1>7, <1>10, <1>13

\* The side, the price, the level and the quantity of the fill about to happen.
TradedSide  == OtherSide(incoming.side)
TradedPrice == BestPrice(TradedSide)
TradedLevel == levels[TradedSide][TradedPrice]
TradedQty   == Smaller(incoming.qty, Head(TradedLevel.orders).qty)

\* One fill, in the names above.
LEMMA FillFacts ==
  ASSUME IInv, Fill
  PROVE  /\ ~Idle /\ ~Idle' /\ incoming \in Call /\ incoming.side \in Sides
         /\ TradedSide \in Sides /\ TradedSide # incoming.side
         /\ TradedPrice \in DOMAIN levels[TradedSide] /\ TradedPrice \in Prices
         /\ \A r \in DOMAIN levels[TradedSide] : AtLeastAsGood(TradedSide, TradedPrice, r)
         /\ Crosses(incoming.side, incoming.price, TradedPrice)
         /\ TradedLevel.orders \in Seq(Order) /\ TradedLevel.orders # <<>>
         /\ TradedLevel.total_qty \in Int
         /\ HeldOnce(TradedLevel.orders, TradedSide, TradedPrice, order_index)
         /\ Head(TradedLevel.orders) = TradedLevel.orders[1]
         /\ TradedLevel.orders[1] \in Order
         /\ TradedQty \in Nat \ {0} /\ TradedQty <= incoming.qty
         /\ TradedQty <= TradedLevel.orders[1].qty /\ TradedLevel.orders[1].qty \in Nat
         /\ traded_qty' = traded_qty + TradedQty
         /\ incoming' = [incoming EXCEPT !.qty = incoming.qty - TradedQty]
         /\ incoming' \in Call
         /\ incoming'.qty = incoming.qty - TradedQty
         /\ incoming'.side = incoming.side /\ incoming'.price = incoming.price
         /\ incoming'.can_rest = incoming.can_rest /\ incoming'.order_id = incoming.order_id
         /\ incoming'.is_market = incoming.is_market
         /\ incoming'.time_in_force = incoming.time_in_force
         /\ incoming'.post_only = incoming.post_only
         /\ levels' = [levels EXCEPT ![TradedSide] =
                         Stored(TradedSide, TradedPrice, LevelAfterFill(TradedLevel, TradedQty))]
  <1>1. /\ ~Idle /\ incoming.qty > 0 /\ DOMAIN levels[TradedSide] # {}
        /\ Crosses(incoming.side, incoming.price, TradedPrice)
        /\ traded_qty' = traded_qty + TradedQty
        /\ incoming' = [incoming EXCEPT !.qty = incoming.qty - TradedQty]
        /\ levels' = [levels EXCEPT ![TradedSide] =
                        Stored(TradedSide, TradedPrice, LevelAfterFill(TradedLevel, TradedQty))]
    BY DEF Fill, Matching, TradedSide, TradedPrice, TradedLevel, TradedQty
  <1>2. /\ incoming \in Call /\ incoming.qty \in Nat /\ incoming.side \in Sides
        /\ TradedSide \in Sides /\ TradedSide # incoming.side
    BY <1>1 DEF IInv, CallTyped, Call, Idle, OtherSide, Sides, TradedSide
  <1>3. /\ TradedPrice \in DOMAIN levels[TradedSide] /\ TradedPrice \in Prices
        /\ \A r \in DOMAIN levels[TradedSide] : AtLeastAsGood(TradedSide, TradedPrice, r)
    BY <1>1, <1>2, BestPriceIsBest DEF IInv, WellTyped, LevelMap, TradedPrice
  <1>4. /\ TradedLevel.orders \in Seq(Order) /\ TradedLevel.total_qty \in Int
        /\ HeldOnce(TradedLevel.orders, TradedSide, TradedPrice, order_index)
        /\ TradedLevel.orders # <<>>
    BY <1>2, <1>3 DEF IInv, WellTyped, LevelMap, Level, Indexed, HeldOnce, TradedLevel
  <1>5. Head(TradedLevel.orders) = TradedLevel.orders[1] /\ TradedLevel.orders[1] \in Order
    BY <1>4
  <1>6. TradedLevel.orders[1].qty \in Nat \ {0}
    BY <1>5 DEF Order
  <1>7. /\ TradedQty \in Nat \ {0} /\ TradedQty <= incoming.qty
        /\ TradedQty <= TradedLevel.orders[1].qty
    BY <1>1, <1>2, <1>5, <1>6 DEF Smaller, TradedQty
  <1> HIDE DEF TradedQty, TradedLevel, TradedPrice, TradedSide
  <1>8. incoming.qty - TradedQty \in Nat
    BY <1>2, <1>7
  <1>9. /\ incoming' \in Call
        /\ incoming'.qty = incoming.qty - TradedQty
        /\ incoming'.side = incoming.side /\ incoming'.price = incoming.price
        /\ incoming'.can_rest = incoming.can_rest /\ incoming'.order_id = incoming.order_id
        /\ incoming'.is_market = incoming.is_market
        /\ incoming'.time_in_force = incoming.time_in_force
        /\ incoming'.post_only = incoming.post_only
    BY <1>1, <1>2, <1>8 DEF Call
  <1>10. ~Idle'
    <2>1. NoOrder \notin Call
      BY DEF NoOrder, Call
    <2> QED
      BY <2>1, <1>9 DEF Idle
  <1> QED
    BY <1>1, <1>2, <1>3, <1>4, <1>5, <1>6, <1>7, <1>9, <1>10

\* A fill takes its quantity from the best level of the other side, and totals stay exact.
LEMMA FilledQuantities ==
  ASSUME IInv, TotalsExact(levels), Fill
  PROVE  /\ TotalsExact(levels')
         /\ \A s \in Sides : \A q :
              Resting(levels', s, q) =
                IF s = TradedSide /\ q = TradedPrice THEN Resting(levels, s, q) - TradedQty
                ELSE Resting(levels, s, q)
         /\ \A s \in Sides : s # TradedSide => levels'[s] = levels[s]
         /\ TradedQty <= Resting(levels, TradedSide, TradedPrice)
  <1> DEFINE orders == TradedLevel.orders
             after  == LevelAfterFill(TradedLevel, TradedQty)
  <1>1. /\ TradedSide \in Sides /\ TradedPrice \in DOMAIN levels[TradedSide]
        /\ orders \in Seq(Order) /\ orders # <<>>
        /\ Head(orders) = orders[1] /\ orders[1] \in Order
        /\ TradedQty \in Nat \ {0} /\ TradedQty <= orders[1].qty /\ orders[1].qty \in Nat
        /\ levels' = LevelsStored(TradedSide, TradedPrice, after)
    BY FillFacts DEF LevelsStored
  <1>2. /\ TradedLevel.total_qty = TotalQty(orders) /\ TradedLevel.total_qty <= MaxQty
        /\ TradedLevel.total_qty = Resting(levels, TradedSide, TradedPrice)
        /\ TotalQty(orders) \in Nat
    BY <1>1, TotalFacts DEF TradedLevel, TotalsExact, Resting
  <1>3. 1 \in 1..Len(orders)
    BY <1>1
  <1>4. orders[1].qty <= TotalQty(orders)
    <2>1. RemoveAt(orders, 1) \in Seq(Order)
      BY <1>1, <1>3, RemoveAtFacts
    <2>2. TotalQty(RemoveAt(orders, 1)) \in Nat
      BY <2>1, TotalFacts
    <2>3. TotalQty(RemoveAt(orders, 1)) = TotalQty(orders) - orders[1].qty
      BY <1>1, <1>3, TotalOfRemoveAt
    <2> HIDE DEF orders
    <2> QED
      BY <2>2, <2>3, <1>1, <1>2
  <1> HIDE DEF orders
  <1>5. /\ after \in Level /\ after.total_qty = TotalQty(after.orders)
        /\ after.total_qty = TradedLevel.total_qty - TradedQty
        /\ after.total_qty <= MaxQty
    <2>1. TradedLevel.total_qty - TradedQty \in Int /\ TradedLevel.total_qty - TradedQty <= MaxQty
      BY <1>1, <1>2, QuantityAssumption
    <2>2. CASE orders[1].qty = TradedQty
      <3>1. after = [total_qty |-> TradedLevel.total_qty - TradedQty, orders |-> Tail(orders)]
        BY <2>2, <1>1 DEF LevelAfterFill, orders
      <3>2. Tail(orders) = RemoveAt(orders, 1)
        BY <1>1, TailIsRemoveAt
      <3>3. RemoveAt(orders, 1) \in Seq(Order)
        BY <1>1, <1>3, RemoveAtFacts
      <3>4. TotalQty(RemoveAt(orders, 1)) = TotalQty(orders) - orders[1].qty
        BY <1>1, <1>3, TotalOfRemoveAt
      <3> HIDE DEF after
      <3> QED
        BY <2>1, <2>2, <3>1, <3>2, <3>3, <3>4, <1>1, <1>2, QuantityAssumption DEF Level
    <2>3. CASE orders[1].qty # TradedQty
      <3> DEFINE first == [orders[1] EXCEPT !.qty = orders[1].qty - TradedQty]
                 new   == <<first>> \o Tail(orders)
      <3>1. after = [total_qty |-> TradedLevel.total_qty - TradedQty, orders |-> new]
        BY <2>3, <1>1 DEF LevelAfterFill, orders
      <3>2. first \in Order /\ first.qty = orders[1].qty - TradedQty
        <4>1. orders[1].qty - TradedQty \in Nat \ {0}
          BY <2>3, <1>1
        <4> QED
          BY <4>1, <1>1 DEF Order
      <3> HIDE DEF first
      <3>3. /\ Tail(orders) \in Seq(Order) /\ Len(Tail(orders)) = Len(orders) - 1
            /\ \A i \in 1..(Len(orders) - 1) : Tail(orders)[i] = orders[i + 1]
            /\ Len(orders) \in Nat \ {0}
        BY <1>1
      <3>4. <<first>> \in Seq(Order) /\ Len(<<first>>) = 1 /\ <<first>>[1] = first
        BY <3>2
      <3>5. /\ new \in Seq(Order) /\ Len(new) = Len(orders) /\ new[1] = first
            /\ \A i \in 2..Len(orders) : new[i] = Tail(orders)[i - 1]
        BY <3>3, <3>4
      <3>6. \A i \in 2..Len(orders) : new[i] = orders[i]
        <4>1. ASSUME NEW i \in 2..Len(orders) PROVE Tail(orders)[i - 1] = orders[i]
          <5>1. i - 1 \in 1..(Len(orders) - 1) /\ (i - 1) + 1 = i
            BY <3>3
          <5> QED
            BY <5>1, <3>3
        <4> QED
          BY <4>1, <3>5
      <3> HIDE DEF new
      <3>7. TotalQty(new) = TotalQty(orders) - orders[1].qty + new[1].qty
        BY <1>1, <3>5, <3>6, TotalOfShrunk
      <3> HIDE DEF after
      <3> QED
        BY <2>1, <3>1, <3>2, <3>5, <3>7, <1>1, <1>2, QuantityAssumption DEF Level
    <2> QED
      BY <2>2, <2>3
  <1>6. WellTyped(levels, order_index) /\ TradedSide \in Sides
    BY <1>1 DEF IInv
  <1> HIDE DEF after
  <1>7. /\ TotalsExact(levels')
        /\ \A s \in Sides : \A q :
             Resting(levels', s, q) = IF s = TradedSide /\ q = TradedPrice THEN after.total_qty
                                      ELSE Resting(levels, s, q)
        /\ \A s \in Sides : s # TradedSide => levels'[s] = levels[s]
    <2>1. levels' = LevelsStored(TradedSide, TradedPrice, after)
      BY <1>1
    <2>2. after \in Level /\ after.total_qty = TotalQty(after.orders) /\ after.total_qty <= MaxQty
      BY <1>5
    <2> QED
      BY <2>1, <2>2, <1>6, StoredQuantities
  <1> QED
    BY <1>1, <1>2, <1>4, <1>5, <1>7

(***************************************************************************)
(* The invariant of the admission checks.                                  *)
(***************************************************************************)
\* Only good-til-cancel limit orders may rest.
RestsIfGtc ==
  ~Idle => (incoming.can_rest <=> incoming.time_in_force = "GTC" /\ ~incoming.is_market)

\* AdmissionHolds, for any book and any call.
Kept(lv, traded, call, taken, crossing) ==
  /\ traded + crossing <= MaxQty
  /\ call.can_rest => Resting(lv, call.side, call.price) + call.qty - crossing <= MaxQty
  /\ call.time_in_force = "FOK" /\ ~call.is_market => crossing = call.qty
  /\ call.post_only => crossing = 0 /\ taken = <<>>

\* The prediction made again for what is left of the call.
Predicted(lv, call) == CrossingQty(lv[OtherSide(call.side)], call.side, call.price, call.qty)

AdmissionInv ==
  /\ IInv
  /\ TotalsExact(levels)
  /\ traded_qty <= MaxQty
  /\ RestsIfGtc
  /\ ~Idle => Kept(levels, traded_qty, incoming, trades, Predicted(levels, incoming))

\* It implies the two invariants of the engine.
LEMMA AdmissionInvSaysEnough == AdmissionInv => LevelTotalsExact /\ AdmissionHolds
  <1> SUFFICES ASSUME AdmissionInv PROVE LevelTotalsExact /\ AdmissionHolds
    OBVIOUS
  <1>1. LevelTotalsExact
    BY DEF AdmissionInv, TotalsExact, LevelTotalsExact
  <1>2. ASSUME ~Idle PROVE AdmissionHolds
    <2>1. Kept(levels, traded_qty, incoming, trades, Predicted(levels, incoming))
      BY <1>2 DEF AdmissionInv
    <2>2. MaxCrossingQty(incoming.side, incoming.price, incoming.qty) = Predicted(levels, incoming)
      BY PredictionOfLevels DEF Predicted
    <2>3. LevelAt(incoming.side, incoming.price).total_qty
            = Resting(levels, incoming.side, incoming.price)
      BY DEF LevelAt, Resting
    <2> QED
      BY <2>1, <2>2, <2>3 DEF Kept, AdmissionHolds
  <1> QED
    BY <1>1, <1>2 DEF AdmissionHolds

\* The prediction is a part of what the call still wants.
LEMMA PredictedIsNat ==
  ASSUME NEW lv, NEW ix, WellTyped(lv, ix), TotalsExact(lv),
         NEW call, call.side \in Sides, call.qty \in Nat
  PROVE  Predicted(lv, call) \in 0..call.qty
  <1> DEFINE side == call.side
             limit == call.price
             qty == call.qty
             crossing == CrossingQty(lv[OtherSide(side)], side, limit, qty)
  <1>1. side \in Sides /\ qty \in Nat
    OBVIOUS
  <1> HIDE DEF side, limit, qty
  <1>2. \E reached : crossing = reached[MaxPrice] /\ reached[MaxPrice] \in 0..qty
    BY <1>1, MaxCrossingIsTaken
  <1>3. crossing \in 0..qty
    BY <1>2
  <1> QED
    BY <1>3 DEF Predicted, side, limit, qty

\* It holds of the empty book.
LEMMA InitAdmission == Init => AdmissionInv
  <1> SUFFICES ASSUME Init PROVE AdmissionInv
    OBVIOUS
  <1>1. IInv
    BY InitEstablishes
  <1>2. Idle /\ traded_qty = 0 /\ \A side \in Sides : DOMAIN levels[side] = {}
    BY DEF Init, Idle
  <1>3. TotalsExact(levels)
    BY <1>2 DEF TotalsExact
  <1> QED
    BY <1>1, <1>2, <1>3, QuantityAssumption DEF AdmissionInv, RestsIfGtc

\* A refused call changes nothing it speaks of.
LEMMA RejectAdmission ==
  ASSUME AdmissionInv, Idle, NEW reason \in Errors, Reject(reason)
  PROVE  AdmissionInv'
  <1>1. IInv'
    BY RejectPreserves DEF AdmissionInv
  <1> QED
    BY <1>1 DEF AdmissionInv, Reject, RestsIfGtc, Idle

\* Add establishes what it checked, market orders and absent levels included.
LEMMA AddAdmission ==
  ASSUME AdmissionInv, NEW add \in AddRequests, Add(add)
  PROVE  AdmissionInv'
  <1>1. /\ add \in Adds /\ add.order_id \in OrderIds /\ add.side \in Sides
        /\ add.qty \in 0..MaxQty /\ add.is_market \in BOOLEAN
        /\ add.time_in_force \in Policies /\ add.post_only \in BOOLEAN
    BY RequestAssumption, QuantityAssumption DEF Adds
  <1>2. IInv'
    BY AddPreserves DEF AdmissionInv
  <1>3. CASE AddError(add) # "None"
    <2>1. AddError(add) \in Errors
      BY DEF AddError, Errors
    <2> QED
      BY <1>3, <2>1, RejectAdmission DEF Add
  <1>4. CASE AddError(add) = "None"
    <2> DEFINE price    == MatchPrice(add)
               crossing == MaxCrossingQty(add.side, price, add.qty)
    <2>1. /\ incoming' = [order_id |-> add.order_id, side |-> add.side,
                          price |-> price, qty |-> add.qty, can_rest |-> CanRest(add),
                          is_market |-> add.is_market, time_in_force |-> add.time_in_force,
                          post_only |-> add.post_only]
          /\ trades' = <<>>
          /\ UNCHANGED <<levels, order_index, traded_qty>>
      BY <1>4 DEF Add
    <2>2. /\ MatchPolicy(add) = "FOK" => ~(crossing < add.qty)
          /\ add.post_only => crossing = 0
          /\ CanRest(add) /\ price \in DOMAIN levels[add.side] =>
               ~AddWouldOverflow(levels[add.side][price].total_qty, add.qty - crossing)
          /\ ~AddWouldOverflow(traded_qty, crossing)
      BY <1>4 DEF AddError
    <2>3. /\ CanRest(add) <=> add.time_in_force = "GTC" /\ ~add.is_market
          /\ add.time_in_force = "FOK" /\ ~add.is_market => MatchPolicy(add) = "FOK"
      BY <1>1 DEF CanRest, MatchPolicy
    <2> HIDE DEF price, crossing
    <2>4. Predicted(levels', incoming') = crossing
      BY <2>1, PredictionOfLevels DEF Predicted, crossing
    <2>5. crossing \in 0..add.qty
      <3>1. crossing = CrossingQty(levels[OtherSide(add.side)], add.side, price, add.qty)
        BY PredictionOfLevels DEF crossing
      <3>2. WellTyped(levels, order_index) /\ TotalsExact(levels) /\ add.qty \in Nat
        BY <1>1, QuantityAssumption DEF AdmissionInv, IInv
      <3> QED
        BY <1>1, <3>1, <3>2, MaxCrossingIsTaken
    <2>6. traded_qty + crossing <= MaxQty
      BY <2>2, <2>5, <1>1, QuantityAssumption DEF AddWouldOverflow, AdmissionInv, IInv, CallTyped
    <2>7. CanRest(add) => Resting(levels, add.side, price) + add.qty - crossing <= MaxQty
      <3> SUFFICES ASSUME CanRest(add)
                   PROVE  Resting(levels, add.side, price) + add.qty - crossing <= MaxQty
        OBVIOUS
      <3>1. Resting(levels, add.side, price) \in 0..MaxQty
        BY <1>1, RestingIsNat DEF AdmissionInv, IInv
      <3>2. CASE price \in DOMAIN levels[add.side]
        <4>1. Resting(levels, add.side, price) = levels[add.side][price].total_qty
          BY <3>2 DEF Resting
        <4>2. ~AddWouldOverflow(Resting(levels, add.side, price), add.qty - crossing)
          BY <2>2, <3>2, <4>1
        <4> QED
          BY <4>2, <3>1, <2>5, <1>1, QuantityAssumption DEF AddWouldOverflow
      <3>3. CASE price \notin DOMAIN levels[add.side]
        BY <3>3, <2>5, <1>1, QuantityAssumption DEF Resting
      <3> QED
        BY <3>2, <3>3
    <2>8. /\ add.time_in_force = "FOK" /\ ~add.is_market => crossing = add.qty
          /\ add.post_only => crossing = 0
      BY <2>2, <2>3, <2>5, <1>1, QuantityAssumption
    <2>9. Kept(levels', traded_qty', incoming', trades', crossing)
      BY <2>1, <2>6, <2>7, <2>8 DEF Kept
    <2>10. RestsIfGtc'
      BY <2>1, <2>3 DEF RestsIfGtc
    <2> QED
      BY <1>2, <2>1, <2>4, <2>9, <2>10 DEF AdmissionInv, TotalsExact
  <1> QED
    BY <1>3, <1>4

\* Cancel subtracts the order it erases.
LEMMA CancelAdmission ==
  ASSUME AdmissionInv, NEW id \in OrderIds, Cancel(id)
  PROVE  AdmissionInv'
  <1>1. IInv'
    BY CancelPreserves DEF AdmissionInv
  <1>2. CASE id \notin DOMAIN order_index
    BY <1>2, RejectAdmission DEF Cancel, Errors
  <1>3. CASE id \in DOMAIN order_index
    <2>1. /\ Idle /\ levels' = LevelsWithout(id) /\ UNCHANGED <<traded_qty, incoming>>
      BY <1>3 DEF Cancel
    <2>2. TotalsExact(levels')
      BY <1>3, <2>1, WithdrawnQuantities DEF AdmissionInv
    <2> QED
      BY <1>1, <2>1, <2>2 DEF AdmissionInv, RestsIfGtc, Idle
  <1> QED
    BY <1>2, <1>3

\* Modify checked the level without the order it erases, which is the level it leaves.
LEMMA ModifyAdmission ==
  ASSUME AdmissionInv, NEW id \in OrderIds, NEW price \in 0..MaxPrice, NEW qty \in Quantities,
         Modify(id, price, qty)
  PROVE  AdmissionInv'
  <1>1. IInv'
    BY ModifyPreserves DEF AdmissionInv
  <1>2. CASE ModifyError(id, price, qty) # "None"
    <2>1. ModifyError(id, price, qty) \in Errors
      BY DEF ModifyError, Errors
    <2> QED
      BY <1>2, <2>1, RejectAdmission DEF Modify
  <1>3. CASE ModifyError(id, price, qty) = "None"
    <2> DEFINE side     == order_index[id].side
               held     == order_index[id].price
               own      == IF held = price THEN OrderOf(id).qty ELSE 0
               crossing == MaxCrossingQty(side, price, qty)
    <2>1. /\ levels' = LevelsWithout(id)
          /\ incoming' = [order_id |-> id, side |-> side,
                          price |-> price, qty |-> qty, can_rest |-> TRUE,
                          is_market |-> FALSE, time_in_force |-> "GTC", post_only |-> FALSE]
          /\ trades' = <<>> /\ UNCHANGED traded_qty
      BY <1>3 DEF Modify
    <2>2. /\ id \in DOMAIN order_index /\ qty \in 0..MaxQty
          /\ ~AddWouldOverflow(LevelAt(side, price).total_qty - own, qty - crossing)
          /\ ~AddWouldOverflow(traded_qty, crossing)
      BY <1>3, QuantityAssumption DEF ModifyError
    <2>3. /\ side \in Sides /\ held \in Prices /\ OrderOf(id).qty \in Nat
          /\ TotalsExact(levels')
          /\ Resting(levels', side, price) =
               IF price = held THEN Resting(levels, side, price) - OrderOf(id).qty
               ELSE Resting(levels, side, price)
          /\ \A s \in Sides : s # side => levels'[s] = levels[s]
      BY <2>1, <2>2, WithdrawnQuantities DEF AdmissionInv
    <2>4. LevelAt(side, price).total_qty = Resting(levels, side, price)
      BY DEF LevelAt, Resting
    <2> HIDE DEF side, held, crossing
    <2>5. Resting(levels, side, price) \in Nat /\ Resting(levels', side, price) \in 0..MaxQty
      BY <1>1, <2>3, RestingIsNat, QuantityAssumption DEF AdmissionInv, IInv
    <2>6. Resting(levels', side, price) = LevelAt(side, price).total_qty - own
      BY <2>3, <2>4, <2>5
    <2> HIDE DEF own
    <2>7. crossing = CrossingQty(levels[OtherSide(side)], side, price, qty)
      BY PredictionOfLevels DEF crossing
    <2>8. crossing \in 0..qty
      <3>1. /\ WellTyped(levels, order_index) /\ TotalsExact(levels)
            /\ qty \in Nat /\ side \in Sides
        BY <2>2, <2>3, QuantityAssumption DEF AdmissionInv, IInv
      <3>2. \E reached : crossing = reached[MaxPrice] /\ reached[MaxPrice] \in 0..qty
        BY <2>7, <3>1, MaxCrossingIsTaken
      <3> QED
        BY <3>2
    <2>9. Predicted(levels', incoming') = crossing
      <3>1. levels'[OtherSide(side)] = levels[OtherSide(side)]
        BY <2>3 DEF OtherSide, Sides
      <3> QED
        BY <2>1, <2>7, <3>1 DEF Predicted
    <2>10. traded_qty + crossing <= MaxQty
      BY <2>2, <2>8, QuantityAssumption DEF AddWouldOverflow, AdmissionInv, IInv, CallTyped
    <2>11. Resting(levels', side, price) + qty - crossing <= MaxQty
      BY <2>2, <2>5, <2>6, <2>8, QuantityAssumption DEF AddWouldOverflow
    <2>12. Kept(levels', traded_qty', incoming', trades', crossing)
      BY <2>1, <2>10, <2>11 DEF Kept
    <2>13. RestsIfGtc'
      BY <2>1 DEF RestsIfGtc
    <2> QED
      BY <1>1, <2>1, <2>3, <2>9, <2>12, <2>13 DEF AdmissionInv
  <1> QED
    BY <1>2, <1>3

\* What a fill takes is the beginning of what was predicted.
LEMMA FillTakesThePrediction ==
  ASSUME AdmissionInv, Fill
  PROVE  /\ Predicted(levels', incoming') = Predicted(levels, incoming) - TradedQty
         /\ Predicted(levels, incoming) > 0
  <1> DEFINE side    == incoming.side
             limit   == incoming.price
             qty     == incoming.qty
             offered == Offered(levels[OtherSide(side)], side, limit)
             after   == Offered(levels'[OtherSide(side)], side, limit)
             b       == RankOf(TradedSide, TradedPrice)
  <1>1. /\ incoming \in Call /\ side \in Sides /\ TradedSide \in Sides
        /\ OtherSide(side) = TradedSide
        /\ TradedPrice \in DOMAIN levels[TradedSide] /\ TradedPrice \in Prices
        /\ \A r \in DOMAIN levels[TradedSide] : AtLeastAsGood(TradedSide, TradedPrice, r)
        /\ Crosses(side, limit, TradedPrice)
        /\ TradedQty \in Nat \ {0} /\ TradedQty <= qty
        /\ incoming'.qty = qty - TradedQty /\ incoming'.side = side /\ incoming'.price = limit
    BY FillFacts DEF AdmissionInv, TradedSide
  <1>2. qty \in Nat \ {0}
    BY <1>1 DEF Call
  <1>3. /\ TotalsExact(levels')
        /\ \A q : Resting(levels', TradedSide, q) =
                    IF q = TradedPrice THEN Resting(levels, TradedSide, q) - TradedQty
                    ELSE Resting(levels, TradedSide, q)
        /\ TradedQty <= Resting(levels, TradedSide, TradedPrice)
    BY <1>1, FilledQuantities DEF AdmissionInv
  <1>4. WellTyped(levels, order_index) /\ TotalsExact(levels) /\ WellTyped(levels', order_index')
    BY FillPreserves DEF AdmissionInv, IInv
  <1>5. b \in 1..MaxPrice /\ Ranked(TradedSide, b) = TradedPrice
    BY <1>1, RankFacts
  <1> HIDE DEF b
  <1>6. \A k \in 1..MaxPrice : offered[k] = IF Crosses(side, limit, Ranked(TradedSide, k))
                                            THEN Resting(levels, TradedSide, Ranked(TradedSide, k))
                                            ELSE 0
    BY <1>1, OfferedIsResting
  <1>7. \A k \in 1..MaxPrice : after[k] = IF Crosses(side, limit, Ranked(TradedSide, k))
                                          THEN Resting(levels', TradedSide, Ranked(TradedSide, k))
                                          ELSE 0
    BY <1>1, OfferedIsResting
  <1> HIDE DEF side, limit, qty
  <1>8. PICK reached : /\ Takes(offered, qty, reached)
                       /\ CrossingQty(levels[OtherSide(side)], side, limit, qty) = reached[MaxPrice]
                       /\ \A k \in 1..MaxPrice : offered[k] \in Nat
    BY <1>1, <1>2, <1>4, MaxCrossingIsTaken
  <1>9. qty - TradedQty \in Nat
    BY <1>1, <1>2
  <1>10. PICK then : /\ Takes(after, qty - TradedQty, then)
                     /\ CrossingQty(levels'[OtherSide(side)], side, limit, qty - TradedQty)
                          = then[MaxPrice]
    <2> DEFINE lv   == levels'
               ix   == order_index'
               left == qty - TradedQty
    <2>1. side \in Sides /\ WellTyped(lv, ix) /\ TotalsExact(lv) /\ left \in Nat
      BY <1>1, <1>3, <1>4, <1>9
    <2> HIDE DEF lv, ix, left
    <2>2. \E then : /\ Takes(Offered(lv[OtherSide(side)], side, limit), left, then)
                    /\ CrossingQty(lv[OtherSide(side)], side, limit, left) = then[MaxPrice]
      BY <2>1, MaxCrossingIsTaken
    <2> QED
      BY <2>2 DEF lv, left
  <1> HIDE DEF offered, after
  <1>11. TradedQty <= offered[b] /\ offered[b] > 0
    <2>1. offered[b] = Resting(levels, TradedSide, TradedPrice)
      BY <1>1, <1>5, <1>6
    <2>2. offered[b] \in Nat
      BY <1>5, <1>8
    <2> QED
      BY <2>1, <2>2, <1>1, <1>3
  <1>12. ASSUME NEW k \in 1..MaxPrice, k < b
         PROVE  offered[k] = 0
    <2>1. Ranked(TradedSide, k) \notin DOMAIN levels[TradedSide]
      <3>1. SUFFICES ASSUME Ranked(TradedSide, k) \in DOMAIN levels[TradedSide] PROVE FALSE
        OBVIOUS
      <3>2. AtLeastAsGood(TradedSide, TradedPrice, Ranked(TradedSide, k))
        BY <1>1, <3>1
      <3>3. Ranked(TradedSide, k) \in Prices /\ RankOf(TradedSide, Ranked(TradedSide, k)) = k
        BY <1>1, RankFacts
      <3>4. b <= k
        BY <1>1, <3>2, <3>3, RankFacts DEF b
      <3> QED
        BY <3>4, <1>12, <1>5, PriceAssumption
    <2> QED
      BY <2>1, <1>6 DEF Resting
  <1>13. ASSUME NEW k \in 1..MaxPrice
         PROVE  after[k] = IF k = b THEN offered[k] - TradedQty ELSE offered[k]
    <2>1. CASE k = b
      BY <2>1, <1>1, <1>3, <1>5, <1>6, <1>7
    <2>2. CASE k # b
      <3>1. Ranked(TradedSide, k) # TradedPrice
        BY <2>2, <1>1, RankFacts DEF b
      <3> QED
        BY <2>2, <3>1, <1>3, <1>6, <1>7
    <2> QED
      BY <2>1, <2>2
  <1>14. then[MaxPrice] = reached[MaxPrice] - TradedQty
    <2> DEFINE part == TradedQty
               rest == qty - TradedQty
    <2>1. qty \in Nat /\ part \in Nat /\ part <= qty /\ rest = qty - part
      BY <1>1, <1>2
    <2>2. Takes(offered, qty, reached) /\ Takes(after, rest, then)
      BY <1>8, <1>10
    <2> HIDE DEF part, rest
    <2>3. FirstOfferShrinks(offered, after, b, part)
      BY <1>5, <1>8, <1>11, <1>12, <1>13 DEF FirstOfferShrinks, part
    <2>4. then[MaxPrice] = reached[MaxPrice] - part
      BY <2>1, <2>2, <2>3, TakenInParts
    <2> QED
      BY <2>4 DEF part
  <1>15. reached[MaxPrice] > 0
    BY <1>2, <1>5, <1>8, <1>11, SomethingTaken
  <1>16. Predicted(levels, incoming) = reached[MaxPrice]
    BY <1>8 DEF Predicted, side, limit, qty
  <1>17. Predicted(levels', incoming') = then[MaxPrice]
    BY <1>1, <1>10 DEF Predicted
  <1> QED
    BY <1>14, <1>15, <1>16, <1>17

\* Fill keeps what was admitted: it takes the beginning of the prediction.
LEMMA FillAdmission ==
  ASSUME AdmissionInv, Fill
  PROVE  AdmissionInv'
  <1> DEFINE crossing == Predicted(levels, incoming)
             left     == Predicted(levels', incoming')
  <1>1. /\ IInv' /\ TotalsExact(levels')
        /\ \A s \in Sides : s # TradedSide => levels'[s] = levels[s]
    BY FillPreserves, FilledQuantities DEF AdmissionInv
  <1>2. /\ ~Idle /\ ~Idle' /\ incoming \in Call /\ incoming' \in Call
        /\ incoming.side \in Sides /\ TradedSide # incoming.side
        /\ TradedQty \in Nat \ {0}
        /\ traded_qty' = traded_qty + TradedQty
        /\ incoming'.qty = incoming.qty - TradedQty
        /\ incoming'.side = incoming.side /\ incoming'.price = incoming.price
        /\ incoming'.can_rest = incoming.can_rest
        /\ incoming'.is_market = incoming.is_market
        /\ incoming'.time_in_force = incoming.time_in_force
        /\ incoming'.post_only = incoming.post_only
    BY FillFacts DEF AdmissionInv
  <1>3. /\ incoming.qty \in Nat /\ incoming'.qty \in Nat
        /\ traded_qty \in Int
    BY <1>2 DEF Call, AdmissionInv, IInv, CallTyped
  <1>4. left = crossing - TradedQty /\ crossing > 0
    BY FillTakesThePrediction
  <1>5. crossing \in Nat /\ left \in Nat
    <2>1. WellTyped(levels, order_index) /\ TotalsExact(levels) /\ WellTyped(levels', order_index')
      BY <1>1 DEF AdmissionInv, IInv
    <2>2. crossing \in 0..incoming.qty
      BY <1>2, <1>3, <2>1, PredictedIsNat
    <2>3. incoming'.side \in Sides
      BY <1>2
    <2>4. left \in 0..incoming'.qty
      BY <1>1, <1>3, <2>1, <2>3, PredictedIsNat
    <2> HIDE DEF left, crossing
    <2> QED
      BY <2>2, <2>4, <1>3
  <1>6. Resting(levels', incoming.side, incoming.price)
          = Resting(levels, incoming.side, incoming.price)
    BY <1>1, <1>2 DEF Resting
  <1>7. Kept(levels, traded_qty, incoming, trades, crossing)
    BY <1>2 DEF AdmissionInv
  <1> HIDE DEF crossing, left
  <1>8. traded_qty' + left <= MaxQty
    BY <1>2, <1>3, <1>4, <1>5, <1>7, QuantityAssumption DEF Kept
  <1>9. incoming'.can_rest =>
          Resting(levels', incoming'.side, incoming'.price) + incoming'.qty - left <= MaxQty
    <2>1. WellTyped(levels, order_index) /\ TotalsExact(levels)
      BY DEF AdmissionInv, IInv
    <2>2. Resting(levels, incoming.side, incoming.price) \in 0..MaxQty
      BY <1>2, <2>1, RestingIsNat
    <2> QED
      BY <2>2, <1>2, <1>3, <1>4, <1>5, <1>6, <1>7, QuantityAssumption DEF Kept
  <1>10. incoming'.time_in_force = "FOK" /\ ~incoming'.is_market => left = incoming'.qty
    BY <1>2, <1>3, <1>4, <1>5, <1>7 DEF Kept
  <1>11. ~incoming'.post_only
    BY <1>2, <1>4, <1>5, <1>7 DEF Kept
  <1>12. Kept(levels', traded_qty', incoming', trades', left)
    BY <1>8, <1>9, <1>10, <1>11 DEF Kept
  <1>13. RestsIfGtc'
    BY <1>2 DEF AdmissionInv, RestsIfGtc
  <1>14. traded_qty' <= MaxQty
    BY <1>2, <1>3, <1>5, <1>8, QuantityAssumption
  <1> QED
    BY <1>1, <1>12, <1>13, <1>14 DEF AdmissionInv, left

\* A call that stops matching has taken all that was predicted.
LEMMA NothingLeftToTake ==
  ASSUME AdmissionInv, ~Idle, ~Matching
  PROVE  Predicted(levels, incoming) = 0
  <1> DEFINE side    == incoming.side
             limit   == incoming.price
             qty     == incoming.qty
             offered == Offered(levels[OtherSide(side)], side, limit)
             other   == OtherSide(side)
  <1>1. /\ incoming \in Call /\ side \in Sides /\ qty \in Nat /\ other \in Sides
        /\ limit \in Int
    BY DEF AdmissionInv, IInv, CallTyped, Call, Idle, OtherSide, Sides
  <1>2. WellTyped(levels, order_index) /\ TotalsExact(levels)
    BY DEF AdmissionInv, IInv
  <1>3. \A k \in 1..MaxPrice : offered[k] = IF Crosses(side, limit, Ranked(other, k))
                                            THEN Resting(levels, other, Ranked(other, k))
                                            ELSE 0
    BY OfferedIsResting
  <1> HIDE DEF side, limit, qty
  <1>4. PICK reached : /\ Takes(offered, qty, reached)
                       /\ CrossingQty(levels[OtherSide(side)], side, limit, qty) = reached[MaxPrice]
                       /\ reached[MaxPrice] \in 0..qty
    BY <1>1, <1>2, MaxCrossingIsTaken
  <1>5. Predicted(levels, incoming) = reached[MaxPrice]
    BY <1>4 DEF Predicted, side, limit, qty
  <1> HIDE DEF offered, other
  <1>6. CASE qty = 0
    BY <1>4, <1>5, <1>6
  <1>7. CASE qty # 0
    <2>1. DOMAIN levels[other] = {} \/ ~Crosses(side, limit, BestPrice(other))
      BY <1>1, <1>7 DEF Matching, side, limit, qty, other
    <2>2. \A r \in DOMAIN levels[other] : ~Crosses(side, limit, r)
      <3>1. SUFFICES ASSUME NEW r \in DOMAIN levels[other] PROVE ~Crosses(side, limit, r)
        OBVIOUS
      <3>2. /\ BestPrice(other) \in DOMAIN levels[other]
            /\ AtLeastAsGood(other, BestPrice(other), r)
        BY <1>1, <1>2, BestPriceIsBest
      <3>3. r \in Int /\ BestPrice(other) \in Int
        BY <1>1, <1>2, <3>2, PriceAssumption DEF WellTyped, LevelMap, Prices
      <3> QED
        BY <1>1, <2>1, <3>2, <3>3 DEF Crosses, AtLeastAsGood, OtherSide, Sides, other
    <2>3. \A k \in 1..MaxPrice : offered[k] = 0
      BY <1>3, <2>2 DEF Resting
    <2>4. reached[MaxPrice] = 0
      BY <1>1, <1>4, <2>3, NothingTaken
    <2> QED
      BY <1>5, <2>4
  <1> QED
    BY <1>6, <1>7

\* Return adds the remainder to a level that has room for it.
LEMMA ReturnAdmission ==
  ASSUME AdmissionInv, Return
  PROVE  AdmissionInv'
  <1>1. IInv' /\ Idle' /\ UNCHANGED <<traded_qty, trades, error>> /\ ~Idle /\ ~Matching
    BY ReturnPreserves DEF AdmissionInv, Return, Idle
  <1>2. TotalsExact(levels')
    <2>1. CASE ~(incoming.qty > 0 /\ incoming.can_rest)
      BY <2>1 DEF Return, AdmissionInv
    <2>2. CASE incoming.qty > 0 /\ incoming.can_rest
      <3> DEFINE side  == incoming.side
                 price == incoming.price
                 order == [order_id |-> incoming.order_id, price |-> price, qty |-> incoming.qty]
                 old   == LevelAt(side, price)
                 level == LevelWith(old, order)
      <3>1. levels' = [levels EXCEPT ![side] = Put(levels[side], price, level)]
        BY <2>2 DEF Return
      <3>2. /\ side \in Sides /\ price \in Prices /\ incoming.order_id \in OrderIds
            /\ incoming.qty \in Nat \ {0}
        BY <1>1, <2>2 DEF AdmissionInv, IInv, CallTyped, Call, Idle
      <3>3. order \in Order /\ order.qty = incoming.qty
        BY <3>2 DEF Order
      <3>4. WellTyped(levels, order_index) /\ TotalsExact(levels)
        BY DEF AdmissionInv, IInv
      <3>5. /\ old.orders \in Seq(Order)
            /\ old.total_qty = TotalQty(old.orders) /\ old.total_qty \in Nat
            /\ old.total_qty = Resting(levels, side, price)
        <4>1. CASE price \in DOMAIN levels[side]
          <5>1. old = levels[side][price]
            BY <4>1 DEF LevelAt
          <5>2. old \in Level
            BY <3>2, <3>4, <4>1, <5>1 DEF WellTyped, LevelMap
          <5>3. old.orders \in Seq(Order)
            BY <5>2 DEF Level
          <5>4. TotalQty(old.orders) \in Nat
            BY <5>3, TotalFacts
          <5> QED
            BY <3>2, <3>4, <4>1, <5>1, <5>3, <5>4 DEF TotalsExact, Resting
        <4>2. CASE price \notin DOMAIN levels[side]
          <5>1. old.orders = <<>> /\ old.total_qty = 0
            BY <4>2 DEF LevelAt
          <5>2. <<>> \in Seq(Order)
            OBVIOUS
          <5>3. TotalQty(<<>>) = 0
            BY <5>2, TotalFacts
          <5> QED
            BY <4>2, <5>1, <5>2, <5>3 DEF Resting
        <4> QED
          BY <4>1, <4>2
      <3> HIDE DEF old, order, side, price
      <3>6. level = [total_qty |-> old.total_qty + order.qty, orders |-> Append(old.orders, order)]
        BY DEF LevelWith
      <3>7. /\ Append(old.orders, order) \in Seq(Order) /\ Append(old.orders, order) # <<>>
            /\ TotalQty(Append(old.orders, order)) = TotalQty(old.orders) + order.qty
        <4> DEFINE orders == old.orders
        <4>1. orders \in Seq(Order) /\ order \in Order
          BY <3>3, <3>5
        <4> HIDE DEF orders
        <4>2. Append(orders, order) \in Seq(Order) /\ Append(orders, order) # <<>>
          BY <4>1, AppendProperties
        <4>3. TotalQty(Append(orders, order)) = TotalQty(orders) + order.qty
          BY <4>1, TotalOfAppend
        <4> QED
          BY <4>2, <4>3 DEF orders
      <3>8. old.total_qty + order.qty <= MaxQty
        <4>1. Kept(levels, traded_qty, incoming, trades, 0)
          BY <1>1, NothingLeftToTake DEF AdmissionInv
        <4>2. Resting(levels, side, price) + incoming.qty - 0 <= MaxQty
          BY <2>2, <4>1 DEF Kept, side, price
        <4> QED
          BY <4>2, <3>2, <3>3, <3>5, QuantityAssumption
      <3>9. /\ level \in Level /\ level.orders # <<>>
            /\ level.total_qty = TotalQty(level.orders) /\ level.total_qty <= MaxQty
        <4>1. old.total_qty + order.qty \in Int
          BY <3>2, <3>3, <3>5
        <4> HIDE DEF level
        <4> QED
          BY <3>5, <3>6, <3>7, <3>8, <4>1 DEF Level
      <3> HIDE DEF level
      <3>10. levels' = LevelsStored(side, price, level)
        BY <3>1, <3>9 DEF LevelsStored, Stored
      <3>11. side \in Sides
        BY <3>2
      <3> QED
        BY <3>4, <3>9, <3>10, <3>11, StoredQuantities
    <2> QED
      BY <2>1, <2>2
  <1> QED
    BY <1>1, <1>2 DEF AdmissionInv, RestsIfGtc

\* Every step keeps it.
LEMMA StepAdmission == AdmissionInv /\ [Next]_vars => AdmissionInv'
  <1> SUFFICES ASSUME AdmissionInv, [Next]_vars
               PROVE  AdmissionInv'
    OBVIOUS
  <1>1. CASE \E add \in AddRequests : Add(add)
    BY <1>1, AddAdmission
  <1>2. CASE \E id \in OrderIds : Cancel(id)
    BY <1>2, CancelAdmission
  <1>3. CASE \E id \in OrderIds, price \in 0..MaxPrice, qty \in Quantities :
               Modify(id, price, qty)
    BY <1>3, ModifyAdmission
  <1>4. CASE Fill
    BY <1>4, FillAdmission
  <1>5. CASE Return
    BY <1>5, ReturnAdmission
  <1>6. CASE UNCHANGED vars
    <2>1. IInv'
      BY <1>6, StepPreserves DEF AdmissionInv
    <2> QED
      BY <1>6, <2>1 DEF vars, AdmissionInv, RestsIfGtc, Idle
  <1> QED
    BY <1>1, <1>2, <1>3, <1>4, <1>5, <1>6 DEF Next

\* So it holds in every state.
LEMMA AdmissionInvariant == Spec => []AdmissionInv
  BY InitAdmission, StepAdmission, PTL DEF Spec

\* The cached total of a level is the sum of its orders in every state, the ones inside
\* the matching loop included, and never leaves the range of Quantity.
THEOREM TotalsAreExact == Spec => []LevelTotalsExact
  BY AdmissionInvariant, AdmissionInvSaysEnough, PTL

\* What the checks of add and modify admitted on a prediction stays true while the loop
\* runs: no addition overflows, an admitted fill-or-kill order can still be filled, and an
\* admitted post-only order takes nothing.
THEOREM AdmissionsHold == Spec => []AdmissionHolds
  BY AdmissionInvariant, AdmissionInvSaysEnough, PTL

(***************************************************************************)
(* A returning call.                                                       *)
(***************************************************************************)
\* What PolicyKept says of a step.
KeepsPolicy ==
  /\ incoming.time_in_force = "FOK" /\ ~incoming.is_market => incoming.qty = 0
  /\ (incoming.order_id \in DOMAIN order_index') =
       (incoming.qty > 0 /\ incoming.time_in_force = "GTC" /\ ~incoming.is_market)
  /\ \A id \in DOMAIN order_index' :
       id = incoming.order_id => OrderOf(id)'.qty = incoming.qty

\* The last step of a call: the prediction for what is left is 0, and the one position
\* of the order in its list is the last.
LEMMA ReturnKeepsPolicy ==
  ASSUME AdmissionInv, Return
  PROVE  KeepsPolicy
  <1>1. /\ ~Idle /\ ~Matching /\ incoming \in Call /\ incoming.qty \in Nat
        /\ incoming.can_rest \in BOOLEAN /\ incoming.side \in Sides
        /\ incoming.order_id \notin DOMAIN order_index
        /\ incoming.is_market \in BOOLEAN
    BY DEF AdmissionInv, IInv, CallTyped, Call, Idle, Return, IncomingOutside
  <1>2. incoming.can_rest <=> incoming.time_in_force = "GTC" /\ ~incoming.is_market
    BY <1>1 DEF AdmissionInv, RestsIfGtc
  <1>3. incoming.time_in_force = "FOK" /\ ~incoming.is_market => incoming.qty = 0
    <2>1. Kept(levels, traded_qty, incoming, trades, 0)
      BY <1>1, NothingLeftToTake DEF AdmissionInv
    <2> QED
      BY <2>1, <1>1 DEF Kept
  <1>4. CASE ~(incoming.qty > 0 /\ incoming.can_rest)
    <2>1. order_index' = order_index
      BY <1>4 DEF Return
    <2>2. incoming.order_id \notin DOMAIN order_index'
      BY <2>1, <1>1
    <2>3. ~(incoming.qty > 0 /\ incoming.time_in_force = "GTC" /\ ~incoming.is_market)
      BY <1>2, <1>4
    <2> QED
      BY <1>3, <2>2, <2>3 DEF KeepsPolicy
  <1>5. CASE incoming.qty > 0 /\ incoming.can_rest
    <2>1. PICK id, side, price, qty : /\ id = incoming.order_id /\ side = incoming.side
                                      /\ price = incoming.price /\ qty = incoming.qty
      OBVIOUS
    <2> DEFINE order  == [order_id |-> id, price |-> price, qty |-> qty]
               place  == [side |-> side, price |-> price]
               before == LevelAt(side, price).orders
               level  == LevelWith(LevelAt(side, price), order)
               orders == Append(before, order)
               last   == Len(before) + 1
    <2>2. /\ levels' = [levels EXCEPT ![side] = Put(levels[side], price, level)]
          /\ order_index' = Put(order_index, id, place)
      BY <1>5, <2>1 DEF Return
    <2>3. level.orders = orders
      BY DEF LevelWith
    <2>4. before \in Seq(Order)
      <3>1. CASE price \in DOMAIN levels[side]
        BY <3>1, <1>1, <2>1 DEF LevelAt, AdmissionInv, IInv, WellTyped, LevelMap, Level
      <3>2. CASE price \notin DOMAIN levels[side]
        BY <3>2 DEF LevelAt
      <3> QED
        BY <3>1, <3>2
    <2>5. place.side = side /\ place.price = price /\ order.order_id = id /\ order.qty = qty
      OBVIOUS
    <2> HIDE DEF order, place, before, level
    <2>6. last \in DOMAIN orders /\ orders[last] = order
      BY <2>4
    <2> HIDE DEF orders, last
    <2>7. id \in DOMAIN order_index' /\ order_index'[id] = place
      BY <2>2 DEF Put
    <2>8. side \in DOMAIN levels
      BY <1>1, <2>1 DEF AdmissionInv, IInv, WellTyped
    <2>9. levels'[side] = Put(levels[side], price, level)
      BY <2>2, <2>8
    <2>10. price \in DOMAIN levels'[side] /\ levels'[side][price] = level
      BY <2>9 DEF Put
    <2>11. HeldOnce(orders, side, price, order_index')
      <3>1. Indexed(levels', order_index')
        BY ReturnPreserves DEF AdmissionInv, IInv
      <3> QED
        BY <3>1, <2>1, <2>3, <2>10, <1>1 DEF Indexed
    <2>12. Position(orders, id) = last
      <3>1. \E i \in DOMAIN orders : orders[i].order_id = id
        BY <2>5, <2>6
      <3>2. /\ Position(orders, id) \in DOMAIN orders
            /\ orders[Position(orders, id)].order_id = id
        BY <3>1 DEF Position
      <3> QED
        BY <3>2, <2>5, <2>6, <2>11 DEF HeldOnce
    <2>13. OrderOf(id)'.qty = qty
      <3>1. OrderOf(id)' = orders[Position(orders, id)]
        BY <2>3, <2>5, <2>7, <2>10 DEF OrderOf
      <3> QED
        BY <3>1, <2>5, <2>6, <2>12
    <2>14. \A other \in DOMAIN order_index' :
             other = incoming.order_id => OrderOf(other)'.qty = incoming.qty
      BY <2>1, <2>13
    <2>15. /\ incoming.order_id \in DOMAIN order_index'
           /\ incoming.qty > 0 /\ incoming.time_in_force = "GTC" /\ ~incoming.is_market
      BY <2>1, <2>7, <1>2, <1>5
    <2> QED
      BY <1>3, <2>14, <2>15 DEF KeepsPolicy
  <1> QED
    BY <1>4, <1>5

\* Only Return ends a call.
LEMMA CallKeepsPolicy ==
  AdmissionInv /\ [Next]_vars => [~Idle /\ Idle' => KeepsPolicy]_vars
  <1> SUFFICES ASSUME AdmissionInv, Next, ~Idle, Idle'
               PROVE  KeepsPolicy
    OBVIOUS
  <1>1. ~Fill
    BY FillFacts DEF AdmissionInv
  <1>2. Return
    BY <1>1 DEF Next, Add, Cancel, Modify
  <1> QED
    BY <1>2, ReturnKeepsPolicy

\* No fill-or-kill limit order returns partly filled, nothing rests that may not, and what
\* rests has the quantity that did not trade.
THEOREM PoliciesAreKept == Spec => PolicyKept
  <1>1. AdmissionInv /\ [Next]_vars => [~Idle /\ Idle' => KeepsPolicy]_vars
    BY CallKeepsPolicy
  <1>2. Spec => []AdmissionInv
    BY AdmissionInvariant
  <1> QED
    BY <1>1, <1>2, PTL DEF Spec, PolicyKept, KeepsPolicy

(***************************************************************************)
(* Time priority, for the lists of a level before and after a step.        *)
(***************************************************************************)
\* What TimePriorityKept says of one list.
OrderKept(before, after) ==
  \A k, l \in DOMAIN after : \A j \in DOMAIN before :
    k < l /\ after[l].order_id = before[j].order_id
    => \E i \in DOMAIN before : i < j /\ before[i].order_id = after[k].order_id

\* No order is in a list twice.
Distinct(orders) ==
  \A i, j \in DOMAIN orders : orders[i].order_id = orders[j].order_id => i = j

\* The same orders in the same places, whatever their quantities.
LEMMA SamePlacesKeepOrder ==
  ASSUME NEW before, NEW after, Distinct(before), DOMAIN after = DOMAIN before,
         \A i \in DOMAIN before : after[i].order_id = before[i].order_id
  PROVE  OrderKept(before, after)
  BY DEF OrderKept, Distinct

\* A list that loses an order keeps the order of the others.
LEMMA RemovalKeepsOrder ==
  ASSUME NEW before \in Seq(Order), Distinct(before), NEW at \in 1..Len(before)
  PROVE  OrderKept(before, RemoveAt(before, at))
  <1> DEFINE after  == RemoveAt(before, at)
             old(k) == IF k < at THEN k ELSE k + 1
  <1>1. /\ after \in Seq(Order) /\ Len(after) = Len(before) - 1 /\ Len(before) \in Nat
        /\ \A k \in 1..(Len(before) - 1) : after[k] = before[old(k)]
    <2>1. /\ RemoveAt(before, at) \in Seq(Order)
          /\ Len(RemoveAt(before, at)) = Len(before) - 1
          /\ \A j \in 1..(Len(before) - 1) :
               RemoveAt(before, at)[j] = IF j < at THEN before[j] ELSE before[j + 1]
      BY RemoveAtFacts
    <2> HIDE DEF after
    <2> QED
      BY <2>1 DEF after
  <1>2. DOMAIN after = 1..(Len(before) - 1) /\ DOMAIN before = 1..Len(before)
    BY <1>1
  <1> HIDE DEF after
  <1>3. \A k \in DOMAIN after : old(k) \in DOMAIN before /\ after[k] = before[old(k)]
    BY <1>1, <1>2
  <1>4. \A k, l \in DOMAIN after : k < l => old(k) < old(l)
    BY <1>1, <1>2
  <1> HIDE DEF old
  <1>5. ASSUME NEW k \in DOMAIN after, NEW l \in DOMAIN after, NEW j \in DOMAIN before,
               k < l, after[l].order_id = before[j].order_id
        PROVE  \E i \in DOMAIN before : i < j /\ before[i].order_id = after[k].order_id
    <2>1. old(l) = j
      BY <1>3, <1>5 DEF Distinct
    <2>2. old(k) \in DOMAIN before /\ old(k) < j /\ before[old(k)].order_id = after[k].order_id
      BY <2>1, <1>3, <1>4, <1>5
    <2> QED
      BY <2>2
  <1> QED
    BY <1>5 DEF OrderKept, after

\* A newcomer joins the back.
LEMMA AppendKeepsOrder ==
  ASSUME NEW before \in Seq(Order), Distinct(before), NEW order \in Order,
         \A j \in DOMAIN before : before[j].order_id # order.order_id
  PROVE  OrderKept(before, Append(before, order))
  <1> DEFINE after == Append(before, order)
  <1>1. /\ DOMAIN after = 1..(Len(before) + 1) /\ DOMAIN before = 1..Len(before)
        /\ Len(before) \in Nat
        /\ after[Len(before) + 1] = order
        /\ \A i \in DOMAIN before : after[i] = before[i]
    OBVIOUS
  <1> HIDE DEF after
  <1>2. ASSUME NEW k \in DOMAIN after, NEW l \in DOMAIN after, NEW j \in DOMAIN before,
               k < l, after[l].order_id = before[j].order_id
        PROVE  \E i \in DOMAIN before : i < j /\ before[i].order_id = after[k].order_id
    <2>1. l # Len(before) + 1
      BY <1>1, <1>2
    <2>2. l \in DOMAIN before /\ k \in DOMAIN before
      BY <2>1, <1>1, <1>2
    <2>3. l = j
      BY <2>2, <1>1, <1>2 DEF Distinct
    <2>4. k < j /\ before[k].order_id = after[k].order_id
      BY <2>2, <2>3, <1>1, <1>2
    <2> QED
      BY <2>2, <2>4
  <1> QED
    BY <1>2 DEF OrderKept, after

\* The whole book: every list that existed keeps its order.
OrdersAt(lv, side, p) == IF p \in DOMAIN lv[side] THEN lv[side][p].orders ELSE <<>>

PriorityKept(lv) ==
  \A side \in Sides : \A p \in DOMAIN levels[side] :
    OrderKept(levels[side][p].orders, OrdersAt(lv, side, p))

\* The lists of the book have their type and hold no order twice.
LEMMA DistinctLevels ==
  ASSUME IInv, NEW side \in Sides, NEW p \in DOMAIN levels[side]
  PROVE  /\ Distinct(levels[side][p].orders)
         /\ levels[side][p].orders \in Seq(Order)
         /\ levels[side][p] \in Level
  BY DEF IInv, Indexed, HeldOnce, Distinct, WellTyped, LevelMap, Level

\* A book that does not change keeps its order.
LEMMA NothingMoved == IInv => PriorityKept(levels)
  BY DistinctLevels, SamePlacesKeepOrder DEF PriorityKept, OrdersAt

\* A book of which one level changes keeps the order of every list if that level does.
LEMMA OneLevelStored ==
  ASSUME IInv, NEW side \in Sides, NEW p, NEW level \in Level,
         p \in DOMAIN levels[side] => OrderKept(levels[side][p].orders, level.orders),
         NEW lv, lv = LevelsStored(side, p, level)
  PROVE  PriorityKept(lv)
  <1>1. /\ lv[side] = Stored(side, p, level)
        /\ \A s \in Sides : s # side => lv[s] = levels[s]
    BY DEF IInv, WellTyped, LevelsStored
  <1>2. OrdersAt(lv, side, p) = level.orders
    BY <1>1 DEF Stored, Erase, Put, OrdersAt
  <1>3. ASSUME NEW s \in Sides, NEW q \in DOMAIN levels[s], ~(s = side /\ q = p)
        PROVE  OrdersAt(lv, s, q) = levels[s][q].orders
    <2>1. CASE s # side
      BY <2>1, <1>1 DEF OrdersAt
    <2>2. CASE s = side
      <3>1. q # p
        BY <2>2, <1>3
      <3>2. q \in DOMAIN lv[side] /\ lv[side][q] = levels[side][q]
        BY <3>1, <2>2, <1>1 DEF Stored, Erase, Put
      <3> QED
        BY <3>2, <2>2 DEF OrdersAt
    <2> QED
      BY <2>1, <2>2
  <1>4. ASSUME NEW s \in Sides, NEW q \in DOMAIN levels[s]
        PROVE  OrderKept(levels[s][q].orders, OrdersAt(lv, s, q))
    <2>1. CASE s = side /\ q = p
      BY <2>1, <1>2
    <2>2. CASE ~(s = side /\ q = p)
      <3>1. OrdersAt(lv, s, q) = levels[s][q].orders
        BY <2>2, <1>3
      <3>2. Distinct(levels[s][q].orders)
        BY DistinctLevels
      <3> QED
        BY <3>1, <3>2, SamePlacesKeepOrder
    <2> QED
      BY <2>1, <2>2
  <1> QED
    BY <1>4 DEF PriorityKept

\* Cancel and the first half of Modify.
LEMMA WithdrawalKeepsOrder ==
  ASSUME IInv, NEW id \in DOMAIN order_index
  PROVE  PriorityKept(LevelsWithout(id))
  <1>0. PICK side \in Sides :
          \E p \in DOMAIN levels[side] : \E i \in 1..Len(levels[side][p].orders) :
            LevelsWithout(id) = LevelsStored(side, p, LevelWithout(levels[side][p], i))
    BY WithdrawnLevel
  <1>1. PICK p \in DOMAIN levels[side] :
          \E i \in 1..Len(levels[side][p].orders) :
            LevelsWithout(id) = LevelsStored(side, p, LevelWithout(levels[side][p], i))
    BY <1>0
  <1>2. PICK i \in 1..Len(levels[side][p].orders) :
          LevelsWithout(id) = LevelsStored(side, p, LevelWithout(levels[side][p], i))
    BY <1>1
  <1> DEFINE old == levels[side][p].orders
             new == LevelWithout(levels[side][p], i)
  <1>3. /\ old \in Seq(Order) /\ Distinct(old) /\ levels[side][p] \in Level
    BY DistinctLevels
  <1>4. new.orders = RemoveAt(old, i)
    BY DEF LevelWithout
  <1>5. new \in Level
    <2>1. RemoveAt(old, i) \in Seq(Order)
      BY <1>3, RemoveAtFacts
    <2>2. old[i] \in Order
      BY <1>3
    <2>3. levels[side][p].total_qty - old[i].qty \in Int
      <3>1. levels[side][p].total_qty \in Int
        BY <1>3 DEF Level
      <3>2. old[i].qty \in Int
        BY <2>2 DEF Order
      <3> QED
        BY <3>1, <3>2
    <2> DEFINE total == levels[side][p].total_qty - old[i].qty
               rest  == RemoveAt(old, i)
    <2>4. new = [total_qty |-> total, orders |-> rest]
      BY DEF LevelWithout
    <2> HIDE DEF total, rest, new
    <2>5. total \in Int /\ rest \in Seq(Order)
      BY <2>1, <2>3 DEF total, rest
    <2> QED
      BY <2>4, <2>5 DEF Level
  <1>6. OrderKept(old, new.orders)
    BY <1>3, <1>4, RemovalKeepsOrder
  <1> HIDE DEF new
  <1> QED
    BY <1>2, <1>5, <1>6, OneLevelStored DEF new

\* A fill takes the first order away or leaves it first with less.
LEMMA FillKeepsOrder ==
  ASSUME IInv, Fill
  PROVE  PriorityKept(levels')
  <1> DEFINE old == TradedLevel.orders
             new == LevelAfterFill(TradedLevel, TradedQty)
  <1>1. /\ TradedSide \in Sides /\ TradedPrice \in DOMAIN levels[TradedSide]
        /\ old \in Seq(Order) /\ old # <<>> /\ Head(old) = old[1] /\ old[1] \in Order
        /\ TradedQty \in Nat \ {0} /\ TradedQty <= old[1].qty
        /\ TradedLevel.total_qty \in Int
        /\ levels' = LevelsStored(TradedSide, TradedPrice, new)
    BY FillFacts DEF LevelsStored
  <1>2. Distinct(old)
    BY <1>1, DistinctLevels DEF TradedLevel
  <1> HIDE DEF old
  <1>3. new \in Level /\ OrderKept(old, new.orders)
    <2>0. TradedLevel.total_qty - TradedQty \in Int
      BY <1>1
    <2>1. CASE old[1].qty = TradedQty
      <3>1. new = [total_qty |-> TradedLevel.total_qty - TradedQty, orders |-> Tail(old)]
        BY <2>1, <1>1 DEF LevelAfterFill, old
      <3>2. Tail(old) = RemoveAt(old, 1) /\ 1 \in 1..Len(old)
        BY <1>1, TailIsRemoveAt
      <3>3. RemoveAt(old, 1) \in Seq(Order) /\ OrderKept(old, RemoveAt(old, 1))
        BY <1>1, <1>2, <3>2, RemoveAtFacts, RemovalKeepsOrder
      <3> HIDE DEF new
      <3> QED
        BY <2>0, <3>1, <3>2, <3>3 DEF Level
    <2>2. CASE old[1].qty # TradedQty
      <3> DEFINE first  == [old[1] EXCEPT !.qty = old[1].qty - TradedQty]
                 joined == <<first>> \o Tail(old)
      <3>1. new = [total_qty |-> TradedLevel.total_qty - TradedQty, orders |-> joined]
        BY <2>2, <1>1 DEF LevelAfterFill, old
      <3>2. first \in Order /\ first.order_id = old[1].order_id
        <4>1. old[1].qty - TradedQty \in Nat \ {0}
          BY <2>2, <1>1 DEF Order
        <4> QED
          BY <4>1, <1>1 DEF Order
      <3> HIDE DEF first
      <3>3. /\ Tail(old) \in Seq(Order) /\ Len(Tail(old)) = Len(old) - 1
            /\ \A i \in 1..(Len(old) - 1) : Tail(old)[i] = old[i + 1]
            /\ Len(old) \in Nat \ {0} /\ DOMAIN old = 1..Len(old)
        BY <1>1
      <3>4. <<first>> \in Seq(Order) /\ Len(<<first>>) = 1 /\ <<first>>[1] = first
        BY <3>2
      <3>5. /\ joined \in Seq(Order) /\ Len(joined) = Len(old) /\ joined[1] = first
            /\ \A i \in 2..Len(old) : joined[i] = Tail(old)[i - 1]
        BY <3>3, <3>4
      <3> HIDE DEF joined
      <3>6. ASSUME NEW i \in DOMAIN old
            PROVE  joined[i].order_id = old[i].order_id
        <4>1. CASE i = 1
          BY <4>1, <3>2, <3>5
        <4>2. CASE i # 1
          <5>1. i \in 2..Len(old) /\ i - 1 \in 1..(Len(old) - 1) /\ (i - 1) + 1 = i
            BY <4>2, <3>3
          <5> QED
            BY <5>1, <3>3, <3>5
        <4> QED
          BY <4>1, <4>2
      <3>7. DOMAIN joined = DOMAIN old
        BY <3>3, <3>5
      <3>8. OrderKept(old, joined)
        BY <1>2, <3>6, <3>7, SamePlacesKeepOrder
      <3> HIDE DEF new
      <3> QED
        BY <2>0, <3>1, <3>5, <3>8 DEF Level
    <2> QED
      BY <2>1, <2>2
  <1>4. OrderKept(levels[TradedSide][TradedPrice].orders, new.orders)
    BY <1>3 DEF old, TradedLevel
  <1>5. new \in Level /\ TradedSide \in Sides /\ levels' = LevelsStored(TradedSide, TradedPrice, new)
    BY <1>1, <1>3
  <1> HIDE DEF new
  <1> QED
    BY <1>4, <1>5, OneLevelStored

\* A remainder joins the back of its level.
LEMMA ReturnKeepsOrder ==
  ASSUME IInv, Return
  PROVE  PriorityKept(levels')
  <1>1. CASE ~(incoming.qty > 0 /\ incoming.can_rest)
    <2>1. levels' = levels
      BY <1>1 DEF Return
    <2> QED
      BY <2>1, NothingMoved
  <1>2. CASE incoming.qty > 0 /\ incoming.can_rest
    <2> DEFINE side  == incoming.side
               price == incoming.price
               order == [order_id |-> incoming.order_id, price |-> price, qty |-> incoming.qty]
               old   == LevelAt(side, price)
               level == LevelWith(old, order)
    <2>1. /\ ~Idle /\ levels' = [levels EXCEPT ![side] = Put(levels[side], price, level)]
      BY <1>2 DEF Return
    <2>2. /\ side \in Sides /\ price \in Prices /\ incoming.order_id \in OrderIds
          /\ incoming.qty \in Nat \ {0} /\ incoming.order_id \notin DOMAIN order_index
      BY <1>2, <2>1 DEF IInv, CallTyped, Call, Idle, IncomingOutside
    <2>3. order \in Order /\ order.qty = incoming.qty /\ order.order_id = incoming.order_id
      BY <2>2 DEF Order
    <2>4. old \in Level /\ (price \in DOMAIN levels[side] => old = levels[side][price])
      <3>1. CASE price \in DOMAIN levels[side]
        BY <3>1, <2>2, DistinctLevels DEF LevelAt
      <3>2. CASE price \notin DOMAIN levels[side]
        BY <3>2 DEF LevelAt, Level
      <3> QED
        BY <3>1, <3>2
    <2>5. old.orders \in Seq(Order) /\ old.total_qty \in Int
      BY <2>4 DEF Level
    <2> HIDE DEF order, old
    <2>6. level = [total_qty |-> old.total_qty + order.qty, orders |-> Append(old.orders, order)]
      BY DEF LevelWith
    <2>7. Append(old.orders, order) \in Seq(Order) /\ Append(old.orders, order) # <<>>
      BY <2>3, <2>5, AppendProperties
    <2>8. level \in Level /\ level.orders # <<>> /\ level.orders = Append(old.orders, order)
      <3>1. old.total_qty + order.qty \in Int
        BY <2>2, <2>3, <2>5
      <3> HIDE DEF level
      <3> QED
        BY <3>1, <2>6, <2>7 DEF Level
    <2>9. price \in DOMAIN levels[side] => OrderKept(levels[side][price].orders, level.orders)
      <3> SUFFICES ASSUME price \in DOMAIN levels[side]
                   PROVE  OrderKept(old.orders, Append(old.orders, order))
        BY <2>4, <2>8
      <3>1. HeldOnce(old.orders, side, price, order_index)
        BY <2>2, <2>4 DEF IInv, Indexed
      <3>2. Distinct(old.orders)
        BY <3>1 DEF HeldOnce, Distinct
      <3>3. \A j \in DOMAIN old.orders : old.orders[j].order_id # order.order_id
        BY <3>1, <2>2, <2>3 DEF HeldOnce
      <3> QED
        BY <3>2, <3>3, <2>3, <2>5, AppendKeepsOrder
    <2> HIDE DEF level
    <2>10. levels' = LevelsStored(side, price, level)
      BY <2>1, <2>8 DEF LevelsStored, Stored
    <2> HIDE DEF side, price
    <2> QED
      BY <2>2, <2>8, <2>9, <2>10, OneLevelStored
  <1> QED
    BY <1>1, <1>2

\* Every step keeps the order of every list.
LEMMA StepKeepsOrder == IInv /\ [Next]_vars => [PriorityKept(levels')]_vars
  <1> SUFFICES ASSUME IInv, Next
               PROVE  PriorityKept(levels')
    OBVIOUS
  <1>1. CASE \E add \in AddRequests : Add(add)
    <2>1. levels' = levels
      BY <1>1 DEF Add, Reject
    <2> QED
      BY <2>1, NothingMoved
  <1>2. CASE \E id \in OrderIds : Cancel(id)
    <2>1. levels' = levels \/ \E id \in DOMAIN order_index : levels' = LevelsWithout(id)
      BY <1>2 DEF Cancel, Reject
    <2> QED
      BY <2>1, NothingMoved, WithdrawalKeepsOrder
  <1>3. CASE \E id \in OrderIds, price \in 0..MaxPrice, qty \in Quantities :
               Modify(id, price, qty)
    <2>1. PICK id \in OrderIds, price \in 0..MaxPrice, qty \in Quantities :
            Modify(id, price, qty)
      BY <1>3
    <2>2. CASE ModifyError(id, price, qty) # "None"
      <3>1. levels' = levels
        BY <2>1, <2>2 DEF Modify, Reject
      <3> QED
        BY <3>1, NothingMoved
    <2>3. CASE ModifyError(id, price, qty) = "None"
      <3>1. levels' = LevelsWithout(id)
        BY <2>1, <2>3 DEF Modify
      <3>2. id \in DOMAIN order_index
        BY <2>3 DEF ModifyError
      <3> QED
        BY <3>1, <3>2, WithdrawalKeepsOrder
    <2> QED
      BY <2>2, <2>3
  <1>4. CASE Fill
    BY <1>4, FillKeepsOrder
  <1>5. CASE Return
    BY <1>5, ReturnKeepsOrder
  <1> QED
    BY <1>1, <1>2, <1>3, <1>4, <1>5 DEF Next

\* Whoever is ahead of an order in its level was ahead of it before the step: no fill,
\* cancel, modify or arrival lets an order overtake another.
THEOREM PriorityIsKept == Spec => TimePriorityKept
  <1>1. IInv /\ [Next]_vars => [PriorityKept(levels')]_vars
    BY StepKeepsOrder
  <1>2. \A side, p : LevelAt(side, p)'.orders = OrdersAt(levels', side, p)
    BY DEF LevelAt, OrdersAt
  <1>3. Spec => []IInv
    BY InvariantHolds
  <1>4. [PriorityKept(levels')]_vars =>
          [\A side \in Sides : \A p \in DOMAIN levels[side] :
             LET before == levels[side][p].orders
                 after  == LevelAt(side, p)'.orders
             IN  \A k, l \in DOMAIN after : \A j \in DOMAIN before :
                   k < l /\ after[l].order_id = before[j].order_id
                   => \E i \in DOMAIN before : i < j /\ before[i].order_id = after[k].order_id]_vars
    BY <1>2 DEF PriorityKept, OrderKept
  <1> QED
    BY <1>1, <1>3, <1>4, PTL DEF Spec, TimePriorityKept

-------------------------------------------------------------------------------
(***************************************************************************)
(* Sums over some of the positions of a list.                              *)
(***************************************************************************)
\* sum runs over the quantities of the positions P of q.
Sums(q, P, sum) ==
  /\ sum[0] = 0
  /\ \A i \in 1..Len(q) : sum[i] = sum[i - 1] + (IF i \in P THEN q[i].qty ELSE 0)
  /\ \A i \in 0..Len(q) : sum[i] \in Nat

\* QtyOf is the last value of such a sum.
LEMMA QtyIsSum ==
  ASSUME NEW Entry, Counted(Entry), NEW q \in Seq(Entry), NEW P
  PROVE  \E sum : Sums(q, P, sum) /\ QtyOf(q, P) = sum[Len(q)]
  <1> DEFINE UpTo(n, sum) ==
               sum = [i \in 0..n |-> IF i = 0 THEN 0
                                     ELSE sum[i - 1] + (IF i \in P THEN q[i].qty ELSE 0)]
             reached == {n \in Nat : \E sum : UpTo(n, sum)}
  <1>1. 0 \in reached
    <2>1. UpTo(0, [i \in 0..0 |-> 0])
      OBVIOUS
    <2> QED
      BY <2>1
  <1>2. ASSUME NEW n \in Nat, n \in reached
        PROVE  n + 1 \in reached
    <2>1. PICK sum : UpTo(n, sum)
      BY <1>2
    <2> DEFINE step(i) == IF i \in P THEN q[i].qty ELSE 0
               more == [i \in 0..(n + 1) |-> IF i <= n THEN sum[i] ELSE sum[n] + step(n + 1)]
               next == [i \in 0..(n + 1) |-> IF i = 0 THEN 0 ELSE more[i - 1] + step(i)]
    <2>2. \A i \in 0..n : sum[i] = IF i = 0 THEN 0 ELSE sum[i - 1] + step(i)
      BY <2>1
    <2> HIDE DEF step
    <2>3. ASSUME NEW i \in 0..(n + 1)
          PROVE  more[i] = next[i]
      <3>1. CASE i = 0
        BY <3>1, <2>2
      <3>2. CASE i \in 1..n
        <4>1. /\ i - 1 \in 0..n /\ i - 1 <= n /\ i \in 0..n /\ i <= n /\ i # 0
              /\ i - 1 \in 0..(n + 1)
          BY <3>2
        <4> QED
          BY <4>1, <2>2
      <3>3. CASE i = n + 1
        <4>1. i - 1 = n /\ ~(i <= n) /\ i # 0 /\ n \in 0..(n + 1)
          BY <3>3
        <4> QED
          BY <4>1
      <3> QED
        BY <3>1, <3>2, <3>3
    <2>4. more = next
      BY <2>3
    <2>5. UpTo(n + 1, more)
      BY <2>4 DEF step
    <2> HIDE DEF UpTo, more
    <2>6. \E s : UpTo(n + 1, s)
      BY <2>5
    <2> QED
      BY <2>6
  <1>3. Len(q) \in Nat
    BY LenProperties
  <1>4. Len(q) \in reached
    <2> HIDE DEF reached
    <2> QED
      BY <1>1, <1>2, <1>3, NaturalsAreReached
  <1>5. \E sum : UpTo(Len(q), sum)
    BY <1>4
  <1> DEFINE last == CHOOSE sum : UpTo(Len(q), sum)
  <1>6. UpTo(Len(q), last)
    BY <1>5
  <1>7. QtyOf(q, P) = last[Len(q)]
    BY DEF QtyOf
  <1>8. /\ last[0] = 0
        /\ \A i \in 1..Len(q) : last[i] = last[i - 1] + (IF i \in P THEN q[i].qty ELSE 0)
    <2> HIDE DEF last
    <2>1. \A i \in 0..Len(q) :
            last[i] = IF i = 0 THEN 0
                      ELSE last[i - 1] + (IF i \in P THEN q[i].qty ELSE 0)
      BY <1>6
    <2> HIDE DEF UpTo
    <2> QED
      BY <1>3, <2>1
  <1> HIDE DEF last
  <1> DEFINE typed == {n \in Nat : n <= Len(q) => last[n] \in Nat}
  <1>9. 0 \in typed
    BY <1>8
  <1>10. ASSUME NEW n \in Nat, n \in typed
         PROVE  n + 1 \in typed
    <2> SUFFICES ASSUME n + 1 <= Len(q) PROVE last[n + 1] \in Nat
      OBVIOUS
    <2>1. n + 1 \in 1..Len(q) /\ (n + 1) - 1 = n /\ n <= Len(q)
      BY <1>3
    <2>2. q[n + 1].qty \in Nat
      BY <2>1, ElementOfSeq DEF Counted
    <2>3. last[n] \in Nat
      BY <2>1, <1>10
    <2> QED
      BY <2>1, <2>2, <2>3, <1>8
  <1>11. \A n \in Nat : n \in typed
    <2> HIDE DEF typed
    <2> QED
      BY <1>9, <1>10, NaturalsAreReached
  <1>12. \A i \in 0..Len(q) : last[i] \in Nat
    BY <1>11, <1>3
  <1> QED
    BY <1>7, <1>8, <1>12 DEF Sums

\* Any such sum ends with the same value.
LEMMA SumsAgree ==
  ASSUME NEW Entry, NEW q \in Seq(Entry), NEW P, NEW R,
         \A i \in 1..Len(q) : i \in P <=> i \in R,
         NEW s, Sums(q, P, s), NEW t, Sums(q, R, t)
  PROVE  \A i \in 0..Len(q) : s[i] = t[i]
  <1> DEFINE same == {n \in Nat : n <= Len(q) => s[n] = t[n]}
  <1>1. 0 \in same
    BY DEF Sums
  <1>2. ASSUME NEW n \in Nat, n \in same
        PROVE  n + 1 \in same
    <2> SUFFICES ASSUME n + 1 <= Len(q) PROVE s[n + 1] = t[n + 1]
      OBVIOUS
    <2>1. n + 1 \in 1..Len(q) /\ (n + 1) - 1 = n /\ n <= Len(q)
      BY LenProperties
    <2>2. s[n + 1] = s[n] + (IF n + 1 \in P THEN q[n + 1].qty ELSE 0)
      BY <2>1 DEF Sums
    <2>3. t[n + 1] = t[n] + (IF n + 1 \in R THEN q[n + 1].qty ELSE 0)
      BY <2>1 DEF Sums
    <2>4. s[n] = t[n]
      BY <2>1, <1>2
    <2> QED
      BY <2>1, <2>2, <2>3, <2>4
  <1>3. \A n \in Nat : n \in same
    <2> HIDE DEF same
    <2> QED
      BY <1>1, <1>2, NaturalsAreReached
  <1> QED
    BY <1>3

\* QtyOf is the last value of every such sum.
LEMMA QtyIs ==
  ASSUME NEW Entry, Counted(Entry), NEW q \in Seq(Entry), NEW P, NEW sum, Sums(q, P, sum)
  PROVE  QtyOf(q, P) = sum[Len(q)]
  <1>1. PICK s : Sums(q, P, s) /\ QtyOf(q, P) = s[Len(q)]
    BY QtyIsSum
  <1>2. s[Len(q)] = sum[Len(q)]
    <2>1. Len(q) \in 0..Len(q)
      BY LenProperties
    <2> QED
      BY <2>1, <1>1, SumsAgree
  <1> QED
    BY <1>1, <1>2

\* It is a natural, and positions that are not places of the list do not count.
LEMMA QtyFacts ==
  ASSUME NEW Entry, Counted(Entry), NEW q \in Seq(Entry), NEW P
  PROVE  /\ QtyOf(q, P) \in Nat
         /\ \A R : (\A i \in 1..Len(q) : i \in P <=> i \in R) => QtyOf(q, P) = QtyOf(q, R)
  <1>0. Len(q) \in 0..Len(q)
    BY LenProperties
  <1>1. PICK s : Sums(q, P, s) /\ QtyOf(q, P) = s[Len(q)]
    BY QtyIsSum
  <1>2. QtyOf(q, P) \in Nat
    BY <1>0, <1>1 DEF Sums
  <1>3. ASSUME NEW R, \A i \in 1..Len(q) : i \in P <=> i \in R
        PROVE  QtyOf(q, P) = QtyOf(q, R)
    <2>1. PICK t : Sums(q, R, t) /\ QtyOf(q, R) = t[Len(q)]
      BY QtyIsSum
    <2> QED
      BY <1>0, <1>1, <1>3, <2>1, SumsAgree
  <1> QED
    BY <1>2, <1>3

\* Nothing, everything's first part, and the rest.
LEMMA QtyOfNone ==
  ASSUME NEW Entry, Counted(Entry), NEW q \in Seq(Entry), NEW P,
         \A i \in 1..Len(q) : i \notin P
  PROVE  QtyOf(q, P) = 0
  <1> DEFINE zero == [i \in 0..Len(q) |-> 0]
  <1>1. Len(q) \in Nat
    BY LenProperties
  <1>2. Sums(q, P, zero)
    BY <1>1 DEF Sums
  <1>3. QtyOf(q, P) = zero[Len(q)]
    <2> HIDE DEF zero
    <2> QED
      BY <1>2, QtyIs
  <1> QED
    BY <1>1, <1>3

\* The first order counts alone, and the others as they do in the tail.
Shifted(P) == {i \in Nat : i + 1 \in P}

\* The sum over a queue is that of its first order and that over the others.
LEMMA QtyOfFirst ==
  ASSUME NEW Entry, Counted(Entry), NEW q \in Seq(Entry), q # <<>>, NEW P
  PROVE  QtyOf(q, P) = (IF 1 \in P THEN q[1].qty ELSE 0) + QtyOf(Tail(q), Shifted(P))
  <1> DEFINE tail  == Tail(q)
             first == IF 1 \in P THEN q[1].qty ELSE 0
             len   == Len(q)
  <1>1. /\ len \in Nat /\ len >= 1
        /\ tail \in Seq(Entry) /\ Len(tail) = len - 1
        /\ \A i \in 1..(len - 1) : tail[i] = q[i + 1]
    BY HeadTailProperties, EmptySeq, LenProperties
  <1>2. first \in Nat
    BY <1>1, ElementOfSeq DEF Counted
  <1> HIDE DEF tail, len
  <1>3. PICK s : Sums(tail, Shifted(P), s) /\ QtyOf(tail, Shifted(P)) = s[Len(tail)]
    BY <1>1, QtyIsSum
  <1> DEFINE sum == [i \in 0..len |-> IF i = 0 THEN 0 ELSE first + s[i - 1]]
  <1>4. /\ s[0] = 0
        /\ \A i \in 1..(len - 1) :
             s[i] = s[i - 1] + (IF i \in Shifted(P) THEN tail[i].qty ELSE 0)
        /\ \A i \in 0..(len - 1) : s[i] \in Nat
    BY <1>1, <1>3 DEF Sums
  <1>5. sum[0] = 0 /\ \A i \in 1..len : sum[i] = first + s[i - 1]
    BY <1>1
  <1>6. \A i \in 0..len : sum[i] \in Nat
    <2> HIDE DEF sum, first
    <2>1. ASSUME NEW i \in 1..len
          PROVE  sum[i] \in Nat
      <3>1. i - 1 \in 0..(len - 1)
        BY <1>1
      <3>2. s[i - 1] \in Nat
        BY <3>1, <1>4
      <3>3. sum[i] = first + s[i - 1]
        BY <1>5
      <3> QED
        BY <3>2, <3>3, <1>2
    <2>2. \A i \in 0..len : i = 0 \/ i \in 1..len
      BY <1>1
    <2> QED
      BY <2>1, <2>2, <1>5
  <1> HIDE DEF sum
  <1>7. ASSUME NEW i \in 1..len
        PROVE  sum[i] = sum[i - 1] + (IF i \in P THEN q[i].qty ELSE 0)
    <2>1. CASE i = 1
      <3>1. sum[1] = first + s[0] /\ sum[0] = 0
        BY <2>1, <1>5
      <3> QED
        BY <2>1, <3>1, <1>2, <1>4
    <2>2. CASE i # 1
      <3>1. i - 1 \in 1..len /\ i - 1 \in 1..(len - 1) /\ (i - 1) + 1 = i /\ i - 1 \in Nat
        BY <2>2, <1>1
      <3>2. (i - 1) - 1 \in 0..(len - 1)
        BY <3>1, <1>1
      <3>3. i - 1 \in Shifted(P) <=> i \in P
        BY <3>1 DEF Shifted
      <3>4. s[i - 1] = s[(i - 1) - 1] + (IF i \in P THEN q[i].qty ELSE 0)
        BY <3>1, <3>3, <1>1, <1>4
      <3>5. sum[i] = first + s[i - 1] /\ sum[i - 1] = first + s[(i - 1) - 1]
        BY <3>1, <1>5
      <3>6. s[(i - 1) - 1] \in Nat /\ (IF i \in P THEN q[i].qty ELSE 0) \in Nat
        BY <3>2, <1>4, ElementOfSeq DEF Counted, len
      <3> HIDE DEF first
      <3> QED
        BY <3>4, <3>5, <3>6, <1>2
    <2> QED
      BY <2>1, <2>2
  <1>8. Sums(q, P, sum)
    BY <1>5, <1>6, <1>7 DEF Sums, len
  <1>9. QtyOf(q, P) = sum[len]
    BY <1>8, QtyIs DEF len
  <1> QED
    BY <1>1, <1>3, <1>5, <1>9 DEF tail

-------------------------------------------------------------------------------
(***************************************************************************)
(* The closed forms of PriceTime, one order of the queue at a time.        *)
(***************************************************************************)
\* 1 and the successors of a set of positions.
LEMMA OneMorePosition ==
  ASSUME NEW m \in Nat, NEW T \in SUBSET (1..m), NEW S,
         \A i : i \in S <=> i \in 1..(m + 1) /\ (i = 1 \/ i - 1 \in T)
  PROVE  /\ Cardinality(T) \in Nat /\ Cardinality(T) <= m
         /\ Cardinality(S) = Cardinality(T) + 1
  <1> DEFINE up == {i \in 2..(m + 1) : i - 1 \in T}
             f  == [i \in T |-> i + 1]
  <1>1. IsFiniteSet(1..m) /\ Cardinality(1..m) = m
    BY FS_Interval
  <1>2. IsFiniteSet(T) /\ Cardinality(T) \in Nat /\ Cardinality(T) <= m
    BY <1>1, FS_Subset, FS_CardinalityType
  <1>3. ExistsBijection(T, up)
    <2>1. \A i \in T : i \in Nat /\ i + 1 \in up /\ (i + 1) - 1 = i
      OBVIOUS
    <2>2. f \in [T -> up] /\ \A i \in T : f[i] = i + 1
      BY <2>1
    <2>3. \A i, j \in T : f[i] = f[j] => i = j
      BY <2>1, <2>2
    <2>4. \A j \in up : j - 1 \in T /\ f[j - 1] = j
      BY <2>2
    <2> HIDE DEF f, up
    <2>5. f \in Bijection(T, up)
      BY <2>2, <2>3, <2>4 DEF Bijection, Injection, Surjection, IsInjective
    <2> QED
      BY <2>5 DEF ExistsBijection
  <1>4. IsFiniteSet(up) /\ Cardinality(up) = Cardinality(T)
    BY <1>2, <1>3, FS_Bijection
  <1>5. S = up \cup {1} /\ 1 \notin up
    OBVIOUS
  <1> HIDE DEF up
  <1>6. Cardinality(S) = Cardinality(up) + 1
    BY <1>4, <1>5, FS_AddElement
  <1> QED
    BY <1>2, <1>4, <1>6

\* Orders that rest at the given prices.
Rested(prices) == [order_id : OrderIds, price : prices, qty : Nat \ {0}]

\* Those of the engine rest at its prices.
LEMMA OrderIsRested == Order = Rested(Prices)
  BY DEF Order, Rested

\* Their quantities can be added up.
LEMMA RestedCount ==
  ASSUME NEW prices
  PROVE  Counted(Rested(prices))
  BY DEF Counted, Rested

\* A queue of orders and its tail.
LEMMA QueueFacts ==
  ASSUME NEW prices, NEW q \in Seq(Rested(prices))
  PROVE  /\ Len(q) \in Nat /\ DOMAIN q = 1..Len(q)
         /\ \A i \in 1..Len(q) : q[i] \in Rested(prices) /\ q[i].qty \in Nat \ {0}
         /\ q # <<>> => /\ Len(q) - 1 \in Nat
                        /\ Tail(q) \in Seq(Rested(prices)) /\ Len(Tail(q)) = Len(q) - 1
                        /\ \A i \in 1..(Len(q) - 1) : Tail(q)[i] = q[i + 1]
  <1>1. Len(q) \in Nat /\ DOMAIN q = 1..Len(q)
    BY LenProperties
  <1>2. \A i \in 1..Len(q) : q[i] \in Rested(prices)
    BY ElementOfSeq
  <1>3. \A i \in 1..Len(q) : q[i].qty \in Nat \ {0}
    BY <1>2 DEF Rested
  <1>4. ASSUME q # <<>>
        PROVE  /\ Len(q) - 1 \in Nat
               /\ Tail(q) \in Seq(Rested(prices)) /\ Len(Tail(q)) = Len(q) - 1
               /\ \A i \in 1..(Len(q) - 1) : Tail(q)[i] = q[i + 1]
    BY <1>4, <1>1, HeadTailProperties, EmptySeq
  <1> QED
    BY <1>1, <1>2, <1>3, <1>4

\* What stands ahead of a place.
LEMMA AheadFacts ==
  ASSUME NEW prices, NEW q \in Seq(Rested(prices))
  PROVE  /\ \A i : Ahead(q, i) \in Nat
         /\ Ahead(q, 1) = 0
         /\ q # <<>> => \A i \in 1..(Len(q) - 1) : Ahead(q, i + 1) = q[1].qty + Ahead(Tail(q), i)
  <1>1. \A i : Ahead(q, i) \in Nat
    BY RestedCount, QtyFacts DEF Ahead
  <1>2. Ahead(q, 1) = 0
    <2>1. \A i \in 1..Len(q) : i \notin 1..(1 - 1)
      OBVIOUS
    <2> QED
      BY <2>1, RestedCount, QtyOfNone DEF Ahead
  <1>3. ASSUME q # <<>>, NEW i \in 1..(Len(q) - 1)
        PROVE  Ahead(q, i + 1) = q[1].qty + Ahead(Tail(q), i)
    <2> DEFINE P == 1..((i + 1) - 1)
    <2>1. i \in Nat /\ 1 \in P
      BY <1>3, QueueFacts
    <2>2. \A j \in 1..Len(Tail(q)) : j \in Shifted(P) <=> j \in 1..(i - 1)
      BY <1>3, <2>1, QueueFacts DEF Shifted
    <2> HIDE DEF P
    <2>3. QtyOf(q, P) = q[1].qty + QtyOf(Tail(q), Shifted(P))
      BY <1>3, <2>1, RestedCount, QtyOfFirst
    <2>4. Tail(q) \in Seq(Rested(prices))
      BY <1>3, QueueFacts
    <2>5. QtyOf(Tail(q), Shifted(P)) = QtyOf(Tail(q), 1..(i - 1))
      BY <2>2, <2>4, RestedCount, QtyFacts
    <2> QED
      BY <2>3, <2>5 DEF Ahead, P
  <1> QED
    BY <1>1, <1>2, <1>3

\* An order that wants nothing, or reaches nothing, fills nothing.
LEMMA NothingFills ==
  ASSUME NEW prices, NEW q \in Seq(Rested(prices)), NEW in, in.qty \in Nat,
         in.qty = 0 \/ \A i \in 1..Len(q) : ~Reaches(in, q[i].price)
  PROVE  /\ TradesOf(in, q) = <<>>
         /\ AfterFills(in, q) = q
         /\ Executed(in, q) = 0
  <1> DEFINE touched == {i \in DOMAIN q : FillAt(in, q, i) > 0}
             gone    == {i \in DOMAIN q : FillAt(in, q, i) = q[i].qty}
             P       == {i \in DOMAIN q : Reaches(in, q[i].price)}
  <1>1. \A i \in 1..Len(q) : FillAt(in, q, i) = 0
    <2>1. \A i \in 1..Len(q) : Ahead(q, i) \in Nat
      BY AheadFacts
    <2> QED
      BY <2>1 DEF FillAt
  <1>2. touched = {} /\ gone = {}
    BY <1>1, QueueFacts
  <1>3. Cardinality({}) = 0
    BY FS_EmptySet
  <1>4. TradesOf(in, q) = <<>>
    <2>1. TradesOf(in, q) = [i \in 1..Cardinality(touched) |->
                               [resting_order_id |-> q[i].order_id,
                                price            |-> q[i].price,
                                qty              |-> FillAt(in, q, i)]]
      BY DEF TradesOf
    <2> HIDE DEF touched
    <2>2. 1..Cardinality(touched) = {}
      BY <1>2, <1>3
    <2> QED
      BY <2>1, <2>2
  <1>5. AfterFills(in, q) = q
    <2>1. AfterFills(in, q) = [i \in 1..(Len(q) - Cardinality(gone)) |->
                                 [q[i + Cardinality(gone)] EXCEPT
                                    !.qty = @ - FillAt(in, q, i + Cardinality(gone))]]
      BY DEF AfterFills
    <2> HIDE DEF gone
    <2>2. Cardinality(gone) = 0 /\ Len(q) \in Nat /\ Len(q) - Cardinality(gone) = Len(q)
      BY <1>2, <1>3, QueueFacts
    <2>3. q = [i \in 1..Len(q) |-> q[i]]
      BY LenProperties
    <2>4. ASSUME NEW i \in 1..Len(q)
          PROVE  [q[i + Cardinality(gone)] EXCEPT
                    !.qty = @ - FillAt(in, q, i + Cardinality(gone))] = q[i]
      <3>1. i + Cardinality(gone) = i
        BY <2>2
      <3>2. q[i] \in Rested(prices) /\ q[i].qty \in Nat /\ FillAt(in, q, i) = 0
        BY <1>1, QueueFacts
      <3>3. q[i].qty - FillAt(in, q, i) = q[i].qty
        BY <3>2
      <3> QED
        BY <3>1, <3>2, <3>3 DEF Rested
    <2> QED
      BY <2>1, <2>2, <2>3, <2>4
  <1>6. Executed(in, q) = 0
    <2>1. Available(in, q) = QtyOf(q, P)
      BY DEF Available
    <2>2. QtyOf(q, P) \in Nat
      BY RestedCount, QtyFacts
    <2>3. in.qty = 0 \/ QtyOf(q, P) = 0
      <3>1. ASSUME \A i \in 1..Len(q) : ~Reaches(in, q[i].price)
            PROVE  QtyOf(q, P) = 0
        <4>1. \A i \in 1..Len(q) : i \notin P
          BY <3>1
        <4> HIDE DEF P
        <4> QED
          BY <4>1, RestedCount, QtyOfNone
      <3> QED
        BY <3>1
    <2> HIDE DEF P
    <2> QED
      BY <2>1, <2>2, <2>3 DEF Executed, Smaller
  <1> QED
    BY <1>4, <1>5, <1>6

\* The same order, wanting n less.
WantsLess(in, out, n) ==
  /\ in.qty \in Nat /\ n \in Nat /\ n <= in.qty /\ out.qty = in.qty - n
  /\ out.is_market = in.is_market /\ out.side = in.side /\ out.price = in.price

\* The trade with the first order of the queue.
FirstTrade(q, n) == [resting_order_id |-> q[1].order_id, price |-> q[1].price, qty |-> n]

\* Once the first order is filled, the rest of the queue is filled as if it had not been
\* there.
LEMMA FirstFilled ==
  ASSUME NEW prices, NEW q \in Seq(Rested(prices)), q # <<>>,
         NEW in, Reaches(in, q[1].price), q[1].qty <= in.qty,
         NEW out, WantsLess(in, out, q[1].qty)
  PROVE  /\ FillAt(in, q, 1) = q[1].qty
         /\ \A i \in 1..(Len(q) - 1) : FillAt(in, q, i + 1) = FillAt(out, Tail(q), i)
         /\ \A i \in 1..(Len(q) - 1) : FillAt(out, Tail(q), i) \in Nat
  <1>1. /\ 1 \in 1..Len(q) /\ q[1].qty \in Nat \ {0} /\ in.qty \in Nat /\ out.qty = in.qty - q[1].qty
        /\ out.qty \in Nat
    BY QueueFacts, EmptySeq DEF WantsLess
  <1>2. FillAt(in, q, 1) = q[1].qty
    <2>1. Ahead(q, 1) = 0
      BY AheadFacts
    <2> QED
      BY <1>1, <2>1 DEF FillAt, Smaller
  <1>3. ASSUME NEW i \in 1..(Len(q) - 1)
        PROVE  /\ FillAt(in, q, i + 1) = FillAt(out, Tail(q), i)
               /\ FillAt(out, Tail(q), i) \in Nat
    <2> DEFINE tail == Tail(q)
               a == Ahead(tail, i)
               b == Ahead(q, i + 1)
    <2>1. /\ tail \in Seq(Rested(prices)) /\ tail[i] = q[i + 1] /\ i + 1 \in 1..Len(q)
          /\ q[i + 1].qty \in Nat
      BY QueueFacts
    <2> HIDE DEF tail
    <2>2. a \in Nat /\ b = q[1].qty + a
      BY <2>1, AheadFacts DEF tail
    <2>3. Reaches(in, q[i + 1].price) <=> Reaches(out, tail[i].price)
      BY <2>1 DEF Reaches, WantsLess
    <2>4. FillAt(in, q, i + 1) = IF ~Reaches(in, q[i + 1].price) \/ b >= in.qty THEN 0
                                 ELSE Smaller(q[i + 1].qty, in.qty - b)
      BY DEF FillAt
    <2>5. FillAt(out, tail, i) = IF ~Reaches(out, tail[i].price) \/ a >= out.qty THEN 0
                                 ELSE Smaller(tail[i].qty, out.qty - a)
      BY DEF FillAt
    <2> HIDE DEF a, b
    <2>6. b >= in.qty <=> a >= out.qty
      BY <1>1, <2>2
    <2>7. in.qty - b = out.qty - a
      BY <1>1, <2>2
    <2>8. FillAt(in, q, i + 1) = FillAt(out, tail, i)
      BY <2>1, <2>3, <2>4, <2>5, <2>6, <2>7
    <2>9. FillAt(out, tail, i) \in Nat
      BY <2>1, <2>2, <2>5, <1>1 DEF Smaller
    <2> QED
      BY <2>8, <2>9 DEF tail
  <1> QED
    BY <1>2, <1>3

\* An order that outlasts the first of the queue fills it and goes on with the others.
LEMMA FullFill ==
  ASSUME NEW prices, NEW q \in Seq(Rested(prices)), q # <<>>,
         NEW in, Reaches(in, q[1].price), q[1].qty <= in.qty,
         NEW out, WantsLess(in, out, q[1].qty)
  PROVE  /\ TradesOf(in, q) = <<FirstTrade(q, q[1].qty)>> \o TradesOf(out, Tail(q))
         /\ AfterFills(in, q) = AfterFills(out, Tail(q))
         /\ Executed(in, q) = q[1].qty + Executed(out, Tail(q))
         /\ \E S : TradesOf(in, q) \in Seq(S) /\ TradesOf(out, Tail(q)) \in Seq(S)
  <1> DEFINE tail  == Tail(q)
             m     == Len(q) - 1
             first == q[1].qty
             hit(o, s)  == {i \in DOMAIN s : FillAt(o, s, i) > 0}
             gone(o, s) == {i \in DOMAIN s : FillAt(o, s, i) = s[i].qty}
             Trade(o, s, i) == [resting_order_id |-> s[i].order_id, price |-> s[i].price,
                                qty |-> FillAt(o, s, i)]
  <1>1. /\ m \in Nat /\ Len(q) = m + 1 /\ DOMAIN q = 1..(m + 1)
        /\ tail \in Seq(Rested(prices)) /\ Len(tail) = m /\ DOMAIN tail = 1..m
        /\ \A i \in 1..m : tail[i] = q[i + 1]
        /\ first \in Nat \ {0} /\ 1 \in 1..(m + 1)
    <2>1. /\ m \in Nat /\ Len(q) = m + 1 /\ 1 \in 1..(m + 1) /\ DOMAIN q = 1..(m + 1)
          /\ tail \in Seq(Rested(prices)) /\ Len(tail) = m
          /\ \A i \in 1..m : tail[i] = q[i + 1]
      BY QueueFacts
    <2>2. DOMAIN tail = 1..m
      BY <2>1, LenProperties
    <2>3. first \in Nat \ {0}
      BY <2>1, QueueFacts
    <2> QED
      BY <2>1, <2>2, <2>3
  <1>2. /\ FillAt(in, q, 1) = first
        /\ \A i \in 1..m : FillAt(in, q, i + 1) = FillAt(out, tail, i)
        /\ \A i \in 1..m : FillAt(out, tail, i) \in Nat
    BY FirstFilled
  <1> HIDE DEF tail, m, first
  <1>3. \A i \in 2..(m + 1) : i - 1 \in 1..m /\ (i - 1) + 1 = i
    BY <1>1
  <1>4. /\ Cardinality(hit(out, tail)) \in Nat /\ Cardinality(hit(out, tail)) <= m
        /\ Cardinality(hit(in, q)) = Cardinality(hit(out, tail)) + 1
    <2>1. hit(out, tail) \in SUBSET (1..m)
      BY <1>1
    <2>2. \A i : i \in hit(in, q) <=> i \in 1..(m + 1) /\ (i = 1 \/ i - 1 \in hit(out, tail))
      <3>1. ASSUME NEW i \in 2..(m + 1)
            PROVE  i \in hit(in, q) <=> i - 1 \in hit(out, tail)
        <4>1. FillAt(in, q, i) = FillAt(out, tail, i - 1)
          BY <1>2, <1>3
        <4> QED
          BY <4>1, <1>1, <1>3
      <3>2. 1 \in hit(in, q)
        BY <1>1, <1>2
      <3>3. hit(in, q) \subseteq 1..(m + 1) /\ \A i \in 1..(m + 1) : i = 1 \/ i \in 2..(m + 1)
        BY <1>1
      <3>4. ~(0 \in hit(out, tail))
        BY <1>1
      <3> HIDE DEF hit
      <3> QED
        BY <3>1, <3>2, <3>3, <3>4, <1>1
    <2> HIDE DEF hit
    <2> QED
      BY <2>1, <2>2, <1>1, OneMorePosition
  <1>5. /\ Cardinality(gone(out, tail)) \in Nat /\ Cardinality(gone(out, tail)) <= m
        /\ Cardinality(gone(in, q)) = Cardinality(gone(out, tail)) + 1
    <2>1. gone(out, tail) \in SUBSET (1..m)
      BY <1>1
    <2>2. \A i : i \in gone(in, q) <=> i \in 1..(m + 1) /\ (i = 1 \/ i - 1 \in gone(out, tail))
      <3>1. ASSUME NEW i \in 2..(m + 1)
            PROVE  i \in gone(in, q) <=> i - 1 \in gone(out, tail)
        <4>1. FillAt(in, q, i) = FillAt(out, tail, i - 1) /\ tail[i - 1] = q[i]
          BY <1>1, <1>2, <1>3
        <4> QED
          BY <4>1, <1>1, <1>3
      <3>2. 1 \in gone(in, q)
        BY <1>1, <1>2 DEF first
      <3>3. gone(in, q) \subseteq 1..(m + 1) /\ \A i \in 1..(m + 1) : i = 1 \/ i \in 2..(m + 1)
        BY <1>1
      <3> HIDE DEF gone
      <3> QED
        BY <3>1, <3>2, <3>3, <1>1
    <2> HIDE DEF gone
    <2> QED
      BY <2>1, <2>2, <1>1, OneMorePosition
  <1> DEFINE h == Cardinality(hit(out, tail))
             g == Cardinality(gone(out, tail))
             now  == TradesOf(in, q)
             then == TradesOf(out, tail)
             S    == {Trade(in, q, i) : i \in 1..(m + 1)}
  <1>6. now = [i \in 1..(h + 1) |-> Trade(in, q, i)] /\ then = [i \in 1..h |-> Trade(out, tail, i)]
    BY <1>4 DEF TradesOf
  <1>7. h \in Nat /\ h <= m /\ g \in Nat /\ g <= m
    BY <1>4, <1>5
  <1>8. AfterFills(in, q) = AfterFills(out, tail)
    <2>1. AfterFills(in, q) = [i \in 1..((m + 1) - (g + 1)) |->
                                 [q[i + (g + 1)] EXCEPT !.qty = @ - FillAt(in, q, i + (g + 1))]]
      BY <1>1, <1>5 DEF AfterFills
    <2>2. AfterFills(out, tail) = [i \in 1..(m - g) |->
                                     [tail[i + g] EXCEPT !.qty = @ - FillAt(out, tail, i + g)]]
      BY <1>1 DEF AfterFills
    <2> HIDE DEF g
    <2>3. (m + 1) - (g + 1) = m - g
      BY <1>1, <1>7
    <2>4. \A i \in 1..(m - g) : i + g \in 1..m /\ i + (g + 1) = (i + g) + 1
      BY <1>1, <1>7
    <2>5. \A i \in 1..(m - g) : /\ q[i + (g + 1)] = tail[i + g]
                                /\ FillAt(in, q, i + (g + 1)) = FillAt(out, tail, i + g)
      BY <2>4, <1>1, <1>2
    <2> QED
      BY <2>1, <2>2, <2>3, <2>5
  <1> HIDE DEF h, g, now, then
  <1>9. \A i \in 1..m : Trade(in, q, i + 1) = Trade(out, tail, i)
    BY <1>1, <1>2
  <1>10. Trade(in, q, 1) = FirstTrade(q, first)
    BY <1>2 DEF FirstTrade, first
  <1>11. /\ \A i \in 1..(h + 1) : Trade(in, q, i) \in S
         /\ \A i \in 1..h : Trade(out, tail, i) \in S
         /\ FirstTrade(q, first) \in S
    <2>1. /\ \A i \in 1..(h + 1) : i \in 1..(m + 1)
          /\ \A i \in 1..h : i \in 1..m /\ i + 1 \in 1..(m + 1)
          /\ 1 \in 1..(m + 1)
      BY <1>1, <1>7
    <2>2. \A i \in 1..h : Trade(out, tail, i) = Trade(in, q, i + 1)
      BY <2>1, <1>9
    <2> HIDE DEF Trade
    <2> QED
      BY <2>1, <2>2, <1>10
  <1> HIDE DEF S, Trade
  <1>12. now \in Seq(S) /\ Len(now) = h + 1 /\ \A i \in 1..(h + 1) : now[i] = Trade(in, q, i)
    BY <1>6, <1>7, <1>11
  <1>13. then \in Seq(S) /\ Len(then) = h /\ \A i \in 1..h : then[i] = Trade(out, tail, i)
    BY <1>6, <1>7, <1>11
  <1>14. now = <<FirstTrade(q, first)>> \o then
    <2> DEFINE one == <<FirstTrade(q, first)>>
    <2>1. one \in Seq(S) /\ Len(one) = 1 /\ one[1] = FirstTrade(q, first)
      BY <1>11
    <2> HIDE DEF one
    <2>2. /\ one \o then \in Seq(S) /\ Len(one \o then) = 1 + h
          /\ \A i \in 1..(1 + h) : (one \o then)[i] = IF i <= 1 THEN one[i] ELSE then[i - 1]
      <3>1. /\ one \o then \in Seq(S) /\ Len(one \o then) = Len(one) + Len(then)
            /\ \A i \in 1..(Len(one) + Len(then)) :
                 (one \o then)[i] = IF i <= Len(one) THEN one[i] ELSE then[i - Len(one)]
        BY <2>1, <1>13, ConcatProperties
      <3>2. Len(one) + Len(then) = 1 + h
        BY <2>1, <1>13
      <3> QED
        BY <3>1, <3>2, <2>1
    <2>3. ASSUME NEW i \in 1..Len(now)
          PROVE  now[i] = (one \o then)[i]
      <3>1. i \in 1..(h + 1) /\ i \in 1..(1 + h)
        BY <1>7, <1>12
      <3>2. CASE i = 1
        BY <3>1, <3>2, <2>1, <2>2, <1>10, <1>12
      <3>3. CASE i # 1
        <4>1. i - 1 \in 1..h /\ i - 1 \in 1..m /\ (i - 1) + 1 = i /\ ~(i <= 1)
          BY <3>1, <3>3, <1>1, <1>7
        <4>2. (one \o then)[i] = Trade(out, tail, i - 1)
          BY <4>1, <3>1, <2>2, <1>13
        <4>3. Trade(out, tail, i - 1) = Trade(in, q, i)
          BY <4>1, <1>9
        <4> QED
          BY <4>2, <4>3, <3>1, <1>12
      <3> QED
        BY <3>2, <3>3
    <2>4. Len(now) = Len(one \o then)
      BY <2>2, <1>7, <1>12
    <2>5. now = one \o then
      BY <2>2, <2>3, <2>4, <1>12, SeqEqual
    <2> QED
      BY <2>5 DEF one
  <1>15. Executed(in, q) = first + Executed(out, tail)
    <2> DEFINE P == {i \in DOMAIN q : Reaches(in, q[i].price)}
               R == {i \in DOMAIN tail : Reaches(out, tail[i].price)}
               u == QtyOf(q, P)
               v == QtyOf(tail, R)
    <2>1. \A i \in 1..Len(tail) : i \in Shifted(P) <=> i \in R
      <3>1. ASSUME NEW i \in 1..m
            PROVE  i \in Shifted(P) <=> i \in R
        <4>1. i \in Nat /\ i + 1 \in 1..(m + 1) /\ q[i + 1] = tail[i]
          BY <1>1
        <4>2. Reaches(in, q[i + 1].price) <=> Reaches(out, tail[i].price)
          BY <4>1 DEF Reaches, WantsLess
        <4> QED
          BY <4>1, <4>2, <1>1 DEF Shifted
      <3> QED
        BY <3>1, <1>1
    <2>2. 1 \in P
      BY <1>1
    <2>3. Available(in, q) = u /\ Available(out, tail) = v
      BY DEF Available
    <2> HIDE DEF P, R
    <2>4. u = first + QtyOf(tail, Shifted(P))
      BY <2>2, RestedCount, QtyOfFirst DEF tail, first
    <2>5. QtyOf(tail, Shifted(P)) = v /\ v \in Nat
      BY <2>1, <1>1, RestedCount, QtyFacts
    <2> HIDE DEF u, v
    <2>6. in.qty \in Nat /\ out.qty = in.qty - first /\ out.qty \in Nat
      BY <1>1 DEF WantsLess, first
    <2> QED
      BY <2>3, <2>4, <2>5, <2>6, <1>1 DEF Executed, Smaller
  <1>16. \E T : now \in Seq(T) /\ then \in Seq(T)
    BY <1>12, <1>13
  <1> QED
    BY <1>8, <1>14, <1>15, <1>16 DEF now, then, tail, first

\* An order that asks for less than the first order has is filled.
LEMMA PartTakesAll ==
  ASSUME NEW prices, NEW q \in Seq(Rested(prices)), q # <<>>, NEW in, in.qty \in Nat \ {0},
         Reaches(in, q[1].price), in.qty < q[1].qty
  PROVE  Executed(in, q) = in.qty
  <1> DEFINE P == {i \in DOMAIN q : Reaches(in, q[i].price)}
  <1>1. 1 \in DOMAIN q /\ q[1].qty \in Nat \ {0}
    BY QueueFacts, EmptySeq
  <1>2. 1 \in P /\ Available(in, q) = QtyOf(q, P)
    BY <1>1 DEF Available
  <1> HIDE DEF P
  <1>3. QtyOf(q, P) = q[1].qty + QtyOf(Tail(q), Shifted(P))
    BY <1>2, RestedCount, QtyOfFirst
  <1>4. QtyOf(Tail(q), Shifted(P)) \in Nat
    BY QueueFacts, RestedCount, QtyFacts
  <1> QED
    BY <1>1, <1>2, <1>3, <1>4 DEF Executed, Smaller

\* What is left of the first order of a queue that n is taken from.
FirstLess(q, n) == [q[1] EXCEPT !.qty = @ - n]

\* A sequence whose first entry is replaced keeps its length and its other entries.
FirstIs(s, new, x) == Len(new) = Len(s) /\ new[1] = x /\ \A i \in 2..Len(s) : new[i] = s[i]

\* An order that asks for less than the first order has takes it all from there.
LEMMA PartialFill ==
  ASSUME NEW prices, NEW q \in Seq(Rested(prices)), q # <<>>, NEW in, in.qty \in Nat \ {0},
         Reaches(in, q[1].price), in.qty < q[1].qty,
         NEW rest \in Seq(Rested(prices)), FirstIs(q, rest, FirstLess(q, in.qty))
  PROVE  /\ TradesOf(in, q) = <<FirstTrade(q, in.qty)>>
         /\ AfterFills(in, q) = rest
         /\ Executed(in, q) = in.qty
  <1> DEFINE n     == Len(q)
             hit   == {i \in DOMAIN q : FillAt(in, q, i) > 0}
             gone  == {i \in DOMAIN q : FillAt(in, q, i) = q[i].qty}
  <1>1. /\ n \in Nat /\ 1 \in 1..n /\ DOMAIN q = 1..n
        /\ \A i \in 1..n : q[i] \in Rested(prices) /\ q[i].qty \in Nat \ {0}
    BY QueueFacts, EmptySeq
  <1>2. FillAt(in, q, 1) = in.qty
    <2>1. Ahead(q, 1) = 0
      BY AheadFacts
    <2> QED
      BY <1>1, <2>1 DEF FillAt, Smaller
  <1>3. ASSUME NEW i \in 2..n
        PROVE  FillAt(in, q, i) = 0
    <2>1. i - 1 \in 1..(n - 1) /\ (i - 1) + 1 = i
      BY <1>1
    <2>2. Tail(q) \in Seq(Rested(prices))
      BY QueueFacts
    <2>3. Ahead(q, i) = q[1].qty + Ahead(Tail(q), i - 1)
      BY <2>1, AheadFacts
    <2>4. Ahead(Tail(q), i - 1) \in Nat
      BY <2>2, AheadFacts
    <2>5. Ahead(q, i) >= in.qty
      BY <2>3, <2>4, <1>1
    <2> QED
      BY <2>5 DEF FillAt
  <1>4. \A i \in 1..n : i = 1 \/ i \in 2..n
    BY <1>1
  <1>5. hit = {1}
    <2>1. \A i \in 1..n : FillAt(in, q, i) > 0 <=> i = 1
      BY <1>2, <1>3, <1>4
    <2> QED
      BY <2>1, <1>1
  <1>6. gone = {}
    <2>1. \A i \in 1..n : FillAt(in, q, i) # q[i].qty
      BY <1>1, <1>2, <1>3, <1>4
    <2> QED
      BY <2>1, <1>1
  <1> HIDE DEF n
  <1>7. TradesOf(in, q) = <<FirstTrade(q, in.qty)>>
    <2>1. TradesOf(in, q) = [i \in 1..Cardinality(hit) |->
                               [resting_order_id |-> q[i].order_id,
                                price            |-> q[i].price,
                                qty              |-> FillAt(in, q, i)]]
      BY DEF TradesOf
    <2> HIDE DEF hit
    <2>2. Cardinality(hit) = 1
      BY <1>5, FS_Singleton
    <2>3. TradesOf(in, q) = [i \in 1..1 |-> FirstTrade(q, in.qty)]
      <3>1. \A i \in 1..1 : i = 1
        OBVIOUS
      <3> QED
        BY <2>1, <2>2, <3>1, <1>2 DEF FirstTrade
    <2> QED
      BY <2>3
  <1>8. AfterFills(in, q) = rest
    <2>1. AfterFills(in, q) = [i \in 1..(n - Cardinality(gone)) |->
                                 [q[i + Cardinality(gone)] EXCEPT
                                    !.qty = @ - FillAt(in, q, i + Cardinality(gone))]]
      BY DEF AfterFills, n
    <2> HIDE DEF gone
    <2>2. Cardinality(gone) = 0 /\ n - Cardinality(gone) = n
      BY <1>1, <1>6, FS_EmptySet
    <2>3. rest = [i \in 1..n |-> rest[i]]
      BY LenProperties DEF n, FirstIs
    <2>4. ASSUME NEW i \in 1..n
          PROVE  [q[i + Cardinality(gone)] EXCEPT
                    !.qty = @ - FillAt(in, q, i + Cardinality(gone))] = rest[i]
      <3>1. i + Cardinality(gone) = i
        BY <2>2, <1>1
      <3>2. CASE i = 1
        BY <3>1, <3>2, <1>2 DEF FirstIs, FirstLess
      <3>3. CASE i # 1
        <4>1. i \in 2..n /\ rest[i] = q[i] /\ q[i] \in Rested(prices) /\ q[i].qty \in Nat
          BY <3>3, <1>1, <1>4 DEF n, FirstIs
        <4>2. q[i].qty - FillAt(in, q, i) = q[i].qty
          BY <4>1, <1>3
        <4> QED
          BY <3>1, <4>1, <4>2 DEF Rested
      <3> QED
        BY <3>2, <3>3
    <2> QED
      BY <2>1, <2>2, <2>3, <2>4
  <1>9. Executed(in, q) = in.qty
    BY PartTakesAll
  <1> QED
    BY <1>7, <1>8, <1>9

-------------------------------------------------------------------------------
(***************************************************************************)
(* What the book publishes: the lists of its levels put end to end.        *)
(***************************************************************************)
ListsOf(lv, side) == [k \in 1..MaxPrice |-> OrdersAt(lv, side, Ranked(side, k))]

\* OrdersOf, for any levels.
QueueOf(lv, side) == FlattenSeq(ListsOf(lv, side))

\* The queue of a side and the places where its lists end.
Queued(lv, side, ends) ==
  /\ ListsIn(Order, ListsOf(lv, side), MaxPrice)
  /\ EndToEnd(ListsOf(lv, side), MaxPrice, ends, QueueOf(lv, side))

\* They are lists of orders, one for each price.
LEMMA ListsAreTyped ==
  ASSUME NEW lv, NEW ix, WellTyped(lv, ix), NEW side \in Sides
  PROVE  /\ ListsIn(Order, ListsOf(lv, side), MaxPrice)
         /\ ListsOf(lv, side) \in Seq(Seq(Order)) /\ Len(ListsOf(lv, side)) = MaxPrice
  <1>1. \A p : OrdersAt(lv, side, p) \in Seq(Order)
    BY EmptySeq DEF OrdersAt, WellTyped, LevelMap, Level
  <1>2. MaxPrice \in Nat
    BY PriceAssumption
  <1> QED
    BY <1>1, <1>2 DEF ListsIn, ListsOf

\* The queue of a side is those lists put end to end.
LEMMA QueueIsJoined ==
  ASSUME NEW lv, NEW ix, WellTyped(lv, ix), NEW side \in Sides
  PROVE  QueueOf(lv, side) \in Seq(Order) /\ \E ends : Queued(lv, side, ends)
  <1> DEFINE lists == ListsOf(lv, side)
             flatten == CHOOSE f : Flattened(lists, MaxPrice, f)
  <1>1. ListsIn(Order, lists, MaxPrice) /\ Len(lists) = MaxPrice /\ MaxPrice \in Nat \ {0}
    BY ListsAreTyped, PriceAssumption
  <1> HIDE DEF lists
  <1>2. Flattened(lists, MaxPrice, flatten)
    BY <1>1, FlattenedExists
  <1>3. FlattenSeq(lists) = flatten[MaxPrice]
    BY <1>1 DEF FlattenSeq, Flattened
  <1> HIDE DEF flatten
  <1>4. flatten[MaxPrice] \in Seq(Order) /\ \E ends : EndToEnd(lists, MaxPrice, ends, flatten[MaxPrice])
    BY <1>1, <1>2, FlattenedIsJoined
  <1> QED
    BY <1>1, <1>3, <1>4 DEF lists, QueueOf, Queued

\* The lists of a book determine its queue.
LEMMA QueueIs ==
  ASSUME NEW lv, NEW ix, WellTyped(lv, ix), NEW side \in Sides,
         NEW ends, NEW q \in Seq(Order), EndToEnd(ListsOf(lv, side), MaxPrice, ends, q)
  PROVE  QueueOf(lv, side) = q
  <1>1. PICK e : Queued(lv, side, e)
    BY QueueIsJoined
  <1> QED
    BY <1>1, QueueIsJoined, JoinedOnce, PriceAssumption DEF Queued

\* OrdersOf, the queue that the refinement shows, is the queue of the levels.
LEMMA OrdersOfIs == \A side \in Sides : OrdersOf(side) = QueueOf(levels, side)
  BY DEF OrdersOf, QueueOf, ListsOf, LevelAt, OrdersAt

\* The order at a place of the queue is in the list of its price.
PlacedOrder(lv, ix, side, ends, i) ==
  \E k \in 1..MaxPrice : \E j \in 1..Len(OrdersAt(lv, side, Ranked(side, k))) :
    /\ i = ends[k - 1] + j
    /\ QueueOf(lv, side)[i] = OrdersAt(lv, side, Ranked(side, k))[j]
    /\ QueueOf(lv, side)[i].price = Ranked(side, k)
    /\ QueueOf(lv, side)[i].order_id \in DOMAIN ix
    /\ ix[QueueOf(lv, side)[i].order_id] = [side |-> side, price |-> Ranked(side, k)]

\* What the index says of the lists, empty ones included.
LEMMA OrdersAtHeld ==
  ASSUME NEW lv, NEW ix, WellTyped(lv, ix), Indexed(lv, ix), NEW side \in Sides, NEW p
  PROVE  /\ OrdersAt(lv, side, p) \in Seq(Order)
         /\ \A j \in 1..Len(OrdersAt(lv, side, p)) :
              /\ OrdersAt(lv, side, p)[j].price = p
              /\ OrdersAt(lv, side, p)[j].order_id \in DOMAIN ix
              /\ ix[OrdersAt(lv, side, p)[j].order_id] = [side |-> side, price |-> p]
         /\ \A i, j \in 1..Len(OrdersAt(lv, side, p)) :
              OrdersAt(lv, side, p)[i].order_id = OrdersAt(lv, side, p)[j].order_id => i = j
  <1>1. CASE p \in DOMAIN lv[side]
    <2>1. lv[side][p].orders \in Seq(Order)
      BY <1>1 DEF WellTyped, LevelMap, Level
    <2>2. HeldOnce(lv[side][p].orders, side, p, ix)
      BY <1>1 DEF Indexed
    <2> QED
      BY <1>1, <2>1, <2>2, LenProperties DEF HeldOnce, OrdersAt
  <1>2. CASE p \notin DOMAIN lv[side]
    BY <1>2, EmptySeq DEF OrdersAt
  <1> QED
    BY <1>1, <1>2

\* An id stands once in the list of a price,
LEMMA DistinctInList ==
  ASSUME NEW lv, NEW ix, WellTyped(lv, ix), Indexed(lv, ix), NEW side \in Sides, NEW p,
         NEW i \in 1..Len(OrdersAt(lv, side, p)), NEW j \in 1..Len(OrdersAt(lv, side, p)),
         OrdersAt(lv, side, p)[i].order_id = OrdersAt(lv, side, p)[j].order_id
  PROVE  i = j
  <1>1. p \in DOMAIN lv[side]
    BY EmptySeq DEF OrdersAt
  <1>2. lv[side][p].orders \in Seq(Order) /\ HeldOnce(lv[side][p].orders, side, p, ix)
    BY <1>1 DEF WellTyped, LevelMap, Level, Indexed
  <1> QED
    BY <1>1, <1>2, LenProperties DEF HeldOnce, OrdersAt

\* is indexed there,
LEMMA IndexOfList ==
  ASSUME NEW lv, NEW ix, WellTyped(lv, ix), Indexed(lv, ix), NEW side \in Sides, NEW p,
         NEW j \in 1..Len(OrdersAt(lv, side, p))
  PROVE  ix[OrdersAt(lv, side, p)[j].order_id] = [side |-> side, price |-> p]
  <1>1. p \in DOMAIN lv[side]
    BY EmptySeq DEF OrdersAt
  <1>2. lv[side][p].orders \in Seq(Order) /\ HeldOnce(lv[side][p].orders, side, p, ix)
    BY <1>1 DEF WellTyped, LevelMap, Level, Indexed
  <1> QED
    BY <1>1, <1>2, LenProperties DEF HeldOnce, OrdersAt

\* and at the price of the list.
LEMMA PricesInList ==
  ASSUME NEW lv, NEW ix, WellTyped(lv, ix), Indexed(lv, ix), NEW side \in Sides
  PROVE  \A p : \A j \in 1..Len(OrdersAt(lv, side, p)) : OrdersAt(lv, side, p)[j].price = p
  <1> SUFFICES ASSUME NEW p, NEW j \in 1..Len(OrdersAt(lv, side, p))
               PROVE  OrdersAt(lv, side, p)[j].price = p
    OBVIOUS
  <1>1. p \in DOMAIN lv[side]
    BY EmptySeq DEF OrdersAt
  <1>2. lv[side][p].orders \in Seq(Order) /\ HeldOnce(lv[side][p].orders, side, p, ix)
    BY <1>1 DEF WellTyped, LevelMap, Level, Indexed
  <1> QED
    BY <1>1, <1>2, LenProperties DEF HeldOnce, OrdersAt

\* So each place of a queue holds an indexed order of one of the lists.
LEMMA EveryPlaceIsInAList ==
  ASSUME NEW lv, NEW ix, WellTyped(lv, ix), Indexed(lv, ix), NEW side \in Sides,
         NEW ends, Queued(lv, side, ends), NEW i \in 1..Len(QueueOf(lv, side))
  PROVE  PlacedOrder(lv, ix, side, ends, i)
  <1> DEFINE lists == ListsOf(lv, side)
             q     == QueueOf(lv, side)
  <1>1. InList(lists, MaxPrice, ends, q, i)
    BY PlaceInList, PriceAssumption DEF Queued
  <1>2. PICK k \in 1..MaxPrice : \E j \in 1..Len(lists[k]) : i = ends[k - 1] + j /\ q[i] = lists[k][j]
    BY <1>1 DEF InList
  <1>3. PICK j \in 1..Len(lists[k]) : i = ends[k - 1] + j /\ q[i] = lists[k][j]
    BY <1>2
  <1>4. lists[k] = OrdersAt(lv, side, Ranked(side, k))
    BY DEF ListsOf
  <1> HIDE DEF lists
  <1>5. j \in 1..Len(OrdersAt(lv, side, Ranked(side, k)))
    BY <1>4
  <1>6. /\ i = ends[k - 1] + j
        /\ q[i] = OrdersAt(lv, side, Ranked(side, k))[j]
    BY <1>3, <1>4
  <1>7. /\ q[i].price = Ranked(side, k)
        /\ q[i].order_id \in DOMAIN ix
        /\ ix[q[i].order_id] = [side |-> side, price |-> Ranked(side, k)]
    BY <1>5, <1>6, OrdersAtHeld
  <1> QED
    BY <1>5, <1>6, <1>7, Zenon DEF PlacedOrder

(***************************************************************************)
(* What the orders of a queue add up to is what the totals of its levels   *)
(* add up to.                                                              *)
(***************************************************************************)
\* t runs over the totals of the prices G, from the best price on.
LevelSums(lv, side, G, t) ==
  /\ t[0] = 0
  /\ \A k \in 1..MaxPrice :
       t[k] = t[k - 1] + (IF Ranked(side, k) \in G THEN Resting(lv, side, Ranked(side, k)) ELSE 0)
  /\ \A k \in 0..MaxPrice : t[k] \in Nat

\* The list stands in q behind the place low, and P has all of its places or none.
StandsIn(q, P, list, low, all) ==
  /\ low \in Nat /\ low + Len(list) <= Len(q)
  /\ \A j \in 1..Len(list) : q[low + j] = list[j]
  /\ all \in BOOLEAN /\ \A j \in 1..Len(list) : low + j \in P <=> all

\* The part of a sum that runs over one list.
LEMMA SumOverList ==
  ASSUME NEW Entry, Counted(Entry), NEW q \in Seq(Entry), NEW P, NEW sum, Sums(q, P, sum),
         NEW list \in Seq(Entry), NEW low, NEW all, StandsIn(q, P, list, low, all)
  PROVE  sum[low + Len(list)] = sum[low] + (IF all THEN SumOfQty(list) ELSE 0)
  <1> DEFINE len == Len(list)
  <1>0. /\ len \in Nat /\ Len(q) \in Nat
        /\ low \in Nat /\ low + len <= Len(q) /\ all \in BOOLEAN
        /\ \A j \in 1..len : q[low + j] = list[j] /\ (low + j \in P <=> all)
    BY LenProperties DEF StandsIn
  <1>1. PICK part : RunningSum(list, part) /\ SumOfQty(list) = part[len]
    BY <1>0, SumIsRunning
  <1>2. /\ part[0] = 0
        /\ \A j \in 1..len : part[j] = part[j - 1] + list[j].qty
        /\ \A j \in 0..len : part[j] \in Nat
        /\ \A j \in 1..len : list[j].qty \in Nat
    BY <1>1, RunningSumSteps
  <1> DEFINE good == {j \in Nat : j <= len => sum[low + j] = sum[low] + (IF all THEN part[j] ELSE 0)}
  <1>3. /\ \A i \in 1..Len(q) : sum[i] = sum[i - 1] + (IF i \in P THEN q[i].qty ELSE 0)
        /\ \A i \in 0..Len(q) : sum[i] \in Nat
    BY DEF Sums
  <1>4. sum[low] \in Nat
    BY <1>0, <1>3
  <1>5. 0 \in good
    <2>1. low + 0 = low
      BY <1>0
    <2> QED
      BY <2>1, <1>2, <1>4
  <1>6. ASSUME NEW j \in Nat, j \in good
        PROVE  j + 1 \in good
    <2> SUFFICES ASSUME j + 1 <= len
                 PROVE  sum[low + (j + 1)] = sum[low] + (IF all THEN part[j + 1] ELSE 0)
      OBVIOUS
    <2> HIDE DEF len
    <2>1. /\ j + 1 \in 1..len /\ (j + 1) - 1 = j /\ j \in 0..len /\ j <= len
          /\ low + (j + 1) \in 1..Len(q) /\ (low + (j + 1)) - 1 = low + j
      BY <1>0 DEF len
    <2>2. sum[low + j] = sum[low] + (IF all THEN part[j] ELSE 0)
      BY <2>1, <1>6
    <2>3. sum[low + (j + 1)] = sum[low + j] + (IF all THEN list[j + 1].qty ELSE 0)
      BY <2>1, <1>0, <1>3
    <2>4. part[j + 1] = part[j] + list[j + 1].qty /\ part[j] \in Nat /\ list[j + 1].qty \in Nat
      BY <2>1, <1>2
    <2> QED
      BY <2>2, <2>3, <2>4, <1>4
  <1>7. \A j \in Nat : j \in good
    <2> HIDE DEF good
    <2> QED
      BY <1>5, <1>6, NaturalsAreReached
  <1> QED
    BY <1>0, <1>1, <1>7

\* t runs over the sums of the lists that G has.
ListSums(lists, n, G, t) ==
  /\ t[0] = 0
  /\ \A k \in 1..n : t[k] = t[k - 1] + (IF k \in G THEN SumOfQty(lists[k]) ELSE 0)
  /\ \A k \in 0..n : t[k] \in Nat

\* P has the places of the lists of G, and no others.
PlacesOf(lists, n, ends, P, G) ==
  \A k \in 1..n : \A j \in 1..Len(lists[k]) : ends[k - 1] + j \in P <=> k \in G

\* The sum over the places of some of the lists that stand end to end is the sum of
\* the sums of these lists.
LEMMA SumOverLists ==
  ASSUME NEW Entry, Counted(Entry), NEW n \in Nat, NEW lists, ListsIn(Entry, lists, n),
         NEW ends, NEW q \in Seq(Entry), EndToEnd(lists, n, ends, q),
         NEW P, NEW G, PlacesOf(lists, n, ends, P, G)
  PROVE  \E t : ListSums(lists, n, G, t) /\ QtyOf(q, P) = t[n]
  <1>1. PICK sum : Sums(q, P, sum) /\ QtyOf(q, P) = sum[Len(q)]
    BY QtyIsSum
  <1> DEFINE t == [k \in 0..n |-> sum[ends[k]]]
  <1>2. \A k \in 1..n : lists[k] \in Seq(Entry) /\ Len(lists[k]) \in Nat
    BY LenOfList
  <1>3. /\ ends[0] = 0 /\ ends[n] = Len(q)
        /\ \A k \in 0..n : ends[k] \in Nat
        /\ \A k \in 1..n : ends[k] = ends[k - 1] + Len(lists[k])
        /\ \A k \in 1..n : \A j \in 1..Len(lists[k]) : q[ends[k - 1] + j] = lists[k][j]
    BY DEF EndToEnd
  <1>4. Len(q) \in Nat /\ n \in 0..n
    BY LenProperties
  <1>5. ASSUME NEW k \in 0..n
        PROVE  ends[k] <= Len(q)
    <2>1. ends[k] <= ends[n]
      BY <1>4, EndsGrow
    <2> QED
      BY <2>1, <1>3
  <1>6. ASSUME NEW k \in 1..n
        PROVE  sum[ends[k]] = sum[ends[k - 1]] + (IF k \in G THEN SumOfQty(lists[k]) ELSE 0)
    <2> DEFINE low  == ends[k - 1]
               list == lists[k]
               all  == k \in G
    <2>1. /\ low \in Nat /\ ends[k] = low + Len(list)
          /\ list \in Seq(Entry) /\ low + Len(list) <= Len(q)
      <3>1. k \in 0..n /\ k - 1 \in 0..n
        OBVIOUS
      <3>2. low \in Nat /\ ends[k] = low + Len(list) /\ list \in Seq(Entry)
        BY <3>1, <1>2, <1>3
      <3>3. ends[k] <= Len(q)
        BY <3>1, <1>5
      <3> QED
        BY <3>2, <3>3
    <2>2. \A j \in 1..Len(list) : q[low + j] = list[j]
      BY <1>3
    <2>3. all \in BOOLEAN /\ \A j \in 1..Len(list) : low + j \in P <=> all
      BY DEF PlacesOf
    <2> HIDE DEF low, list, all
    <2>4. StandsIn(q, P, list, low, all)
      BY <2>1, <2>2, <2>3 DEF StandsIn
    <2>5. sum[low + Len(list)] = sum[low] + (IF all THEN SumOfQty(list) ELSE 0)
      BY <2>1, <2>4, <1>1, SumOverList
    <2> QED
      BY <2>1, <2>5 DEF low, list, all
  <1>7. \A k \in 0..n : sum[ends[k]] \in Nat
    <2>1. \A i \in 0..Len(q) : sum[i] \in Nat
      BY <1>1 DEF Sums
    <2>2. \A k \in 0..n : ends[k] \in 0..Len(q)
      BY <1>3, <1>4, <1>5
    <2> QED
      BY <2>1, <2>2
  <1>8. \A k \in 0..n : t[k] = sum[ends[k]]
    OBVIOUS
  <1> HIDE DEF t
  <1>9. t[0] = 0 /\ t[n] = sum[Len(q)] /\ \A k \in 0..n : t[k] \in Nat
    <2>1. 0 \in 0..n /\ sum[0] = 0
      BY <1>1 DEF Sums
    <2> QED
      BY <2>1, <1>3, <1>4, <1>7, <1>8
  <1>10. \A k \in 1..n : t[k] = t[k - 1] + (IF k \in G THEN SumOfQty(lists[k]) ELSE 0)
    <2>1. \A k \in 1..n : k \in 0..n /\ k - 1 \in 0..n
      OBVIOUS
    <2> QED
      BY <2>1, <1>6, <1>8
  <1>11. ListSums(lists, n, G, t)
    BY <1>9, <1>10 DEF ListSums
  <1> QED
    BY <1>1, <1>9, <1>11

\* The total of a price is the sum of its list, absent levels included.
LEMMA RestingIsSum ==
  ASSUME NEW lv, NEW ix, WellTyped(lv, ix), TotalsExact(lv), NEW side \in Sides, NEW p
  PROVE  Resting(lv, side, p) = SumOfQty(OrdersAt(lv, side, p))
  <1>1. CASE p \in DOMAIN lv[side]
    BY <1>1, TotalIsSum DEF TotalsExact, Resting, OrdersAt
  <1>2. CASE p \notin DOMAIN lv[side]
    <2>1. SumOfQty(<<>>) = 0
      BY OrdersCount, SumFacts, EmptySeq
    <2> QED
      BY <1>2, <2>1 DEF Resting, OrdersAt
  <1> QED
    BY <1>1, <1>2

\* P is the places of q with a price of G.
PlacesAt(q, P, G) == \A i \in 1..Len(q) : i \in P <=> q[i].price \in G

\* The sum over the places of some prices is the sum of the totals of their levels.
LEMMA QueueSums ==
  ASSUME NEW lv, NEW ix, WellTyped(lv, ix), Indexed(lv, ix), TotalsExact(lv),
         NEW side \in Sides, NEW P, NEW G, PlacesAt(QueueOf(lv, side), P, G)
  PROVE  \E t : LevelSums(lv, side, G, t) /\ QtyOf(QueueOf(lv, side), P) = t[MaxPrice]
  <1> DEFINE lists == ListsOf(lv, side)
             q     == QueueOf(lv, side)
             n     == MaxPrice
             ranks == {k \in 1..n : Ranked(side, k) \in G}
  <1>1. PICK ends : Queued(lv, side, ends)
    BY QueueIsJoined
  <1>2. q \in Seq(Order) /\ n \in Nat /\ ListsIn(Order, lists, n) /\ EndToEnd(lists, n, ends, q)
    BY <1>1, QueueIsJoined, PriceAssumption DEF Queued
  <1>3. \A k \in 1..n : lists[k] = OrdersAt(lv, side, Ranked(side, k))
    BY DEF ListsOf
  <1> HIDE DEF lists, q
  <1>4. ASSUME NEW k \in 1..n, NEW j \in 1..Len(lists[k])
        PROVE  ends[k - 1] + j \in P <=> k \in ranks
    <2>1. Within(ends, q, k, j)
      BY <1>2, PlaceIsWithin
    <2>2. ends[k - 1] + j \in 1..Len(q)
      BY <2>1 DEF Within
    <2>3. q[ends[k - 1] + j] = lists[k][j]
      BY <1>2 DEF EndToEnd
    <2>4. lists[k][j].price = Ranked(side, k)
      <3>1. \A p : \A i \in 1..Len(OrdersAt(lv, side, p)) : OrdersAt(lv, side, p)[i].price = p
        BY PricesInList
      <3> QED
        BY <3>1, <1>3
    <2>5. ends[k - 1] + j \in P <=> q[ends[k - 1] + j].price \in G
      BY <2>2 DEF q, PlacesAt
    <2> QED
      BY <2>3, <2>4, <2>5
  <1>5. PlacesOf(lists, n, ends, P, ranks)
    BY <1>4 DEF PlacesOf
  <1> HIDE DEF ranks
  <1>6. PICK t : ListSums(lists, n, ranks, t) /\ QtyOf(q, P) = t[n]
    BY <1>2, <1>5, OrdersCount, SumOverLists
  <1>7. \A k \in 1..n : SumOfQty(lists[k]) = Resting(lv, side, Ranked(side, k))
    BY <1>3, RestingIsSum
  <1>8. \A k \in 1..n : k \in ranks <=> Ranked(side, k) \in G
    BY DEF ranks
  <1>9. LevelSums(lv, side, G, t)
    BY <1>6, <1>7, <1>8 DEF ListSums, LevelSums
  <1> QED
    BY <1>6, <1>9 DEF q

-------------------------------------------------------------------------------
(***************************************************************************)
(* The prediction of the matching loop, the totals of the levels and the   *)
(* length of a queue, in terms of the orders of the queue.                 *)
(***************************************************************************)
\* The incoming order reaches the prices that the limit crosses.
SameReach(in, side, limit) == \A p \in Prices : Reaches(in, p) <=> Crosses(side, limit, p)

\* What max_crossing_qty predicts from the totals of the levels is what the orders add up to.
LEMMA PredictionIsExecuted ==
  ASSUME NEW lv, NEW ix, WellTyped(lv, ix), Indexed(lv, ix), TotalsExact(lv),
         NEW side \in Sides, NEW limit, NEW qty \in Nat,
         NEW in, in.qty = qty,
         SameReach(in, side, limit)
  PROVE  CrossingQty(lv[OtherSide(side)], side, limit, qty)
           = Executed(in, QueueOf(lv, OtherSide(side)))
  <1> DEFINE opp     == OtherSide(side)
             q       == QueueOf(lv, opp)
             P       == {i \in DOMAIN q : Reaches(in, q[i].price)}
             G       == {p \in Prices : Crosses(side, limit, p)}
             offered == Offered(lv[opp], side, limit)
  <1>1. opp \in Sides /\ q \in Seq(Order)
    BY QueueIsJoined DEF OtherSide, Sides
  <1>2. PlacesAt(q, P, G)
    <2>1. DOMAIN q = 1..Len(q) /\ \A i \in 1..Len(q) : q[i] \in Order
      BY <1>1, ElementOfSeq, LenProperties
    <2>2. \A i \in 1..Len(q) : q[i].price \in Prices
      BY <2>1 DEF Order
    <2> QED
      BY <2>1, <2>2 DEF SameReach, PlacesAt
  <1>3. Available(in, q) = QtyOf(q, P)
    BY DEF Available
  <1>4. \A k \in 1..MaxPrice : Ranked(opp, k) \in G <=> Crosses(side, limit, Ranked(opp, k))
    BY <1>1, RankFacts
  <1>5. \A k \in 1..MaxPrice :
          offered[k] = IF Crosses(side, limit, Ranked(opp, k)) THEN Resting(lv, opp, Ranked(opp, k))
                       ELSE 0
    BY OfferedIsResting
  <1> HIDE DEF P, G
  <1>6. PICK t : LevelSums(lv, opp, G, t) /\ QtyOf(q, P) = t[MaxPrice]
    <2> HIDE DEF opp
    <2> QED
      BY <1>1, <1>2, QueueSums
  <1>7. PICK reached :
          /\ Takes(offered, qty, reached)
          /\ CrossingQty(lv[opp], side, limit, qty) = reached[MaxPrice]
    <2>1. \E r : /\ Takes(Offered(lv[OtherSide(side)], side, limit), qty, r)
                 /\ CrossingQty(lv[OtherSide(side)], side, limit, qty) = r[MaxPrice]
      BY MaxCrossingIsTaken
    <2> QED
      BY <2>1
  <1> HIDE DEF opp, q, offered
  <1> DEFINE good == {k \in Nat : k <= MaxPrice => reached[k] = Smaller(qty, t[k])}
  <1>8. 0 \in good
    BY <1>6, <1>7 DEF LevelSums, Takes, Smaller
  <1>9. ASSUME NEW k \in Nat, k \in good
        PROVE  k + 1 \in good
    <2> SUFFICES ASSUME k + 1 <= MaxPrice PROVE reached[k + 1] = Smaller(qty, t[k + 1])
      OBVIOUS
    <2> DEFINE part == IF Ranked(opp, k + 1) \in G THEN Resting(lv, opp, Ranked(opp, k + 1)) ELSE 0
    <2>1. k + 1 \in 1..MaxPrice /\ (k + 1) - 1 = k /\ k \in 0..MaxPrice /\ k <= MaxPrice
      BY PriceAssumption
    <2>2. t[k + 1] = t[k] + part /\ t[k] \in Nat
      BY <2>1, <1>6 DEF LevelSums
    <2>3. offered[k + 1] = part
      BY <2>1, <1>4, <1>5
    <2>4. part \in Nat
      BY <1>1, RestingIsNat, QuantityAssumption
    <2> HIDE DEF part
    <2>5. reached[k + 1] = reached[k] + Smaller(qty - reached[k], part)
      BY <2>1, <2>3, <1>7 DEF Takes
    <2>6. reached[k] = Smaller(qty, t[k])
      BY <2>1, <1>9
    <2> QED
      BY <2>2, <2>4, <2>5, <2>6 DEF Smaller
  <1>10. \A k \in Nat : k \in good
    <2> HIDE DEF good
    <2> QED
      BY <1>8, <1>9, NaturalsAreReached
  <1>11. reached[MaxPrice] = Smaller(qty, t[MaxPrice])
    BY <1>10, PriceAssumption
  <1> QED
    BY <1>3, <1>6, <1>7, <1>11 DEF Executed, opp, q

\* What the orders of a price add up to is the total of its level.
LEMMA QtyAtPriceIsResting ==
  ASSUME NEW lv, NEW ix, WellTyped(lv, ix), Indexed(lv, ix), TotalsExact(lv),
         NEW side \in Sides, NEW p \in Prices
  PROVE  QtyAtPrice(QueueOf(lv, side), p) = Resting(lv, side, p)
  <1> DEFINE q == QueueOf(lv, side)
             P == {i \in DOMAIN q : q[i].price = p}
             r == RankOf(side, p)
             total == Resting(lv, side, p)
  <1>1. q \in Seq(Order)
    BY QueueIsJoined
  <1>2. PlacesAt(q, P, {p})
    BY <1>1, OrderIsRested, QueueFacts DEF PlacesAt
  <1>3. QtyAtPrice(q, p) = QtyOf(q, P)
    BY DEF QtyAtPrice
  <1>4. r \in 1..MaxPrice /\ \A k \in 1..MaxPrice : Ranked(side, k) = p <=> k = r
    BY RankFacts
  <1> HIDE DEF P
  <1>5. PICK t : LevelSums(lv, side, {p}, t) /\ QtyOf(q, P) = t[MaxPrice]
    BY <1>1, <1>2, QueueSums
  <1>6. total \in Nat
    BY RestingIsNat, QuantityAssumption
  <1> HIDE DEF r, total
  <1> DEFINE good == {k \in Nat : k <= MaxPrice => t[k] = IF k < r THEN 0 ELSE total}
  <1>7. 0 \in good
    BY <1>4, <1>5 DEF LevelSums
  <1>8. ASSUME NEW k \in Nat, k \in good
        PROVE  k + 1 \in good
    <2> SUFFICES ASSUME k + 1 <= MaxPrice PROVE t[k + 1] = IF k + 1 < r THEN 0 ELSE total
      OBVIOUS
    <2>1. k + 1 \in 1..MaxPrice /\ (k + 1) - 1 = k /\ k <= MaxPrice
      BY PriceAssumption
    <2>2. t[k + 1] = t[k] + (IF Ranked(side, k + 1) = p THEN Resting(lv, side, Ranked(side, k + 1))
                             ELSE 0)
      BY <2>1, <1>5 DEF LevelSums
    <2>3. t[k] = IF k < r THEN 0 ELSE total
      BY <2>1, <1>8
    <2>4. CASE k + 1 = r
      <3>1. Ranked(side, k + 1) = p
        BY <2>1, <2>4, <1>4
      <3> QED
        BY <2>2, <2>3, <2>4, <3>1, <1>4, <1>6 DEF total
    <2>5. CASE k + 1 # r
      <3>1. Ranked(side, k + 1) # p
        BY <2>1, <2>5, <1>4
      <3> QED
        BY <2>2, <2>3, <2>5, <3>1, <1>4, <1>6
    <2> QED
      BY <2>4, <2>5
  <1>9. \A k \in Nat : k \in good
    <2> HIDE DEF good
    <2> QED
      BY <1>7, <1>8, NaturalsAreReached
  <1>10. t[MaxPrice] = total
    BY <1>4, <1>9, PriceAssumption
  <1> QED
    BY <1>3, <1>5, <1>10 DEF total

\* Every order of a list adds at least 1 to its sum.
LEMMA SumAtLeastLen ==
  ASSUME NEW Entry, Counted(Entry), NEW orders \in Seq(Entry)
  PROVE  Len(orders) <= SumOfQty(orders)
  <1>1. Len(orders) \in Nat
    BY LenProperties
  <1>2. PICK sum : RunningSum(orders, sum) /\ SumOfQty(orders) = sum[Len(orders)]
    BY <1>1, SumIsRunning
  <1>3. /\ sum[0] = 0
        /\ \A i \in 1..Len(orders) : sum[i] = sum[i - 1] + orders[i].qty
        /\ \A i \in 0..Len(orders) : sum[i] \in Nat
        /\ \A i \in 1..Len(orders) : orders[i].qty \in Nat \ {0}
    BY <1>2, RunningSumSteps
  <1> DEFINE good == {n \in Nat : n <= Len(orders) => n <= sum[n]}
  <1>4. 0 \in good
    BY <1>3
  <1>5. ASSUME NEW n \in Nat, n \in good
        PROVE  n + 1 \in good
    <2> SUFFICES ASSUME n + 1 <= Len(orders) PROVE n + 1 <= sum[n + 1]
      OBVIOUS
    <2>1. n + 1 \in 1..Len(orders) /\ (n + 1) - 1 = n /\ n \in 0..Len(orders) /\ n <= Len(orders)
      BY <1>1
    <2>2. /\ sum[n + 1] = sum[n] + orders[n + 1].qty /\ sum[n] \in Nat
          /\ orders[n + 1].qty \in Nat \ {0} /\ n <= sum[n]
      BY <2>1, <1>3, <1>5
    <2> QED
      BY <2>2
  <1>6. \A n \in Nat : n \in good
    <2> HIDE DEF good
    <2> QED
      BY <1>4, <1>5, NaturalsAreReached
  <1> QED
    BY <1>1, <1>2, <1>6

\* Lists of bounded length, end to end.
LEMMA JoinedIsShort ==
  ASSUME NEW S, NEW n \in Nat, NEW lists, ListsIn(S, lists, n),
         NEW ends, NEW q, EndToEnd(lists, n, ends, q),
         NEW most \in Nat, \A k \in 1..n : Len(lists[k]) <= most
  PROVE  Len(q) \in Nat /\ Len(q) <= n * most
  <1>1. \A k \in 1..n : Len(lists[k]) \in Nat
    BY LenOfList
  <1>2. /\ ends[0] = 0 /\ ends[n] = Len(q)
        /\ \A k \in 0..n : ends[k] \in Nat
        /\ \A k \in 1..n : ends[k] = ends[k - 1] + Len(lists[k])
    BY DEF EndToEnd
  <1> DEFINE good == {k \in Nat : k <= n => ends[k] <= k * most}
  <1>3. 0 \in good
    BY <1>2
  <1>4. ASSUME NEW k \in Nat, k \in good
        PROVE  k + 1 \in good
    <2> SUFFICES ASSUME k + 1 <= n PROVE ends[k + 1] <= (k + 1) * most
      OBVIOUS
    <2> DEFINE low == ends[k]
               len == Len(lists[k + 1])
               bound == k * most
    <2>1. k + 1 \in 1..n /\ (k + 1) - 1 = k /\ k \in 0..n /\ k <= n
      OBVIOUS
    <2>2. ends[k + 1] = low + len /\ low \in Nat /\ len \in Nat /\ len <= most /\ low <= bound
      BY <2>1, <1>1, <1>2, <1>4
    <2>3. (k + 1) * most = bound + most /\ bound \in Nat
      OBVIOUS
    <2> HIDE DEF low, len, bound
    <2> QED
      BY <2>2, <2>3
  <1>5. \A k \in Nat : k \in good
    <2> HIDE DEF good
    <2> QED
      BY <1>3, <1>4, NaturalsAreReached
  <1> QED
    BY <1>2, <1>5

\* No more orders rest than the totals of the levels have room for.
LEMMA QueueIsShort ==
  ASSUME NEW lv, NEW ix, WellTyped(lv, ix), TotalsExact(lv), NEW side \in Sides
  PROVE  Len(QueueOf(lv, side)) \in Nat /\ Len(QueueOf(lv, side)) <= MaxPrice * MaxQty
  <1> DEFINE lists == ListsOf(lv, side)
             q     == QueueOf(lv, side)
  <1>1. PICK ends : Queued(lv, side, ends)
    BY QueueIsJoined
  <1>2. /\ MaxPrice \in Nat /\ MaxQty \in Nat
        /\ ListsIn(Order, lists, MaxPrice) /\ EndToEnd(lists, MaxPrice, ends, q)
    BY <1>1, PriceAssumption, QuantityAssumption DEF Queued
  <1>3. \A k \in 1..MaxPrice : /\ lists[k] = OrdersAt(lv, side, Ranked(side, k))
                               /\ lists[k] \in Seq(Order) /\ Len(lists[k]) \in Nat
    BY <1>2, LenOfList DEF ListsOf
  <1> HIDE DEF lists, q
  <1>4. ASSUME NEW k \in 1..MaxPrice
        PROVE  Len(lists[k]) <= MaxQty
    <2>1. Len(lists[k]) <= SumOfQty(lists[k])
      BY <1>3, OrdersCount, SumAtLeastLen
    <2>2. SumOfQty(lists[k]) = Resting(lv, side, Ranked(side, k))
      BY <1>3, RestingIsSum
    <2>3. Resting(lv, side, Ranked(side, k)) \in 0..MaxQty
      BY RestingIsNat
    <2> QED
      BY <2>1, <2>2, <2>3, <1>2, <1>3
  <1>5. Len(q) \in Nat /\ Len(q) <= MaxPrice * MaxQty
    BY <1>2, <1>4, JoinedIsShort
  <1> QED
    BY <1>5 DEF q

-------------------------------------------------------------------------------
(***************************************************************************)
(* One level changes, and so does the queue.                               *)
(***************************************************************************)
\* A stored level changes the list of its price and no other; the list of an erased level
\* is the empty one.
LEMMA StoredLists ==
  ASSUME NEW ix, WellTyped(levels, ix), NEW side \in Sides, NEW p, NEW level,
         NEW lv, lv = LevelsStored(side, p, level)
  PROVE  /\ OrdersAt(lv, side, p) = level.orders
         /\ \A r : r # p => OrdersAt(lv, side, r) = OrdersAt(levels, side, r)
         /\ \A s \in Sides : s # side => \A r : OrdersAt(lv, s, r) = OrdersAt(levels, s, r)
  <1>1. /\ lv[side] = Stored(side, p, level)
        /\ \A s \in Sides : s # side => lv[s] = levels[s]
    BY DEF WellTyped, LevelsStored
  <1>2. OrdersAt(lv, side, p) = level.orders
    BY <1>1 DEF Stored, Erase, Put, OrdersAt
  <1>3. ASSUME NEW r, r # p
        PROVE  OrdersAt(lv, side, r) = OrdersAt(levels, side, r)
    BY <1>1, <1>3 DEF Stored, Erase, Put, OrdersAt
  <1>4. \A s \in Sides : s # side => \A r : OrdersAt(lv, s, r) = OrdersAt(levels, s, r)
    BY <1>1 DEF OrdersAt
  <1> QED
    BY <1>2, <1>3, <1>4

\* The other side is published as it was.
LEMMA OtherQueueKept ==
  ASSUME NEW ix, WellTyped(levels, ix), NEW side \in Sides, NEW p, NEW level,
         NEW lv, lv = LevelsStored(side, p, level),
         NEW s \in Sides, s # side
  PROVE  QueueOf(lv, s) = QueueOf(levels, s)
  <1>1. \A r : OrdersAt(lv, s, r) = OrdersAt(levels, s, r)
    BY StoredLists
  <1>2. ListsOf(lv, s) = ListsOf(levels, s)
    BY <1>1 DEF ListsOf
  <1> QED
    BY <1>2 DEF QueueOf

\* A list that changes, in the lists of its side.
LEMMA ListsChanged ==
  ASSUME NEW ix, WellTyped(levels, ix), NEW side \in Sides, NEW p \in Prices, NEW level,
         NEW lv, lv = LevelsStored(side, p, level)
  PROVE  /\ RankOf(side, p) \in 1..MaxPrice
         /\ ListsOf(levels, side)[RankOf(side, p)] = OrdersAt(levels, side, p)
         /\ ListsOf(lv, side)[RankOf(side, p)] = level.orders
         /\ \A k \in 1..MaxPrice : k # RankOf(side, p) =>
              ListsOf(lv, side)[k] = ListsOf(levels, side)[k]
  <1> DEFINE r == RankOf(side, p)
  <1>1. r \in 1..MaxPrice /\ Ranked(side, r) = p
    BY RankFacts
  <1>2. \A k \in 1..MaxPrice : k # r => Ranked(side, k) # p
    BY <1>1, RankFacts
  <1>3. \A k \in 1..MaxPrice : /\ ListsOf(levels, side)[k] = OrdersAt(levels, side, Ranked(side, k))
                               /\ ListsOf(lv, side)[k] = OrdersAt(lv, side, Ranked(side, k))
    BY DEF ListsOf
  <1> HIDE DEF r
  <1>4. ListsOf(lv, side)[r] = level.orders /\ ListsOf(levels, side)[r] = OrdersAt(levels, side, p)
    BY <1>1, <1>3, StoredLists
  <1>5. ASSUME NEW k \in 1..MaxPrice, k # r
        PROVE  ListsOf(lv, side)[k] = ListsOf(levels, side)[k]
    BY <1>2, <1>3, <1>5, StoredLists
  <1> QED
    BY <1>1, <1>4, <1>5 DEF r

\* A place of the list of a price, in the queue.
LEMMA PlaceOfPrice ==
  ASSUME NEW lv, NEW ix, WellTyped(lv, ix), NEW side \in Sides, NEW p \in Prices,
         NEW ends, Queued(lv, side, ends), NEW i \in 1..Len(OrdersAt(lv, side, p))
  PROVE  /\ ends[RankOf(side, p) - 1] + i \in 1..Len(QueueOf(lv, side))
         /\ QueueOf(lv, side)[ends[RankOf(side, p) - 1] + i] = OrdersAt(lv, side, p)[i]
  <1> DEFINE r == RankOf(side, p)
             lists == ListsOf(lv, side)
             q == QueueOf(lv, side)
             low == ends[r - 1]
  <1>1. r \in 1..MaxPrice /\ Ranked(side, r) = p /\ MaxPrice \in Nat
    BY RankFacts, PriceAssumption
  <1>2. lists[r] = OrdersAt(lv, side, p)
    BY <1>1 DEF ListsOf
  <1> HIDE DEF r, lists, q
  <1>3. ListsIn(Order, lists, MaxPrice) /\ EndToEnd(lists, MaxPrice, ends, q)
    BY DEF Queued, lists, q
  <1>4. i \in 1..Len(lists[r])
    BY <1>2
  <1>5. Within(ends, q, r, i)
    BY <1>1, <1>3, <1>4, PlaceIsWithin
  <1>6. q[low + i] = lists[r][i]
    BY <1>1, <1>3, <1>4 DEF EndToEnd
  <1>7. low + i \in 1..Len(q)
    BY <1>5 DEF Within
  <1> QED
    BY <1>2, <1>6, <1>7 DEF r, q

\* An order leaves its list, and its place in the queue.
LEMMA QueueShortened ==
  ASSUME NEW ix, WellTyped(levels, ix), NEW side \in Sides, NEW p \in Prices,
         NEW ends, Queued(levels, side, ends),
         NEW i \in 1..Len(OrdersAt(levels, side, p)), NEW level,
         level.orders = RemoveAt(OrdersAt(levels, side, p), i),
         NEW lv, lv = LevelsStored(side, p, level), NEW jx, WellTyped(lv, jx)
  PROVE  QueueOf(lv, side) = RemoveAt(QueueOf(levels, side), ends[RankOf(side, p) - 1] + i)
  <1> DEFINE r == RankOf(side, p)
             lists == ListsOf(levels, side)
             new == ListsOf(lv, side)
             q == QueueOf(levels, side)
             at == ends[r - 1] + i
  <1>1. /\ r \in 1..MaxPrice /\ MaxPrice \in Nat
        /\ lists[r] = OrdersAt(levels, side, p) /\ new[r] = level.orders
        /\ \A k \in 1..MaxPrice : k # r => new[k] = lists[k]
    BY ListsChanged, PriceAssumption
  <1>2. at \in 1..Len(q)
    BY PlaceOfPrice
  <1>3. q \in Seq(Order)
    BY QueueIsJoined
  <1> HIDE DEF r, lists, new, q
  <1>4. ListsIn(Order, lists, MaxPrice) /\ EndToEnd(lists, MaxPrice, ends, q)
    BY DEF Queued, lists, q
  <1>5. i \in 1..Len(lists[r])
    BY <1>1
  <1>6. LessAt(lists, MaxPrice, r, i, new)
    <2>1. level.orders = Without(lists[r], i)
      BY <1>1 DEF RemoveAt, Without
    <2> QED
      BY <2>1, <1>1 DEF LessAt
  <1>7. \E e : EndToEnd(new, MaxPrice, e, Without(q, at))
    BY <1>1, <1>3, <1>4, <1>5, <1>6, JoinedWithout
  <1> HIDE DEF at
  <1>8. Without(q, at) \in Seq(Order)
    BY <1>2, <1>3, WithoutFacts
  <1>9. QueueOf(lv, side) = Without(q, at)
    BY <1>7, <1>8, QueueIs DEF new
  <1> QED
    BY <1>9 DEF RemoveAt, Without, q, at, r

\* The first order of a list is replaced, and so it is in the queue.
LEMMA QueueReplaced ==
  ASSUME NEW ix, WellTyped(levels, ix), NEW side \in Sides, NEW p \in Prices,
         NEW ends, Queued(levels, side, ends),
         Len(OrdersAt(levels, side, p)) >= 1, NEW x \in Order, NEW level,
         level.orders = [OrdersAt(levels, side, p) EXCEPT ![1] = x],
         NEW lv, lv = LevelsStored(side, p, level), NEW jx, WellTyped(lv, jx)
  PROVE  QueueOf(lv, side) = [QueueOf(levels, side) EXCEPT ![ends[RankOf(side, p) - 1] + 1] = x]
  <1> DEFINE r == RankOf(side, p)
             lists == ListsOf(levels, side)
             new == ListsOf(lv, side)
             q == QueueOf(levels, side)
             at == ends[r - 1] + 1
  <1>1. /\ r \in 1..MaxPrice /\ MaxPrice \in Nat
        /\ lists[r] = OrdersAt(levels, side, p) /\ new[r] = level.orders
        /\ \A k \in 1..MaxPrice : k # r => new[k] = lists[k]
    BY ListsChanged, PriceAssumption
  <1>2. OrdersAt(levels, side, p) \in Seq(Order) /\ 1 \in 1..Len(OrdersAt(levels, side, p))
    <2>1. OrdersAt(levels, side, p) \in Seq(Order)
      BY EmptySeq DEF OrdersAt, WellTyped, LevelMap, Level
    <2> QED
      BY <2>1, LenProperties
  <1>3. at \in 1..Len(q)
    BY <1>2, PlaceOfPrice
  <1>4. q \in Seq(Order)
    BY QueueIsJoined
  <1> HIDE DEF r, lists, new, q
  <1>5. ListsIn(Order, lists, MaxPrice) /\ EndToEnd(lists, MaxPrice, ends, q)
    BY DEF Queued, lists, q
  <1>6. FirstAt(lists, MaxPrice, r, x, new) /\ Len(lists[r]) >= 1
    BY <1>1 DEF FirstAt
  <1>7. \E e : EndToEnd(new, MaxPrice, e, [q EXCEPT ![at] = x])
    BY <1>1, <1>4, <1>5, <1>6, JoinedReplaced
  <1> HIDE DEF at
  <1>8. [q EXCEPT ![at] = x] \in Seq(Order)
    BY <1>3, <1>4, ExceptSeq
  <1>9. QueueOf(lv, side) = [q EXCEPT ![at] = x]
    BY <1>7, <1>8, QueueIs DEF new
  <1> QED
    BY <1>9 DEF q, at, r

\* An order joins the back of a list, and stands in the queue where the list ended.
LEMMA QueueLengthened ==
  ASSUME NEW ix, WellTyped(levels, ix), NEW side \in Sides, NEW p \in Prices,
         NEW ends, Queued(levels, side, ends), NEW x \in Order, NEW level,
         level.orders = Append(OrdersAt(levels, side, p), x),
         NEW lv, lv = LevelsStored(side, p, level), NEW jx, WellTyped(lv, jx)
  PROVE  QueueOf(lv, side) = InsertAt(QueueOf(levels, side), ends[RankOf(side, p)] + 1, x)
  <1> DEFINE r == RankOf(side, p)
             lists == ListsOf(levels, side)
             new == ListsOf(lv, side)
             q == QueueOf(levels, side)
             at == ends[r] + 1
  <1>1. /\ r \in 1..MaxPrice /\ MaxPrice \in Nat
        /\ lists[r] = OrdersAt(levels, side, p) /\ new[r] = level.orders
        /\ \A k \in 1..MaxPrice : k # r => new[k] = lists[k]
    BY ListsChanged, PriceAssumption
  <1>4. q \in Seq(Order)
    BY QueueIsJoined
  <1> HIDE DEF r, lists, new, q
  <1>5. ListsIn(Order, lists, MaxPrice) /\ EndToEnd(lists, MaxPrice, ends, q)
    BY DEF Queued, lists, q
  <1>6. MoreAt(lists, MaxPrice, r, x, new)
    BY <1>1 DEF MoreAt
  <1>7. \E e : EndToEnd(new, MaxPrice, e, Inserted(q, at, x))
    BY <1>1, <1>4, <1>5, <1>6, JoinedInserted
  <1>8. Inserted(q, at, x) \in Seq(Order)
    <2>1. r \in 0..MaxPrice /\ MaxPrice \in 0..MaxPrice /\ r <= MaxPrice
      BY <1>1
    <2>2. ends[r] <= ends[MaxPrice]
      BY <2>1, <1>1, <1>5, EndsGrow
    <2>3. ends[r] \in Nat /\ ends[MaxPrice] = Len(q) /\ Len(q) \in Nat
      BY <2>1, <1>4, <1>5, LenProperties DEF EndToEnd
    <2>4. at \in 1..(Len(q) + 1)
      BY <2>2, <2>3
    <2> HIDE DEF at
    <2> QED
      BY <2>4, <1>4, InsertedFacts
  <1> HIDE DEF at
  <1>9. QueueOf(lv, side) = Inserted(q, at, x)
    BY <1>7, <1>8, QueueIs DEF new
  <1> QED
    BY <1>9 DEF InsertAt, Inserted, q, at, r

-------------------------------------------------------------------------------
(***************************************************************************)
(* Where an order stands in its queue: the best price first, an order that *)
(* rests behind those of its price, a resting order at the place of its list.*)
(***************************************************************************)
\* The first order of the best level is the first of the queue.
LEMMA BestStandsFirst ==
  ASSUME WellTyped(levels, order_index), NEW side \in Sides, DOMAIN levels[side] # {},
         NEW ends, Queued(levels, side, ends),
         Len(OrdersAt(levels, side, BestPrice(side))) >= 1
  PROVE  ends[RankOf(side, BestPrice(side)) - 1] = 0
  <1> DEFINE p == BestPrice(side)
             r == RankOf(side, p)
             lists == ListsOf(levels, side)
             q == QueueOf(levels, side)
             n == MaxPrice
  <1>1. p \in DOMAIN levels[side] /\ \A g \in DOMAIN levels[side] : AtLeastAsGood(side, p, g)
    BY BestPriceIsBest
  <1>2. DOMAIN levels[side] \subseteq Prices
    BY DEF WellTyped, LevelMap
  <1> HIDE DEF p
  <1>3. r \in 1..n /\ Ranked(side, r) = p /\ n \in Nat
    BY <1>1, <1>2, RankFacts, PriceAssumption
  <1>4. \A k \in 1..n : k < r => lists[k] = <<>>
    <2> SUFFICES ASSUME NEW k \in 1..n, k < r PROVE Ranked(side, k) \notin DOMAIN levels[side]
      BY DEF ListsOf, OrdersAt
    <2>1. Ranked(side, k) \in Prices /\ RankOf(side, Ranked(side, k)) = k
      BY RankFacts
    <2>2. AtLeastAsGood(side, p, Ranked(side, k)) <=> r <= k
      BY <2>1, <1>1, <1>2, RankFacts
    <2> QED
      BY <2>2, <1>1, <1>3
  <1>5. lists[r] = OrdersAt(levels, side, p) /\ Len(lists[r]) >= 1
    BY <1>3 DEF ListsOf, p
  <1> HIDE DEF r, lists, q
  <1>6. ListsIn(Order, lists, n) /\ EndToEnd(lists, n, ends, q)
    BY DEF Queued, lists, q
  <1>7. Len(lists[r]) \in Nat /\ 1 \in 1..Len(lists[r])
    BY <1>3, <1>5, <1>6, LenOfList
  <1>8. Within(ends, q, r, 1)
    BY <1>3, <1>6, <1>7, PlaceIsWithin
  <1>9. 1 \in 1..Len(q)
    BY <1>8 DEF Within
  <1>10. InList(lists, n, ends, q, 1)
    BY <1>3, <1>6, <1>9, PlaceInList
  <1>11. PICK k \in 1..n : \E j \in 1..Len(lists[k]) : 1 = ends[k - 1] + j /\ q[1] = lists[k][j]
    BY <1>10 DEF InList
  <1>12. PICK j \in 1..Len(lists[k]) : 1 = ends[k - 1] + j /\ q[1] = lists[k][j]
    BY <1>11
  <1>13. k >= r
    <2>1. lists[k] # <<>>
      BY <1>12, EmptySeq
    <2> QED
      BY <2>1, <1>3, <1>4
  <1>14. ends[k - 1] = 0
    <2>1. Within(ends, q, k, j)
      BY <1>3, <1>6, PlaceIsWithin
    <2> QED
      BY <2>1, <1>12 DEF Within
  <1>15. ends[r - 1] <= ends[k - 1] /\ ends[r - 1] \in Nat
    <2>1. r - 1 \in 0..n /\ k - 1 \in 0..n /\ r - 1 <= k - 1
      BY <1>3, <1>13
    <2>2. ends[r - 1] <= ends[k - 1]
      BY <2>1, <1>3, <1>6, EndsGrow
    <2>3. ends[r - 1] \in Nat
      BY <2>1, <1>6 DEF EndToEnd
    <2> QED
      BY <2>2, <2>3
  <1> QED
    BY <1>14, <1>15 DEF r, p

\* A newcomer stands where the list of its price ends.
LEMMA EnqueueIsInsert ==
  ASSUME NEW lv, NEW ix, WellTyped(lv, ix), Indexed(lv, ix), NEW side \in Sides,
         NEW ends, Queued(lv, side, ends), NEW x \in Order
  PROVE  Enqueue(side, QueueOf(lv, side), x)
           = InsertAt(QueueOf(lv, side), ends[RankOf(side, x.price)] + 1, x)
  <1> DEFINE r == RankOf(side, x.price)
             q == QueueOf(lv, side)
             n == MaxPrice
             lists == ListsOf(lv, side)
             before == {i \in DOMAIN q : AtLeastAsGood(side, q[i].price, x.price)}
             end == ends[r]
  <1>1. x.price \in Prices /\ r \in 1..n /\ Ranked(side, r) = x.price /\ n \in Nat
    BY RankFacts, PriceAssumption DEF Order
  <1>2. q \in Seq(Order) /\ Len(q) \in Nat /\ DOMAIN q = 1..Len(q)
    BY QueueIsJoined, LenProperties
  <1>3. ListsIn(Order, lists, n) /\ EndToEnd(lists, n, ends, q)
    BY DEF Queued
  <1>4. end \in Nat /\ end <= Len(q)
    <2>1. r \in 0..n /\ n \in 0..n /\ r <= n
      BY <1>1
    <2> HIDE DEF lists, q, r
    <2>2. ends[r] <= ends[n]
      BY <2>1, <1>1, <1>3, EndsGrow
    <2>3. ends[r] \in Nat /\ ends[n] = Len(q)
      BY <2>1, <1>3 DEF EndToEnd
    <2> QED
      BY <2>2, <2>3
  <1>5. ASSUME NEW i \in 1..Len(q)
        PROVE  AtLeastAsGood(side, q[i].price, x.price) <=> i <= end
    <2>1. PlacedOrder(lv, ix, side, ends, i)
      BY EveryPlaceIsInAList
    <2>2. PICK k \in 1..n : \E j \in 1..Len(OrdersAt(lv, side, Ranked(side, k))) :
                              i = ends[k - 1] + j /\ q[i].price = Ranked(side, k)
      BY <2>1 DEF PlacedOrder
    <2>3. PICK j \in 1..Len(OrdersAt(lv, side, Ranked(side, k))) :
                 i = ends[k - 1] + j /\ q[i].price = Ranked(side, k)
      BY <2>2
    <2>4. AtLeastAsGood(side, q[i].price, x.price) <=> k <= r
      <3>1. Ranked(side, k) \in Prices /\ RankOf(side, Ranked(side, k)) = k
        BY RankFacts
      <3>2. AtLeastAsGood(side, Ranked(side, k), x.price)
              <=> RankOf(side, Ranked(side, k)) <= RankOf(side, x.price)
        BY <3>1, <1>1, RankFacts
      <3> QED
        BY <2>3, <3>1, <3>2
    <2>5. j \in 1..Len(lists[k])
      BY DEF ListsOf
    <2> DEFINE low == ends[k - 1]
               high == ends[k]
    <2> HIDE DEF lists, q, r
    <2>6. Within(ends, q, k, j)
      BY <2>5, <1>1, <1>3, PlaceIsWithin
    <2>7. low \in Nat /\ high \in Nat /\ j \in Nat /\ 1 <= j /\ i = low + j /\ i <= high
      BY <2>3, <2>6 DEF Within
    <2>8. CASE k <= r
      <3>1. k \in 0..n /\ r \in 0..n
        BY <1>1
      <3>2. high <= end
        BY <3>1, <2>8, <1>1, <1>3, EndsGrow
      <3> HIDE DEF low, high, end
      <3> QED
        BY <3>2, <2>4, <2>7, <2>8, <1>4
    <2>9. CASE ~(k <= r)
      <3>1. k - 1 \in 0..n /\ r \in 0..n /\ r <= k - 1
        BY <2>9, <1>1
      <3>2. end <= low
        BY <3>1, <1>1, <1>3, EndsGrow
      <3> HIDE DEF low, high, end
      <3> QED
        BY <3>2, <2>4, <2>7, <2>9, <1>4
    <2> QED
      BY <2>8, <2>9
  <1> HIDE DEF q, end
  <1>6. before = 1..end
    BY <1>2, <1>4, <1>5
  <1>7. Cardinality(1..end) = end
    BY <1>4, FS_Interval
  <1>8. Enqueue(side, q, x) = InsertAt(q, end + 1, x)
    <2>1. Enqueue(side, q, x) = InsertAt(q, Cardinality(before) + 1, x)
      BY DEF Enqueue
    <2> QED
      BY <2>1, <1>6, <1>7
  <1> QED
    BY <1>8 DEF q, end, r

(***************************************************************************)
(* Where the order of an id stands.                                        *)
(***************************************************************************)
\* m is the place in the queue of an order of the list of p, and its id is the one sought.
PlaceOfId(lv, side, ends, p, m, id) ==
  \E j \in 1..Len(OrdersAt(lv, side, p)) :
    m = ends[RankOf(side, p) - 1] + j /\ OrdersAt(lv, side, p)[j].order_id = id

\* A place of the queue with the id is the place of the id in its list.
LEMMA PositionIs ==
  ASSUME NEW lv, NEW ix, WellTyped(lv, ix), Indexed(lv, ix), NEW side \in Sides, NEW id,
         NEW ends, Queued(lv, side, ends),
         NEW m \in 1..Len(QueueOf(lv, side)), QueueOf(lv, side)[m].order_id = id
  PROVE  /\ id \in DOMAIN ix /\ ix[id].side = side
         /\ PlaceOfId(lv, side, ends, ix[id].price, m, id)
  <1> DEFINE q == QueueOf(lv, side)
  <1>1. PlacedOrder(lv, ix, side, ends, m)
    BY EveryPlaceIsInAList
  <1>2. PICK k \in 1..MaxPrice : \E j \in 1..Len(OrdersAt(lv, side, Ranked(side, k))) :
          /\ m = ends[k - 1] + j
          /\ q[m] = OrdersAt(lv, side, Ranked(side, k))[j]
          /\ q[m].order_id \in DOMAIN ix
          /\ ix[q[m].order_id] = [side |-> side, price |-> Ranked(side, k)]
    BY <1>1 DEF PlacedOrder
  <1>3. PICK j \in 1..Len(OrdersAt(lv, side, Ranked(side, k))) :
          /\ m = ends[k - 1] + j
          /\ q[m] = OrdersAt(lv, side, Ranked(side, k))[j]
          /\ q[m].order_id \in DOMAIN ix
          /\ ix[q[m].order_id] = [side |-> side, price |-> Ranked(side, k)]
    BY <1>2
  <1>4. id \in DOMAIN ix /\ ix[id] = [side |-> side, price |-> Ranked(side, k)]
    BY <1>3
  <1>5. ix[id].side = side /\ ix[id].price = Ranked(side, k)
    BY <1>4
  <1>6. RankOf(side, Ranked(side, k)) = k
    BY RankFacts
  <1>7. OrdersAt(lv, side, Ranked(side, k))[j].order_id = id
    BY <1>3
  <1>8. PlaceOfId(lv, side, ends, Ranked(side, k), m, id)
    BY <1>3, <1>6, <1>7 DEF PlaceOfId
  <1> QED
    BY <1>4, <1>5, <1>8

\* The only place of a resting order, given the place in the list of its price.
LEMMA PositionOf ==
  ASSUME NEW lv, NEW ix, WellTyped(lv, ix), Indexed(lv, ix), NEW side \in Sides, NEW id,
         NEW ends, Queued(lv, side, ends),
         NEW p \in Prices, NEW i \in 1..Len(OrdersAt(lv, side, p)),
         OrdersAt(lv, side, p)[i].order_id = id
  PROVE  Positions(QueueOf(lv, side), id) = {ends[RankOf(side, p) - 1] + i}
  <1> DEFINE q  == QueueOf(lv, side)
             at == ends[RankOf(side, p) - 1] + i
  <1>1. q \in Seq(Order) /\ DOMAIN q = 1..Len(q)
    BY QueueIsJoined, LenProperties
  <1>2. at \in 1..Len(q) /\ q[at].order_id = id
    BY PlaceOfPrice
  <1>3. ix[id].price = p
    <2>1. ix[OrdersAt(lv, side, p)[i].order_id] = [side |-> side, price |-> p]
      BY IndexOfList
    <2> QED
      BY <2>1
  <1>4. ASSUME NEW m \in 1..Len(q), q[m].order_id = id
        PROVE  m = at
    <2>1. PICK j \in 1..Len(OrdersAt(lv, side, p)) :
            /\ m = ends[RankOf(side, p) - 1] + j
            /\ OrdersAt(lv, side, p)[j].order_id = id
      <3>1. PlaceOfId(lv, side, ends, ix[id].price, m, id)
        BY <1>4, PositionIs
      <3> QED
        BY <3>1, <1>3 DEF PlaceOfId
    <2>2. j = i
      BY <2>1, DistinctInList
    <2> QED
      BY <2>1, <2>2
  <1> HIDE DEF at, q
  <1>5. Positions(q, id) = {at}
    BY <1>1, <1>2, <1>4 DEF Positions
  <1> QED
    BY <1>5 DEF q, at

\* An id has a place in the queue of a side exactly when it is indexed there.
LEMMA PositionsOfResting ==
  ASSUME NEW lv, NEW ix, WellTyped(lv, ix), Indexed(lv, ix), NEW side \in Sides, NEW id
  PROVE  (Positions(QueueOf(lv, side), id) # {}) <=> (id \in DOMAIN ix /\ ix[id].side = side)
  <1> DEFINE q == QueueOf(lv, side)
  <1>1. PICK ends : Queued(lv, side, ends)
    BY QueueIsJoined
  <1>2. q \in Seq(Order) /\ DOMAIN q = 1..Len(q)
    BY QueueIsJoined, LenProperties
  <1>3. ASSUME Positions(q, id) # {}
        PROVE  id \in DOMAIN ix /\ ix[id].side = side
    <2>1. PICK m \in 1..Len(q) : q[m].order_id = id
      BY <1>2, <1>3 DEF Positions
    <2> QED
      BY <1>1, <2>1, PositionIs
  <1>4. ASSUME id \in DOMAIN ix, ix[id].side = side
        PROVE  Positions(q, id) # {}
    <2> DEFINE p == ix[id].price
    <2>1. Holds(lv[side], p, id) /\ p \in Prices
      BY <1>4 DEF Indexed, WellTyped
    <2>2. PICK i \in 1..Len(OrdersAt(lv, side, p)) : OrdersAt(lv, side, p)[i].order_id = id
      <3>1. lv[side][p].orders \in Seq(Order)
        BY <2>1 DEF WellTyped, LevelMap, Level, Holds
      <3> QED
        BY <2>1, <3>1, LenProperties DEF Holds, OrdersAt
    <2> HIDE DEF p
    <2>3. Positions(q, id) = {ends[RankOf(side, p) - 1] + i}
      BY <1>1, <2>1, <2>2, PositionOf
    <2> QED
      BY <2>3
  <1> QED
    BY <1>3, <1>4

\* Cancel and the first half of Modify: what the promise calls the withdrawn book.
LEMMA WithdrawnQueues ==
  ASSUME IInv, NEW id \in DOMAIN order_index, NEW s \in Sides
  PROVE  QueueOf(LevelsWithout(id), s) = WithoutOrder(QueueOf(levels, s), id)
  <1>1. WellTyped(levels, order_index) /\ Indexed(levels, order_index)
    BY DEF IInv
  <1>2. PICK side \in Sides : \E p \in DOMAIN levels[side] : \E i \in 1..Len(levels[side][p].orders) :
           /\ order_index[id] = [side |-> side, price |-> p]
           /\ OrderOf(id) = levels[side][p].orders[i]
           /\ LevelsWithout(id) = LevelsStored(side, p, LevelWithout(levels[side][p], i))
    BY WithdrawnLevel
  <1>3. PICK p \in DOMAIN levels[side] : \E i \in 1..Len(levels[side][p].orders) :
           /\ order_index[id] = [side |-> side, price |-> p]
           /\ OrderOf(id) = levels[side][p].orders[i]
           /\ LevelsWithout(id) = LevelsStored(side, p, LevelWithout(levels[side][p], i))
    BY <1>2
  <1>4. PICK i \in 1..Len(levels[side][p].orders) :
           /\ order_index[id] = [side |-> side, price |-> p]
           /\ OrderOf(id) = levels[side][p].orders[i]
           /\ LevelsWithout(id) = LevelsStored(side, p, LevelWithout(levels[side][p], i))
    BY <1>3
  <1> DEFINE orders == OrdersAt(levels, side, p)
             level  == LevelWithout(levels[side][p], i)
             q      == QueueOf(levels, s)
  <1>5. p \in Prices /\ orders = levels[side][p].orders /\ i \in 1..Len(orders)
    BY <1>1 DEF WellTyped, LevelMap, OrdersAt
  <1>6. level.orders = RemoveAt(orders, i)
    BY <1>5 DEF LevelWithout
  <1>7. orders[i].order_id = id
    <2>1. \E j \in 1..Len(orders) : orders[j].order_id = id
      <3>1. Holds(levels[side], p, id)
        BY <1>1, <1>4 DEF Indexed
      <3>2. orders \in Seq(Order)
        BY <1>5, <1>1 DEF WellTyped, LevelMap, Level
      <3> QED
        BY <3>1, <3>2, <1>5, LenProperties DEF Holds
    <2>2. OrderOf(id) = orders[Position(orders, id)]
      BY <1>4, <1>5 DEF OrderOf
    <2>3. orders[Position(orders, id)].order_id = id
      <3>1. DOMAIN orders = 1..Len(orders)
        BY <1>5, <1>1, LenProperties DEF WellTyped, LevelMap, Level
      <3> HIDE DEF orders
      <3> QED
        BY <2>1, <3>1 DEF Position
    <2> QED
      BY <2>2, <2>3, <1>4, <1>5
  <1>8. WellTyped(LevelsWithout(id), Unindexed(id))
    BY <1>1, Withdrawal
  <1>9. PICK ends : Queued(levels, s, ends)
    BY <1>1, QueueIsJoined
  <1> HIDE DEF level, orders
  <1>10. CASE s = side
    <2> DEFINE at == ends[RankOf(side, p) - 1] + i
    <2>1. QueueOf(LevelsWithout(id), s) = RemoveAt(q, at)
      BY <1>1, <1>4, <1>5, <1>6, <1>8, <1>9, <1>10, QueueShortened DEF orders, level
    <2>2. Positions(q, id) = {at}
      BY <1>1, <1>5, <1>7, <1>9, <1>10, PositionOf DEF orders
    <2>3. at \in Nat
      <3>1. at \in 1..Len(q)
        BY <1>1, <1>5, <1>9, <1>10, PlaceOfPrice DEF orders
      <3> QED
        BY <3>1
    <2> HIDE DEF at, q
    <2>4. (CHOOSE m \in {at} : \A j \in {at} : m <= j) = at
      BY <2>3
    <2>5. WithoutOrder(q, id) = RemoveAt(q, at)
      BY <2>2, <2>4 DEF WithoutOrder
    <2> QED
      BY <2>1, <2>5 DEF q
  <1>11. CASE s # side
    <2>1. QueueOf(LevelsWithout(id), s) = q
      BY <1>1, <1>4, <1>11, OtherQueueKept
    <2>2. order_index[id].side # s
      BY <1>4, <1>11
    <2>3. Positions(q, id) = {}
      BY <1>1, <2>2, PositionsOfResting
    <2> HIDE DEF q
    <2>4. WithoutOrder(q, id) = q
      BY <2>3 DEF WithoutOrder
    <2> QED
      BY <2>1, <2>4 DEF q
  <1> QED
    BY <1>10, <1>11

-------------------------------------------------------------------------------
(***************************************************************************)
(* One fill, seen from the queues.                                         *)
(***************************************************************************)
\* The call under way reaches the prices that the price it matches at crosses.
ReachInv == ~Idle => SameReach(incoming, incoming.side, incoming.price)

\* The first entry of a list replaced.
LEMMA NewFirst ==
  ASSUME NEW S, NEW s \in Seq(S), s # <<>>, NEW x \in S
  PROVE  <<x>> \o Tail(s) = [s EXCEPT ![1] = x]
  <1> DEFINE one  == <<x>>
             tail == Tail(s)
             new  == one \o tail
             len  == Len(s)
  <1>1. /\ len \in Nat \ {0} /\ DOMAIN s = 1..len
        /\ tail \in Seq(S) /\ Len(tail) = len - 1 /\ \A i \in 1..(len - 1) : tail[i] = s[i + 1]
    BY HeadTailProperties, EmptySeq, LenProperties
  <1>2. one \in Seq(S) /\ Len(one) = 1 /\ one[1] = x
    OBVIOUS
  <1> HIDE DEF one, tail, len
  <1>3. /\ new \in Seq(S) /\ Len(new) = 1 + (len - 1)
        /\ \A i \in 1..(1 + (len - 1)) :
             new[i] = IF i <= 1 THEN one[i] ELSE tail[i - 1]
    <2>1. /\ new \in Seq(S) /\ Len(new) = Len(one) + Len(tail)
          /\ \A i \in 1..(Len(one) + Len(tail)) :
               new[i] = IF i <= Len(one) THEN one[i] ELSE tail[i - Len(one)]
      BY <1>1, <1>2, ConcatProperties
    <2> HIDE DEF new
    <2> QED
      BY <2>1, <1>1, <1>2
  <1> HIDE DEF new
  <1>4. DOMAIN new = 1..len /\ new = [i \in 1..len |-> new[i]]
    BY <1>1, <1>3, LenProperties
  <1>5. s = [i \in 1..len |-> s[i]]
    BY <1>1
  <1>6. ASSUME NEW i \in 1..len
        PROVE  new[i] = [s EXCEPT ![1] = x][i]
    <2>1. CASE i = 1
      BY <2>1, <1>1, <1>2, <1>3
    <2>2. CASE i # 1
      <3>1. i - 1 \in 1..(len - 1) /\ (i - 1) + 1 = i /\ ~(i <= 1) /\ i \in 1..(1 + (len - 1))
        BY <2>2, <1>1
      <3> QED
        BY <2>2, <3>1, <1>1, <1>3
    <2> QED
      BY <2>1, <2>2
  <1>7. new = [s EXCEPT ![1] = x]
    BY <1>1, <1>4, <1>6
  <1> QED
    BY <1>7 DEF new, one, tail

\* What a fill does to the two queues: the opposing one loses its first order, or a part
\* of it. An incoming order takes n from that order, all of it or all it wants.
TakesFirst(in, q, n, new) ==
  /\ q # <<>> /\ Reaches(in, q[1].price)
  /\ n = Smaller(in.qty, q[1].qty)
  /\ q[1].qty <= in.qty => new = Tail(q)
  /\ in.qty < q[1].qty => new = [q EXCEPT ![1] = FirstLess(q, in.qty)]

\* One fill, seen in the opposing queue.
FillOfQueue(q, new) ==
  /\ q \in Seq(Order) /\ new \in Seq(Order)
  /\ TakesFirst(incoming, q, TradedQty, new)
  /\ trades' = Append(trades, FirstTrade(q, TradedQty))

\* A turn of the matching loop is such a fill and leaves the own side alone.
LEMMA FillQueues ==
  ASSUME AdmissionInv, ReachInv, Fill
  PROVE  /\ FillOfQueue(QueueOf(levels, TradedSide), QueueOf(levels', TradedSide))
         /\ QueueOf(levels', incoming.side) = QueueOf(levels, incoming.side)
  <1> DEFINE side   == TradedSide
             p      == TradedPrice
             orders == TradedLevel.orders
             level  == LevelAfterFill(TradedLevel, TradedQty)
             q      == QueueOf(levels, side)
             new    == QueueOf(levels', side)
  <1>1. /\ side \in Sides /\ incoming.side \in Sides /\ side # incoming.side
        /\ p \in DOMAIN levels[side] /\ p \in Prices
        /\ Crosses(incoming.side, incoming.price, p)
        /\ orders \in Seq(Order) /\ orders # <<>>
        /\ Head(orders) = orders[1] /\ orders[1] \in Order
        /\ HeldOnce(orders, side, p, order_index)
        /\ TradedQty \in Nat \ {0} /\ TradedQty <= incoming.qty /\ TradedQty <= orders[1].qty
        /\ levels' = LevelsStored(side, p, level)
        /\ ~Idle /\ incoming \in Call
    BY FillFacts DEF AdmissionInv, LevelsStored
  <1>2. TradedQty = Smaller(incoming.qty, orders[1].qty)
    BY <1>1 DEF TradedQty
  <1>3. trades' = Append(trades, [resting_order_id |-> orders[1].order_id,
                                  price |-> orders[1].price, qty |-> TradedQty])
    <2>1. trades' = Append(trades, [resting_order_id |-> Head(orders).order_id,
                                    price |-> Head(orders).price, qty |-> TradedQty])
      BY DEF Fill, TradedQty, TradedLevel, TradedPrice, TradedSide
    <2> QED
      BY <2>1, <1>1
  <1>4. WellTyped(levels, order_index) /\ WellTyped(levels', order_index')
    <2>1. IInv'
      BY FillPreserves DEF AdmissionInv
    <2> QED
      BY <2>1 DEF AdmissionInv, IInv
  <1>5. orders = OrdersAt(levels, side, p) /\ DOMAIN levels[side] # {}
    BY <1>1 DEF OrdersAt, TradedLevel
  <1>6. orders[1].price = p
    BY <1>1 DEF HeldOnce
  <1>7. Reaches(incoming, p)
    BY <1>1 DEF ReachInv, SameReach
  <1>8. level.orders = IF orders[1].qty = TradedQty THEN Tail(orders)
                       ELSE <<[orders[1] EXCEPT !.qty = @ - TradedQty]>> \o Tail(orders)
    BY <1>1 DEF LevelAfterFill
  <1>9. orders[1].qty \in Nat \ {0} /\ incoming.qty \in Nat
    BY <1>1 DEF Order, Call
  <1>10. PICK ends : Queued(levels, side, ends)
    BY <1>1, <1>4, QueueIsJoined
  <1>11. Len(orders) >= 1 /\ 1 \in 1..Len(orders)
    BY <1>1, LenProperties, EmptySeq
  <1>12. ends[RankOf(side, p) - 1] = 0
    <2>1. p = BestPrice(side)
      BY DEF TradedPrice
    <2> HIDE DEF side, p, orders
    <2> QED
      BY <2>1, <1>1, <1>4, <1>5, <1>10, <1>11, BestStandsFirst
  <1>13. QueueOf(levels', incoming.side) = QueueOf(levels, incoming.side)
    <2> HIDE DEF side, p, level
    <2> QED
      BY <1>1, <1>4, OtherQueueKept
  <1> HIDE DEF side, p, level, orders
  <1>14. ends[RankOf(side, p) - 1] + 1 \in 1..Len(q)
         /\ q[ends[RankOf(side, p) - 1] + 1] = orders[1]
    BY <1>1, <1>4, <1>5, <1>10, <1>11, PlaceOfPrice
  <1>15. 1 \in 1..Len(q) /\ q[1] = orders[1]
    BY <1>12, <1>14
  <1>16. q \in Seq(Order) /\ new \in Seq(Order)
    BY <1>1, <1>4, QueueIsJoined
  <1>17. q # <<>>
    BY <1>15
  <1>18. CASE orders[1].qty <= incoming.qty
    <2>1. TradedQty = orders[1].qty
      BY <1>2, <1>9, <1>18 DEF Smaller
    <2>2. level.orders = RemoveAt(orders, 1)
      BY <2>1, <1>1, <1>8, TailIsRemoveAt
    <2>3. new = RemoveAt(q, ends[RankOf(side, p) - 1] + 1)
      BY <2>2, <1>1, <1>4, <1>5, <1>10, <1>11, QueueShortened
    <2>4. new = RemoveAt(q, 1)
      BY <2>3, <1>12
    <2>5. new = Tail(q)
      BY <2>4, <1>16, <1>17, TailIsRemoveAt
    <2>6. ~(incoming.qty < q[1].qty)
      BY <1>9, <1>15, <1>18
    <2> HIDE DEF q, new
    <2>7. FillOfQueue(q, new)
      BY <2>5, <2>6, <1>2, <1>3, <1>6, <1>7, <1>15, <1>16, <1>17
      DEF FillOfQueue, TakesFirst, FirstTrade
    <2> QED
      BY <2>7, <1>13 DEF q, new, side
  <1>19. CASE incoming.qty < orders[1].qty
    <2> DEFINE x == [orders[1] EXCEPT !.qty = @ - TradedQty]
    <2>1. TradedQty = incoming.qty /\ orders[1].qty # TradedQty
      BY <1>2, <1>9, <1>19 DEF Smaller
    <2>2. orders[1].qty - TradedQty \in Nat \ {0}
      BY <2>1, <1>9, <1>19
    <2>3. x \in Order
      BY <2>2, <1>1 DEF Order
    <2>4. level.orders = <<x>> \o Tail(orders)
      BY <2>1, <1>8
    <2> HIDE DEF x
    <2>5. level.orders = [orders EXCEPT ![1] = x]
      BY <2>3, <2>4, <1>1, NewFirst
    <2>6. level.orders = [OrdersAt(levels, side, p) EXCEPT ![1] = x] /\ Len(OrdersAt(levels, side, p)) >= 1
      BY <2>5, <1>5, <1>11
    <2>7. new = [q EXCEPT ![ends[RankOf(side, p) - 1] + 1] = x]
      BY <2>3, <2>6, <1>1, <1>4, <1>10, QueueReplaced
    <2>8. new = [q EXCEPT ![1] = x]
      BY <2>7, <1>12
    <2>9. x = FirstLess(q, incoming.qty)
      BY <2>1, <1>15 DEF x, FirstLess
    <2>10. ~(q[1].qty <= incoming.qty)
      BY <1>9, <1>15, <1>19
    <2> HIDE DEF q, new
    <2>11. new = [q EXCEPT ![1] = FirstLess(q, incoming.qty)]
      BY <2>8, <2>9
    <2>12. FillOfQueue(q, new)
      BY <2>10, <2>11, <1>2, <1>3, <1>6, <1>7, <1>15, <1>16, <1>17
      DEF FillOfQueue, TakesFirst, FirstTrade
    <2> QED
      BY <2>12, <1>13 DEF q, new, side
  <1>20. orders[1].qty <= incoming.qty \/ incoming.qty < orders[1].qty
    BY <1>9
  <1> QED
    BY <1>18, <1>19, <1>20

\* A trade that is reported first can be appended to those before.
LEMMA JoinedInTurn ==
  ASSUME NEW S, NEW T, NEW a \in Seq(S), NEW b \in Seq(T), NEW x
  PROVE  a \o (<<x>> \o b) = Append(a, x) \o b
  <1> DEFINE U == S \cup T \cup {x}
             one == <<x>>
             ab  == Append(a, x)
  <1>1. a \in Seq(U) /\ b \in Seq(U) /\ one \in Seq(U) /\ x \in U
    OBVIOUS
  <1> HIDE DEF U, one
  <1>2. ab = a \o one
    BY <1>1 DEF one
  <1> HIDE DEF ab
  <1>3. a \o (one \o b) = (a \o one) \o b
    BY <1>1, ConcatAssociative
  <1> QED
    BY <1>2, <1>3 DEF one, ab

\* What the smaller of two quantities is.
LEMMA SmallerFacts ==
  ASSUME NEW a \in Nat, NEW b \in Nat
  PROVE  /\ b <= a => Smaller(a, b) = b
         /\ a < b => Smaller(a, b) = a
  BY DEF Smaller

\* EXCEPT keeps the length of a sequence whose first entry it replaces, and the other entries.
LEMMA FirstEntryReplaced ==
  ASSUME NEW S, NEW s \in Seq(S), Len(s) >= 1, NEW x, NEW new, new = [s EXCEPT ![1] = x]
  PROVE  FirstIs(s, new, x)
  <1>1. Len(s) \in Nat /\ DOMAIN s = 1..Len(s)
    BY LenProperties
  <1>2. DOMAIN new = 1..Len(s)
    BY <1>1
  <1>3. new[1] = x /\ \A i \in 2..Len(s) : new[i] = s[i]
    BY <1>1
  <1>4. new \in Seq(S \cup {x})
    <2>1. s \in Seq(S \cup {x}) /\ 1 \in 1..Len(s)
      BY <1>1
    <2> QED
      BY <2>1, ExceptSeq
  <1>5. Len(new) = Len(s)
    BY <1>1, <1>2, <1>4, ExceptSeq
  <1> QED
    BY <1>3, <1>5 DEF FirstIs

\* What a match has done so far and what it is still to do are together the same
\* before and after it takes what it can from the first order of the queue.
LEMMA TakingTheFirst ==
  ASSUME NEW prices, NEW q \in Seq(Rested(prices)), NEW new \in Seq(Rested(prices)),
         NEW in, in.qty \in Nat \ {0}, NEW n, TakesFirst(in, q, n, new),
         NEW out, WantsLess(in, out, n), NEW S, NEW done \in Seq(S)
  PROVE  /\ Executed(in, q) = n + Executed(out, new)
         /\ AfterFills(in, q) = AfterFills(out, new)
         /\ done \o TradesOf(in, q) = Append(done, FirstTrade(q, n)) \o TradesOf(out, new)
  <1> DEFINE x == FirstTrade(q, n)
  <1>1. /\ Len(q) \in Nat /\ Len(q) >= 1 /\ DOMAIN q = 1..Len(q) /\ q[1].qty \in Nat \ {0}
        /\ q # <<>> /\ Reaches(in, q[1].price) /\ n = Smaller(in.qty, q[1].qty)
    <2>1. q # <<>> /\ Reaches(in, q[1].price) /\ n = Smaller(in.qty, q[1].qty)
      BY DEF TakesFirst
    <2>2. Len(q) \in Nat /\ DOMAIN q = 1..Len(q) /\ Len(q) >= 1
      BY <2>1, QueueFacts, EmptySeq
    <2>3. 1 \in 1..Len(q)
      BY <2>2
    <2> QED
      BY <2>1, <2>2, <2>3, QueueFacts
  <1>2. CASE q[1].qty <= in.qty
    <2>1. n = q[1].qty /\ new = Tail(q)
      <3>1. Smaller(in.qty, q[1].qty) = q[1].qty
        BY <1>1, <1>2, SmallerFacts
      <3>2. new = Tail(q)
        BY <1>2 DEF TakesFirst
      <3> QED
        BY <3>1, <3>2, <1>1
    <2>2. WantsLess(in, out, q[1].qty)
      BY <2>1, <1>1, <1>2 DEF WantsLess
    <2>3. /\ TradesOf(in, q) = <<x>> \o TradesOf(out, new)
          /\ AfterFills(in, q) = AfterFills(out, new)
          /\ Executed(in, q) = n + Executed(out, new)
          /\ \E T : TradesOf(out, new) \in Seq(T)
      BY <2>1, <2>2, <1>1, <1>2, FullFill
    <2> DEFINE rest == TradesOf(out, new)
    <2>4. PICK T : rest \in Seq(T)
      BY <2>3
    <2> HIDE DEF x, rest
    <2>5. done \o (<<x>> \o rest) = Append(done, x) \o rest
      BY <2>4, JoinedInTurn
    <2>6. TradesOf(in, q) = <<x>> \o rest
      BY <2>3 DEF rest
    <2>7. done \o TradesOf(in, q) = Append(done, x) \o rest
      BY <2>5, <2>6, Zenon
    <2> QED
      BY <2>3, <2>7 DEF rest, x
  <1>3. CASE in.qty < q[1].qty
    <2>1. n = in.qty /\ new = [q EXCEPT ![1] = FirstLess(q, in.qty)]
      <3>1. Smaller(in.qty, q[1].qty) = in.qty
        BY <1>1, <1>3, SmallerFacts
      <3>2. new = [q EXCEPT ![1] = FirstLess(q, in.qty)]
        BY <1>3, Zenon DEF TakesFirst
      <3> QED
        BY <3>1, <3>2, <1>1
    <2>2. FirstIs(q, new, FirstLess(q, in.qty))
      BY <2>1, <1>1, FirstEntryReplaced
    <2>3. out.qty = 0 /\ out.qty \in Nat
      BY <2>1 DEF WantsLess
    <2>4. /\ TradesOf(in, q) = <<x>>
          /\ AfterFills(in, q) = new
          /\ Executed(in, q) = n
      <3>1. /\ TradesOf(in, q) = <<FirstTrade(q, in.qty)>>
            /\ AfterFills(in, q) = new
            /\ Executed(in, q) = in.qty
        <4>1. q # <<>> /\ Reaches(in, q[1].price)
          BY <1>1
        <4> QED
          BY <4>1, <2>2, <2>3, <1>3, PartialFill
      <3> QED
        BY <3>1, <2>1
    <2>5. /\ TradesOf(out, new) = <<>>
          /\ AfterFills(out, new) = new
          /\ Executed(out, new) = 0
      BY <2>3, NothingFills
    <2>6. done \o <<x>> = Append(done, x) \o <<>>
      <3>1. <<>> \in Seq(S)
        OBVIOUS
      <3> HIDE DEF x
      <3>2. done \o (<<x>> \o <<>>) = Append(done, x) \o <<>>
        BY <3>1, JoinedInTurn
      <3>3. <<x>> \o <<>> = <<x>>
        OBVIOUS
      <3> QED
        BY <3>2, <3>3
    <2>7. n = n + 0
      BY <2>1
    <2> QED
      BY <2>4, <2>5, <2>6, <2>7
  <1>4. q[1].qty <= in.qty \/ in.qty < q[1].qty
    BY <1>1
  <1> QED
    BY <1>2, <1>3, <1>4

\* A fill takes from the prediction for the whole call exactly its own first part.
LEMMA FillLeavesTheRest ==
  ASSUME AdmissionInv, ReachInv, Fill
  PROVE  LET q   == QueueOf(levels, TradedSide)
             new == QueueOf(levels', TradedSide)
         IN  /\ Executed(incoming, q) = TradedQty + Executed(incoming', new)
             /\ AfterFills(incoming, q) = AfterFills(incoming', new)
             /\ trades \o TradesOf(incoming, q) = trades' \o TradesOf(incoming', new)
  <1> DEFINE q   == QueueOf(levels, TradedSide)
             new == QueueOf(levels', TradedSide)
             out == incoming'
             S   == [resting_order_id : OrderIds, price : Prices, qty : Nat]
  <1>1. FillOfQueue(q, new)
    BY FillQueues
  <1>2. /\ TradedQty \in Nat \ {0} /\ TradedQty <= incoming.qty
        /\ out.qty = incoming.qty - TradedQty /\ incoming \in Call
        /\ out.side = incoming.side /\ out.price = incoming.price
        /\ out.is_market = incoming.is_market
    BY FillFacts DEF AdmissionInv
  <1>3. incoming.qty \in Nat \ {0} /\ trades \in Seq(S)
    BY <1>2 DEF Call, AdmissionInv, IInv, CallTyped
  <1> HIDE DEF q, new, S, out
  <1>4. /\ q \in Seq(Rested(Prices)) /\ new \in Seq(Rested(Prices))
        /\ TakesFirst(incoming, q, TradedQty, new)
        /\ trades' = Append(trades, FirstTrade(q, TradedQty))
    BY <1>1, OrderIsRested DEF FillOfQueue
  <1>5. WantsLess(incoming, out, TradedQty)
    BY <1>2, <1>3 DEF WantsLess
  <1>6. /\ Executed(incoming, q) = TradedQty + Executed(out, new)
        /\ AfterFills(incoming, q) = AfterFills(out, new)
        /\ trades \o TradesOf(incoming, q)
             = Append(trades, FirstTrade(q, TradedQty)) \o TradesOf(out, new)
    BY <1>3, <1>4, <1>5, TakingTheFirst, SMTT(30)
  <1> QED
    BY <1>4, <1>6 DEF q, new, out

-------------------------------------------------------------------------------
(***************************************************************************)
(* A fill is a stuttering step of the promise: what the rest of the match  *)
(* takes from the queue it leaves is what was still to come before it.     *)
(***************************************************************************)
\* The two queues of the levels lv.
QueuesOf(lv) == [side \in Sides |-> QueueOf(lv, side)]

\* The book of the refinement is these queues.
LEMMA BookIs == Book = QueuesOf(levels) /\ Book' = QueuesOf(levels')
  <1>1. \A side \in Sides : OrdersOf(side) = QueueOf(levels, side)
    BY OrdersOfIs
  <1>2. (\A side \in Sides : OrdersOf(side) = QueueOf(levels, side))'
    BY <1>1, PTL
  <1>3. \A side \in Sides : OrdersOf(side)' = QueueOf(levels', side)
    <2>1. \A side \in Sides : QueueOf(levels, side)' = QueueOf(levels', side)
      BY DEF QueueOf, ListsOf, OrdersAt
    <2> QED
      BY <1>2, <2>1
  <1> QED
    BY <1>1, <1>3 DEF Book, QueuesOf

\* Two calls leave the same book when their fills do and the same quantity is left over.
LEMMA MatchedAlike ==
  ASSUME NEW b, NEW c, NEW in, NEW out, NEW canRest,
         out.side = in.side, out.order_id = in.order_id, out.price = in.price,
         AfterFills(in, b[OtherSide(in.side)]) = AfterFills(out, c[OtherSide(in.side)]),
         in.qty - Executed(in, b[OtherSide(in.side)])
           = out.qty - Executed(out, c[OtherSide(in.side)]),
         \A side \in Sides : side # OtherSide(in.side) => b[side] = c[side]
  PROVE  Matched(b, in, canRest) = Matched(c, out, canRest)
  <1> DEFINE opp  == OtherSide(in.side)
             left == in.qty - Executed(in, b[opp])
             some == out.qty - Executed(out, c[opp])
             first(side) ==
               IF side = opp THEN AfterFills(in, b[side])
               ELSE IF left > 0 /\ canRest
                    THEN Enqueue(side, b[side], [order_id |-> in.order_id, price |-> in.price,
                                                 qty |-> left])
                    ELSE b[side]
             second(side) ==
               IF side = opp THEN AfterFills(out, c[side])
               ELSE IF some > 0 /\ canRest
                    THEN Enqueue(side, c[side], [order_id |-> out.order_id, price |-> out.price,
                                                 qty |-> some])
                    ELSE c[side]
  <1>1. Matched(b, in, canRest) = [side \in Sides |-> first(side)]
    BY DEF Matched
  <1>2. Matched(c, out, canRest) = [side \in Sides |-> second(side)]
    BY DEF Matched
  <1>3. left = some
    OBVIOUS
  <1> HIDE DEF left, some, opp
  <1>4. ASSUME NEW side \in Sides
        PROVE  first(side) = second(side)
    BY <1>3, Zenon DEF opp
  <1> HIDE DEF first, second
  <1> QED
    BY <1>1, <1>2, <1>4

\* A fill is a stuttering step of the promise: what the whole call will have done is as before.
LEMMA FillStutters ==
  ASSUME AdmissionInv, ReachInv, Fill
  PROVE  /\ AbstractQueue' = AbstractQueue
         /\ AbstractTrades' = AbstractTrades
         /\ AbstractTradedQty' = AbstractTradedQty
         /\ error' = error
  <1> DEFINE b    == QueuesOf(levels)
             c    == QueuesOf(levels')
             side == TradedSide
             out  == incoming'
  <1>1. /\ ~Idle /\ ~Idle' /\ side \in Sides /\ incoming.side \in Sides /\ side # incoming.side
        /\ traded_qty' = traded_qty + TradedQty /\ TradedQty \in Nat
        /\ out.qty = incoming.qty - TradedQty /\ incoming \in Call
        /\ out.side = incoming.side /\ out.price = incoming.price
        /\ out.can_rest = incoming.can_rest /\ out.order_id = incoming.order_id
    BY FillFacts DEF AdmissionInv
  <1>2. side = OtherSide(incoming.side)
    BY DEF TradedSide
  <1>3. /\ b[side] = QueueOf(levels, side) /\ c[side] = QueueOf(levels', side)
        /\ \A s \in Sides : s # side => s = incoming.side
        /\ b[incoming.side] = c[incoming.side]
    <2>1. QueueOf(levels', incoming.side) = QueueOf(levels, incoming.side)
      BY FillQueues
    <2>2. \A s \in Sides : s # side => s = incoming.side
      BY <1>1 DEF Sides
    <2> QED
      BY <2>1, <2>2, <1>1 DEF QueuesOf
  <1>4. /\ Executed(incoming, b[side]) = TradedQty + Executed(out, c[side])
        /\ AfterFills(incoming, b[side]) = AfterFills(out, c[side])
        /\ trades \o TradesOf(incoming, b[side]) = trades' \o TradesOf(out, c[side])
    BY <1>3, FillLeavesTheRest
  <1>5. Executed(out, c[side]) \in Nat /\ incoming.qty \in Nat /\ traded_qty \in Int
    <2>1. QueueOf(levels', side) \in Seq(Order)
      BY FillQueues DEF FillOfQueue
    <2>2. out.qty \in Nat /\ incoming.qty \in Nat
      BY FillFacts DEF AdmissionInv, Call
    <2>3. Available(out, c[side]) \in Nat
      BY <2>1, <1>3, OrdersCount, QtyFacts DEF Available
    <2>4. Executed(out, c[side]) \in Nat
      BY <2>2, <2>3 DEF Executed, Smaller
    <2> QED
      BY <2>2, <2>4 DEF AdmissionInv, IInv, CallTyped
  <1> HIDE DEF b, c, side, out
  <1>6. incoming.qty - Executed(incoming, b[side]) = out.qty - Executed(out, c[side])
    BY <1>1, <1>4, <1>5
  <1>7. traded_qty + Executed(incoming, b[side]) = traded_qty' + Executed(out, c[side])
    BY <1>1, <1>4, <1>5
  <1>8. Matched(b, incoming, incoming.can_rest) = Matched(c, out, out.can_rest)
    <2>1. Matched(b, incoming, incoming.can_rest) = Matched(c, out, incoming.can_rest)
      BY <1>1, <1>2, <1>3, <1>4, <1>6, MatchedAlike
    <2> QED
      BY <2>1, <1>1
  <1>9. Book = b /\ Book' = c
    BY BookIs DEF b, c
  <1>10. Opposing = b[side] /\ Opposing' = c[side]
    BY <1>1, <1>2, <1>9 DEF Opposing, out
  <1> QED
    BY <1>1, <1>4, <1>7, <1>8, <1>9, <1>10
    DEF AbstractQueue, AbstractTrades, AbstractTradedQty, Fill, out

-------------------------------------------------------------------------------
(***************************************************************************)
(* So is the return: when the loop is over nothing more would be taken, and*)
(* the rest of the incoming order joins its queue.                         *)
(***************************************************************************)
\* When the loop is over, the rest of the call takes nothing from the opposing queue.
LEMMA NothingReached ==
  ASSUME AdmissionInv, ReachInv, ~Idle, ~Matching
  PROVE  LET q == QueueOf(levels, OtherSide(incoming.side))
         IN  /\ TradesOf(incoming, q) = <<>>
             /\ AfterFills(incoming, q) = q
             /\ Executed(incoming, q) = 0
  <1> DEFINE side  == incoming.side
             other == OtherSide(side)
             q     == QueueOf(levels, other)
             qty   == incoming.qty
             limit == incoming.price
  <1>1. /\ incoming \in Call /\ side \in Sides /\ qty \in Nat /\ other \in Sides /\ limit \in Int
    BY DEF AdmissionInv, IInv, CallTyped, Call, Idle, OtherSide, Sides
  <1>2. WellTyped(levels, order_index) /\ Indexed(levels, order_index)
    BY DEF AdmissionInv, IInv
  <1>3. q \in Seq(Order)
    BY <1>1, <1>2, QueueIsJoined
  <1>4. PICK ends : Queued(levels, other, ends)
    BY <1>1, <1>2, QueueIsJoined
  <1>5. qty = 0 \/ \A i \in 1..Len(q) : ~Reaches(incoming, q[i].price)
    <2> SUFFICES ASSUME qty # 0, NEW i \in 1..Len(q) PROVE ~Reaches(incoming, q[i].price)
      OBVIOUS
    <2>1. DOMAIN levels[other] = {} \/ ~Crosses(side, limit, BestPrice(other))
      BY <1>1 DEF Matching
    <2> HIDE DEF q
    <2>2. \A r \in DOMAIN levels[other] : r \in Prices /\ ~Crosses(side, limit, r)
      <3>1. SUFFICES ASSUME NEW r \in DOMAIN levels[other]
                     PROVE  r \in Prices /\ ~Crosses(side, limit, r)
        OBVIOUS
      <3>2. /\ BestPrice(other) \in DOMAIN levels[other]
            /\ AtLeastAsGood(other, BestPrice(other), r)
        BY <1>1, <1>2, BestPriceIsBest
      <3>3. r \in Prices /\ r \in Int /\ BestPrice(other) \in Int
        BY <1>1, <1>2, <3>2, PriceAssumption DEF WellTyped, LevelMap, Prices
      <3> QED
        BY <1>1, <2>1, <3>2, <3>3 DEF Crosses, AtLeastAsGood, OtherSide, Sides
    <2> HIDE DEF other
    <2>3. PlacedOrder(levels, order_index, other, ends, i)
      BY <1>1, <1>2, <1>4, EveryPlaceIsInAList DEF q
    <2>4. PICK k \in 1..MaxPrice : \E j \in 1..Len(OrdersAt(levels, other, Ranked(other, k))) :
            q[i].price = Ranked(other, k)
      BY <2>3 DEF PlacedOrder, q
    <2>5. Ranked(other, k) \in DOMAIN levels[other]
      <3>1. OrdersAt(levels, other, Ranked(other, k)) # <<>>
        BY <2>4, EmptySeq
      <3> QED
        BY <3>1 DEF OrdersAt
    <2>6. q[i].price \in Prices /\ ~Crosses(side, limit, q[i].price)
      BY <2>2, <2>4, <2>5
    <2> QED
      BY <2>6 DEF ReachInv, SameReach
  <1> HIDE DEF q, other
  <1>6. /\ TradesOf(incoming, q) = <<>>
        /\ AfterFills(incoming, q) = q
        /\ Executed(incoming, q) = 0
    BY <1>1, <1>3, <1>5, OrderIsRested, NothingFills
  <1> QED
    BY <1>6 DEF q, other

\* The queues once the call has returned: the remainder stands where it joins.
LEMMA ReturnQueues ==
  ASSUME AdmissionInv, Return
  PROVE  /\ incoming.side \in Sides /\ incoming.qty \in Nat /\ OtherSide(incoming.side) # incoming.side
         /\ QueueOf(levels', OtherSide(incoming.side)) = QueueOf(levels, OtherSide(incoming.side))
         /\ QueueOf(levels', incoming.side) =
              IF incoming.qty > 0 /\ incoming.can_rest
              THEN Enqueue(incoming.side, QueueOf(levels, incoming.side),
                           [order_id |-> incoming.order_id, price |-> incoming.price,
                            qty |-> incoming.qty])
              ELSE QueueOf(levels, incoming.side)
  <1> DEFINE side  == incoming.side
             price == incoming.price
             order == [order_id |-> incoming.order_id, price |-> price, qty |-> incoming.qty]
             other == OtherSide(side)
             level == LevelWith(LevelAt(side, price), order)
  <1>1. /\ ~Idle /\ incoming \in Call /\ side \in Sides /\ other \in Sides /\ other # side
        /\ incoming.qty \in Nat /\ incoming.order_id \in OrderIds
    BY DEF AdmissionInv, IInv, CallTyped, Call, Idle, OtherSide, Sides, Return
  <1>2. WellTyped(levels, order_index) /\ Indexed(levels, order_index) /\ WellTyped(levels', order_index')
    <2>1. IInv'
      BY ReturnPreserves DEF AdmissionInv
    <2> QED
      BY <2>1 DEF AdmissionInv, IInv
  <1>3. CASE ~(incoming.qty > 0 /\ incoming.can_rest)
    <2>1. levels' = levels
      BY <1>3 DEF Return
    <2> QED
      BY <2>1, <1>1, <1>3
  <1>4. CASE incoming.qty > 0 /\ incoming.can_rest
    <2>1. levels' = [levels EXCEPT ![side] = Put(levels[side], price, level)]
      BY <1>4 DEF Return
    <2>2. price \in Prices
      BY <1>1, <1>4 DEF AdmissionInv, IInv, CallTyped
    <2>3. order \in Order /\ order.price = price
      BY <2>2, <1>1, <1>4 DEF Order
    <2>4. level.orders = Append(OrdersAt(levels, side, price), order)
      BY DEF LevelWith, LevelAt, OrdersAt
    <2> HIDE DEF level, order, side, price, other
    <2>5. OrdersAt(levels, side, price) \in Seq(Order)
      BY <1>1, <1>2, EmptySeq DEF OrdersAt, WellTyped, LevelMap, Level
    <2>6. level.orders # <<>>
      BY <2>3, <2>4, <2>5, AppendProperties
    <2>7. levels' = LevelsStored(side, price, level)
      BY <2>1, <2>6 DEF LevelsStored, Stored
    <2>8. QueueOf(levels', other) = QueueOf(levels, other)
      BY <2>7, <1>1, <1>2, OtherQueueKept
    <2>9. PICK ends : Queued(levels, side, ends)
      BY <1>1, <1>2, QueueIsJoined
    <2>10. QueueOf(levels', side)
             = InsertAt(QueueOf(levels, side), ends[RankOf(side, price)] + 1, order)
      BY <2>2, <2>3, <2>4, <2>7, <2>9, <1>1, <1>2, QueueLengthened
    <2>11. Enqueue(side, QueueOf(levels, side), order)
             = InsertAt(QueueOf(levels, side), ends[RankOf(side, price)] + 1, order)
      <3>1. Enqueue(side, QueueOf(levels, side), order)
              = InsertAt(QueueOf(levels, side), ends[RankOf(side, order.price)] + 1, order)
        BY <2>3, <2>9, <1>1, <1>2, EnqueueIsInsert
      <3> QED
        BY <3>1, <2>3
    <2> QED
      BY <2>8, <2>10, <2>11, <1>1, <1>4 DEF order, side, price, other
  <1> QED
    BY <1>3, <1>4

\* The return is a stuttering step of the promise.
LEMMA ReturnStutters ==
  ASSUME AdmissionInv, ReachInv, Return
  PROVE  /\ AbstractQueue' = AbstractQueue
         /\ AbstractTrades' = AbstractTrades
         /\ AbstractTradedQty' = AbstractTradedQty
         /\ error' = error
  <1> DEFINE side  == incoming.side
             other == OtherSide(side)
             b     == QueuesOf(levels)
             rested == [order_id |-> incoming.order_id, price |-> incoming.price,
                        qty |-> incoming.qty]
  <1>1. /\ ~Idle /\ ~Matching /\ Idle' /\ UNCHANGED <<traded_qty, trades, error>>
    BY DEF Return, Idle
  <1>2. /\ side \in Sides /\ incoming.qty \in Nat /\ other # side /\ other \in Sides
        /\ QueueOf(levels', other) = QueueOf(levels, other)
        /\ QueueOf(levels', side) =
             IF incoming.qty > 0 /\ incoming.can_rest
             THEN Enqueue(side, QueueOf(levels, side), rested)
             ELSE QueueOf(levels, side)
    BY ReturnQueues DEF OtherSide, Sides
  <1>3. b[other] = QueueOf(levels, other) /\ b[side] = QueueOf(levels, side)
    BY <1>2 DEF QueuesOf
  <1>4. /\ TradesOf(incoming, b[other]) = <<>>
        /\ AfterFills(incoming, b[other]) = b[other]
        /\ Executed(incoming, b[other]) = 0
    BY <1>1, <1>3, NothingReached
  <1>5. Book = b /\ Book' = QueuesOf(levels')
    BY BookIs
  <1>6. Opposing = b[other]
    BY <1>5 DEF Opposing
  <1>7. AbstractTrades' = AbstractTrades
    <2>1. trades \o <<>> = trades
      BY DEF AdmissionInv, IInv, CallTyped
    <2> QED
      BY <2>1, <1>1, <1>4, <1>6 DEF AbstractTrades
  <1>8. AbstractTradedQty' = AbstractTradedQty
    <2>1. traded_qty + 0 = traded_qty
      BY DEF AdmissionInv, IInv, CallTyped
    <2> QED
      BY <2>1, <1>1, <1>4, <1>6 DEF AbstractTradedQty
  <1>9. Matched(b, incoming, incoming.can_rest) = QueuesOf(levels')
    <2> DEFINE left == incoming.qty - Executed(incoming, b[other])
               matched(s) ==
                 IF s = other THEN AfterFills(incoming, b[s])
                 ELSE IF left > 0 /\ incoming.can_rest
                      THEN Enqueue(s, b[s], [order_id |-> incoming.order_id,
                                             price |-> incoming.price, qty |-> left])
                      ELSE b[s]
    <2>1. Matched(b, incoming, incoming.can_rest) = [s \in Sides |-> matched(s)]
      BY DEF Matched
    <2>2. left = incoming.qty
      BY <1>2, <1>4
    <2> HIDE DEF left, side, other, b
    <2>3. matched(other) = QueueOf(levels', other)
      BY <1>2, <1>3, <1>4
    <2>4. matched(side) = QueueOf(levels', side)
      BY <2>2, <1>2, <1>3
    <2>5. \A s \in Sides : s = other \/ s = side
      BY <1>2 DEF Sides
    <2> HIDE DEF matched
    <2>6. \A s \in Sides : matched(s) = QueueOf(levels', s)
      BY <2>3, <2>4, <2>5
    <2> QED
      BY <2>1, <2>6 DEF QueuesOf
  <1> HIDE DEF b
  <1>10. AbstractQueue' = AbstractQueue
    BY <1>1, <1>5, <1>9 DEF AbstractQueue
  <1> QED
    BY <1>1, <1>7, <1>8, <1>10

-------------------------------------------------------------------------------
(***************************************************************************)
(* The instance Promise has its own copy of every operator of PriceTime;   *)
(* each means the same.                                                    *)
(***************************************************************************)
LEMMA SameOperators ==
  /\ Promise!Sides = Sides
  /\ \A side : Promise!OtherSide(side) = OtherSide(side)
  /\ \A q, id : Promise!Positions(q, id) = Positions(q, id)
  /\ \A side, p, r : Promise!AtLeastAsGood(side, p, r) = AtLeastAsGood(side, p, r)
  /\ \A q, P : Promise!QtyOf(q, P) = QtyOf(q, P)
  /\ \A a, b : Promise!Smaller(a, b) = Smaller(a, b)
  /\ \A S : Promise!Cardinality(S) = Cardinality(S)
  /\ \A q, i, x : Promise!InsertAt(q, i, x) = InsertAt(q, i, x)
  /\ \A q, i : Promise!RemoveAt(q, i) = RemoveAt(q, i)
  <1>1. Promise!Sides = Sides /\ \A side : Promise!OtherSide(side) = OtherSide(side)
    BY DEF Promise!Sides, Sides, Promise!OtherSide, OtherSide
  <1>2. /\ \A q, id : Promise!Positions(q, id) = Positions(q, id)
        /\ \A side, p, r : Promise!AtLeastAsGood(side, p, r) = AtLeastAsGood(side, p, r)
        /\ \A a, b : Promise!Smaller(a, b) = Smaller(a, b)
    BY DEF Promise!Positions, Positions, Promise!AtLeastAsGood, AtLeastAsGood,
           Promise!Smaller, Smaller
  <1>3. \A q, P : Promise!QtyOf(q, P) = QtyOf(q, P)
    BY DEF Promise!QtyOf, QtyOf
  <1>4. \A S : Promise!Cardinality(S) = Cardinality(S)
    BY DEF Promise!Cardinality, Cardinality, Promise!IsFiniteSet, IsFiniteSet
  <1>5. /\ \A q, i, x : Promise!InsertAt(q, i, x) = InsertAt(q, i, x)
        /\ \A q, i : Promise!RemoveAt(q, i) = RemoveAt(q, i)
    BY DEF Promise!InsertAt, InsertAt, Promise!RemoveAt, RemoveAt
  <1> QED
    BY <1>1, <1>2, <1>3, <1>4, <1>5

\* The closed forms of one match,
LEMMA SameFills ==
  /\ \A in, p : Promise!Reaches(in, p) = Reaches(in, p)
  /\ \A q, p : Promise!QtyAtPrice(q, p) = QtyAtPrice(q, p)
  /\ \A in, q, i : Promise!FillAt(in, q, i) = FillAt(in, q, i)
  /\ \A in, q : Promise!Executed(in, q) = Executed(in, q)
  <1>1. \A in, p : Promise!Reaches(in, p) = Reaches(in, p)
    BY SameOperators DEF Promise!Reaches, Reaches
  <1>2. \A q, p : Promise!QtyAtPrice(q, p) = QtyAtPrice(q, p)
    BY SameOperators DEF Promise!QtyAtPrice, QtyAtPrice
  <1>3. \A q, i : Promise!Ahead(q, i) = Ahead(q, i)
    BY SameOperators DEF Promise!Ahead, Ahead
  <1>4. \A in, q : Promise!Available(in, q) = Available(in, q)
    BY <1>1, SameOperators DEF Promise!Available, Available
  <1>5. \A in, q, i : Promise!FillAt(in, q, i) = FillAt(in, q, i)
    BY <1>1, <1>3, SameOperators DEF Promise!FillAt, FillAt
  <1>6. \A in, q : Promise!Executed(in, q) = Executed(in, q)
    BY <1>4, SameOperators DEF Promise!Executed, Executed
  <1> QED
    BY <1>1, <1>2, <1>5, <1>6

\* its trades,
LEMMA SameTrades == \A in, q : Promise!TradesOf(in, q) = TradesOf(in, q)
  <1> SUFFICES ASSUME NEW in, NEW q PROVE Promise!TradesOf(in, q) = TradesOf(in, q)
    OBVIOUS
  <1> DEFINE trade(i, n)  == [resting_order_id |-> q[i].order_id, price |-> q[i].price, qty |-> n]
             count  == Cardinality({i \in DOMAIN q : FillAt(in, q, i) > 0})
             its(i) == trade(i, Promise!FillAt(in, q, i))
             our(i) == trade(i, FillAt(in, q, i))
  <1>1. \A i : Promise!FillAt(in, q, i) = FillAt(in, q, i)
    BY SameFills
  <1>2. Promise!Cardinality({i \in DOMAIN q : Promise!FillAt(in, q, i) > 0}) = count
    <2>1. {i \in DOMAIN q : Promise!FillAt(in, q, i) > 0} = {i \in DOMAIN q : FillAt(in, q, i) > 0}
      BY <1>1
    <2> QED
      BY <2>1, SameOperators
  <1>3. Promise!TradesOf(in, q) = [i \in 1..count |-> its(i)]
    BY <1>2 DEF Promise!TradesOf
  <1>4. TradesOf(in, q) = [i \in 1..count |-> our(i)]
    BY DEF TradesOf
  <1>5. \A i : its(i) = our(i)
    BY <1>1
  <1> HIDE DEF its, our
  <1> QED
    BY <1>3, <1>4, <1>5

\* the queue it leaves
LEMMA SameAfterFills == \A in, q : Promise!AfterFills(in, q) = AfterFills(in, q)
  <1> SUFFICES ASSUME NEW in, NEW q PROVE Promise!AfterFills(in, q) = AfterFills(in, q)
    OBVIOUS
  <1> DEFINE gone   == Cardinality({i \in DOMAIN q : FillAt(in, q, i) = q[i].qty})
             its(i) == [q[i + gone] EXCEPT !.qty = @ - Promise!FillAt(in, q, i + gone)]
             our(i) == [q[i + gone] EXCEPT !.qty = @ - FillAt(in, q, i + gone)]
  <1>1. \A i : Promise!FillAt(in, q, i) = FillAt(in, q, i)
    BY SameFills
  <1>2. Promise!Cardinality({i \in DOMAIN q : Promise!FillAt(in, q, i) = q[i].qty}) = gone
    <2>1. {i \in DOMAIN q : Promise!FillAt(in, q, i) = q[i].qty}
            = {i \in DOMAIN q : FillAt(in, q, i) = q[i].qty}
      BY <1>1
    <2> QED
      BY <2>1, SameOperators
  <1>3. Promise!AfterFills(in, q) = [i \in 1..(Len(q) - gone) |-> its(i)]
    BY <1>2 DEF Promise!AfterFills
  <1>4. AfterFills(in, q) = [i \in 1..(Len(q) - gone) |-> our(i)]
    BY DEF AfterFills
  <1>5. \A i : its(i) = our(i)
    BY <1>1
  <1> HIDE DEF its, our
  <1> QED
    BY <1>3, <1>4, <1>5

\* and the book it leaves are the same in the promise and here.
LEMMA SameBooks ==
  /\ \A q, id : Promise!WithoutOrder(q, id) = WithoutOrder(q, id)
  /\ \A b, in, canRest : Promise!Matched(b, in, canRest) = Matched(b, in, canRest)
  <1>1. ASSUME NEW q, NEW id
        PROVE  Promise!WithoutOrder(q, id) = WithoutOrder(q, id)
    <2>1. Promise!Positions(q, id) = Positions(q, id)
      BY SameOperators
    <2>2. \A i : Promise!RemoveAt(q, i) = RemoveAt(q, i)
      BY SameOperators
    <2> QED
      BY <2>1, <2>2 DEF Promise!WithoutOrder, WithoutOrder
  <1>2. \A side, q, order : Promise!Enqueue(side, q, order) = Enqueue(side, q, order)
    BY SameOperators DEF Promise!Enqueue, Enqueue
  <1>3. \A b, in, canRest : Promise!Matched(b, in, canRest) = Matched(b, in, canRest)
    BY <1>2, SameOperators, SameFills, SameAfterFills DEF Promise!Matched, Matched
  <1> QED
    BY <1>1, <1>3

(***************************************************************************)
(* The two ways to refuse.                                                 *)
(***************************************************************************)
\* A request reaches what the price it would match at crosses.
LEMMA RequestReaches ==
  ASSUME NEW add \in AddRequests
  PROVE  SameReach(add, add.side, MatchPrice(add))
  <1>1. add.side \in Sides /\ add.is_market \in BOOLEAN
    BY RequestAssumption DEF Adds
  <1>2. CASE add.is_market
    <2>1. MatchPrice(add) = IF add.side = "Bid" THEN MaxPrice ELSE -MaxPrice - 1
      BY <1>2 DEF MatchPrice
    <2>2. \A p \in Prices : AtLeastAsGood(add.side, MatchPrice(add), p)
      BY <2>1, PriceAssumption DEF AtLeastAsGood, Prices
    <2> QED
      BY <2>2, <1>2 DEF SameReach, Reaches, Crosses
  <1>3. CASE ~add.is_market
    BY <1>3 DEF SameReach, Reaches, Crosses, MatchPrice
  <1> QED
    BY <1>1, <1>2, <1>3

\* An id rests in the queues when it is in the index, on the side the index says.
LEMMA RestingIsIndexed ==
  ASSUME IInv, NEW id
  PROVE  /\ Promise!Resting(QueuesOf(levels), id) <=> id \in DOMAIN order_index
         /\ id \in DOMAIN order_index =>
              Promise!SideOf(QueuesOf(levels), id) = order_index[id].side
  <1> DEFINE b == QueuesOf(levels)
  <1>1. \A side \in Sides :
          (Positions(b[side], id) # {}) <=> (id \in DOMAIN order_index /\ order_index[id].side = side)
    <2> SUFFICES ASSUME NEW side \in Sides
                 PROVE  (Positions(b[side], id) # {})
                          <=> (id \in DOMAIN order_index /\ order_index[id].side = side)
      OBVIOUS
    <2>1. b[side] = QueueOf(levels, side)
      BY DEF QueuesOf
    <2> HIDE DEF b
    <2> QED
      BY <2>1, PositionsOfResting DEF IInv
  <1>2. id \in DOMAIN order_index => order_index[id].side \in Sides
    BY DEF IInv, WellTyped
  <1> HIDE DEF b
  <1>3. Promise!Resting(b, id) <=> \E side \in Sides : Positions(b[side], id) # {}
    <2>1. /\ Promise!Sides = Sides
          /\ \A side : Promise!Positions(b[side], id) = Positions(b[side], id)
      BY SameOperators
    <2> QED
      BY <2>1 DEF Promise!Resting
  <1>4. ASSUME id \in DOMAIN order_index
        PROVE  Promise!SideOf(b, id) = order_index[id].side
    <2>1. Promise!SideOf(b, id) = CHOOSE side \in Sides : Positions(b[side], id) # {}
      <3>1. /\ Promise!Sides = Sides
            /\ \A side : Promise!Positions(b[side], id) = Positions(b[side], id)
        BY SameOperators
      <3> QED
        BY <3>1 DEF Promise!SideOf
    <2> QED
      BY <2>1, <1>1, <1>2, <1>4
  <1> QED
    BY <1>1, <1>2, <1>3, <1>4 DEF b

\* No book can hold more orders than the capacity the promise is given.
LEMMA NeverAtCapacity ==
  ASSUME AdmissionInv
  PROVE  Len(QueuesOf(levels)["Bid"]) + Len(QueuesOf(levels)["Ask"]) < 2 * MaxPrice * MaxQty + 1
  <1> DEFINE m == MaxPrice * MaxQty
             x == Len(QueueOf(levels, "Bid"))
             y == Len(QueueOf(levels, "Ask"))
  <1>1. "Bid" \in Sides /\ "Ask" \in Sides
    BY DEF Sides
  <1>2. WellTyped(levels, order_index) /\ TotalsExact(levels)
    BY DEF AdmissionInv, IInv
  <1>3. x \in Nat /\ x <= m /\ y \in Nat /\ y <= m
    BY <1>1, <1>2, QueueIsShort
  <1>4. m \in Nat /\ 2 * MaxPrice * MaxQty = m + m
    BY PriceAssumption, QuantityAssumption
  <1> HIDE DEF m, x, y
  <1>5. x + y < m + m + 1
    BY <1>3, <1>4
  <1>6. QueuesOf(levels)["Bid"] = QueueOf(levels, "Bid") /\ QueuesOf(levels)["Ask"] = QueueOf(levels, "Ask")
    BY <1>1 DEF QueuesOf
  <1> QED
    BY <1>4, <1>5, <1>6 DEF x, y

-------------------------------------------------------------------------------
(***************************************************************************)
(* Between calls the engine refuses the requests the promise refuses, for the*)
(* same reason, and it never meets a limit on the number of orders.        *)
(***************************************************************************)
\* Between calls the promise's traded total is the engine's.
LEMMA IdleBook == Idle => AbstractQueue = QueuesOf(levels) /\ AbstractTradedQty = traded_qty
  BY BookIs DEF AbstractQueue, AbstractTradedQty

\* Both guards against overflow are the same comparison.
LEMMA SameOverflow == \A left, right : Promise!Overflows(left, right) <=> AddWouldOverflow(left, right)
  BY DEF Promise!Overflows, AddWouldOverflow

\* An add is refused by both, for the same reason, or by neither.
LEMMA AddErrorsAgree ==
  ASSUME AdmissionInv, Idle, NEW add \in AddRequests
  PROVE  AddError(add) = Promise!AddError(QueuesOf(levels), add)
  <1> DEFINE b        == QueuesOf(levels)
             side     == add.side
             other    == OtherSide(side)
             price    == MatchPrice(add)
             crossing == MaxCrossingQty(side, price, add.qty)
             executed == Executed(add, b[other])
  <1>1. /\ side \in Sides /\ other \in Sides /\ other # side
        /\ add.price \in 0..MaxPrice /\ add.qty \in 0..MaxQty
        /\ add.is_market \in BOOLEAN /\ add.time_in_force \in Policies /\ add.post_only \in BOOLEAN
    BY RequestAssumption, QuantityAssumption DEF Adds, OtherSide, Sides
  <1>2. /\ WellTyped(levels, order_index) /\ Indexed(levels, order_index) /\ TotalsExact(levels)
        /\ IInv /\ traded_qty \in Int
    BY DEF AdmissionInv, IInv, CallTyped
  <1>3. add.qty \in Nat /\ add.qty <= MaxQty /\ MaxQty \in Nat /\ MaxPrice \in Nat
    BY <1>1, QuantityAssumption, PriceAssumption
  <1>4. b[other] = QueueOf(levels, other) /\ b[side] = QueueOf(levels, side)
    BY <1>1 DEF QueuesOf
  <1>5. crossing = executed /\ crossing \in 0..add.qty
    <2>1. crossing = CrossingQty(levels[other], side, price, add.qty)
      BY PredictionOfLevels
    <2>2. SameReach(add, side, price)
      BY RequestReaches
    <2> HIDE DEF price, side
    <2>3. CrossingQty(levels[OtherSide(side)], side, price, add.qty)
            = Executed(add, QueueOf(levels, OtherSide(side)))
      BY <2>2, <1>1, <1>2, <1>3, PredictionIsExecuted
    <2>4. CrossingQty(levels[OtherSide(side)], side, price, add.qty) \in 0..add.qty
      BY <1>1, <1>2, <1>3, MaxCrossingIsTaken
    <2> QED
      BY <2>1, <2>3, <2>4, <1>4
  <1> DEFINE badPrice  == ~add.is_market /\ add.price <= 0
             takes     == add.is_market /\ add.post_only
             badQty    == add.qty <= 0
             known     == add.order_id \in DOMAIN order_index
             short     == MatchPolicy(add) = "FOK" /\ crossing < add.qty
             crosses   == add.post_only /\ crossing # 0
             overflows == \/ /\ CanRest(add) /\ price \in DOMAIN levels[side]
                             /\ AddWouldOverflow(levels[side][price].total_qty, add.qty - crossing)
                          \/ AddWouldOverflow(traded_qty, crossing)
  <1>6. AddError(add) =
          IF badPrice THEN "InvalidPrice"
          ELSE IF takes THEN "WouldTakeLiquidity"
          ELSE IF badQty THEN "InvalidQuantity"
          ELSE IF known THEN "DuplicateOrderId"
          ELSE IF short THEN "InsufficientLiquidity"
          ELSE IF crosses THEN "WouldTakeLiquidity"
          ELSE IF overflows THEN "QuantityOverflow"
          ELSE "None"
    BY DEF AddError
  <1> DEFINE badPrice2  == ~add.is_market /\ add.price \notin Prices
             known2     == Promise!Resting(b, add.order_id)
             short2     == ~add.is_market /\ add.time_in_force = "FOK" /\ executed < add.qty
             crosses2   == add.post_only /\ executed > 0
             overflows2 == \/ /\ Promise!CanRest(add)
                              /\ Promise!Overflows(QtyAtPrice(b[side], add.price), add.qty - executed)
                           \/ Promise!Overflows(traded_qty, executed)
             full       == /\ Promise!OrdersIn(b) >= 2 * MaxPrice * MaxQty + 1
                           /\ Promise!OrdersIn(Promise!Matched(b, add, Promise!CanRest(add)))
                                > 2 * MaxPrice * MaxQty + 1
  <1>7. Promise!AddError(b, add) =
          IF badPrice2 THEN Promise!PriceError(add.price)
          ELSE IF takes THEN "WouldTakeLiquidity"
          ELSE IF badQty THEN "InvalidQuantity"
          ELSE IF known2 THEN "DuplicateOrderId"
          ELSE IF short2 THEN "InsufficientLiquidity"
          ELSE IF crosses2 THEN "WouldTakeLiquidity"
          ELSE IF overflows2 THEN "QuantityOverflow"
          ELSE IF full THEN "CapacityExceeded"
          ELSE "None"
    <2>1. /\ \A s : Promise!OtherSide(s) = OtherSide(s)
          /\ \A in, q : Promise!Executed(in, q) = Executed(in, q)
          /\ \A q, p : Promise!QtyAtPrice(q, p) = QtyAtPrice(q, p)
      BY SameOperators, SameFills
    <2>2. AbstractTradedQty = traded_qty
      BY IdleBook
    <2> HIDE DEF b
    <2> QED
      BY <2>1, <2>2 DEF Promise!AddError
  <1>8. badPrice <=> badPrice2
    BY <1>1, <1>3 DEF Prices
  <1>9. badPrice2 => Promise!PriceError(add.price) = "InvalidPrice"
    BY <1>1, <1>3 DEF Prices, Promise!PriceError
  <1>10. known <=> known2
    BY <1>2, RestingIsIndexed
  <1> HIDE DEF b, crossing, executed, price
  <1>11. (short <=> short2) /\ (crosses <=> crosses2)
    <2>1. MatchPolicy(add) = "FOK" <=> ~add.is_market /\ add.time_in_force = "FOK"
      BY <1>1 DEF MatchPolicy
    <2> QED
      BY <2>1, <1>3, <1>5
  <1>12. ~badPrice => (overflows <=> overflows2)
    <2> SUFFICES ASSUME ~badPrice PROVE overflows <=> overflows2
      OBVIOUS
    <2>1. Promise!CanRest(add) <=> CanRest(add)
      BY <1>1 DEF Promise!CanRest, CanRest, MatchPolicy
    <2>2. Promise!Overflows(traded_qty, executed) <=> AddWouldOverflow(traded_qty, crossing)
      BY <1>5, SameOverflow
    <2>3. ASSUME CanRest(add)
          PROVE  Promise!Overflows(QtyAtPrice(b[side], add.price), add.qty - executed)
                   <=> /\ price \in DOMAIN levels[side]
                       /\ AddWouldOverflow(levels[side][price].total_qty, add.qty - crossing)
      <3>1. price = add.price /\ price \in Prices
        BY <2>3, <1>1, <1>3 DEF CanRest, MatchPrice, Prices, price
      <3>2. QtyAtPrice(b[side], add.price) = Resting(levels, side, price)
        BY <3>1, <1>1, <1>2, <1>4, QtyAtPriceIsResting
      <3>3. Promise!Overflows(QtyAtPrice(b[side], add.price), add.qty - executed)
              <=> AddWouldOverflow(Resting(levels, side, price), add.qty - crossing)
        BY <3>2, <1>5, SameOverflow
      <3>4. CASE price \in DOMAIN levels[side]
        BY <3>3, <3>4 DEF Resting
      <3>5. CASE price \notin DOMAIN levels[side]
        <4>1. Resting(levels, side, price) = 0
          BY <3>5 DEF Resting
        <4>2. ~AddWouldOverflow(0, add.qty - crossing)
          BY <1>3, <1>5 DEF AddWouldOverflow
        <4> QED
          BY <3>3, <3>5, <4>1, <4>2
      <3> QED
        BY <3>4, <3>5
    <2> QED
      BY <2>1, <2>2, <2>3
  <1>13. ~full
    <2>1. Promise!OrdersIn(b) < 2 * MaxPrice * MaxQty + 1
      BY NeverAtCapacity DEF Promise!OrdersIn, b
    <2>2. Promise!OrdersIn(b) \in Nat
      <3>1. Len(QueueOf(levels, "Bid")) \in Nat /\ Len(QueueOf(levels, "Ask")) \in Nat
        BY <1>2, QueueIsShort DEF Sides
      <3>2. b["Bid"] = QueueOf(levels, "Bid") /\ b["Ask"] = QueueOf(levels, "Ask")
        BY DEF b, QueuesOf, Sides
      <3> QED
        BY <3>1, <3>2 DEF Promise!OrdersIn
    <2> DEFINE cap == 2 * MaxPrice * MaxQty + 1
    <2>3. cap \in Nat
      BY <1>3
    <2> HIDE DEF cap
    <2>4. ~(Promise!OrdersIn(b) >= cap)
      BY <2>1, <2>2, <2>3 DEF cap
    <2> QED
      BY <2>4 DEF cap
  <1> HIDE DEF badPrice, badPrice2, takes, badQty, known, known2, short, short2, crosses, crosses2,
               overflows, overflows2, full
  <1>14. AddError(add) = Promise!AddError(b, add)
    BY <1>6, <1>7, <1>8, <1>9, <1>10, <1>11, <1>12, <1>13
  <1> QED
    BY <1>14 DEF b

\* The promise's book without an order is what is left of the levels.
LEMMA WithdrawnIs ==
  ASSUME IInv, NEW id \in DOMAIN order_index
  PROVE  Promise!Withdrawn(QueuesOf(levels), id) = QueuesOf(LevelsWithout(id))
  <1> DEFINE b == QueuesOf(levels)
             without(s) == WithoutOrder(b[s], id)
  <1>1. Promise!Withdrawn(b, id) = [s \in Sides |-> without(s)]
    <2>1. /\ Promise!Sides = Sides
          /\ \A s : Promise!WithoutOrder(b[s], id) = without(s)
      BY SameOperators, SameBooks
    <2> HIDE DEF b
    <2> QED
      BY <2>1 DEF Promise!Withdrawn
  <1>2. \A s \in Sides : without(s) = QueueOf(LevelsWithout(id), s)
    BY WithdrawnQueues DEF QueuesOf
  <1> HIDE DEF without, b
  <1>3. Promise!Withdrawn(b, id) = QueuesOf(LevelsWithout(id))
    BY <1>1, <1>2 DEF QueuesOf
  <1> QED
    BY <1>3 DEF b

\* A limit order reaches what its limit crosses.
LEMMA LimitReaches ==
  ASSUME NEW in, ~in.is_market
  PROVE  SameReach(in, in.side, in.price)
  BY DEF SameReach, Reaches, Crosses

\* What a modify would rest beside: the total of the level without the order itself.
LEMMA RoomForReplacement ==
  ASSUME AdmissionInv, NEW id \in DOMAIN order_index, NEW price \in Prices
  PROVE  LET side == order_index[id].side
             own  == IF order_index[id].price = price THEN OrderOf(id).qty ELSE 0
         IN  LevelAt(side, price).total_qty - own
               = QtyAtPrice(QueuesOf(LevelsWithout(id))[side], price)
  <1> DEFINE side == order_index[id].side
             own  == IF order_index[id].price = price THEN OrderOf(id).qty ELSE 0
             lv   == LevelsWithout(id)
  <1>1. IInv /\ WellTyped(levels, order_index) /\ Indexed(levels, order_index) /\ TotalsExact(levels)
    BY DEF AdmissionInv, IInv
  <1>2. WellTyped(lv, Unindexed(id)) /\ Indexed(lv, Unindexed(id))
    BY <1>1, Withdrawal
  <1>3. /\ side \in Sides /\ TotalsExact(lv)
        /\ Resting(lv, side, price) =
             IF price = order_index[id].price THEN Resting(levels, side, price) - OrderOf(id).qty
             ELSE Resting(levels, side, price)
    BY <1>1, WithdrawnQuantities
  <1>4. Resting(levels, side, price) \in 0..MaxQty
    <2> HIDE DEF side
    <2> QED
      BY <1>1, <1>3, RestingIsNat
  <1>5. LevelAt(side, price).total_qty = Resting(levels, side, price)
    BY DEF LevelAt, Resting
  <1>6. LevelAt(side, price).total_qty - own = Resting(lv, side, price)
    <2>1. Resting(levels, side, price) - 0 = Resting(levels, side, price)
      BY <1>4, QuantityAssumption
    <2> QED
      BY <2>1, <1>3, <1>5
  <1> HIDE DEF side, lv
  <1>7. QtyAtPrice(QueueOf(lv, side), price) = Resting(lv, side, price)
    BY <1>2, <1>3, QtyAtPriceIsResting
  <1>8. QueuesOf(lv)[side] = QueueOf(lv, side)
    BY <1>3 DEF QueuesOf
  <1> QED
    BY <1>6, <1>7, <1>8 DEF side, lv

\* A modify is refused by both, for the same reason, or by neither.
LEMMA ModifyErrorsAgree ==
  ASSUME AdmissionInv, Idle, NEW id \in OrderIds, NEW price \in 0..MaxPrice, NEW qty \in Quantities
  PROVE  ModifyError(id, price, qty) = Promise!ModifyError(QueuesOf(levels), id, price, qty)
  <1> DEFINE b        == QueuesOf(levels)
             side     == order_index[id].side
             other    == OtherSide(side)
             crossing == MaxCrossingQty(side, price, qty)
             new      == Promise!Replacement(b, id, price, qty)
             executed == Executed(new, b[other])
             own      == IF order_index[id].price = price THEN OrderOf(id).qty ELSE 0
  <1>1. price \in Nat /\ price <= MaxPrice /\ MaxPrice \in Nat /\ qty \in Nat
    BY PriceAssumption, QuantityAssumption
  <1>2. IInv /\ WellTyped(levels, order_index) /\ Indexed(levels, order_index) /\ TotalsExact(levels)
    BY DEF AdmissionInv, IInv
  <1>3. Promise!Resting(b, id) <=> id \in DOMAIN order_index
    BY <1>2, RestingIsIndexed
  <1>4. price \notin Prices <=> price <= 0
    BY <1>1 DEF Prices
  <1>5. price \notin Prices => Promise!PriceError(price) = "InvalidPrice"
    BY <1>1 DEF Prices, Promise!PriceError
  <1>6. CASE id \notin DOMAIN order_index
    <2>1. ModifyError(id, price, qty) = "UnknownOrderId"
      BY <1>6 DEF ModifyError
    <2> HIDE DEF b
    <2>2. Promise!ModifyError(b, id, price, qty) = "UnknownOrderId"
      BY <1>3, <1>6 DEF Promise!ModifyError
    <2> QED
      BY <2>1, <2>2 DEF b
  <1>7. CASE id \in DOMAIN order_index /\ price \notin Prices
    <2>1. ModifyError(id, price, qty) = "InvalidPrice"
      BY <1>4, <1>7 DEF ModifyError
    <2> HIDE DEF b
    <2>2. Promise!ModifyError(b, id, price, qty) = "InvalidPrice"
      BY <1>3, <1>5, <1>7 DEF Promise!ModifyError
    <2> QED
      BY <2>1, <2>2 DEF b
  <1>8. CASE id \in DOMAIN order_index /\ price \in Prices
    <2>1. /\ side \in Sides /\ other \in Sides /\ new.side = side /\ new.price = price
          /\ new.qty = qty /\ ~new.is_market
      <3>1. side \in Sides
        BY <1>2, <1>8 DEF WellTyped
      <3>2. Promise!SideOf(b, id) = side
        BY <1>2, <1>8, RestingIsIndexed
      <3> HIDE DEF b, side
      <3> QED
        BY <3>1, <3>2 DEF Promise!Replacement, OtherSide, Sides
    <2>2. crossing = executed
      <3>1. crossing = CrossingQty(levels[other], side, price, qty)
        BY PredictionOfLevels
      <3>2. SameReach(new, side, price)
        BY <2>1, LimitReaches
      <3>3. b[other] = QueueOf(levels, other)
        BY <2>1 DEF QueuesOf
      <3> HIDE DEF side, new, b
      <3>4. CrossingQty(levels[OtherSide(side)], side, price, qty)
              = Executed(new, QueueOf(levels, OtherSide(side)))
        BY <2>1, <3>2, <1>1, <1>2, PredictionIsExecuted
      <3> QED
        BY <3>1, <3>3, <3>4
    <2>3. LevelAt(side, price).total_qty - own = QtyAtPrice(Promise!Withdrawn(b, id)[side], price)
      <3>1. Promise!Withdrawn(b, id) = QueuesOf(LevelsWithout(id))
        BY <1>2, <1>8, WithdrawnIs
      <3>2. LevelAt(side, price).total_qty - own = QtyAtPrice(QueuesOf(LevelsWithout(id))[side], price)
        BY <1>8, RoomForReplacement
      <3> QED
        BY <3>1, <3>2
    <2> DEFINE overflows == \/ AddWouldOverflow(LevelAt(side, price).total_qty - own, qty - crossing)
                            \/ AddWouldOverflow(traded_qty, crossing)
               rest == QtyAtPrice(Promise!Withdrawn(b, id)[side], price)
    <2>4. ModifyError(id, price, qty) =
            IF qty <= 0 THEN "InvalidQuantity" ELSE IF overflows THEN "QuantityOverflow" ELSE "None"
      BY <1>4, <1>8 DEF ModifyError
    <2>5. Promise!ModifyError(b, id, price, qty) =
            IF qty <= 0 THEN "InvalidQuantity"
            ELSE IF \/ Promise!Overflows(rest, qty - executed)
                    \/ Promise!Overflows(traded_qty, executed)
                 THEN "QuantityOverflow" ELSE "None"
      <3>1. /\ \A s : Promise!OtherSide(s) = OtherSide(s)
            /\ \A in, q : Promise!Executed(in, q) = Executed(in, q)
            /\ \A q, p : Promise!QtyAtPrice(q, p) = QtyAtPrice(q, p)
        BY SameOperators, SameFills
      <3>2. AbstractTradedQty = traded_qty
        BY IdleBook
      <3>3. new.side = side
        BY <2>1
      <3> DEFINE in == Promise!Replacement(b, id, price, qty)
      <3>4. Promise!ModifyError(b, id, price, qty) =
              IF qty <= 0 THEN "InvalidQuantity"
              ELSE IF \/ Promise!Overflows(QtyAtPrice(Promise!Withdrawn(b, id)[in.side], price),
                                           qty - Executed(in, b[OtherSide(in.side)]))
                      \/ Promise!Overflows(traded_qty, Executed(in, b[OtherSide(in.side)]))
                   THEN "QuantityOverflow" ELSE "None"
        <4> HIDE DEF b
        <4> QED
          BY <3>1, <3>2, <1>3, <1>8 DEF Promise!ModifyError
      <3> QED
        BY <3>3, <3>4
    <2> HIDE DEF b, side, crossing, executed, own, rest
    <2>6. Promise!Overflows(rest, qty - executed)
            <=> AddWouldOverflow(LevelAt(side, price).total_qty - own, qty - crossing)
      BY <2>2, <2>3, SameOverflow DEF rest
    <2>7. Promise!Overflows(traded_qty, executed) <=> AddWouldOverflow(traded_qty, crossing)
      BY <2>2, SameOverflow
    <2>8. ModifyError(id, price, qty) = Promise!ModifyError(b, id, price, qty)
      BY <2>4, <2>5, <2>6, <2>7
    <2> QED
      BY <2>8 DEF b
  <1> QED
    BY <1>6, <1>7, <1>8

\* The refusals of the engine and of the promise are the same.
LEMMA RefusalsFollow == AdmissionInv => RefusalsAgree
  <1> SUFFICES ASSUME AdmissionInv, Idle
               PROVE  \A queues \in {Book} :
                        /\ \A add \in AddRequests : AddError(add) = Promise!AddError(queues, add)
                        /\ \A id \in OrderIds, price \in 0..MaxPrice, qty \in Quantities :
                             ModifyError(id, price, qty) = Promise!ModifyError(queues, id, price, qty)
    BY DEF RefusalsAgree
  <1>1. Book = QueuesOf(levels)
    BY BookIs
  <1>2. \A add \in AddRequests : AddError(add) = Promise!AddError(QueuesOf(levels), add)
    BY AddErrorsAgree
  <1>3. \A id \in OrderIds, price \in 0..MaxPrice, qty \in Quantities :
          ModifyError(id, price, qty) = Promise!ModifyError(QueuesOf(levels), id, price, qty)
    BY ModifyErrorsAgree
  <1> QED
    BY <1>1, <1>2, <1>3

\* Between calls the engine would refuse exactly the requests the promise refuses, and for
\* the same reason, although it decides from the cached totals of its levels.
THEOREM RefusalsMatch == Spec => []RefusalsAgree
  BY AdmissionInvariant, RefusalsFollow, PTL

-------------------------------------------------------------------------------
(***************************************************************************)
(* Admission: the step at which the promise makes its call.                *)
(***************************************************************************)
\* Two orders of the same quantity that reach the same prices fill the same orders.
LEMMA SameReachSameFills ==
  ASSUME NEW in, NEW out, in.qty = out.qty, \A p : Reaches(in, p) <=> Reaches(out, p), NEW q
  PROVE  /\ TradesOf(in, q) = TradesOf(out, q)
         /\ AfterFills(in, q) = AfterFills(out, q)
         /\ Executed(in, q) = Executed(out, q)
  <1> DEFINE first(i)  == FillAt(in, q, i)
             second(i) == FillAt(out, q, i)
             Trade(i, n) == [resting_order_id |-> q[i].order_id, price |-> q[i].price, qty |-> n]
             Less(i, n)  == [q[i] EXCEPT !.qty = @ - n]
  <1>1. \A i : first(i) = second(i)
    BY DEF FillAt
  <1>2. TradesOf(in, q) = [i \in 1..Cardinality({j \in DOMAIN q : first(j) > 0}) |-> Trade(i, first(i))]
    BY DEF TradesOf
  <1>3. TradesOf(out, q) = [i \in 1..Cardinality({j \in DOMAIN q : second(j) > 0}) |-> Trade(i, second(i))]
    BY DEF TradesOf
  <1> DEFINE gone == Cardinality({i \in DOMAIN q : first(i) = q[i].qty})
             done == Cardinality({i \in DOMAIN q : second(i) = q[i].qty})
  <1>4. AfterFills(in, q) = [i \in 1..(Len(q) - gone) |-> Less(i + gone, first(i + gone))]
    BY DEF AfterFills
  <1>5. AfterFills(out, q) = [i \in 1..(Len(q) - done) |-> Less(i + done, second(i + done))]
    BY DEF AfterFills
  <1>6. Executed(in, q) = Executed(out, q)
    <2>1. {i \in DOMAIN q : Reaches(in, q[i].price)} = {i \in DOMAIN q : Reaches(out, q[i].price)}
      OBVIOUS
    <2> QED
      BY <2>1 DEF Executed, Available
  <1> HIDE DEF first, second, Trade, Less
  <1>7. TradesOf(in, q) = TradesOf(out, q)
    <2>1. {j \in DOMAIN q : first(j) > 0} = {j \in DOMAIN q : second(j) > 0}
      BY <1>1
    <2> DEFINE n == Cardinality({j \in DOMAIN q : second(j) > 0})
               a(i) == Trade(i, first(i))
               b(i) == Trade(i, second(i))
    <2>2. TradesOf(in, q) = [i \in 1..n |-> a(i)] /\ TradesOf(out, q) = [i \in 1..n |-> b(i)]
      BY <2>1, <1>2, <1>3
    <2>3. \A i : a(i) = b(i)
      BY <1>1
    <2> HIDE DEF n, a, b
    <2> QED
      BY <2>2, <2>3
  <1>8. AfterFills(in, q) = AfterFills(out, q)
    <2>1. {i \in DOMAIN q : first(i) = q[i].qty} = {i \in DOMAIN q : second(i) = q[i].qty}
      BY <1>1
    <2>2. gone = done
      BY <2>1
    <2> HIDE DEF gone, done
    <2> DEFINE a(i) == Less(i + done, first(i + done))
               b(i) == Less(i + done, second(i + done))
    <2>3. /\ AfterFills(in, q) = [i \in 1..(Len(q) - done) |-> a(i)]
          /\ AfterFills(out, q) = [i \in 1..(Len(q) - done) |-> b(i)]
      BY <2>2, <1>4, <1>5
    <2>4. \A i : a(i) = b(i)
      BY <1>1
    <2> HIDE DEF a, b
    <2> QED
      BY <2>3, <2>4
  <1> QED
    BY <1>6, <1>7, <1>8

\* The same, and the same book when their remainders would be the same order.
LEMMA SameReachSameBook ==
  ASSUME NEW in, NEW out, in.qty = out.qty, in.side = out.side,
         \A p : Reaches(in, p) <=> Reaches(out, p),
         NEW canRest, canRest => in.order_id = out.order_id /\ in.price = out.price, NEW b
  PROVE  Matched(b, in, canRest) = Matched(b, out, canRest)
  <1> DEFINE opp  == OtherSide(in.side)
             left == in.qty - Executed(in, b[opp])
             some == out.qty - Executed(out, b[opp])
             first(side) ==
               IF side = opp THEN AfterFills(in, b[side])
               ELSE IF left > 0 /\ canRest
                    THEN Enqueue(side, b[side], [order_id |-> in.order_id, price |-> in.price,
                                                 qty |-> left])
                    ELSE b[side]
             second(side) ==
               IF side = opp THEN AfterFills(out, b[side])
               ELSE IF some > 0 /\ canRest
                    THEN Enqueue(side, b[side], [order_id |-> out.order_id, price |-> out.price,
                                                 qty |-> some])
                    ELSE b[side]
  <1>1. Matched(b, in, canRest) = [side \in Sides |-> first(side)]
    BY DEF Matched
  <1>2. Matched(b, out, canRest) = [side \in Sides |-> second(side)]
    BY DEF Matched
  <1>3. left = some /\ AfterFills(in, b[opp]) = AfterFills(out, b[opp])
    <2>1. \A q : Executed(in, q) = Executed(out, q) /\ AfterFills(in, q) = AfterFills(out, q)
      BY SameReachSameFills
    <2> QED
      BY <2>1
  <1> HIDE DEF left, some, opp
  <1>4. ASSUME NEW side \in Sides
        PROVE  first(side) = second(side)
    <2>1. CASE side = opp
      BY <2>1, <1>3
    <2>2. CASE side # opp /\ canRest
      <3>1. in.order_id = out.order_id /\ in.price = out.price
        BY <2>2
      <3> QED
        BY <2>2, <3>1, <1>3, Zenon
    <2>3. CASE side # opp /\ ~canRest
      BY <2>3
    <2> QED
      BY <2>1, <2>2, <2>3
  <1> HIDE DEF first, second
  <1> QED
    BY <1>1, <1>2, <1>4

-------------------------------------------------------------------------------
(***************************************************************************)
(* Each call of the engine is the atomic call of the promise.              *)
(***************************************************************************)
\* The trades of a match are a list.
LEMMA TradesAreListed ==
  ASSUME NEW in, NEW prices, NEW q \in Seq(Rested(prices))
  PROVE  <<>> \o TradesOf(in, q) = TradesOf(in, q)
  <1> DEFINE touched == {i \in DOMAIN q : FillAt(in, q, i) > 0}
             n == Cardinality(touched)
             trade(i) == [resting_order_id |-> q[i].order_id, price |-> q[i].price,
                          qty |-> FillAt(in, q, i)]
             S == {trade(i) : i \in 1..n}
             list == [i \in 1..n |-> trade(i)]
  <1>1. n \in Nat
    <2>1. touched \subseteq 1..Len(q) /\ Len(q) \in Nat
      BY QueueFacts
    <2> HIDE DEF touched
    <2> QED
      <3>1. IsFiniteSet(1..Len(q))
        BY <2>1, FS_Interval
      <3>2. IsFiniteSet(touched)
        BY <2>1, <3>1, FS_Subset
      <3> QED
        BY <3>2, FS_CardinalityType
  <1>2. TradesOf(in, q) = list
    BY DEF TradesOf
  <1> HIDE DEF n, trade
  <1>3. list \in Seq(S)
    <2>1. \A i \in 1..n : trade(i) \in S
      OBVIOUS
    <2>2. list \in [1..n -> S]
      BY <2>1
    <2> HIDE DEF S, list
    <2> QED
      BY <1>1, <2>2, SeqDef
  <1> HIDE DEF S, list
  <1> QED
    BY <1>2, <1>3

\* What a client sees once a call is refused.
LEMMA RefusedSeen ==
  ASSUME Idle, Idle', levels' = levels, traded_qty' = traded_qty, trades' = <<>>
  PROVE  Promise!Refuse(QueuesOf(levels), Promise!Seen')
  <1>1. /\ AbstractQueue' = QueuesOf(levels) /\ AbstractTrades' = <<>>
        /\ AbstractTradedQty' = AbstractTradedQty
    <2>1. Book' = QueuesOf(levels)
      BY BookIs DEF QueuesOf
    <2> QED
      BY <2>1 DEF AbstractQueue, AbstractTrades, AbstractTradedQty
  <1> QED
    BY <1>1 DEF Promise!Refuse, Promise!Seen

\* What a client will see once an admitted call returns is known at its admission.
LEMMA AdmittedSeen ==
  ASSUME AdmissionInv', Idle, ~Idle', trades' = <<>>, traded_qty' = traded_qty, error' = "None",
         NEW in, in.qty = incoming'.qty, in.side = incoming'.side,
         \A p : Reaches(in, p) <=> Reaches(incoming', p),
         NEW canRest, incoming'.can_rest = canRest,
         canRest => in.order_id = incoming'.order_id /\ in.price = incoming'.price
  PROVE  Promise!Execute(QueuesOf(levels'), Promise!Seen', in, canRest)
  <1> DEFINE b    == QueuesOf(levels')
             out  == incoming'
             q    == b[OtherSide(in.side)]
  <1>1. Book' = b /\ Opposing' = q
    BY BookIs DEF Opposing
  <1>2. q \in Seq(Order)
    <2>1. WellTyped(levels', order_index')
      BY DEF AdmissionInv, IInv
    <2>2. incoming' \in Call
      BY DEF AdmissionInv, IInv, CallTyped, Idle
    <2>3. OtherSide(in.side) \in Sides
      BY <2>2 DEF Call, OtherSide, Sides
    <2> QED
      BY <2>1, <2>3, QueueIsJoined DEF QueuesOf
  <1> HIDE DEF b, q, out
  <1>3. /\ TradesOf(in, q) = TradesOf(out, q) /\ Executed(in, q) = Executed(out, q)
        /\ Matched(b, in, canRest) = Matched(b, out, canRest)
    <2>1. /\ in.qty = out.qty /\ in.side = out.side /\ \A p : Reaches(in, p) <=> Reaches(out, p)
          /\ canRest => in.order_id = out.order_id /\ in.price = out.price
      BY DEF out
    <2> QED
      BY <2>1, SameReachSameFills, SameReachSameBook
  <1>4. AbstractTrades' = TradesOf(in, q)
    <2>1. AbstractTrades' = <<>> \o TradesOf(out, q)
      BY <1>1 DEF AbstractTrades, out
    <2> QED
      BY <2>1, <1>2, <1>3, OrderIsRested, TradesAreListed
  <1>5. AbstractTradedQty' = AbstractTradedQty + Executed(in, q)
    BY <1>1, <1>3 DEF AbstractTradedQty, out
  <1>6. AbstractQueue' = Matched(b, in, canRest)
    BY <1>1, <1>3 DEF AbstractQueue, out
  <1>7. /\ Promise!OtherSide(in.side) = OtherSide(in.side)
        /\ \A r : Promise!TradesOf(in, r) = TradesOf(in, r)
        /\ \A r : Promise!Executed(in, r) = Executed(in, r)
        /\ Promise!Matched(b, in, canRest) = Matched(b, in, canRest)
    BY SameOperators, SameFills, SameTrades, SameBooks
  <1>8. Promise!Execute(b, Promise!Seen', in, canRest)
    BY <1>4, <1>5, <1>6, <1>7 DEF Promise!Execute, Promise!Seen, q
  <1> QED
    BY <1>8 DEF b

\* An add of the engine is the atomic add of the promise.
LEMMA AddMaps ==
  ASSUME AdmissionInv, NEW add \in AddRequests, Add(add)
  PROVE  Promise!Add(QueuesOf(levels), Promise!Seen', add)
  <1> DEFINE b == QueuesOf(levels)
  <1>1. Idle /\ AddError(add) = Promise!AddError(b, add)
    BY AddErrorsAgree DEF Add
  <1>2. CASE AddError(add) # "None"
    <2>1. Reject(AddError(add))
      BY <1>2 DEF Add
    <2>2. /\ error' = AddError(add)
          /\ Idle' /\ levels' = levels /\ traded_qty' = traded_qty /\ trades' = <<>>
      BY <1>1, <2>1 DEF Reject, Idle
    <2>3. Promise!Refuse(b, Promise!Seen')
      BY <1>1, <2>2, RefusedSeen
    <2>4. Promise!Seen'.error = error'
      BY DEF Promise!Seen
    <2> HIDE DEF b
    <2>5. Promise!Add(b, Promise!Seen', add)
      BY <1>1, <1>2, <2>2, <2>3, <2>4 DEF Promise!Add
    <2> QED
      BY <2>5 DEF b
  <1>3. CASE AddError(add) = "None"
    <2>1. /\ incoming' = [order_id |-> add.order_id, side |-> add.side,
                          price |-> MatchPrice(add), qty |-> add.qty, can_rest |-> CanRest(add),
                          is_market |-> add.is_market, time_in_force |-> add.time_in_force,
                          post_only |-> add.post_only]
          /\ trades' = <<>> /\ error' = "None" /\ levels' = levels /\ traded_qty' = traded_qty
      BY <1>3 DEF Add
    <2>2. ~Idle'
      BY <2>1 DEF Idle, NoOrder
    <2>3. AdmissionInv'
      BY AddAdmission
    <2>4. add.is_market \in BOOLEAN
      BY RequestAssumption DEF Adds
    <2>5. CanRest(add) <=> Promise!CanRest(add)
      BY <2>4 DEF CanRest, MatchPolicy, Promise!CanRest
    <2>6. CanRest(add) \in BOOLEAN /\ Promise!CanRest(add) \in BOOLEAN
      BY DEF CanRest, Promise!CanRest
    <2>7. incoming'.can_rest = Promise!CanRest(add)
      BY <2>1, <2>5, <2>6
    <2>8. add.qty = incoming'.qty /\ add.side = incoming'.side
      BY <2>1
    <2>9. \A p : Reaches(add, p) <=> Reaches(incoming', p)
      <3>1. incoming'.is_market = add.is_market /\ incoming'.price = MatchPrice(add)
        BY <2>1
      <3>2. CASE add.is_market
        BY <3>1, <3>2 DEF Reaches
      <3>3. CASE ~add.is_market
        <4>1. incoming'.price = add.price
          BY <3>1, <3>3 DEF MatchPrice
        <4> QED
          BY <3>1, <4>1, <2>8 DEF Reaches
      <3> QED
        BY <2>4, <3>2, <3>3
    <2>10. Promise!CanRest(add) => add.order_id = incoming'.order_id /\ add.price = incoming'.price
      BY <2>1 DEF Promise!CanRest, MatchPrice
    <2> DEFINE canRest == Promise!CanRest(add)
    <2> HIDE DEF canRest
    <2>11. Promise!Execute(QueuesOf(levels'), Promise!Seen', add, canRest)
      BY <1>1, <2>1, <2>2, <2>3, <2>7, <2>8, <2>9, <2>10, AdmittedSeen DEF canRest
    <2>12. Promise!Execute(b, Promise!Seen', add, Promise!CanRest(add))
      BY <2>1, <2>11 DEF canRest
    <2>13. Promise!Seen'.error = error'
      BY DEF Promise!Seen
    <2> HIDE DEF b
    <2>14. Promise!Add(b, Promise!Seen', add)
      BY <1>1, <1>3, <2>1, <2>12, <2>13 DEF Promise!Add
    <2> QED
      BY <2>14 DEF b
  <1> QED
    BY <1>2, <1>3

\* A cancel of the engine is the atomic cancel of the promise.
LEMMA CancelMaps ==
  ASSUME AdmissionInv, NEW id \in OrderIds, Cancel(id)
  PROVE  Promise!Cancel(QueuesOf(levels), Promise!Seen', id)
  <1> DEFINE b == QueuesOf(levels)
  <1>1. Idle /\ IInv
    BY DEF Cancel, AdmissionInv
  <1>2. Promise!Resting(b, id) <=> id \in DOMAIN order_index
    BY <1>1, RestingIsIndexed
  <1>3. Promise!Seen'.error = error'
    BY DEF Promise!Seen
  <1>4. CASE id \notin DOMAIN order_index
    <2>1. /\ error' = "UnknownOrderId"
          /\ Idle' /\ levels' = levels /\ traded_qty' = traded_qty /\ trades' = <<>>
      BY <1>1, <1>4 DEF Cancel, Reject, Idle
    <2>2. Promise!Refuse(b, Promise!Seen')
      BY <1>1, <2>1, RefusedSeen
    <2> HIDE DEF b
    <2>3. Promise!Cancel(b, Promise!Seen', id)
      BY <1>2, <1>3, <1>4, <2>1, <2>2 DEF Promise!Cancel
    <2> QED
      BY <2>3 DEF b
  <1>5. CASE id \in DOMAIN order_index
    <2>1. /\ error' = "None" /\ Idle' /\ levels' = LevelsWithout(id)
          /\ traded_qty' = traded_qty /\ trades' = <<>>
      BY <1>1, <1>5 DEF Cancel, Idle
    <2>2. Promise!Withdrawn(b, id) = QueuesOf(LevelsWithout(id))
      BY <1>1, <1>5, WithdrawnIs
    <2>3. QueuesOf(levels') = QueuesOf(LevelsWithout(id))
      BY <2>1
    <2>4. AbstractQueue' = Promise!Withdrawn(b, id)
      <3>1. Book' = QueuesOf(levels')
        BY BookIs
      <3> QED
        BY <2>1, <2>2, <2>3, <3>1 DEF AbstractQueue
    <2>5. AbstractTrades' = <<>> /\ AbstractTradedQty' = AbstractTradedQty
      BY <1>1, <2>1 DEF AbstractTrades, AbstractTradedQty
    <2> HIDE DEF b
    <2>6. Promise!Cancel(b, Promise!Seen', id)
      BY <1>2, <1>5, <2>1, <2>4, <2>5 DEF Promise!Cancel, Promise!Seen
    <2> QED
      BY <2>6 DEF b
  <1> QED
    BY <1>4, <1>5

\* A modify of the engine is the atomic modify of the promise.
LEMMA ModifyMaps ==
  ASSUME AdmissionInv, NEW id \in OrderIds, NEW price \in 0..MaxPrice, NEW qty \in Quantities,
         Modify(id, price, qty)
  PROVE  Promise!Modify(QueuesOf(levels), Promise!Seen', id, price, qty)
  <1> DEFINE b == QueuesOf(levels)
  <1>1. Idle /\ IInv /\ ModifyError(id, price, qty) = Promise!ModifyError(b, id, price, qty)
    BY ModifyErrorsAgree DEF Modify, AdmissionInv
  <1>2. Promise!Seen'.error = error'
    BY DEF Promise!Seen
  <1>3. CASE ModifyError(id, price, qty) # "None"
    <2>1. Reject(ModifyError(id, price, qty))
      BY <1>3 DEF Modify
    <2>2. /\ error' = ModifyError(id, price, qty)
          /\ Idle' /\ levels' = levels /\ traded_qty' = traded_qty /\ trades' = <<>>
      BY <1>1, <2>1 DEF Reject, Idle
    <2>3. Promise!Refuse(b, Promise!Seen')
      BY <1>1, <2>2, RefusedSeen
    <2> HIDE DEF b
    <2>4. Promise!Modify(b, Promise!Seen', id, price, qty)
      BY <1>1, <1>2, <1>3, <2>2, <2>3 DEF Promise!Modify
    <2> QED
      BY <2>4 DEF b
  <1>4. CASE ModifyError(id, price, qty) = "None"
    <2> DEFINE in == Promise!Replacement(b, id, price, qty)
    <2>1. /\ levels' = LevelsWithout(id)
          /\ incoming' = [order_id |-> id, side |-> order_index[id].side,
                          price |-> price, qty |-> qty, can_rest |-> TRUE,
                          is_market |-> FALSE, time_in_force |-> "GTC", post_only |-> FALSE]
          /\ trades' = <<>> /\ error' = "None" /\ traded_qty' = traded_qty
      BY <1>4 DEF Modify
    <2>2. id \in DOMAIN order_index
      BY <1>4 DEF ModifyError
    <2>3. ~Idle' /\ AdmissionInv'
      BY <2>1, ModifyAdmission DEF Idle, NoOrder
    <2>4. Promise!Withdrawn(b, id) = QueuesOf(levels')
      BY <1>1, <2>1, <2>2, WithdrawnIs
    <2>5. in = [order_id |-> id, side |-> order_index[id].side, price |-> price, qty |-> qty,
                is_market |-> FALSE]
      <3>1. Promise!SideOf(b, id) = order_index[id].side
        BY <1>1, <2>2, RestingIsIndexed
      <3> HIDE DEF b
      <3> QED
        BY <3>1 DEF Promise!Replacement
    <2>6. /\ in.qty = incoming'.qty /\ in.side = incoming'.side
          /\ in.order_id = incoming'.order_id /\ in.price = incoming'.price
          /\ in.is_market = incoming'.is_market /\ incoming'.can_rest = TRUE
      BY <2>1, <2>5
    <2> HIDE DEF in
    <2>7. \A p : Reaches(in, p) <=> Reaches(incoming', p)
      BY <2>6 DEF Reaches
    <2>8. Promise!Execute(QueuesOf(levels'), Promise!Seen', in, TRUE)
      <3> DEFINE canRest == TRUE
      <3>1. incoming'.can_rest = canRest
        BY <2>6
      <3> HIDE DEF canRest
      <3>2. Promise!Execute(QueuesOf(levels'), Promise!Seen', in, canRest)
        BY <1>1, <2>1, <2>3, <2>6, <2>7, <3>1, AdmittedSeen
      <3> QED
        BY <3>2 DEF canRest
    <2>9. Promise!Execute(Promise!Withdrawn(b, id), Promise!Seen', in, TRUE)
      BY <2>4, <2>8
    <2> HIDE DEF b
    <2>10. Promise!Modify(b, Promise!Seen', id, price, qty)
      BY <1>1, <1>2, <1>4, <2>1, <2>9 DEF Promise!Modify, in
    <2> QED
      BY <2>10 DEF b
  <1> QED
    BY <1>3, <1>4

\* The call under way reaches what the price it matches at crosses.
LEMMA ReachIsKept == AdmissionInv /\ ReachInv /\ [Next]_vars => ReachInv'
  <1> SUFFICES ASSUME AdmissionInv, ReachInv, [Next]_vars
               PROVE  ReachInv'
    OBVIOUS
  <1>1. CASE UNCHANGED vars
    BY <1>1 DEF vars, ReachInv, Idle
  <1>2. CASE \E add \in AddRequests : Add(add)
    <2>1. PICK add \in AddRequests : Add(add)
      BY <1>2
    <2>2. CASE AddError(add) # "None"
      BY <2>1, <2>2 DEF Add, Reject, ReachInv, Idle
    <2>3. CASE AddError(add) = "None"
      <3>1. /\ incoming'.side = add.side /\ incoming'.price = MatchPrice(add)
            /\ incoming'.is_market = add.is_market
        BY <2>1, <2>3 DEF Add
      <3>2. SameReach(add, add.side, MatchPrice(add))
        BY RequestReaches
      <3>3. \A p : Reaches(incoming', p) <=> incoming'.is_market \/ Crosses(incoming'.side, incoming'.price, p)
        BY DEF Reaches, Crosses
      <3>4. add.is_market => \A p \in Prices : Crosses(add.side, MatchPrice(add), p)
        BY <3>2 DEF SameReach, Reaches
      <3>5. SameReach(incoming', incoming'.side, incoming'.price)
        BY <3>1, <3>3, <3>4 DEF SameReach
      <3> QED
        BY <3>5 DEF ReachInv
    <2> QED
      BY <2>2, <2>3
  <1>3. CASE \E id \in OrderIds : Cancel(id)
    BY <1>3 DEF Cancel, Reject, ReachInv, Idle
  <1>4. CASE \E id \in OrderIds, price \in 0..MaxPrice, qty \in Quantities :
               Modify(id, price, qty)
    <2>1. PICK id \in OrderIds, price \in 0..MaxPrice, qty \in Quantities :
            Modify(id, price, qty)
      BY <1>4
    <2>2. CASE ModifyError(id, price, qty) # "None"
      BY <2>1, <2>2 DEF Modify, Reject, ReachInv, Idle
    <2>3. CASE ModifyError(id, price, qty) = "None"
      <3> DEFINE out == incoming'
      <3>1. ~out.is_market
        BY <2>1, <2>3 DEF Modify
      <3> HIDE DEF out
      <3>2. SameReach(out, out.side, out.price)
        BY <3>1, LimitReaches
      <3> QED
        BY <3>2 DEF ReachInv, out
    <2> QED
      BY <2>2, <2>3
  <1>5. CASE Fill
    <2>1. /\ ~Idle /\ incoming'.side = incoming.side /\ incoming'.price = incoming.price
          /\ incoming'.is_market = incoming.is_market
      BY <1>5, FillFacts DEF AdmissionInv
    <2>2. SameReach(incoming, incoming.side, incoming.price)
      BY <2>1 DEF ReachInv
    <2>3. SameReach(incoming', incoming'.side, incoming'.price)
      BY <2>1, <2>2 DEF SameReach, Reaches
    <2> QED
      BY <2>3 DEF ReachInv
  <1>6. CASE Return
    BY <1>6 DEF Return, ReachInv, Idle
  <1> QED
    BY <1>1, <1>2, <1>3, <1>4, <1>5, <1>6 DEF Next

\* Every step of the engine is a call of the promise or changes nothing a client sees.
LEMMA StepMaps ==
  AdmissionInv /\ ReachInv /\ [Next]_vars => [Promise!Next]_(Promise!bookVars)
  <1> SUFFICES ASSUME AdmissionInv, ReachInv, [Next]_vars
               PROVE  Promise!Next \/ UNCHANGED Promise!bookVars
    OBVIOUS
  <1>1. CASE UNCHANGED vars
    <2>1. Book' = Book
      <3>1. levels' = levels
        BY <1>1 DEF vars
      <3> QED
        BY <3>1, BookIs
    <2>2. Opposing' = Opposing /\ Idle' = Idle /\ incoming' = incoming
      BY <1>1, <2>1 DEF vars, Opposing, Idle
    <2>3. AbstractQueue' = AbstractQueue
      BY <2>1, <2>2 DEF AbstractQueue
    <2>4. AbstractTrades' = AbstractTrades /\ AbstractTradedQty' = AbstractTradedQty
      BY <1>1, <2>2 DEF vars, AbstractTrades, AbstractTradedQty
    <2> QED
      BY <1>1, <2>3, <2>4 DEF vars, Promise!bookVars
  <1>2. CASE \E add \in AddRequests : Add(add)
    <2>1. PICK add \in AddRequests : Add(add)
      BY <1>2
    <2>2. Promise!Add(QueuesOf(levels), Promise!Seen', add)
      BY <2>1, AddMaps
    <2>3. AbstractQueue = QueuesOf(levels)
      BY <2>1, IdleBook DEF Add
    <2> QED
      BY <2>2, <2>3 DEF Promise!Next
  <1>3. CASE \E id \in OrderIds : Cancel(id)
    <2>1. PICK id \in OrderIds : Cancel(id)
      BY <1>3
    <2>2. Promise!Cancel(QueuesOf(levels), Promise!Seen', id)
      BY <2>1, CancelMaps
    <2>3. AbstractQueue = QueuesOf(levels)
      BY <2>1, IdleBook DEF Cancel
    <2> QED
      BY <2>2, <2>3 DEF Promise!Next
  <1>4. CASE \E id \in OrderIds, price \in 0..MaxPrice, qty \in Quantities :
               Modify(id, price, qty)
    <2>1. PICK id \in OrderIds, price \in 0..MaxPrice, qty \in Quantities :
            Modify(id, price, qty)
      BY <1>4
    <2>2. Promise!Modify(QueuesOf(levels), Promise!Seen', id, price, qty)
      BY <2>1, ModifyMaps
    <2>3. AbstractQueue = QueuesOf(levels)
      BY <2>1, IdleBook DEF Modify
    <2> QED
      BY <2>2, <2>3 DEF Promise!Next
  <1>5. CASE Fill
    BY <1>5, FillStutters DEF Promise!bookVars
  <1>6. CASE Return
    BY <1>6, ReturnStutters DEF Promise!bookVars
  <1> QED
    BY <1>1, <1>2, <1>3, <1>4, <1>5, <1>6 DEF Next

\* The empty engine is the empty promise.
LEMMA InitMaps == Init => Promise!Init /\ ReachInv
  <1> SUFFICES ASSUME Init PROVE Promise!Init /\ ReachInv
    OBVIOUS
  <1>1. Idle /\ levels = [side \in Sides |-> <<>>] /\ order_index = <<>>
    BY DEF Init, Idle
  <1>2. WellTyped(levels, order_index)
    BY InitEstablishes DEF IInv
  <1>3. \A side \in Sides : QueueOf(levels, side) = <<>>
    <2> SUFFICES ASSUME NEW side \in Sides PROVE QueueOf(levels, side) = <<>>
      OBVIOUS
    <2>1. QueueOf(levels, side) \in Seq(Order) /\ \E ends : Queued(levels, side, ends)
      BY <1>2, QueueIsJoined
    <2>2. PICK ends : Queued(levels, side, ends)
      BY <2>1
    <2>3. ASSUME NEW i \in 1..Len(QueueOf(levels, side))
          PROVE  FALSE
      <3>1. Indexed(levels, order_index)
        BY InitEstablishes DEF IInv
      <3>2. PlacedOrder(levels, order_index, side, ends, i)
        BY <1>2, <2>2, <3>1, EveryPlaceIsInAList
      <3>3. DOMAIN order_index = {}
        BY <1>1
      <3> QED
        BY <3>2, <3>3 DEF PlacedOrder
    <2> QED
      BY <2>1, <2>3, EmptySeq
  <1>4. AbstractQueue = [side \in Sides |-> <<>>]
    <2>1. QueuesOf(levels) = [side \in Sides |-> <<>>]
      BY <1>3 DEF QueuesOf
    <2> QED
      BY <1>1, <2>1, IdleBook
  <1>5. AbstractTrades = <<>> /\ AbstractTradedQty = 0
    BY <1>1 DEF Init, AbstractTrades, AbstractTradedQty
  <1>6. Promise!Sides = Sides
    BY SameOperators
  <1> QED
    BY <1>1, <1>4, <1>5, <1>6 DEF Promise!Init, ReachInv, Init

\* Each call has the effect of one atomic call on a price-time queue: the same error, the
\* same trades in the same order, the same resting orders, whatever the requests.
THEOREM EngineIsPriceTime == Spec => ImplementsPriceTimeBook
  <1>1. Init => Promise!Init /\ ReachInv
    BY InitMaps
  <1>2. AdmissionInv /\ ReachInv /\ [Next]_vars => ReachInv'
    BY ReachIsKept
  <1>3. AdmissionInv /\ ReachInv /\ [Next]_vars => [Promise!Next]_(Promise!bookVars)
    BY StepMaps
  <1>4. Spec => []AdmissionInv
    BY AdmissionInvariant
  <1> QED
    BY <1>1, <1>2, <1>3, <1>4, PTL DEF Spec, ImplementsPriceTimeBook, Promise!Spec
===============================================================================
