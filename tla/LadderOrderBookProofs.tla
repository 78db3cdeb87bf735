------------------------ MODULE LadderOrderBookProofs ------------------------
(***************************************************************************)
(* Theorems about the price ladder, for every range of prices, every width *)
(* of the words of a bitmap and every set of ids, quantities and requests. *)
(*                                                                         *)
(* The scan of max_crossing_qty may count a bid level twice, so nothing is *)
(* proved of what a sell is predicted to execute but this: it is 0 where   *)
(* no level crosses.  That is what the totals need.  An order that joins   *)
(* orders of its own side faces no level that crosses its price, for then  *)
(* the book were crossed; so the overflow check counted all of it.         *)
(*                                                                         *)
(* Whatever is refused, the ladder matches by price-time priority, which   *)
(* the second half proves: what the book publishes is the lists of its     *)
(* levels put end to end; a call that changes one level changes one place  *)
(* of that queue; what an incoming order takes from a queue of resting     *)
(* orders is known from OrderBookProofs, whose lemmas hold for any prices. *)
(*                                                                         *)
(* The last part is about the refusals of a buy.  The scan of ask levels   *)
(* climbs over their ranks and leaves out no level, so its prediction is   *)
(* what the match executes; where asks have the level of the limit, it has *)
(* taken all of them before anything is left to rest there.                *)
(***************************************************************************)
EXTENDS LadderRefinement, Induction, FiniteSetTheorems

(***************************************************************************)
(* Lists of orders.                                                        *)
(***************************************************************************)
Order == [order_id : OrderIds, side : Sides, price : Ladder, qty : Nat \ {0}]
Level == [total_qty : Int, orders : Seq(Order)]

Names(orders, id) == \E i \in DOMAIN orders : orders[i].order_id = id
Sits(orders, side) == \E i \in DOMAIN orders : orders[i].side = side

\* The orders of a level are of its price, which the index gives for each of them.
PlacedAt(orders, p, ix) ==
  /\ \A i \in DOMAIN orders :
       /\ orders[i].price = p
       /\ orders[i].order_id \in DOMAIN ix
       /\ ix[orders[i].order_id] = p
  /\ \A i, j \in DOMAIN orders : orders[i].order_id = orders[j].order_id => i = j

LEMMA TotalIsSum ==
  ASSUME NEW orders
  PROVE  TotalQty(orders) = SumOfQty(orders)
  BY DEF TotalQty, SumOfQty

LEMMA OrdersCount == Counted(Order)
  BY DEF Counted, Order

LEMMA TotalFacts ==
  ASSUME NEW orders \in Seq(Order)
  PROVE  /\ TotalQty(orders) \in Nat
         /\ orders = <<>> => TotalQty(orders) = 0
  BY OrdersCount, TotalIsSum, SumFacts

\* The list once the order at i has left.
Left(orders, i, left) ==
  /\ left \in Seq(Order)
  /\ Len(left) = Len(orders) - 1
  /\ \A j \in 1..(Len(orders) - 1) : left[j] = IF j < i THEN orders[j] ELSE orders[j + 1]

\* RemoveAt, and Tail, leave the list without one order.
LEMMA RemoveAtLeaves ==
  ASSUME NEW orders \in Seq(Order), NEW i \in 1..Len(orders)
  PROVE  /\ Left(orders, i, RemoveAt(orders, i))
         /\ TotalQty(RemoveAt(orders, i)) = TotalQty(orders) - orders[i].qty
  <1>1. RemoveAt(orders, i) = Without(orders, i)
    BY DEF RemoveAt, Without
  <1>2. Left(orders, i, Without(orders, i))
    BY WithoutFacts DEF Left
  <1>3. SumOfQty(Without(orders, i)) = SumOfQty(orders) - orders[i].qty
    BY OrdersCount, SumOfWithout
  <1> QED
    BY <1>1, <1>2, <1>3, TotalIsSum

\* Erasing the first position is taking the tail.
LEMMA TailIsRemoveAt ==
  ASSUME NEW S, NEW s \in Seq(S), s # <<>>
  PROVE  Tail(s) = RemoveAt(s, 1)
  <1> DEFINE tail == Tail(s)
             left == Without(s, 1)
  <1>1. 1 \in 1..Len(s) /\ Len(s) \in Nat
    BY EmptySeq
  <1>2. /\ tail \in Seq(S) /\ Len(tail) = Len(s) - 1
        /\ \A j \in 1..(Len(s) - 1) : tail[j] = s[j + 1]
    BY HeadTailProperties
  <1>3. /\ left \in Seq(S) /\ Len(left) = Len(s) - 1
        /\ \A j \in 1..(Len(s) - 1) : left[j] = s[j + 1]
    BY <1>1, WithoutFacts
  <1> HIDE DEF tail, left
  <1>4. tail = left
    BY <1>2, <1>3, SeqEqual
  <1>5. RemoveAt(s, 1) = left
    BY DEF RemoveAt, Without, left
  <1> QED
    BY <1>4, <1>5 DEF tail

\* What is said of the orders that stay, for any order that leaves.
LEMMA LeavingKeepsPlaces ==
  ASSUME NEW orders \in Seq(Order), NEW i \in 1..Len(orders), NEW left,
         Left(orders, i, left), NEW p, NEW ix, PlacedAt(orders, p, ix)
  PROVE  /\ PlacedAt(left, p, Erase(ix, orders[i].order_id))
         /\ \A id : Names(orders, id) /\ id # orders[i].order_id => Names(left, id)
         /\ \A side : Sits(left, side) => Sits(orders, side)
  <1> DEFINE old(j) == IF j < i THEN j ELSE j + 1
             new(j) == IF j < i THEN j ELSE j - 1
  <1>1. /\ DOMAIN orders = 1..Len(orders) /\ Len(orders) \in Nat
        /\ DOMAIN left = 1..(Len(orders) - 1)
    BY DEF Left
  <1>2. \A j \in DOMAIN left : /\ left[j] = orders[old(j)] /\ old(j) # i
                               /\ old(j) \in DOMAIN orders /\ new(old(j)) = j
    BY <1>1 DEF Left
  <1>3. \A j \in DOMAIN orders : j # i => new(j) \in DOMAIN left /\ old(new(j)) = j
    BY <1>1
  <1> HIDE DEF old, new
  <1>4. ASSUME NEW j \in DOMAIN left
        PROVE  /\ left[j].price = p
               /\ left[j].order_id \in DOMAIN Erase(ix, orders[i].order_id)
               /\ Erase(ix, orders[i].order_id)[left[j].order_id] = p
    <2>1. /\ orders[old(j)].price = p /\ orders[old(j)].order_id \in DOMAIN ix
          /\ ix[orders[old(j)].order_id] = p
          /\ orders[old(j)].order_id # orders[i].order_id
      BY <1>1, <1>2 DEF PlacedAt
    <2> QED
      BY <1>2, <2>1 DEF Erase
  <1>5. ASSUME NEW j \in DOMAIN left, NEW k \in DOMAIN left, left[j].order_id = left[k].order_id
        PROVE  j = k
    <2>1. old(j) = old(k)
      BY <1>2, <1>5 DEF PlacedAt
    <2> QED
      BY <1>2, <2>1
  <1>6. ASSUME NEW id, Names(orders, id), id # orders[i].order_id
        PROVE  Names(left, id)
    <2>1. PICK j \in DOMAIN orders : orders[j].order_id = id
      BY <1>6 DEF Names
    <2>2. new(j) \in DOMAIN left /\ left[new(j)] = orders[j]
      BY <2>1, <1>2, <1>3, <1>6
    <2> QED
      BY <2>1, <2>2 DEF Names
  <1>7. \A side : Sits(left, side) => Sits(orders, side)
    BY <1>2 DEF Sits
  <1> QED
    BY <1>4, <1>5, <1>6, <1>7 DEF PlacedAt

\* An order that leaves is none of another level's.
LEMMA PlacedElsewhere ==
  ASSUME NEW orders, NEW q, NEW ix, NEW id, PlacedAt(orders, q, ix), ix[id] # q
  PROVE  PlacedAt(orders, q, Erase(ix, id))
  BY DEF PlacedAt, Erase

\* A new order joins its level and none of the others.
LEMMA JoiningKeepsPlaces ==
  ASSUME NEW orders \in Seq(Order), NEW order \in Order, NEW p, NEW ix,
         PlacedAt(orders, p, ix), order.price = p, order.order_id \notin DOMAIN ix
  PROVE  /\ Append(orders, order) \in Seq(Order)
         /\ Append(orders, order) # <<>>
         /\ PlacedAt(Append(orders, order), p, Put(ix, order.order_id, p))
         /\ \A id : Names(orders, id) \/ id = order.order_id => Names(Append(orders, order), id)
         /\ \A side : Sits(Append(orders, order), side) <=> Sits(orders, side) \/ side = order.side
  <1> DEFINE more == Append(orders, order)
             last == Len(orders) + 1
  <1>1. /\ more \in Seq(Order) /\ Len(more) = last /\ Len(orders) \in Nat
        /\ DOMAIN more = 1..last /\ DOMAIN orders = 1..Len(orders)
        /\ more[last] = order /\ \A i \in 1..Len(orders) : more[i] = orders[i]
    BY AppendProperties
  <1>2. last \in DOMAIN more /\ \A i \in DOMAIN more : i = last \/ i \in DOMAIN orders
    BY <1>1
  <1>3. \A i \in DOMAIN orders : i \in DOMAIN more /\ more[i] = orders[i]
    BY <1>1
  <1>4. more # <<>>
    BY <1>1, <1>2
  <1> HIDE DEF more, last
  <1>5. ASSUME NEW i \in DOMAIN more
        PROVE  /\ more[i].price = p
               /\ more[i].order_id \in DOMAIN Put(ix, order.order_id, p)
               /\ Put(ix, order.order_id, p)[more[i].order_id] = p
    <2>1. CASE i = last
      BY <2>1, <1>1 DEF Put
    <2>2. CASE i \in DOMAIN orders
      BY <2>2, <1>3 DEF Put, PlacedAt
    <2> QED
      BY <2>1, <2>2, <1>2
  <1>6. ASSUME NEW i \in DOMAIN more, NEW j \in DOMAIN more, more[i].order_id = more[j].order_id
        PROVE  i = j
    <2>1. \A k \in DOMAIN orders : more[k].order_id # more[last].order_id
      BY <1>1, <1>3 DEF PlacedAt
    <2>2. CASE i \in DOMAIN orders /\ j \in DOMAIN orders
      BY <2>2, <1>3, <1>6 DEF PlacedAt
    <2> QED
      BY <2>1, <2>2, <1>2, <1>6
  <1>7. PlacedAt(more, p, Put(ix, order.order_id, p))
    BY <1>5, <1>6 DEF PlacedAt
  <1>8. \A id : Names(orders, id) \/ id = order.order_id => Names(more, id)
    BY <1>1, <1>2, <1>3 DEF Names
  <1>9. ASSUME NEW side
        PROVE  Sits(more, side) <=> Sits(orders, side) \/ side = order.side
    <2>1. Sits(more, side) => Sits(orders, side) \/ side = order.side
      BY <1>1, <1>2, <1>3 DEF Sits
    <2>2. Sits(orders, side) => Sits(more, side)
      BY <1>3 DEF Sits
    <2>3. side = order.side => Sits(more, side)
      BY <1>1, <1>2 DEF Sits
    <2> QED
      BY <2>1, <2>2, <2>3
  <1> QED
    BY <1>1, <1>4, <1>7, <1>8, <1>9 DEF more

LEMMA PlacedBesides ==
  ASSUME NEW orders, NEW q, NEW ix, NEW id, NEW p, PlacedAt(orders, q, ix), id \notin DOMAIN ix
  PROVE  PlacedAt(orders, q, Put(ix, id, p))
  BY DEF PlacedAt, Put

\* An order whose quantity changes keeps its place.
Shrunk(orders, qty, new) == new = <<[Head(orders) EXCEPT !.qty = qty]>> \o Tail(orders)

LEMMA ShrinkingKeepsPlaces ==
  ASSUME NEW orders \in Seq(Order), orders # <<>>, NEW qty \in Nat \ {0},
         NEW new, Shrunk(orders, qty, new)
  PROVE  /\ new \in Seq(Order) /\ new # <<>>
         /\ TotalQty(new) = TotalQty(orders) - Head(orders).qty + qty
         /\ \A p, ix : PlacedAt(orders, p, ix) => PlacedAt(new, p, ix)
         /\ \A id : Names(orders, id) => Names(new, id)
         /\ \A side : Sits(new, side) <=> Sits(orders, side)
  <1> DEFINE first == [Head(orders) EXCEPT !.qty = qty]
  <1>1. /\ Head(orders) \in Order /\ Head(orders) = orders[1]
        /\ Tail(orders) \in Seq(Order) /\ Len(Tail(orders)) = Len(orders) - 1
        /\ \A i \in 1..(Len(orders) - 1) : Tail(orders)[i] = orders[i + 1]
        /\ Len(orders) \in Nat \ {0} /\ DOMAIN orders = 1..Len(orders)
    BY HeadTailProperties
  <1>2. /\ first \in Order /\ first.qty = qty /\ first.order_id = orders[1].order_id
        /\ first.side = orders[1].side /\ first.price = orders[1].price
    BY <1>1 DEF Order
  <1> HIDE DEF first
  <1>3. <<first>> \in Seq(Order) /\ Len(<<first>>) = 1 /\ <<first>>[1] = first
    BY <1>2
  <1>4. /\ new \in Seq(Order) /\ Len(new) = Len(orders) /\ new[1] = first
        /\ \A i \in 2..Len(orders) : new[i] = Tail(orders)[i - 1]
    <2>1. new = <<first>> \o Tail(orders)
      BY DEF Shrunk, first
    <2> QED
      BY <2>1, <1>1, <1>3
  <1>5. \A i \in 2..Len(orders) : new[i] = orders[i]
    BY <1>1, <1>4
  <1>6. DOMAIN new = DOMAIN orders /\ new # <<>>
    BY <1>1, <1>4
  <1>7. ASSUME NEW i \in DOMAIN orders
        PROVE  /\ new[i].order_id = orders[i].order_id
               /\ new[i].side = orders[i].side
               /\ new[i].price = orders[i].price
    <2>1. i = 1 \/ i \in 2..Len(orders)
      BY <1>1
    <2> QED
      BY <2>1, <1>2, <1>4, <1>5
  <1>8. SumOfQty(new) = SumOfQty(orders) - orders[1].qty + new[1].qty
    BY <1>4, <1>5, OrdersCount, SumOfShrunk
  <1>9. TotalQty(new) = TotalQty(orders) - Head(orders).qty + qty
    BY <1>1, <1>2, <1>4, <1>8, TotalIsSum
  <1>10. ASSUME NEW p, NEW ix, PlacedAt(orders, p, ix)
         PROVE  PlacedAt(new, p, ix)
    <2>1. \A i \in DOMAIN new : /\ new[i].price = p
                                /\ new[i].order_id \in DOMAIN ix
                                /\ ix[new[i].order_id] = p
      BY <1>6, <1>7, <1>10 DEF PlacedAt
    <2>2. \A i, j \in DOMAIN new : new[i].order_id = new[j].order_id => i = j
      BY <1>6, <1>7, <1>10 DEF PlacedAt
    <2> QED
      BY <2>1, <2>2 DEF PlacedAt
  <1>11. \A id : Names(orders, id) => Names(new, id)
    BY <1>6, <1>7 DEF Names
  <1>12. \A side : Sits(new, side) <=> Sits(orders, side)
    BY <1>6, <1>7 DEF Sits
  <1> QED
    BY <1>4, <1>6, <1>9, <1>10, <1>11, <1>12
-----------------------------------------------------------------------------
(***************************************************************************)
(* The bitmaps.                                                            *)
(***************************************************************************)
LastIndex == MaxPrice - MinPrice

LEMMA IndexFacts ==
  /\ LastIndex \in Nat /\ Indexes = 0..LastIndex /\ WordBits \in Nat \ {0}
  /\ \A p \in Ladder : index_for(p) \in Indexes /\ PriceAt(index_for(p)) = p
  /\ \A i \in Indexes : PriceAt(i) \in Ladder /\ index_for(PriceAt(i)) = i
  BY LadderAssumption DEF LastIndex, Indexes, Ladder, index_for, PriceAt

LEMMA DivisionFacts ==
  ASSUME NEW a \in Nat, NEW b \in Nat \ {0}
  PROVE  /\ a \div b \in Nat
         /\ a = (b * (a \div b)) + (a % b)
         /\ a % b \in 0..(b - 1)
  OBVIOUS

LEMMA MultiplesApart ==
  ASSUME NEW b \in Nat \ {0}, NEW m \in Nat, NEW n \in Nat, m > n
  PROVE  b * m >= b * n + b
  OBVIOUS

\* A later bit is in no earlier word, and there are at most as many words as bits.
LEMMA WordsInOrder ==
  ASSUME NEW i \in Nat, NEW j \in Nat, i <= j
  PROVE  WordOf(i) \in Nat /\ WordOf(j) \in Nat /\ WordOf(i) <= WordOf(j)
  <1> DEFINE m == i \div WordBits
             n == j \div WordBits
             r == i % WordBits
             s == j % WordBits
  <1>1. WordBits \in Nat \ {0}
    BY IndexFacts
  <1>2. /\ m \in Nat /\ i = (WordBits * m) + r /\ r \in 0..(WordBits - 1)
        /\ n \in Nat /\ j = (WordBits * n) + s /\ s \in 0..(WordBits - 1)
    BY <1>1, DivisionFacts
  <1> HIDE DEF m, n, r, s
  <1>3. ASSUME m > n PROVE FALSE
    <2>1. WordBits * m >= WordBits * n + WordBits
      BY <1>1, <1>2, <1>3, MultiplesApart
    <2>2. WordBits * m \in Int /\ WordBits * n \in Int
      BY <1>1, <1>2
    <2> DEFINE x == WordBits * m
               y == WordBits * n
    <2>3. x >= y + WordBits /\ x \in Int /\ y \in Int /\ i = x + r /\ j = y + s
      BY <2>1, <2>2, <1>2
    <2> HIDE DEF x, y
    <2> QED
      BY <2>3, <1>1, <1>2
  <1> QED
    BY <1>2, <1>3 DEF WordOf, m, n

LEMMA WordIsIndex ==
  ASSUME NEW i \in Indexes
  PROVE  WordOf(i) \in Indexes
  <1> DEFINE m == i \div WordBits
             r == i % WordBits
  <1>1. WordBits \in Nat \ {0} /\ i \in Nat /\ i <= LastIndex
    BY IndexFacts
  <1>2. m \in Nat /\ i = (WordBits * m) + r /\ r \in 0..(WordBits - 1)
    BY <1>1, DivisionFacts
  <1> HIDE DEF m, r
  <1>3. WordBits * m >= m
    <2>1. CASE m = 0
      BY <2>1, <1>1
    <2>2. CASE m > 0
      <3>1. m * WordBits >= m * 0 + m
        BY <2>2, <1>1, <1>2, MultiplesApart
      <3> QED
        BY <3>1, <1>1, <1>2
    <2> QED
      BY <2>1, <2>2, <1>2
  <1>4. m <= i
    <2> DEFINE x == WordBits * m
    <2>1. x \in Int /\ x >= m /\ i = x + r
      BY <1>1, <1>2, <1>3
    <2> HIDE DEF x
    <2> QED
      BY <2>1, <1>1, <1>2
  <1> QED
    BY <1>1, <1>2, <1>4, IndexFacts DEF WordOf, m

\* ctz and clz on words that are not zero.
LEMMA LowestIsFirst ==
  ASSUME NEW bits \in SUBSET Indexes, bits # {}
  PROVE  Lowest(bits) \in bits /\ \A c \in bits : Lowest(bits) <= c
  <1>1. \E b \in bits : \A c \in bits : b <= c
    <2>1. bits \subseteq Nat
      BY IndexFacts
    <2> QED
      BY <2>1, SmallestExists
  <1> QED
    BY <1>1 DEF Lowest

LEMMA HighestIsLast ==
  ASSUME NEW bits \in SUBSET Indexes, bits # {}
  PROVE  Highest(bits) \in bits /\ \A c \in bits : Highest(bits) >= c
  <1>1. \E b \in bits : \A c \in bits : b >= c
    <2> DEFINE depth == {d \in Nat : LastIndex - d \in bits}
    <2>1. \A c \in bits : /\ c \in Nat /\ LastIndex - c \in Nat
                          /\ LastIndex - (LastIndex - c) = c /\ LastIndex - c \in depth
      BY IndexFacts
    <2>2. depth \subseteq Nat /\ depth # {}
      BY <2>1
    <2>3. PICK d \in depth : \A e \in depth : d <= e
      BY <2>2, SmallestExists
    <2>4. LastIndex - d \in bits /\ d \in Nat /\ LastIndex \in Nat
      BY <2>3, IndexFacts
    <2>5. ASSUME NEW c \in bits PROVE LastIndex - d >= c
      <3>1. d <= LastIndex - c /\ c \in Nat
        BY <2>1, <2>3
      <3> QED
        BY <3>1, <2>4
    <2> QED
      BY <2>4, <2>5
  <1> QED
    BY <1>1 DEF Highest

\* The bits of a side are no further from the spread than b.
NoneBefore(side, bits, b) ==
  IF side = "Ask" THEN \A c \in bits : b <= c ELSE \A c \in bits : b >= c

LEMMA FirstBitIsFirst ==
  ASSUME NEW bits \in SUBSET Indexes, bits # {}, NEW side
  PROVE  FirstBit(side, bits) \in bits /\ NoneBefore(side, bits, FirstBit(side, bits))
  BY LowestIsFirst, HighestIsLast DEF FirstBit, NoneBefore

\* What the bitmaps say of the levels lv.
BitsGood(lv, oc, wo) ==
  /\ oc \in [Sides -> SUBSET Indexes]
  /\ wo \in [Sides -> SUBSET Indexes]
  /\ \A side \in Sides : \A p \in Ladder : index_for(p) \in oc[side] <=> Sits(lv[p].orders, side)
  /\ \A side \in Sides : wo[side] = {WordOf(i) : i \in oc[side]}

Uncrossed(oc) == \A b \in oc["Bid"], a \in oc["Ask"] : b < a

\* best_index finds the first level of a side that has one.
LEMMA BestIndexIsBest ==
  ASSUME BitsGood(levels, occupied, word_occupied), NEW side \in Sides, word_occupied[side] # {}
  PROVE  /\ best_index(side) \in occupied[side]
         /\ NoneBefore(side, occupied[side], best_index(side))
  <1> DEFINE words == word_occupied[side]
             w     == FirstBit(side, words)
             bits  == BitsOf(side, w)
             b     == FirstBit(side, bits)
  <1>1. /\ words \in SUBSET Indexes /\ occupied[side] \in SUBSET Indexes
        /\ words = {WordOf(i) : i \in occupied[side]}
    BY DEF BitsGood
  <1>2. w \in words /\ NoneBefore(side, words, w)
    BY <1>1, FirstBitIsFirst
  <1>3. bits \in SUBSET Indexes /\ bits # {}
    BY <1>1, <1>2 DEF BitsOf
  <1>4. b \in bits /\ NoneBefore(side, bits, b)
    BY <1>3, FirstBitIsFirst
  <1>5. b \in occupied[side] /\ WordOf(b) = w
    BY <1>4 DEF BitsOf
  <1> HIDE DEF words, w, b
  <1>6. \A i \in occupied[side] : /\ i \in Nat /\ WordOf(i) \in Nat /\ WordOf(i) \in words
                                  /\ WordOf(i) = w => i \in bits
    BY <1>1, WordIsIndex, IndexFacts DEF BitsOf
  <1> HIDE DEF bits
  <1>7. CASE side = "Ask"
    <2> SUFFICES ASSUME NEW i \in occupied[side], ~(b <= i) PROVE FALSE
      BY <1>5, <1>7 DEF NoneBefore, best_index, b, bits, w, words
    <2>1. WordOf(i) <= WordOf(b)
      BY <1>5, <1>6, WordsInOrder
    <2>2. w <= WordOf(i)
      BY <1>2, <1>6, <1>7 DEF NoneBefore
    <2>3. i \in bits
      BY <2>1, <2>2, <1>5, <1>6
    <2> QED
      BY <2>3, <1>4, <1>7 DEF NoneBefore
  <1>8. CASE side # "Ask"
    <2> SUFFICES ASSUME NEW i \in occupied[side], ~(b >= i) PROVE FALSE
      BY <1>5, <1>8 DEF NoneBefore, best_index, b, bits, w, words
    <2>1. WordOf(b) <= WordOf(i)
      BY <1>5, <1>6, WordsInOrder
    <2>2. w >= WordOf(i)
      BY <1>2, <1>6, <1>8 DEF NoneBefore
    <2>3. i \in bits
      BY <2>1, <2>2, <1>5, <1>6
    <2> QED
      BY <2>3, <1>4, <1>8 DEF NoneBefore
  <1> QED
    BY <1>7, <1>8
-----------------------------------------------------------------------------
(***************************************************************************)
(* The scan of max_crossing_qty.  It takes no bit that is not there.       *)
(***************************************************************************)
ScansOn(side, D, scan) ==
  scan = [b \in D |-> IF b = {} THEN <<>> ELSE <<FirstBit(side, b)>> \o scan[b \ {Lowest(b)}]]

\* The words with their bits among the n highest.
Upper(n) == {b \in SUBSET Indexes : \A c \in b : c + n > LastIndex}

LEMMA UpperFacts ==
  /\ Upper(0) = {{}}
  /\ Upper(LastIndex + 1) = SUBSET Indexes
  /\ \A n \in Nat : Upper(n) \subseteq Upper(n + 1) /\ {} \in Upper(n)
  /\ \A n \in Nat : \A b \in Upper(n + 1) : b # {} => b \ {Lowest(b)} \in Upper(n)
  <1>1. \A c \in Indexes : c \in Nat /\ c <= LastIndex /\ LastIndex \in Nat
    BY IndexFacts
  <1>2. ASSUME NEW n \in Nat, NEW b \in Upper(n + 1), b # {}
        PROVE  b \ {Lowest(b)} \in Upper(n)
    <2>1. /\ b \in SUBSET Indexes /\ \A c \in b : c + (n + 1) > LastIndex
          /\ Lowest(b) \in b /\ \A c \in b : Lowest(b) <= c
      BY <1>2, LowestIsFirst DEF Upper
    <2> SUFFICES ASSUME NEW c \in b, c # Lowest(b) PROVE c + n > LastIndex
      BY <2>1 DEF Upper
    <2> DEFINE low == Lowest(b)
    <2>2. /\ low <= c /\ c # low /\ c \in Nat /\ low \in Nat /\ LastIndex \in Nat
          /\ low + (n + 1) > LastIndex
      BY <2>1, <1>1, IndexFacts
    <2> HIDE DEF low
    <2> QED
      BY <2>2
  <1>3. Upper(0) = {{}}
    BY <1>1 DEF Upper
  <1>4. Upper(LastIndex + 1) = SUBSET Indexes
    BY <1>1 DEF Upper
  <1>5. \A n \in Nat : Upper(n) \subseteq Upper(n + 1) /\ {} \in Upper(n)
    BY <1>1 DEF Upper
  <1> QED
    BY <1>2, <1>3, <1>4, <1>5

LEMMA ScanIsRecursive ==
  ASSUME NEW side, NEW bits
  PROVE  \E scan : ScansOn(side, SUBSET Indexes, scan) /\ ScanOf(side, bits) = scan[bits]
  <1> DEFINE reached == {n \in Nat : \E scan : ScansOn(side, Upper(n), scan)}
  <1>1. 0 \in reached
    <2> DEFINE empty == [b \in Upper(0) |-> <<>>]
               next == [b \in Upper(0) |-> IF b = {} THEN <<>>
                          ELSE <<FirstBit(side, b)>> \o empty[b \ {Lowest(b)}]]
    <2>1. ScansOn(side, Upper(0), empty)
      <3>1. \A b \in Upper(0) : b = {}
        BY UpperFacts
      <3>2. empty = next
        BY <3>1
      <3> QED
        BY <3>2 DEF ScansOn
    <2> QED
      BY <2>1
  <1>2. ASSUME NEW n \in Nat, n \in reached
        PROVE  n + 1 \in reached
    <2>1. PICK scan : ScansOn(side, Upper(n), scan)
      BY <1>2
    <2> DEFINE longer == [b \in Upper(n + 1) |->
                            IF b \in Upper(n) THEN scan[b]
                            ELSE <<FirstBit(side, b)>> \o scan[b \ {Lowest(b)}]]
               next == [b \in Upper(n + 1) |->
                          IF b = {} THEN <<>>
                          ELSE <<FirstBit(side, b)>> \o longer[b \ {Lowest(b)}]]
    <2>2. ASSUME NEW b \in Upper(n + 1)
          PROVE  longer[b] = next[b]
      <3>1. b # {} => /\ b \ {Lowest(b)} \in Upper(n) /\ b \ {Lowest(b)} \in Upper(n + 1)
        BY UpperFacts
      <3>2. b # {} => longer[b \ {Lowest(b)}] = scan[b \ {Lowest(b)}]
        BY <3>1
      <3>3. b \in Upper(n) => scan[b] = IF b = {} THEN <<>>
                                         ELSE <<FirstBit(side, b)>> \o scan[b \ {Lowest(b)}]
        BY <2>1 DEF ScansOn
      <3>4. b \notin Upper(n) => b # {}
        <4>1. {} \in Upper(n)
          BY UpperFacts
        <4> QED
          BY <4>1, Zenon
      <3> QED
        <4>1. CASE b \in Upper(n)
          BY <4>1, <3>2, <3>3
        <4>2. CASE b \notin Upper(n)
          BY <4>2, <3>2, <3>4
        <4> QED
          BY <4>1, <4>2
    <2>3. longer = next
      BY <2>2
    <2>4. ScansOn(side, Upper(n + 1), longer)
      BY <2>3 DEF ScansOn
    <2> HIDE DEF longer, next
    <2> QED
      BY <2>4
  <1>3. LastIndex + 1 \in reached
    <2> HIDE DEF reached
    <2>1. LastIndex + 1 \in Nat
      BY IndexFacts
    <2> QED
      BY <1>1, <1>2, <2>1, NaturalsAreReached
  <1>4. \E scan : ScansOn(side, SUBSET Indexes, scan)
    <2>1. PICK scan : ScansOn(side, Upper(LastIndex + 1), scan)
      BY <1>3
    <2>2. Upper(LastIndex + 1) = SUBSET Indexes
      BY UpperFacts
    <2> QED
      BY <2>1, <2>2
  <1> QED
    BY <1>4 DEF ScanOf, ScansOn

LEMMA ScanTakesBits ==
  ASSUME NEW side, NEW bits \in SUBSET Indexes
  PROVE  ScanOf(side, bits) \in Seq(bits)
  <1>1. PICK scan : ScansOn(side, SUBSET Indexes, scan) /\ ScanOf(side, bits) = scan[bits]
    BY ScanIsRecursive
  <1> DEFINE inside == {n \in Nat : \A b \in Upper(n) : scan[b] \in Seq(b)}
  <1>2. \A b \in SUBSET Indexes :
          scan[b] = IF b = {} THEN <<>> ELSE <<FirstBit(side, b)>> \o scan[b \ {Lowest(b)}]
    BY <1>1 DEF ScansOn
  <1>3. 0 \in inside
    <2>1. scan[{}] = <<>> /\ <<>> \in Seq({})
      BY <1>2, EmptySeq
    <2> QED
      BY <2>1, UpperFacts
  <1>4. ASSUME NEW n \in Nat, n \in inside
        PROVE  n + 1 \in inside
    <2> SUFFICES ASSUME NEW b \in Upper(n + 1) PROVE scan[b] \in Seq(b)
      OBVIOUS
    <2>1. b \in SUBSET Indexes
      BY DEF Upper
    <2>2. CASE b = {}
      <3>1. scan[b] = <<>> /\ <<>> \in Seq(b)
        BY <2>1, <2>2, <1>2, EmptySeq
      <3> QED
        BY <3>1
    <2>3. CASE b # {}
      <3> DEFINE rest == b \ {Lowest(b)}
                 first == FirstBit(side, b)
      <3>1. scan[rest] \in Seq(rest) /\ rest \subseteq b /\ first \in b
        BY <2>1, <2>3, <1>4, UpperFacts, FirstBitIsFirst
      <3>2. scan[b] = <<first>> \o scan[rest]
        BY <2>1, <2>3, <1>2
      <3> HIDE DEF rest, first
      <3>3. scan[rest] \in Seq(b) /\ <<first>> \in Seq(b)
        BY <3>1
      <3> QED
        BY <3>2, <3>3
    <2> QED
      BY <2>2, <2>3
  <1>5. LastIndex + 1 \in inside
    <2> HIDE DEF inside
    <2>1. LastIndex + 1 \in Nat
      BY IndexFacts
    <2> QED
      BY <1>3, <1>4, <2>1, NaturalsAreReached
  <1> QED
    BY <1>1, <1>5, UpperFacts

\* A concatenation is its parts end to end, and has no members but theirs.
LEMMA FlattenFacts ==
  ASSUME NEW S, NEW seqs \in Seq(Seq(S))
  PROVE  FlattenSeq(seqs) \in Seq(S) /\ \E ends : EndToEnd(seqs, Len(seqs), ends, FlattenSeq(seqs))
  <1>1. Len(seqs) \in Nat /\ ListsIn(S, seqs, Len(seqs))
    BY LenProperties, ElementOfSeq DEF ListsIn
  <1>2. CASE Len(seqs) = 0
    <2> DEFINE ends == [k \in {0} |-> 0]
    <2>1. FlattenSeq(seqs) = seqs /\ seqs = <<>>
      BY <1>2, EmptySeq DEF FlattenSeq
    <2>2. EndToEnd(seqs, 0, ends, <<>>)
      BY DEF EndToEnd
    <2> QED
      BY <1>2, <2>1, <2>2, EmptySeq
  <1>3. CASE Len(seqs) # 0
    <2> DEFINE flatten == CHOOSE f : Flattened(seqs, Len(seqs), f)
    <2>1. Flattened(seqs, Len(seqs), flatten)
      BY <1>1, <1>3, FlattenedExists
    <2>2. FlattenSeq(seqs) = flatten[Len(seqs)]
      BY <1>3 DEF FlattenSeq, Flattened
    <2> HIDE DEF flatten
    <2> QED
      BY <1>1, <1>3, <2>1, <2>2, FlattenedIsJoined
  <1> QED
    BY <1>2, <1>3

LEMMA VisitedAreOccupied ==
  ASSUME BitsGood(levels, occupied, word_occupied), NEW side \in Sides
  PROVE  Visited(side) \in Seq(occupied[side])
  <1> DEFINE words == ScanOf(side, word_occupied[side])
             parts == [k \in DOMAIN words |-> ScanOf(side, BitsOf(side, words[k]))]
  <1>1. words \in Seq(word_occupied[side])
    BY ScanTakesBits DEF BitsGood
  <1>2. ASSUME NEW k \in DOMAIN words
        PROVE  parts[k] \in Seq(occupied[side])
    <2>1. /\ BitsOf(side, words[k]) \in SUBSET Indexes
          /\ BitsOf(side, words[k]) \subseteq occupied[side]
      BY DEF BitsOf, BitsGood
    <2>2. ScanOf(side, BitsOf(side, words[k])) \in Seq(BitsOf(side, words[k]))
      BY <2>1, ScanTakesBits
    <2> QED
      BY <2>1, <2>2
  <1>3. parts \in Seq(Seq(occupied[side]))
    <2>1. DOMAIN words = 1..Len(words) /\ Len(words) \in Nat
      BY <1>1
    <2> HIDE DEF words
    <2>2. \A k \in 1..Len(words) : parts[k] \in Seq(occupied[side])
      BY <1>2, <2>1
    <2>3. parts = [k \in 1..Len(words) |-> parts[k]]
      BY <2>1
    <2> HIDE DEF parts
    <2> QED
      BY <2>1, <2>2, <2>3, IsASeq
  <1> HIDE DEF words, parts
  <1>4. FlattenSeq(parts) \in Seq(occupied[side])
    BY <1>3, FlattenFacts
  <1> QED
    BY <1>4 DEF Visited, words, parts

\* Where no level crosses, the prediction is 0.
LEMMA NothingCrosses ==
  ASSUME BitsGood(levels, occupied, word_occupied), NEW side \in Sides, NEW limit, NEW qty,
         \A i \in occupied[OtherSide(side)] : ~Crosses(side, limit, PriceAt(i))
  PROVE  MaxCrossingQty(side, limit, qty) = 0
  <1> DEFINE visited == Visited(OtherSide(side))
             Reaches(f) ==
               f = [k \in 0..Len(visited) |->
                      IF k = 0 THEN 0
                      ELSE IF Crosses(side, limit, PriceAt(visited[k]))
                      THEN f[k - 1] + Smaller(qty - f[k - 1], levels[PriceAt(visited[k])].total_qty)
                      ELSE f[k - 1]]
  <1>1. OtherSide(side) \in Sides
    BY DEF OtherSide, Sides
  <1>2. visited \in Seq(occupied[OtherSide(side)])
    BY <1>1, VisitedAreOccupied
  <1> HIDE DEF visited
  <1>3. Len(visited) \in Nat /\ \A k \in 1..Len(visited) : ~Crosses(side, limit, PriceAt(visited[k]))
    BY <1>2
  <1>4. Reaches([k \in 0..Len(visited) |-> 0])
    BY <1>3
  <1>5. PICK f : Reaches(f) /\ MaxCrossingQty(side, limit, qty) = f[Len(visited)]
    <2>1. \E f : Reaches(f)
      <3> HIDE DEF Reaches
      <3> QED
        BY <1>4
    <2> QED
      BY <2>1 DEF MaxCrossingQty, visited
  <1>6. f[0] = 0 /\ \A k \in 1..Len(visited) : f[k] = f[k - 1]
    BY <1>3, <1>5
  <1> DEFINE none == {n \in Nat : n <= Len(visited) => f[n] = 0}
  <1>7. 0 \in none
    BY <1>6
  <1>8. ASSUME NEW n \in Nat, n \in none
        PROVE  n + 1 \in none
    <2> SUFFICES ASSUME n + 1 <= Len(visited) PROVE f[n + 1] = 0
      OBVIOUS
    <2>1. n + 1 \in 1..Len(visited) /\ (n + 1) - 1 = n
      BY <1>3
    <2> QED
      BY <2>1, <1>6, <1>8
  <1>9. Len(visited) \in none
    <2> HIDE DEF none
    <2> QED
      BY <1>3, <1>7, <1>8, NaturalsAreReached
  <1> QED
    BY <1>5, <1>9
-----------------------------------------------------------------------------
(***************************************************************************)
(* The book: levels, index and bitmaps.                                    *)
(***************************************************************************)
LevelsGood(lv) ==
  /\ lv \in [Ladder -> Level]
  /\ \A p \in Ladder : lv[p].total_qty = TotalQty(lv[p].orders) /\ lv[p].total_qty <= MaxQty

IndexGood(lv, ix) ==
  /\ \A id \in DOMAIN ix : id \in OrderIds /\ ix[id] \in Ladder /\ Names(lv[ix[id]].orders, id)
  /\ \A p \in Ladder : PlacedAt(lv[p].orders, p, ix)

Sound(lv, ix, oc, wo) ==
  LevelsGood(lv) /\ IndexGood(lv, ix) /\ BitsGood(lv, oc, wo) /\ Uncrossed(oc)

SoundNow == Sound(levels, order_index, occupied, word_occupied)

LEMMA LevelFacts ==
  ASSUME SoundNow, NEW p \in Ladder
  PROVE  /\ levels[p] \in Level
         /\ levels[p].orders \in Seq(Order)
         /\ levels[p].total_qty \in Int
         /\ levels[p].total_qty = TotalQty(levels[p].orders)
         /\ levels[p].total_qty <= MaxQty
         /\ DOMAIN levels[p].orders = 1..Len(levels[p].orders)
         /\ PlacedAt(levels[p].orders, p, order_index)
  <1>1. levels[p] \in Level
    BY DEF SoundNow, Sound, LevelsGood
  <1>2. levels[p].orders \in Seq(Order) /\ levels[p].total_qty \in Int
    BY <1>1 DEF Level
  <1>3. levels[p].total_qty = TotalQty(levels[p].orders) /\ levels[p].total_qty <= MaxQty
    BY DEF SoundNow, Sound, LevelsGood
  <1>4. PlacedAt(levels[p].orders, p, order_index)
    BY DEF SoundNow, Sound, IndexGood
  <1> QED
    BY <1>1, <1>2, <1>3, <1>4

LEMMA OrderFacts ==
  ASSUME SoundNow, NEW p \in Ladder, NEW i \in DOMAIN levels[p].orders
  PROVE  /\ levels[p].orders[i] \in Order
         /\ levels[p].orders[i].order_id \in OrderIds
         /\ levels[p].orders[i].side \in Sides
         /\ levels[p].orders[i].price = p
         /\ levels[p].orders[i].qty \in Nat \ {0}
         /\ levels[p].orders[i].order_id \in DOMAIN order_index
         /\ order_index[levels[p].orders[i].order_id] = p
  <1>1. levels[p].orders[i] \in Order
    BY LevelFacts, ElementOfSeq
  <1> QED
    BY <1>1, LevelFacts DEF Order, PlacedAt

\* A level, shared by the two sides, is used by one of them only.
LEMMA OneSided ==
  ASSUME SoundNow, NEW p \in Ladder, NEW i \in DOMAIN levels[p].orders, NEW s \in Sides
  PROVE  Sits(levels[p].orders, s) <=> s = levels[p].orders[i].side
  <1> DEFINE side == levels[p].orders[i].side
             at   == index_for(p)
  <1>1. side \in Sides /\ Sits(levels[p].orders, side)
    BY OrderFacts DEF Sits
  <1>2. at \in Indexes /\ at \in Nat
    BY IndexFacts
  <1>3. /\ at \in occupied[side]
        /\ Sits(levels[p].orders, s) => at \in occupied[s]
    BY <1>1 DEF SoundNow, Sound, BitsGood
  <1>4. ~(at \in occupied["Bid"] /\ at \in occupied["Ask"])
    BY <1>2 DEF SoundNow, Sound, Uncrossed
  <1> HIDE DEF side, at
  <1>5. Sits(levels[p].orders, s) => s = side
    BY <1>1, <1>3, <1>4 DEF Sides
  <1> QED
    BY <1>1, <1>5 DEF side

\* Another level at p, of the same side or empty, and the bitmaps that say so.
LEMMA OneLevelChanged ==
  ASSUME SoundNow, NEW side \in Sides, NEW p \in Ladder, NEW level \in Level,
         \A s \in Sides : Sits(levels[p].orders, s) <=> s = side,
         \A s \in Sides : Sits(level.orders, s) <=> s = side /\ level.orders # <<>>,
         UpdateLevel(side, p, level)
  PROVE  /\ levels' \in [Ladder -> Level]
         /\ levels'[p] = level
         /\ \A q \in Ladder : q # p => levels'[q] = levels[q]
         /\ BitsGood(levels', occupied', word_occupied')
         /\ Uncrossed(occupied')
         /\ \A s \in Sides : occupied'[s] \subseteq occupied[s]
         /\ \A s \in Sides : s # side => occupied'[s] = occupied[s]
  <1>1. /\ levels \in [Ladder -> Level]
        /\ occupied \in [Sides -> SUBSET Indexes] /\ word_occupied \in [Sides -> SUBSET Indexes]
        /\ \A s \in Sides : \A q \in Ladder : index_for(q) \in occupied[s] <=> Sits(levels[q].orders, s)
        /\ \A s \in Sides : word_occupied[s] = {WordOf(i) : i \in occupied[s]}
        /\ Uncrossed(occupied)
    BY DEF SoundNow, Sound, LevelsGood, BitsGood
  <1>2. levels' = [levels EXCEPT ![p] = level]
    BY DEF UpdateLevel
  <1>3. /\ levels' \in [Ladder -> Level] /\ levels'[p] = level
        /\ \A q \in Ladder : q # p => levels'[q] = levels[q]
    BY <1>1, <1>2
  <1> DEFINE at == index_for(p)
  <1>4. at \in Indexes /\ \A q \in Ladder : index_for(q) = at => q = p
    BY IndexFacts
  <1>5. CASE level.orders # <<>>
    <2>1. occupied' = occupied /\ word_occupied' = word_occupied
      BY <1>5 DEF UpdateLevel
    <2>2. \A s \in Sides : \A q \in Ladder :
            index_for(q) \in occupied[s] <=> Sits(levels'[q].orders, s)
      BY <1>1, <1>3, <1>5
    <2> QED
      BY <1>1, <1>3, <2>1, <2>2 DEF BitsGood
  <1>6. CASE level.orders = <<>>
    <2>1. Cleared(side, at)
      BY <1>6 DEF UpdateLevel
    <2> HIDE DEF at
    <2>2. /\ occupied' = [occupied EXCEPT ![side] = @ \ {at}]
          /\ word_occupied' =
               [word_occupied EXCEPT ![side] =
                  IF BitsOf(side, WordOf(at)) \subseteq {at} THEN @ \ {WordOf(at)} ELSE @]
      BY <2>1 DEF Cleared
    <2>3. /\ occupied' \in [Sides -> SUBSET Indexes]
          /\ occupied'[side] = occupied[side] \ {at}
          /\ \A s \in Sides : s # side => occupied'[s] = occupied[s]
      BY <2>2, <1>1
    <2>4. /\ word_occupied' \in [Sides -> SUBSET Indexes]
          /\ word_occupied'[side] = IF BitsOf(side, WordOf(at)) \subseteq {at}
                                    THEN word_occupied[side] \ {WordOf(at)}
                                    ELSE word_occupied[side]
          /\ \A s \in Sides : s # side => word_occupied'[s] = word_occupied[s]
      BY <2>2, <1>1
    <2>5. word_occupied'[side] = {WordOf(i) : i \in occupied'[side]}
      <3>1. CASE BitsOf(side, WordOf(at)) \subseteq {at}
        <4>1. \A i \in occupied[side] : WordOf(i) = WordOf(at) => i = at
          BY <3>1 DEF BitsOf
        <4> QED
          BY <3>1, <4>1, <2>3, <2>4, <1>1
      <3>2. CASE ~(BitsOf(side, WordOf(at)) \subseteq {at})
        <4>1. PICK i \in occupied[side] : WordOf(i) = WordOf(at) /\ i # at
          BY <3>2 DEF BitsOf
        <4> QED
          BY <3>2, <4>1, <2>3, <2>4, <1>1
      <3> QED
        BY <3>1, <3>2
    <2>6. \A s \in Sides : word_occupied'[s] = {WordOf(i) : i \in occupied'[s]}
      BY <2>3, <2>4, <2>5, <1>1
    <2>7. ASSUME NEW s \in Sides, NEW q \in Ladder
          PROVE  index_for(q) \in occupied'[s] <=> Sits(levels'[q].orders, s)
      <3>1. CASE q = p
        <4>1. index_for(q) = at
          BY <3>1 DEF at
        <4>2. ~Sits(levels'[q].orders, s)
          BY <3>1, <1>3, <1>6
        <4>3. s # side => index_for(q) \notin occupied[s]
          BY <3>1, <1>1
        <4> QED
          BY <4>1, <4>2, <4>3, <2>3
      <3>2. CASE q # p
        <4>1. index_for(q) # at
          BY <3>2, <1>4
        <4> QED
          BY <3>2, <4>1, <2>3, <1>1, <1>3
      <3> QED
        BY <3>1, <3>2
    <2>8. Uncrossed(occupied')
      BY <2>3, <1>1 DEF Uncrossed, Sides
    <2> QED
      BY <2>3, <2>4, <2>6, <2>7, <2>8, <1>3 DEF BitsGood
  <1> QED
    BY <1>5, <1>6

\* An order leaves its level, and the bitmaps say so if it was the last.
LEMMA Departure ==
  ASSUME SoundNow, NEW p \in Ladder, NEW i \in DOMAIN levels[p].orders,
         UpdateLevel(levels[p].orders[i].side, p, LevelWithout(levels[p], i)),
         order_index' = Erase(order_index, levels[p].orders[i].order_id)
  PROVE  /\ Sound(levels', order_index', occupied', word_occupied')
         /\ levels[p].orders[i].order_id \notin DOMAIN order_index'
         /\ DOMAIN order_index' \subseteq DOMAIN order_index
         /\ levels'[p].total_qty = levels[p].total_qty - levels[p].orders[i].qty
         /\ \A q \in Ladder : q # p => levels'[q] = levels[q]
         /\ \A s \in Sides : occupied'[s] \subseteq occupied[s]
  <1> DEFINE orders == levels[p].orders
             id     == orders[i].order_id
             left   == RemoveAt(orders, i)
             level  == LevelWithout(levels[p], i)
  <1>1. /\ orders \in Seq(Order) /\ i \in 1..Len(orders) /\ PlacedAt(orders, p, order_index)
        /\ levels[p].total_qty = TotalQty(orders) /\ levels[p].total_qty <= MaxQty
        /\ levels[p].total_qty \in Int
    BY LevelFacts
  <1>2. orders[i].side \in Sides /\ orders[i].qty \in Nat \ {0} /\ order_index[id] = p
    BY OrderFacts
  <1>3. Left(orders, i, left) /\ TotalQty(left) = TotalQty(orders) - orders[i].qty
    BY <1>1, RemoveAtLeaves
  <1>4. left \in Seq(Order)
    BY <1>3 DEF Left
  <1>5. /\ level \in Level /\ level.orders = left
        /\ level.total_qty = levels[p].total_qty - orders[i].qty
    BY <1>1, <1>2, <1>4 DEF LevelWithout, Level
  <1>6. /\ PlacedAt(left, p, Erase(order_index, id))
        /\ \A k : Names(orders, k) /\ k # id => Names(left, k)
        /\ \A s : Sits(left, s) => Sits(orders, s)
    BY <1>1, <1>3, LeavingKeepsPlaces
  <1>7. \A s \in Sides : Sits(orders, s) <=> s = orders[i].side
    BY OneSided
  <1>8. \A s \in Sides : Sits(left, s) <=> s = orders[i].side /\ left # <<>>
    <2>1. left # <<>> => \E s \in Sides : Sits(left, s)
      <3> SUFFICES ASSUME left # <<>> PROVE \E s \in Sides : Sits(left, s)
        OBVIOUS
      <3> HIDE DEF left
      <3>1. 1 \in DOMAIN left /\ left[1] \in Order
        BY <1>4
      <3>2. left[1].side \in Sides
        BY <3>1 DEF Order
      <3> QED
        BY <3>1, <3>2 DEF Sits
    <2>2. left = <<>> => \A s \in Sides : ~Sits(left, s)
      BY DEF Sits
    <2> QED
      BY <2>1, <2>2, <1>6, <1>7
  <1> HIDE DEF level, left
  <1>9. UpdateLevel(orders[i].side, p, level) /\ order_index' = Erase(order_index, id)
    BY DEF level
  <1> HIDE DEF orders, id
  <1>10. /\ levels' \in [Ladder -> Level] /\ levels'[p] = level
         /\ \A q \in Ladder : q # p => levels'[q] = levels[q]
         /\ BitsGood(levels', occupied', word_occupied') /\ Uncrossed(occupied')
         /\ \A s \in Sides : occupied'[s] \subseteq occupied[s]
    <2>1. \A s \in Sides : Sits(levels[p].orders, s) <=> s = orders[i].side
      BY <1>7 DEF orders
    <2>2. \A s \in Sides : Sits(level.orders, s) <=> s = orders[i].side /\ level.orders # <<>>
      BY <1>5, <1>8
    <2> QED
      BY <1>2, <1>5, <1>9, <2>1, <2>2, OneLevelChanged
  <1>11. LevelsGood(levels')
    <2>1. \A q \in Ladder : q # p => /\ levels[q].total_qty = TotalQty(levels[q].orders)
                                     /\ levels[q].total_qty <= MaxQty
      BY LevelFacts
    <2>2. level.total_qty = TotalQty(level.orders) /\ level.total_qty <= MaxQty
      BY <1>1, <1>2, <1>3, <1>5, LadderAssumption
    <2> QED
      BY <1>10, <2>1, <2>2 DEF LevelsGood
  <1>12. /\ DOMAIN order_index' = DOMAIN order_index \ {id}
         /\ \A k \in DOMAIN order_index' : order_index'[k] = order_index[k]
    BY <1>9 DEF Erase
  <1>13. ASSUME NEW k \in DOMAIN order_index'
         PROVE  /\ k \in OrderIds /\ order_index'[k] \in Ladder
                /\ Names(levels'[order_index'[k]].orders, k)
    <2>1. /\ k \in OrderIds /\ order_index[k] \in Ladder /\ k # id
          /\ Names(levels[order_index[k]].orders, k) /\ order_index'[k] = order_index[k]
      BY <1>12 DEF SoundNow, Sound, IndexGood
    <2>2. CASE order_index[k] = p
      BY <2>1, <2>2, <1>5, <1>6, <1>10 DEF orders
    <2>3. CASE order_index[k] # p
      BY <2>1, <2>3, <1>10
    <2> QED
      BY <2>1, <2>2, <2>3
  <1>14. ASSUME NEW q \in Ladder
         PROVE  PlacedAt(levels'[q].orders, q, order_index')
    <2>1. CASE q = p
      BY <2>1, <1>5, <1>6, <1>9, <1>10
    <2>2. CASE q # p
      <3>1. PlacedAt(levels[q].orders, q, order_index)
        BY LevelFacts
      <3>2. PlacedAt(levels[q].orders, q, Erase(order_index, id))
        BY <3>1, <2>2, <1>2, PlacedElsewhere
      <3> QED
        BY <3>2, <2>2, <1>9, <1>10
    <2> QED
      BY <2>1, <2>2
  <1> QED
    BY <1>5, <1>10, <1>11, <1>12, <1>13, <1>14 DEF Sound, IndexGood, orders, id
\* The first order of a level keeps its place with a smaller quantity.
LEMMA PartlyFilled ==
  ASSUME SoundNow, NEW p \in Ladder, levels[p].orders # <<>>,
         NEW fill \in Nat \ {0}, fill < Head(levels[p].orders).qty,
         UpdateLevel(Head(levels[p].orders).side, p, LevelAfterFill(levels[p], fill))
  PROVE  /\ Sound(levels', order_index, occupied', word_occupied')
         /\ \A q \in Ladder : q # p => levels'[q] = levels[q]
         /\ \A s \in Sides : occupied'[s] \subseteq occupied[s]
  <1> DEFINE orders == levels[p].orders
             first  == Head(orders)
             less   == first.qty - fill
             new    == <<[first EXCEPT !.qty = less]>> \o Tail(orders)
             level  == LevelAfterFill(levels[p], fill)
  <1>1. /\ orders \in Seq(Order) /\ levels[p].total_qty \in Int
        /\ levels[p].total_qty = TotalQty(orders) /\ levels[p].total_qty <= MaxQty
    BY LevelFacts
  <1>2. 1 \in DOMAIN orders /\ first = orders[1]
    BY <1>1
  <1>3. first.side \in Sides /\ first.qty \in Nat \ {0}
    BY <1>2, OrderFacts
  <1>4. less \in Nat \ {0}
    <2>1. fill < first.qty /\ fill \in Nat
      OBVIOUS
    <2> HIDE DEF first
    <2> QED
      BY <2>1, <1>3
  <1>5. /\ new \in Seq(Order) /\ new # <<>>
        /\ TotalQty(new) = TotalQty(orders) - first.qty + less
        /\ \A q, ix : PlacedAt(orders, q, ix) => PlacedAt(new, q, ix)
        /\ \A id : Names(orders, id) => Names(new, id)
        /\ \A s : Sits(new, s) <=> Sits(orders, s)
    <2>1. orders # <<>> /\ first = Head(orders)
      OBVIOUS
    <2>2. Shrunk(orders, less, new)
      BY DEF Shrunk
    <2> HIDE DEF orders, first, less, new
    <2> QED
      BY <2>1, <2>2, <1>1, <1>4, ShrinkingKeepsPlaces
  <1>6. level.orders = new /\ level.total_qty = levels[p].total_qty - fill
    <2>1. first.qty # fill
      BY <1>3
    <2> QED
      BY <2>1 DEF LevelAfterFill
  <1>7. level \in Level
    <2>1. new \in Seq(Order) /\ levels[p].total_qty - fill \in Int
      BY <1>1, <1>5
    <2>2. level = [total_qty |-> levels[p].total_qty - fill, orders |-> new]
      <3>1. first.qty # fill
        BY <1>3
      <3> QED
        BY <3>1 DEF LevelAfterFill
    <2> HIDE DEF new, level
    <2> QED
      BY <2>1, <2>2 DEF Level
  <1>8. level.total_qty = TotalQty(level.orders) /\ level.total_qty <= MaxQty
    <2>1. TotalQty(orders) \in Nat
      BY <1>1, TotalFacts
    <2> HIDE DEF level, new
    <2> QED
      BY <2>1, <1>1, <1>3, <1>5, <1>6, LadderAssumption
  <1>9. \A s \in Sides : Sits(orders, s) <=> s = first.side
    BY <1>2, OneSided
  <1> HIDE DEF level, new
  <1>10. \A s \in Sides : Sits(level.orders, s) <=> s = first.side /\ level.orders # <<>>
    BY <1>5, <1>6, <1>9
  <1>11. UpdateLevel(first.side, p, level)
    BY DEF level
  <1>12. /\ levels' \in [Ladder -> Level] /\ levels'[p] = level
         /\ \A q \in Ladder : q # p => levels'[q] = levels[q]
         /\ BitsGood(levels', occupied', word_occupied') /\ Uncrossed(occupied')
         /\ \A s \in Sides : occupied'[s] \subseteq occupied[s]
    <2>1. \A s \in Sides : Sits(levels[p].orders, s) <=> s = first.side
      BY <1>9
    <2> HIDE DEF orders, first
    <2> QED
      BY <1>3, <1>7, <1>10, <1>11, <2>1, OneLevelChanged
  <1>13. LevelsGood(levels')
    <2>1. \A q \in Ladder : q # p => /\ levels[q].total_qty = TotalQty(levels[q].orders)
                                     /\ levels[q].total_qty <= MaxQty
      BY LevelFacts
    <2> QED
      BY <1>8, <1>12, <2>1 DEF LevelsGood
  <1>14. IndexGood(levels', order_index)
    <2>1. ASSUME NEW k \in DOMAIN order_index
          PROVE  /\ k \in OrderIds /\ order_index[k] \in Ladder
                 /\ Names(levels'[order_index[k]].orders, k)
      <3>1. k \in OrderIds /\ order_index[k] \in Ladder /\ Names(levels[order_index[k]].orders, k)
        BY DEF SoundNow, Sound, IndexGood
      <3>2. CASE order_index[k] = p
        BY <3>1, <3>2, <1>5, <1>6, <1>12
      <3>3. CASE order_index[k] # p
        BY <3>1, <3>3, <1>12
      <3> QED
        BY <3>1, <3>2, <3>3
    <2>2. ASSUME NEW q \in Ladder
          PROVE  PlacedAt(levels'[q].orders, q, order_index)
      <3>1. PlacedAt(levels[q].orders, q, order_index)
        BY LevelFacts
      <3>2. CASE q = p
        BY <3>1, <3>2, <1>5, <1>6, <1>12
      <3>3. CASE q # p
        BY <3>1, <3>3, <1>12
      <3> QED
        BY <3>2, <3>3
    <2> QED
      BY <2>1, <2>2 DEF IndexGood
  <1> QED
    BY <1>12, <1>13, <1>14 DEF Sound

\* The book with the order at the back of the level of its price.
Joins(order) ==
  /\ levels' = [levels EXCEPT ![order.price] =
                  [total_qty |-> @.total_qty + order.qty, orders |-> Append(@.orders, order)]]
  /\ order_index' = Put(order_index, order.order_id, order.price)
  /\ Marked(order.side, index_for(order.price))

\* An order that crosses no level and fits its own may rest.
LEMMA Arrival ==
  ASSUME SoundNow, NEW order \in Order, order.order_id \notin DOMAIN order_index,
         levels[order.price].total_qty + order.qty <= MaxQty,
         \A i \in occupied[OtherSide(order.side)] : ~Crosses(order.side, order.price, PriceAt(i)),
         Joins(order)
  PROVE  Sound(levels', order_index', occupied', word_occupied')
  <1> DEFINE p      == order.price
             id     == order.order_id
             side   == order.side
             at     == index_for(p)
             orders == levels[p].orders
             more   == Append(orders, order)
             level  == [total_qty |-> levels[p].total_qty + order.qty, orders |-> more]
  <1>1. p \in Ladder /\ id \in OrderIds /\ side \in Sides /\ order.qty \in Nat \ {0}
    BY DEF Order
  <1>2. /\ levels \in [Ladder -> Level]
        /\ occupied \in [Sides -> SUBSET Indexes] /\ word_occupied \in [Sides -> SUBSET Indexes]
        /\ \A s \in Sides : \A q \in Ladder : index_for(q) \in occupied[s] <=> Sits(levels[q].orders, s)
        /\ \A s \in Sides : word_occupied[s] = {WordOf(i) : i \in occupied[s]}
        /\ Uncrossed(occupied)
    BY DEF SoundNow, Sound, LevelsGood, BitsGood
  <1>3. /\ orders \in Seq(Order) /\ levels[p].total_qty \in Int
        /\ levels[p].total_qty = TotalQty(orders) /\ PlacedAt(orders, p, order_index)
    BY <1>1, LevelFacts
  <1>4. /\ more \in Seq(Order) /\ more # <<>>
        /\ PlacedAt(more, p, Put(order_index, id, p))
        /\ \A k : Names(orders, k) \/ k = id => Names(more, k)
        /\ \A s : Sits(more, s) <=> Sits(orders, s) \/ s = side
    <2>1. p = order.price /\ order \in Order
      OBVIOUS
    <2> HIDE DEF orders
    <2> QED
      BY <1>3, <2>1, JoiningKeepsPlaces
  <1>5. TotalQty(more) = TotalQty(orders) + order.qty
    <2>1. SumOfQty(more) = SumOfQty(orders) + order.qty
      BY <1>3, OrdersCount, SumOfAppend
    <2> QED
      BY <2>1, TotalIsSum
  <1>6. levels' = [levels EXCEPT ![p] = level]
    BY DEF Joins
  <1>7. /\ level.orders = more /\ level.total_qty = levels[p].total_qty + order.qty
        /\ level \in Level
    <2>1. more \in Seq(Order) /\ levels[p].total_qty + order.qty \in Int
      BY <1>1, <1>3, <1>4
    <2> HIDE DEF more
    <2> QED
      BY <2>1 DEF Level
  <1>8. Marked(side, at) /\ order_index' = Put(order_index, id, p)
    BY DEF Joins
  <1>9. levels[p].total_qty + order.qty <= MaxQty /\ id \notin DOMAIN order_index
    OBVIOUS
  <1>10. \A i \in occupied[OtherSide(side)] : ~Crosses(side, p, PriceAt(i))
    OBVIOUS
  <1> HIDE DEF p, id, side, at, orders, more, level
  <1>11. /\ levels' \in [Ladder -> Level] /\ levels'[p] = level
         /\ \A q \in Ladder : q # p => levels'[q] = levels[q]
    BY <1>1, <1>2, <1>6, <1>7
  <1>12. LevelsGood(levels')
    <2>1. \A q \in Ladder : q # p => /\ levels[q].total_qty = TotalQty(levels[q].orders)
                                     /\ levels[q].total_qty <= MaxQty
      BY LevelFacts
    <2>2. level.total_qty = TotalQty(level.orders) /\ level.total_qty <= MaxQty
      BY <1>3, <1>5, <1>7, <1>9
    <2> QED
      BY <1>11, <2>1, <2>2 DEF LevelsGood
  <1>13. /\ DOMAIN order_index' = DOMAIN order_index \cup {id} /\ order_index'[id] = p
         /\ \A k \in DOMAIN order_index : order_index'[k] = order_index[k]
    BY <1>8, <1>9 DEF Put
  <1>14. IndexGood(levels', order_index')
    <2>1. ASSUME NEW k \in DOMAIN order_index'
          PROVE  /\ k \in OrderIds /\ order_index'[k] \in Ladder
                 /\ Names(levels'[order_index'[k]].orders, k)
      <3>1. CASE k = id
        BY <3>1, <1>1, <1>4, <1>7, <1>11, <1>13
      <3>2. CASE k # id
        <4>1. k \in DOMAIN order_index /\ order_index'[k] = order_index[k]
          BY <3>2, <1>13
        <4>2. /\ k \in OrderIds /\ order_index[k] \in Ladder
              /\ Names(levels[order_index[k]].orders, k)
          BY <4>1 DEF SoundNow, Sound, IndexGood
        <4>3. CASE order_index[k] = p
          BY <4>1, <4>2, <4>3, <1>4, <1>7, <1>11 DEF orders
        <4>4. CASE order_index[k] # p
          BY <4>1, <4>2, <4>4, <1>11
        <4> QED
          BY <4>1, <4>2, <4>3, <4>4
      <3> QED
        BY <3>1, <3>2
    <2>2. ASSUME NEW q \in Ladder
          PROVE  PlacedAt(levels'[q].orders, q, order_index')
      <3>1. CASE q = p
        BY <3>1, <1>4, <1>7, <1>8, <1>11
      <3>2. CASE q # p
        <4>1. PlacedAt(levels[q].orders, q, order_index)
          BY LevelFacts
        <4>2. PlacedAt(levels[q].orders, q, Put(order_index, id, p))
          BY <4>1, <1>9, PlacedBesides
        <4> QED
          BY <4>2, <3>2, <1>8, <1>11
      <3> QED
        BY <3>1, <3>2
    <2> QED
      BY <2>1, <2>2 DEF IndexGood
  <1>15. at \in Indexes /\ \A q \in Ladder : index_for(q) = at => q = p
    BY <1>1, IndexFacts DEF at
  <1>16. /\ occupied' \in [Sides -> SUBSET Indexes]
         /\ occupied'[side] = occupied[side] \cup {at}
         /\ \A s \in Sides : s # side => occupied'[s] = occupied[s]
    <2>1. occupied' = [occupied EXCEPT ![side] = @ \cup {at}]
      BY <1>8 DEF Marked
    <2> QED
      BY <2>1, <1>1, <1>2, <1>15
  <1>17. /\ word_occupied' \in [Sides -> SUBSET Indexes]
         /\ word_occupied'[side] = word_occupied[side] \cup {WordOf(at)}
         /\ \A s \in Sides : s # side => word_occupied'[s] = word_occupied[s]
    <2>1. WordOf(at) \in Indexes
      BY <1>15, WordIsIndex
    <2>2. word_occupied' = [word_occupied EXCEPT ![side] = @ \cup {WordOf(at)}]
      BY <1>8 DEF Marked
    <2> QED
      BY <2>1, <2>2, <1>1, <1>2
  <1>18. BitsGood(levels', occupied', word_occupied')
    <2>1. \A s \in Sides : word_occupied'[s] = {WordOf(i) : i \in occupied'[s]}
      <3>1. word_occupied'[side] = {WordOf(i) : i \in occupied'[side]}
        <4>1. word_occupied[side] = {WordOf(i) : i \in occupied[side]}
          BY <1>1, <1>2
        <4> QED
          BY <4>1, <1>16, <1>17
      <3>2. \A s \in Sides : s # side => word_occupied'[s] = {WordOf(i) : i \in occupied'[s]}
        BY <1>2, <1>16, <1>17
      <3> QED
        BY <3>1, <3>2
    <2>2. ASSUME NEW s \in Sides, NEW q \in Ladder
          PROVE  index_for(q) \in occupied'[s] <=> Sits(levels'[q].orders, s)
      <3>1. CASE q = p
        <4>1. index_for(q) = at /\ levels'[q].orders = more
          BY <3>1, <1>7, <1>11 DEF at
        <4>2. at \in occupied'[s] <=> at \in occupied[s] \/ s = side
          BY <1>16
        <4>3. at \in occupied[s] <=> Sits(orders, s)
          BY <4>1, <3>1, <1>2 DEF orders
        <4> QED
          BY <4>1, <4>2, <4>3, <1>4
      <3>2. CASE q # p
        BY <3>2, <1>2, <1>11, <1>15, <1>16
      <3> QED
        BY <3>1, <3>2
    <2> QED
      BY <1>16, <1>17, <2>1, <2>2 DEF BitsGood
  <1>19. Uncrossed(occupied')
    <2>1. MinPrice \in Int /\ p \in Int /\ at = p - MinPrice
      BY <1>1, LadderAssumption DEF Ladder, at, index_for
    <2>2. \A s \in Sides : \A i \in occupied[s] : i \in Int /\ PriceAt(i) = MinPrice + i
      BY <1>2, IndexFacts DEF PriceAt
    <2>3. CASE side = "Bid"
      <3>1. \A a \in occupied["Ask"] : at < a
        BY <2>1, <2>2, <2>3, <1>10 DEF OtherSide, Crosses, Sides
      <3>2. occupied'["Ask"] = occupied["Ask"] /\ occupied'["Bid"] = occupied["Bid"] \cup {at}
        BY <2>3, <1>16 DEF Sides
      <3> QED
        BY <3>1, <3>2, <1>2 DEF Uncrossed
    <2>4. CASE side = "Ask"
      <3>1. \A b \in occupied["Bid"] : b < at
        BY <2>1, <2>2, <2>4, <1>10 DEF OtherSide, Crosses, Sides
      <3>2. occupied'["Bid"] = occupied["Bid"] /\ occupied'["Ask"] = occupied["Ask"] \cup {at}
        BY <2>4, <1>16 DEF Sides
      <3> QED
        BY <3>1, <3>2, <1>2 DEF Uncrossed
    <2> QED
      BY <2>3, <2>4, <1>1 DEF Sides
  <1> QED
    BY <1>12, <1>14, <1>18, <1>19 DEF Sound
-----------------------------------------------------------------------------
(***************************************************************************)
(* The invariant: the book is sound, and an order that may rest has room   *)
(* in its level as long as its own side is there.                          *)
(***************************************************************************)
Call == [order_id : OrderIds, side : Sides, price : Ladder, qty : Nat, can_rest : BOOLEAN,
         is_market : BOOLEAN, time_in_force : Policies]

Fits(call) ==
  /\ call.qty <= MaxQty
  /\ index_for(call.price) \in occupied[call.side] =>
       levels[call.price].total_qty + call.qty <= MaxQty

CallSound ==
  ~Idle => /\ incoming \in Call
           /\ incoming.order_id \notin DOMAIN order_index
           /\ incoming.can_rest => Fits(incoming)

IInv == SoundNow /\ CallSound

LEMMA InitEstablishes == Init => IInv
  <1> SUFFICES ASSUME Init PROVE IInv
    OBVIOUS
  <1>1. /\ levels = [price \in Ladder |-> [total_qty |-> 0, orders |-> <<>>]]
        /\ \A s \in Sides : occupied[s] = {} /\ word_occupied[s] = {}
        /\ occupied \in [Sides -> SUBSET Indexes] /\ word_occupied \in [Sides -> SUBSET Indexes]
        /\ DOMAIN order_index = {} /\ Idle
    BY DEF Init, Idle
  <1>2. /\ <<>> \in Seq(Order) /\ TotalQty(<<>>) = 0 /\ DOMAIN <<>> = {}
        /\ [total_qty |-> 0, orders |-> <<>>] \in Level
    <2>1. <<>> \in Seq(Order)
      BY EmptySeq
    <2>2. TotalQty(<<>>) = 0
      BY <2>1, TotalFacts
    <2>3. DOMAIN <<>> = {}
      OBVIOUS
    <2>4. [total_qty |-> 0, orders |-> <<>>] \in Level
      <3>1. 0 \in Int
        OBVIOUS
      <3> QED
        BY <2>1, <3>1, Zenon DEF Level
    <2> QED
      BY <2>1, <2>2, <2>3, <2>4
  <1>3. LevelsGood(levels)
    BY <1>1, <1>2, LadderAssumption DEF LevelsGood
  <1>4. \A p \in Ladder : levels[p].orders = <<>>
    BY <1>1
  <1>5. IndexGood(levels, order_index)
    BY <1>1, <1>2, <1>4 DEF IndexGood, PlacedAt
  <1>6. BitsGood(levels, occupied, word_occupied)
    BY <1>1, <1>2, <1>4 DEF BitsGood, Sits
  <1>7. Uncrossed(occupied)
    BY <1>1 DEF Uncrossed, Sides
  <1> QED
    BY <1>1, <1>3, <1>5, <1>6, <1>7 DEF IInv, SoundNow, Sound, CallSound

LEMMA RejectPreserves ==
  ASSUME IInv, NEW reason, Reject(reason)
  PROVE  IInv'
  BY DEF IInv, Reject, SoundNow, CallSound, Fits, Idle

\* Where a side has a level, nothing of the other side crosses its price.
LEMMA OwnLevelFacesNone ==
  ASSUME SoundNow, NEW side \in Sides, NEW p \in Ladder, index_for(p) \in occupied[side],
         NEW qty
  PROVE  MaxCrossingQty(side, p, qty) = 0
  <1>1. BitsGood(levels, occupied, word_occupied) /\ Uncrossed(occupied)
    BY DEF SoundNow, Sound
  <1>2. \A s \in Sides : \A i \in occupied[s] : i \in Int /\ PriceAt(i) = MinPrice + i
    BY <1>1, IndexFacts DEF BitsGood, PriceAt
  <1>3. MinPrice \in Int /\ p \in Int /\ index_for(p) = p - MinPrice
    BY LadderAssumption DEF Ladder, index_for
  <1>4. ASSUME NEW i \in occupied[OtherSide(side)]
        PROVE  ~Crosses(side, p, PriceAt(i))
    <2>1. CASE side = "Bid"
      BY <2>1, <1>1, <1>2, <1>3 DEF Uncrossed, Crosses, OtherSide, Sides
    <2>2. CASE side = "Ask"
      BY <2>2, <1>1, <1>2, <1>3 DEF Uncrossed, Crosses, OtherSide, Sides
    <2> QED
      BY <2>1, <2>2 DEF Sides
  <1> QED
    BY <1>1, <1>4, NothingCrosses

LEMMA ErrorFacts ==
  ASSUME NEW price
  PROVE  PriceError(price) # "None"
  BY DEF PriceError

LEMMA AdmittedAdd ==
  ASSUME SoundNow, NEW add \in AddRequests, AddError(add) = "None"
  PROVE  /\ MatchPrice(add) \in Ladder
         /\ add.qty \in Nat /\ add.qty <= MaxQty
         /\ add.order_id \notin DOMAIN order_index
         /\ CanRest(add) /\ index_for(MatchPrice(add)) \in occupied[add.side] =>
              levels[MatchPrice(add)].total_qty + add.qty <= MaxQty
  <1>1. /\ add \in Adds /\ add.qty \in Quantities /\ add.side \in Sides
        /\ add.is_market \in BOOLEAN
    BY LadderAssumption DEF Adds
  <1>2. add.qty \in Nat /\ add.qty <= MaxQty
    <2>1. add.qty \in 0..MaxQty
      BY <1>1, LadderAssumption, Zenon
    <2> QED
      BY <2>1
  <1> DEFINE price    == MatchPrice(add)
             crossing == MaxCrossingQty(add.side, price, add.qty)
  <1>3. /\ ~(~add.is_market /\ add.price \notin Ladder)
        /\ ~(add.qty <= 0)
        /\ add.order_id \notin DOMAIN order_index
        /\ ~(CanRest(add) /\ AddWouldOverflow(levels[price].total_qty, add.qty - crossing))
    <2> HIDE DEF price, crossing
    <2> QED
      BY ErrorFacts DEF AddError, price, crossing
  <1>4. price \in Ladder
    <2>1. MinPrice \in Ladder /\ MaxPrice \in Ladder
      BY LadderAssumption DEF Ladder
    <2> QED
      BY <2>1, <1>3 DEF MatchPrice
  <1>5. ASSUME CanRest(add), index_for(price) \in occupied[add.side]
        PROVE  levels[price].total_qty + add.qty <= MaxQty
    <2> HIDE DEF price
    <2>1. crossing = 0
      BY <1>1, <1>4, <1>5, OwnLevelFacesNone
    <2> HIDE DEF crossing
    <2>2. ~AddWouldOverflow(levels[price].total_qty, add.qty)
      BY <1>2, <1>3, <1>5, <2>1
    <2>3. levels[price].total_qty \in Int
      BY <1>4, LevelFacts
    <2> QED
      BY <2>2, <2>3, <1>2, <1>3, LadderAssumption DEF AddWouldOverflow
  <1> QED
    BY <1>2, <1>3, <1>4, <1>5

LEMMA AddPreserves ==
  ASSUME IInv, NEW add \in AddRequests, Add(add)
  PROVE  IInv'
  <1>1. CASE AddError(add) # "None" /\ Reject(AddError(add))
    BY <1>1, RejectPreserves
  <1>2. CASE ~(AddError(add) # "None" /\ Reject(AddError(add)))
    <2>1. /\ AddError(add) = "None"
          /\ incoming' = [order_id |-> add.order_id, side |-> add.side,
                          price |-> MatchPrice(add), qty |-> add.qty, can_rest |-> CanRest(add),
                          is_market |-> add.is_market, time_in_force |-> add.time_in_force]
          /\ UNCHANGED <<levels, occupied, word_occupied, order_index>>
      BY <1>2 DEF Add
    <2>2. add \in Adds
      BY LadderAssumption
    <2>3. /\ MatchPrice(add) \in Ladder /\ add.qty \in Nat /\ add.qty <= MaxQty
          /\ add.order_id \notin DOMAIN order_index
          /\ CanRest(add) /\ index_for(MatchPrice(add)) \in occupied[add.side] =>
               levels[MatchPrice(add)].total_qty + add.qty <= MaxQty
      BY <2>1, AdmittedAdd DEF IInv
    <2>4. CanRest(add) \in BOOLEAN
      BY DEF CanRest
    <2>5. incoming' \in Call
      <3>1. /\ add.order_id \in OrderIds /\ add.side \in Sides /\ add.is_market \in BOOLEAN
            /\ add.time_in_force \in Policies
        BY <2>2 DEF Adds
      <3> QED
        BY <3>1, <2>1, <2>3, <2>4 DEF Call
    <2>6. /\ incoming'.order_id = add.order_id /\ incoming'.can_rest = CanRest(add)
          /\ incoming'.qty = add.qty /\ incoming'.price = MatchPrice(add)
          /\ incoming'.side = add.side
      BY <2>1
    <2>7. CallSound'
      BY <2>1, <2>3, <2>5, <2>6 DEF CallSound, Fits
    <2> QED
      BY <2>1, <2>7 DEF IInv, SoundNow
  <1> QED
    BY <1>1, <1>2

\* The order the index leads to.
LEMMA IndexedOrder ==
  ASSUME SoundNow, NEW id \in DOMAIN order_index
  PROVE  /\ id \in OrderIds
         /\ order_index[id] \in Ladder
         /\ Position(levels[order_index[id]].orders, id) \in DOMAIN levels[order_index[id]].orders
         /\ OrderOf(id).order_id = id
         /\ OrderOf(id).side \in Sides
         /\ OrderOf(id).qty \in Nat \ {0}
  <1> DEFINE p      == order_index[id]
             orders == levels[p].orders
             i      == Position(orders, id)
  <1>1. id \in OrderIds /\ p \in Ladder /\ Names(orders, id)
    BY DEF SoundNow, Sound, IndexGood
  <1>2. i \in DOMAIN orders /\ orders[i].order_id = id
    BY <1>1 DEF Names, Position
  <1>3. OrderOf(id) = orders[i]
    BY DEF OrderOf
  <1>4. orders[i].side \in Sides /\ orders[i].qty \in Nat \ {0}
    <2> HIDE DEF p, i
    <2> QED
      BY <1>1, <1>2, OrderFacts
  <1> QED
    BY <1>1, <1>2, <1>3, <1>4

LEMMA RemoveOrderKeeps ==
  ASSUME SoundNow, NEW id \in DOMAIN order_index, RemoveOrder(id)
  PROVE  /\ SoundNow'
         /\ id \notin DOMAIN order_index'
         /\ \A s \in Sides : occupied'[s] \subseteq occupied[s]
         /\ \A q \in Ladder :
              levels'[q].total_qty =
                levels[q].total_qty - (IF order_index[id] = q THEN OrderOf(id).qty ELSE 0)
  <1> DEFINE p     == order_index[id]
             i     == Position(levels[p].orders, id)
             order == levels[p].orders[i]
  <1>1. /\ p \in Ladder /\ i \in DOMAIN levels[p].orders /\ order.order_id = id
        /\ OrderOf(id) = order
    BY IndexedOrder DEF OrderOf
  <1>2. /\ UpdateLevel(order.side, p, LevelWithout(levels[p], i))
        /\ order_index' = Erase(order_index, order.order_id)
    BY <1>1 DEF RemoveOrder
  <1> HIDE DEF p, i
  <1>3. /\ Sound(levels', order_index', occupied', word_occupied')
        /\ order.order_id \notin DOMAIN order_index'
        /\ levels'[p].total_qty = levels[p].total_qty - order.qty
        /\ \A q \in Ladder : q # p => levels'[q] = levels[q]
        /\ \A s \in Sides : occupied'[s] \subseteq occupied[s]
    BY <1>1, <1>2, Departure
  <1>4. \A q \in Ladder : levels[q].total_qty \in Int
    BY LevelFacts
  <1>5. ASSUME NEW q \in Ladder
        PROVE  levels'[q].total_qty =
                 levels[q].total_qty - (IF order_index[id] = q THEN OrderOf(id).qty ELSE 0)
    <2>1. CASE q = p
      BY <2>1, <1>1, <1>3 DEF p
    <2>2. CASE q # p
      BY <2>2, <1>3, <1>4 DEF p
    <2> QED
      BY <2>1, <2>2
  <1> QED
    BY <1>1, <1>3, <1>5 DEF SoundNow

LEMMA CancelPreserves ==
  ASSUME IInv, NEW id \in OrderIds, Cancel(id)
  PROVE  IInv'
  <1>1. CASE id \notin DOMAIN order_index /\ Reject("UnknownOrderId")
    BY <1>1, RejectPreserves
  <1>2. CASE id \in DOMAIN order_index /\ RemoveOrder(id) /\ incoming' = incoming
    <2>1. SoundNow'
      BY <1>2, RemoveOrderKeeps DEF IInv
    <2>2. Idle /\ Idle'
      BY <1>2 DEF Cancel, Idle
    <2> QED
      BY <2>1, <2>2 DEF IInv, CallSound
  <1> QED
    BY <1>1, <1>2 DEF Cancel

LEMMA AdmittedModify ==
  ASSUME SoundNow, NEW id, NEW price, NEW qty \in Quantities, ModifyError(id, price, qty) = "None"
  PROVE  /\ id \in DOMAIN order_index
         /\ price \in Ladder
         /\ qty \in Nat /\ qty <= MaxQty
         /\ index_for(price) \in occupied[OrderOf(id).side] =>
              levels[price].total_qty
                - (IF order_index[id] = price THEN OrderOf(id).qty ELSE 0) + qty <= MaxQty
  <1>1. qty \in Nat /\ qty <= MaxQty
    BY LadderAssumption
  <1> DEFINE side     == OrderOf(id).side
             own      == IF order_index[id] = price THEN OrderOf(id).qty ELSE 0
             crossing == MaxCrossingQty(side, price, qty)
  <1>2. /\ id \in DOMAIN order_index /\ price \in Ladder /\ ~(qty <= 0)
        /\ ~AddWouldOverflow(levels[price].total_qty - own, qty - crossing)
    <2> HIDE DEF side, own, crossing
    <2> QED
      BY ErrorFacts DEF ModifyError, side, own, crossing
  <1>3. side \in Sides /\ own \in Nat
    BY <1>2, IndexedOrder
  <1>4. ASSUME index_for(price) \in occupied[side]
        PROVE  (levels[price].total_qty - own) + qty <= MaxQty
    <2> HIDE DEF side, own
    <2>1. crossing = 0
      BY <1>2, <1>3, <1>4, OwnLevelFacesNone
    <2> HIDE DEF crossing
    <2>2. ~AddWouldOverflow(levels[price].total_qty - own, qty)
      BY <1>1, <1>2, <2>1
    <2>3. levels[price].total_qty \in Int
      BY <1>2, LevelFacts
    <2> QED
      BY <2>2, <2>3, <1>1, <1>2, <1>3, LadderAssumption DEF AddWouldOverflow
  <1> QED
    BY <1>1, <1>2, <1>4

LEMMA ModifyPreserves ==
  ASSUME IInv, NEW id \in OrderIds, NEW price \in RequestPrices, NEW qty \in Quantities,
         Modify(id, price, qty)
  PROVE  IInv'
  <1>1. CASE ModifyError(id, price, qty) # "None" /\ Reject(ModifyError(id, price, qty))
    BY <1>1, RejectPreserves
  <1>2. CASE ~(ModifyError(id, price, qty) # "None" /\ Reject(ModifyError(id, price, qty)))
    <2>1. /\ ModifyError(id, price, qty) = "None" /\ RemoveOrder(id)
          /\ incoming' = [order_id |-> id, side |-> OrderOf(id).side, price |-> price,
                          qty |-> qty, can_rest |-> TRUE,
                          is_market |-> FALSE, time_in_force |-> "GTC"]
      BY <1>2 DEF Modify
    <2>2. SoundNow
      BY DEF IInv
    <2> DEFINE own == IF order_index[id] = price THEN OrderOf(id).qty ELSE 0
               side == OrderOf(id).side
    <2>3. /\ id \in DOMAIN order_index /\ price \in Ladder /\ qty \in Nat /\ qty <= MaxQty
          /\ index_for(price) \in occupied[side] => levels[price].total_qty - own + qty <= MaxQty
      BY <2>1, <2>2, AdmittedModify
    <2>4. side \in Sides
      BY <2>2, <2>3, IndexedOrder
    <2>5. /\ SoundNow' /\ id \notin DOMAIN order_index'
          /\ \A s \in Sides : occupied'[s] \subseteq occupied[s]
          /\ levels'[price].total_qty = levels[price].total_qty - own
      BY <2>1, <2>2, <2>3, RemoveOrderKeeps
    <2> HIDE DEF own, side
    <2>6. incoming' = [order_id |-> id, side |-> side, price |-> price, qty |-> qty,
                       can_rest |-> TRUE, is_market |-> FALSE, time_in_force |-> "GTC"]
      BY <2>1 DEF side
    <2>7. incoming' \in Call
      BY <2>3, <2>4, <2>6 DEF Call, Policies
    <2>8. Fits(incoming)'
      <3>1. incoming'.qty = qty /\ incoming'.price = price /\ incoming'.side = side
        BY <2>6
      <3>2. index_for(price) \in occupied'[side] => levels'[price].total_qty + qty <= MaxQty
        BY <2>3, <2>4, <2>5
      <3> QED
        BY <3>1, <3>2, <2>3 DEF Fits
    <2>9. incoming'.order_id = id
      BY <2>6
    <2> QED
      BY <2>5, <2>7, <2>8, <2>9 DEF IInv, CallSound
  <1> QED
    BY <1>1, <1>2

\* The level the matching loop trades with.
LEMMA TradedLevel ==
  ASSUME SoundNow, NEW opposite \in Sides, word_occupied[opposite] # {}
  PROVE  /\ PriceAt(best_index(opposite)) \in Ladder
         /\ index_for(PriceAt(best_index(opposite))) \in occupied[opposite]
         /\ 1 \in DOMAIN levels[PriceAt(best_index(opposite))].orders
         /\ levels[PriceAt(best_index(opposite))].orders[1].side = opposite
  <1> DEFINE i      == best_index(opposite)
             p      == PriceAt(i)
             orders == levels[p].orders
  <1>1. BitsGood(levels, occupied, word_occupied)
    BY DEF SoundNow, Sound
  <1>2. i \in occupied[opposite]
    BY <1>1, BestIndexIsBest
  <1> HIDE DEF i
  <1>3. p \in Ladder /\ index_for(p) \in occupied[opposite]
    BY <1>1, <1>2, IndexFacts DEF BitsGood
  <1>4. Sits(orders, opposite)
    BY <1>1, <1>3 DEF BitsGood
  <1>5. orders \in Seq(Order)
    BY <1>3, LevelFacts
  <1>6. 1 \in DOMAIN orders
    BY <1>4, <1>5 DEF Sits
  <1>7. orders[1].side = opposite
    <2> HIDE DEF p
    <2> QED
      BY <1>3, <1>4, <1>6, OneSided
  <1> QED
    BY <1>3, <1>6, <1>7 DEF i

LEMMA FillPreserves ==
  ASSUME IInv, Fill
  PROVE  IInv'
  <1> DEFINE opposite == OtherSide(incoming.side)
             p        == PriceAt(best_index(opposite))
             orders   == levels[p].orders
             resting  == Head(orders)
             fill     == Smaller(incoming.qty, resting.qty)
  <1>1. SoundNow /\ ~Idle /\ incoming \in Call /\ incoming.order_id \notin DOMAIN order_index
    BY DEF IInv, CallSound, Fill
  <1>2. incoming.qty > 0 /\ word_occupied[opposite] # {}
    BY DEF Fill, Matching
  <1>3. incoming.side \in Sides /\ opposite \in Sides /\ opposite # incoming.side
    BY <1>1 DEF Call, OtherSide, Sides
  <1>4. /\ incoming' = [incoming EXCEPT !.qty = @ - fill]
        /\ UpdateLevel(opposite, p, LevelAfterFill(levels[p], fill))
        /\ order_index' = IF fill = resting.qty THEN Erase(order_index, resting.order_id)
                          ELSE order_index
    BY DEF Fill
  <1>5. /\ p \in Ladder /\ index_for(p) \in occupied[opposite] /\ 1 \in DOMAIN orders
        /\ orders[1].side = opposite
    <2> HIDE DEF opposite
    <2> QED
      BY <1>1, <1>2, <1>3, TradedLevel
  <1> HIDE DEF opposite, p
  <1>6. orders \in Seq(Order) /\ orders # <<>> /\ resting = orders[1]
    BY <1>1, <1>5, LevelFacts
  <1>7. resting.qty \in Nat \ {0} /\ resting.order_id \in DOMAIN order_index
    BY <1>1, <1>5, <1>6, OrderFacts
  <1>8. incoming.qty \in Nat \ {0}
    BY <1>1, <1>2 DEF Call
  <1>9. fill \in Nat \ {0} /\ fill <= resting.qty /\ fill <= incoming.qty
    <2> HIDE DEF resting
    <2> QED
      BY <1>7, <1>8 DEF Smaller
  <1> HIDE DEF fill
  <1>10. /\ SoundNow'
         /\ DOMAIN order_index' \subseteq DOMAIN order_index
         /\ \A q \in Ladder : q # p => levels'[q] = levels[q]
         /\ \A s \in Sides : occupied'[s] \subseteq occupied[s]
    <2>1. CASE fill = resting.qty
      <3>1. LevelAfterFill(levels[p], fill) = LevelWithout(levels[p], 1)
        <4>1. Tail(orders) = RemoveAt(orders, 1)
          BY <1>6, TailIsRemoveAt
        <4> QED
          BY <2>1, <4>1, <1>6 DEF LevelAfterFill, LevelWithout
      <3>2. UpdateLevel(orders[1].side, p, LevelWithout(levels[p], 1))
        BY <3>1, <1>4, <1>5
      <3>3. order_index' = Erase(order_index, orders[1].order_id)
        BY <2>1, <1>4, <1>6
      <3> QED
        BY <3>2, <3>3, <1>1, <1>5, Departure DEF SoundNow
    <2>2. CASE fill # resting.qty
      <3>1. fill < resting.qty
        <4> HIDE DEF resting
        <4> QED
          BY <2>2, <1>7, <1>9
      <3>2. UpdateLevel(resting.side, p, LevelAfterFill(levels[p], fill))
        BY <1>4, <1>5, <1>6
      <3>3. order_index' = order_index
        BY <2>2, <1>4
      <3>4. /\ Sound(levels', order_index, occupied', word_occupied')
            /\ \A q \in Ladder : q # p => levels'[q] = levels[q]
            /\ \A s \in Sides : occupied'[s] \subseteq occupied[s]
        BY <3>1, <3>2, <1>1, <1>5, <1>6, <1>9, PartlyFilled
      <3> QED
        BY <3>3, <3>4 DEF SoundNow
    <2> QED
      BY <2>1, <2>2
  <1>11. /\ incoming' \in Call /\ incoming'.order_id = incoming.order_id
         /\ incoming'.qty = incoming.qty - fill /\ incoming'.price = incoming.price
         /\ incoming'.side = incoming.side
         /\ incoming'.can_rest = incoming.can_rest
    BY <1>1, <1>4, <1>8, <1>9 DEF Call
  <1>12. ASSUME incoming.can_rest
         PROVE  Fits(incoming)'
    <2>1. Fits(incoming)
      BY <1>1, <1>12 DEF IInv, CallSound
    <2>2. incoming.price \in Ladder
      BY <1>1 DEF Call
    <2>3. ASSUME index_for(incoming.price) \in occupied[incoming.side]
          PROVE  levels'[incoming.price] = levels[incoming.price]
      <3>1. ~(index_for(p) \in occupied["Bid"] /\ index_for(p) \in occupied["Ask"])
        <4>1. index_for(p) \in Nat
          BY <1>5, IndexFacts
        <4> QED
          BY <4>1, <1>1 DEF SoundNow, Sound, Uncrossed
      <3>2. index_for(p) \notin occupied[incoming.side]
        BY <3>1, <1>3, <1>5 DEF Sides
      <3> QED
        BY <2>2, <2>3, <3>2, <1>10
    <2>4. incoming.price \in Ladder /\ levels[incoming.price].total_qty \in Int
      BY <2>2, <1>1, LevelFacts
    <2>5. incoming'.qty <= MaxQty
      BY <2>1, <1>8, <1>9, <1>11, LadderAssumption DEF Fits
    <2>6. ASSUME index_for(incoming.price) \in occupied'[incoming.side]
          PROVE  levels'[incoming.price].total_qty + incoming'.qty <= MaxQty
      <3>1. index_for(incoming.price) \in occupied[incoming.side]
        BY <2>6, <1>3, <1>10
      <3>2. levels[incoming.price].total_qty + incoming.qty <= MaxQty
        BY <3>1, <2>1 DEF Fits
      <3>3. levels'[incoming.price] = levels[incoming.price]
        BY <3>1, <2>3
      <3> QED
        BY <3>2, <3>3, <2>4, <1>8, <1>9, <1>11, LadderAssumption
    <2> QED
      BY <2>5, <2>6, <1>11 DEF Fits
  <1>13. incoming'.order_id \notin DOMAIN order_index'
    BY <1>1, <1>10, <1>11
  <1> QED
    BY <1>10, <1>11, <1>12, <1>13 DEF IInv, CallSound

\* When the loop has ended with a quantity left, no level crosses any more.
LEMMA NothingMatches ==
  ASSUME SoundNow, incoming \in Call, incoming.qty > 0, ~Matching,
         NEW i \in occupied[OtherSide(incoming.side)]
  PROVE  ~Crosses(incoming.side, incoming.price, PriceAt(i))
  <1> DEFINE opposite == OtherSide(incoming.side)
             best     == best_index(opposite)
  <1>1. /\ incoming.side \in Sides /\ opposite \in Sides
        /\ incoming.price \in Int
        /\ BitsGood(levels, occupied, word_occupied)
    BY LadderAssumption DEF Call, OtherSide, Sides, Ladder, SoundNow, Sound
  <1>2. word_occupied[opposite] # {}
    BY <1>1 DEF BitsGood
  <1>3. best \in occupied[opposite] /\ NoneBefore(opposite, occupied[opposite], best)
    <2> HIDE DEF opposite
    <2> QED
      BY <1>1, <1>2, BestIndexIsBest
  <1>4. ~Crosses(incoming.side, incoming.price, PriceAt(best))
    BY <1>2 DEF Matching
  <1> HIDE DEF best
  <1>5. /\ best \in Int /\ PriceAt(best) = MinPrice + best /\ MinPrice \in Int
        /\ i \in Int /\ PriceAt(i) = MinPrice + i
    BY <1>1, <1>3, IndexFacts, LadderAssumption DEF BitsGood, PriceAt
  <1>6. CASE incoming.side = "Bid"
    BY <1>1, <1>3, <1>4, <1>5, <1>6 DEF Crosses, NoneBefore, OtherSide
  <1>7. CASE incoming.side = "Ask"
    BY <1>1, <1>3, <1>4, <1>5, <1>7 DEF Crosses, NoneBefore, OtherSide
  <1> QED
    BY <1>1, <1>6, <1>7 DEF Sides

LEMMA NobodySits ==
  ASSUME NEW orders \in Seq(Order), \A s \in Sides : ~Sits(orders, s)
  PROVE  orders = <<>>
  <1> SUFFICES ASSUME orders # <<>> PROVE FALSE
    OBVIOUS
  <1>1. 1 \in DOMAIN orders
    BY EmptySeq
  <1>2. orders[1] \in Order
    BY <1>1, ElementOfSeq
  <1>3. orders[1].side \in Sides
    BY <1>2 DEF Order
  <1> QED
    BY <1>1, <1>3 DEF Sits

LEMMA ReturnPreserves ==
  ASSUME IInv, Return
  PROVE  IInv'
  <1>1. /\ SoundNow /\ ~Idle /\ ~Matching /\ incoming \in Call
        /\ incoming.order_id \notin DOMAIN order_index
        /\ incoming.can_rest => Fits(incoming)
    BY DEF IInv, CallSound, Return
  <1>2. CallSound'
    BY DEF Return, CallSound, Idle
  <1>3. CASE ~Rests(incoming)
    BY <1>1, <1>2, <1>3 DEF Return, IInv, SoundNow
  <1>4. CASE Rests(incoming)
    <2> DEFINE order == [order_id |-> incoming.order_id, side |-> incoming.side,
                         price |-> incoming.price, qty |-> incoming.qty]
    <2>1. /\ incoming.qty > 0 /\ incoming.qty \in Nat \ {0} /\ incoming.can_rest
          /\ incoming.side \in Sides /\ incoming.price \in Ladder
      BY <1>1, <1>4 DEF Rests, Call
    <2>2. /\ order \in Order /\ order.order_id = incoming.order_id /\ order.side = incoming.side
          /\ order.price = incoming.price /\ order.qty = incoming.qty
      BY <1>1, <2>1 DEF Order, Call
    <2>3. Joins(order)
      <3>1. /\ levels' = [levels EXCEPT ![incoming.price] =
                            [total_qty |-> @.total_qty + incoming.qty,
                             orders    |-> Append(@.orders, order)]]
            /\ order_index' = Put(order_index, incoming.order_id, incoming.price)
            /\ Marked(incoming.side, index_for(incoming.price))
        BY <1>4 DEF Return
      <3> HIDE DEF order
      <3> QED
        BY <3>1, <2>2 DEF Joins
    <2> HIDE DEF order
    <2>4. \A i \in occupied[OtherSide(order.side)] :
            ~Crosses(order.side, order.price, PriceAt(i))
      BY <1>1, <2>1, <2>2, NothingMatches
    <2>5. levels[order.price].total_qty + order.qty <= MaxQty
      <3> DEFINE at == index_for(incoming.price)
      <3>1. CASE at \in occupied[incoming.side]
        BY <3>1, <1>1, <2>1, <2>2 DEF Fits
      <3>2. CASE at \notin occupied[incoming.side]
        <4>1. at \notin occupied[OtherSide(incoming.side)]
          <5>1. Crosses(incoming.side, incoming.price, PriceAt(at))
            BY <2>1, IndexFacts, LadderAssumption DEF Crosses, Ladder
          <5> QED
            BY <5>1, <2>2, <2>4
        <4>2. \A s \in Sides : at \notin occupied[s]
          BY <3>2, <4>1, <2>1 DEF OtherSide, Sides
        <4>3. \A s \in Sides : ~Sits(levels[incoming.price].orders, s)
          BY <4>2, <2>1, <1>1 DEF SoundNow, Sound, BitsGood
        <4>4. levels[incoming.price].orders = <<>>
          <5>1. levels[incoming.price].orders \in Seq(Order)
            BY <1>1, <2>1, LevelFacts
          <5> QED
            BY <5>1, <4>3, NobodySits
        <4>5. levels[incoming.price].total_qty = 0
          BY <4>4, <1>1, <2>1, LevelFacts, TotalFacts
        <4> QED
          BY <4>5, <1>1, <2>1, <2>2 DEF Fits
      <3> QED
        BY <3>1, <3>2
    <2>6. order.order_id \notin DOMAIN order_index
      BY <1>1, <2>2
    <2>7. SoundNow'
      BY <1>1, <2>2, <2>3, <2>4, <2>5, <2>6, Arrival DEF SoundNow
    <2> QED
      BY <2>7, <1>2 DEF IInv
  <1> QED
    BY <1>3, <1>4

LEMMA StepPreserves == IInv /\ [Next]_vars => IInv'
  <1> SUFFICES ASSUME IInv, [Next]_vars PROVE IInv'
    OBVIOUS
  <1>1. CASE \E add \in AddRequests : Add(add)
    BY <1>1, AddPreserves
  <1>2. CASE \E id \in OrderIds : Cancel(id)
    BY <1>2, CancelPreserves
  <1>3. CASE \E id \in OrderIds, price \in RequestPrices, qty \in Quantities : Modify(id, price, qty)
    BY <1>3, ModifyPreserves
  <1>4. CASE Fill
    BY <1>4, FillPreserves
  <1>5. CASE Return
    BY <1>5, ReturnPreserves
  <1>6. CASE UNCHANGED vars
    BY <1>6 DEF vars, IInv, SoundNow, CallSound, Fits, Idle
  <1> QED
    BY <1>1, <1>2, <1>3, <1>4, <1>5, <1>6 DEF Next

LEMMA InvariantHolds == Spec => []IInv
  BY InitEstablishes, StepPreserves, PTL DEF Spec
-----------------------------------------------------------------------------
\* The bitmaps of each side say exactly which levels hold its orders and which words
\* are not zero, between any two writes of the matching loop: best_index and the scan
\* never take a bit of an empty word, and no level ever holds orders of both sides.
THEOREM BitmapsAreExact == Spec => []BitmapsExact
  <1>1. IInv => BitmapsExact
    <2> SUFFICES ASSUME IInv, NEW side \in Sides
                 PROVE  /\ occupied[side] =
                             {index_for(price) : price \in {p \in Ladder :
                                \E i \in DOMAIN levels[p].orders : levels[p].orders[i].side = side}}
                        /\ word_occupied[side] = {WordOf(index) : index \in occupied[side]}
                        /\ occupied[side] \cap occupied[OtherSide(side)] = {}
      BY DEF BitmapsExact
    <2>1. BitsGood(levels, occupied, word_occupied) /\ Uncrossed(occupied)
      BY DEF IInv, SoundNow, Sound
    <2> DEFINE held == {p \in Ladder : Sits(levels[p].orders, side)}
    <2>2. /\ occupied[side] \in SUBSET Indexes
          /\ \A p \in Ladder : index_for(p) \in occupied[side] <=> p \in held
      BY <2>1 DEF BitsGood
    <2>3. occupied[side] = {index_for(p) : p \in held}
      <3>1. \A i \in occupied[side] : PriceAt(i) \in held /\ index_for(PriceAt(i)) = i
        BY <2>2, IndexFacts
      <3>2. \A p \in held : index_for(p) \in occupied[side]
        BY <2>2
      <3> HIDE DEF held
      <3> QED
        BY <3>1, <3>2
    <2>4. occupied[side] \cap occupied[OtherSide(side)] = {}
      <3>1. occupied["Bid"] \subseteq Nat /\ occupied["Ask"] \subseteq Nat
        BY <2>1, IndexFacts DEF BitsGood, Sides
      <3>2. occupied["Bid"] \cap occupied["Ask"] = {}
        BY <3>1, <2>1 DEF Uncrossed
      <3> QED
        BY <3>2 DEF Sides, OtherSide
    <2> QED
      BY <2>1, <2>3, <2>4 DEF BitsGood, Sits
  <1> QED
    BY <1>1, InvariantHolds, PTL

\* The index and the levels name the same orders, each once and at its price; the
\* total of a level is the sum of its orders and stays in range, although the check
\* that guards it subtracts a prediction that may be too large.
THEOREM IndexAndTotalsAreExact == Spec => []IndexAndTotalsExact
  <1>1. IInv => IndexAndTotalsExact
    <2> SUFFICES ASSUME IInv PROVE IndexAndTotalsExact
      OBVIOUS
    <2>1. SoundNow
      BY DEF IInv
    <2>2. ASSUME NEW id \in OrderIds
          PROVE  id \in DOMAIN order_index <=>
                   \E p \in Ladder : \E i \in DOMAIN levels[p].orders :
                     levels[p].orders[i].order_id = id
      <3>1. id \in DOMAIN order_index =>
              order_index[id] \in Ladder /\ Names(levels[order_index[id]].orders, id)
        BY <2>1 DEF SoundNow, Sound, IndexGood
      <3>2. \A p \in Ladder : \A i \in DOMAIN levels[p].orders :
              levels[p].orders[i].order_id \in DOMAIN order_index
        BY <2>1, OrderFacts
      <3> QED
        BY <3>1, <3>2 DEF Names
    <2>3. ASSUME NEW p \in Ladder
          PROVE  LET orders == levels[p].orders
                 IN  /\ levels[p].total_qty = TotalQty(orders)
                     /\ levels[p].total_qty <= MaxQty
                     /\ \A i, j \in DOMAIN orders :
                          /\ orders[i].price = p
                          /\ order_index[orders[i].order_id] = p
                          /\ orders[i].order_id = orders[j].order_id => i = j
      BY <2>1, LevelFacts DEF PlacedAt
    <2> QED
      BY <2>2, <2>3 DEF IndexAndTotalsExact
  <1> QED
    BY <1>1, InvariantHolds, PTL

-------------------------------------------------------------------------------
(***************************************************************************)
(* What the book publishes.  A side shows a list of orders for each price, *)
(* empty for a price it does not occupy; its queue is these lists put end  *)
(* to end, the best price first.  Nothing here knows of the levels: at[p]  *)
(* is the list of the price p.                                             *)
(***************************************************************************)
Bare == [order_id : OrderIds, price : Ladder, qty : Nat \ {0}]

\* How many prices there are.
Depth == MaxPrice - MinPrice + 1

\* The rank of a price, the inverse of Ranked.
RankOf(side, p) == IF side = "Ask" THEN p - MinPrice + 1 ELSE MaxPrice + 1 - p

\* Ranks and prices correspond, and better prices have smaller ranks.
LEMMA RankFacts ==
  ASSUME NEW side \in Sides
  PROVE  /\ Depth \in Nat \ {0}
         /\ \A k \in 1..Depth : Ranked(side, k) \in Ladder /\ RankOf(side, Ranked(side, k)) = k
         /\ \A p \in Ladder : RankOf(side, p) \in 1..Depth /\ Ranked(side, RankOf(side, p)) = p
         /\ \A p, q \in Ladder :
              PT!AtLeastAsGood(side, p, q) <=> RankOf(side, p) <= RankOf(side, q)
  <1>1. MinPrice \in Nat /\ MaxPrice \in Nat /\ MinPrice <= MaxPrice
    BY LadderAssumption
  <1> QED
    BY <1>1 DEF Depth, RankOf, Ranked, Ladder, PT!AtLeastAsGood, Sides

ListsOf(at, side) == [k \in 1..Depth |-> at[Ranked(side, k)]]
QueueOf(at, side) == FlattenSeq(ListsOf(at, side))

\* A list for each price, of orders of that price,
Listed(at) ==
  /\ at \in [Ladder -> Seq(Bare)]
  /\ \A p \in Ladder : \A i \in 1..Len(at[p]) : at[p][i].price = p

\* and no id in two places.
EachOnce(at) ==
  \A p, r \in Ladder : \A i \in 1..Len(at[p]), j \in 1..Len(at[r]) :
    at[p][i].order_id = at[r][j].order_id => p = r /\ i = j

\* The queue of a side and the places where its lists end.
Queued(at, side, ends) ==
  /\ ListsIn(Bare, ListsOf(at, side), Depth)
  /\ EndToEnd(ListsOf(at, side), Depth, ends, QueueOf(at, side))

\* The list of a rank is the list of its price.
LEMMA ListsAreTyped ==
  ASSUME NEW at \in [Ladder -> Seq(Bare)], NEW side \in Sides
  PROVE  /\ ListsIn(Bare, ListsOf(at, side), Depth)
         /\ ListsOf(at, side) \in Seq(Seq(Bare)) /\ Len(ListsOf(at, side)) = Depth
         /\ \A k \in 1..Depth : ListsOf(at, side)[k] = at[Ranked(side, k)]
         /\ \A p \in Ladder : ListsOf(at, side)[RankOf(side, p)] = at[p]
  <1>1. /\ Depth \in Nat
        /\ \A k \in 1..Depth : Ranked(side, k) \in Ladder
        /\ \A p \in Ladder : RankOf(side, p) \in 1..Depth /\ Ranked(side, RankOf(side, p)) = p
    BY RankFacts
  <1>2. \A k \in 1..Depth : ListsOf(at, side)[k] = at[Ranked(side, k)]
    BY DEF ListsOf
  <1>3. ListsIn(Bare, ListsOf(at, side), Depth)
    BY <1>1, <1>2 DEF ListsIn
  <1>4. ListsOf(at, side) \in Seq(Seq(Bare)) /\ Len(ListsOf(at, side)) = Depth
    BY <1>1 DEF ListsOf
  <1> QED
    BY <1>1, <1>2, <1>3, <1>4

\* The queue of a side is those lists put end to end.
LEMMA QueueIsJoined ==
  ASSUME NEW at \in [Ladder -> Seq(Bare)], NEW side \in Sides
  PROVE  QueueOf(at, side) \in Seq(Bare) /\ \E ends : Queued(at, side, ends)
  <1>1. /\ ListsIn(Bare, ListsOf(at, side), Depth)
        /\ ListsOf(at, side) \in Seq(Seq(Bare)) /\ Len(ListsOf(at, side)) = Depth
    BY ListsAreTyped
  <1> QED
    BY <1>1, FlattenFacts DEF QueueOf, Queued

\* The lists determine the queue.
LEMMA QueueIs ==
  ASSUME NEW at \in [Ladder -> Seq(Bare)], NEW side \in Sides,
         NEW ends, NEW q \in Seq(Bare), EndToEnd(ListsOf(at, side), Depth, ends, q)
  PROVE  QueueOf(at, side) = q
  <1>1. PICK e : Queued(at, side, e)
    BY QueueIsJoined
  <1> QED
    BY <1>1, QueueIsJoined, JoinedOnce, RankFacts DEF Queued

\* Where a place of the queue comes from.
ComesFrom(at, side, ends, i, p, j) ==
  /\ j \in 1..Len(at[p])
  /\ i = ends[RankOf(side, p) - 1] + j
  /\ QueueOf(at, side)[i] = at[p][j]

\* Each place of a queue is a place of one of the lists.
LEMMA EveryPlaceIsInAList ==
  ASSUME NEW at \in [Ladder -> Seq(Bare)], NEW side \in Sides,
         NEW ends, Queued(at, side, ends), NEW i \in 1..Len(QueueOf(at, side))
  PROVE  \E p \in Ladder : \E j : ComesFrom(at, side, ends, i, p, j)
  <1> DEFINE lists == ListsOf(at, side)
             q     == QueueOf(at, side)
  <1>1. InList(lists, Depth, ends, q, i)
    BY PlaceInList, RankFacts DEF Queued
  <1>2. PICK k \in 1..Depth : \E j \in 1..Len(lists[k]) : i = ends[k - 1] + j /\ q[i] = lists[k][j]
    BY <1>1 DEF InList
  <1>3. PICK j \in 1..Len(lists[k]) : i = ends[k - 1] + j /\ q[i] = lists[k][j]
    BY <1>2
  <1> DEFINE p == Ranked(side, k)
  <1>4. lists[k] = at[p] /\ p \in Ladder /\ RankOf(side, p) = k
    BY ListsAreTyped, RankFacts
  <1> HIDE DEF lists, p
  <1>5. ComesFrom(at, side, ends, i, p, j)
    BY <1>3, <1>4 DEF ComesFrom
  <1> QED
    BY <1>4, <1>5

\* A place of a list, in the queue.
LEMMA PlaceOfPrice ==
  ASSUME NEW at \in [Ladder -> Seq(Bare)], NEW side \in Sides, NEW p \in Ladder,
         NEW ends, Queued(at, side, ends), NEW i \in 1..Len(at[p])
  PROVE  /\ Within(ends, QueueOf(at, side), RankOf(side, p), i)
         /\ ends[RankOf(side, p) - 1] + i \in 1..Len(QueueOf(at, side))
         /\ QueueOf(at, side)[ends[RankOf(side, p) - 1] + i] = at[p][i]
  <1> DEFINE r == RankOf(side, p)
             lists == ListsOf(at, side)
             q == QueueOf(at, side)
             low == ends[r - 1]
  <1>1. r \in 1..Depth /\ Depth \in Nat /\ lists[r] = at[p]
    BY RankFacts, ListsAreTyped
  <1> HIDE DEF r, lists, q
  <1>3. ListsIn(Bare, lists, Depth) /\ EndToEnd(lists, Depth, ends, q)
    BY DEF Queued, lists, q
  <1>4. i \in 1..Len(lists[r])
    BY <1>1
  <1>5. Within(ends, q, r, i)
    BY <1>1, <1>3, <1>4, PlaceIsWithin
  <1>6. q[low + i] = lists[r][i]
    BY <1>1, <1>3, <1>4 DEF EndToEnd
  <1>7. low + i \in 1..Len(q)
    BY <1>5 DEF Within
  <1> QED
    BY <1>1, <1>5, <1>6, <1>7 DEF r, q

-------------------------------------------------------------------------------
(***************************************************************************)
(* One list changes, and so does the queue.                                *)
(***************************************************************************)
\* bt is at with another list for the price p.
Relisted(at, bt, p, list) ==
  /\ at \in [Ladder -> Seq(Bare)] /\ bt \in [Ladder -> Seq(Bare)]
  /\ bt[p] = list
  /\ \A r \in Ladder : r # p => bt[r] = at[r]

\* The ways a list changes: its i-th order leaves, its first is replaced by x, x joins it.
Shortened(at, bt, p, i) == Relisted(at, bt, p, RemoveAt(at[p], i))
Replaced(at, bt, p, x) == Relisted(at, bt, p, [at[p] EXCEPT ![1] = x])
Lengthened(at, bt, p, x) == Relisted(at, bt, p, Append(at[p], x))

\* A list that changes, in the lists of its side.
OneList(at, bt, side, p, list) ==
  /\ RankOf(side, p) \in 1..Depth /\ Depth \in Nat
  /\ ListsOf(at, side)[RankOf(side, p)] = at[p]
  /\ ListsOf(bt, side)[RankOf(side, p)] = list
  /\ \A k \in 1..Depth : k # RankOf(side, p) => ListsOf(bt, side)[k] = ListsOf(at, side)[k]

\* A new list for a price is one new list of the side.
LEMMA ListsChanged ==
  ASSUME NEW at, NEW bt, NEW side \in Sides, NEW p \in Ladder, NEW list, Relisted(at, bt, p, list)
  PROVE  OneList(at, bt, side, p, list)
  <1>1. /\ at \in [Ladder -> Seq(Bare)] /\ bt \in [Ladder -> Seq(Bare)]
        /\ bt[p] = list /\ \A r \in Ladder : r # p => bt[r] = at[r]
    BY DEF Relisted
  <1>2. RankOf(side, p) \in 1..Depth /\ Depth \in Nat /\ Ranked(side, RankOf(side, p)) = p
    BY RankFacts
  <1>3. ASSUME NEW k \in 1..Depth, k # RankOf(side, p)
        PROVE  ListsOf(bt, side)[k] = ListsOf(at, side)[k]
    <2>1. Ranked(side, k) \in Ladder /\ Ranked(side, k) # p
      BY <1>3, RankFacts
    <2>2. ListsOf(bt, side)[k] = bt[Ranked(side, k)] /\ ListsOf(at, side)[k] = at[Ranked(side, k)]
      BY <1>1, ListsAreTyped
    <2> QED
      BY <2>1, <2>2, <1>1
  <1>4. ListsOf(at, side)[RankOf(side, p)] = at[p] /\ ListsOf(bt, side)[RankOf(side, p)] = bt[p]
    BY <1>1, ListsAreTyped
  <1> QED
    BY <1>1, <1>2, <1>3, <1>4 DEF OneList

\* An order leaves its list, and its place in the queue.
LEMMA QueueShortened ==
  ASSUME NEW at, NEW bt, NEW side \in Sides, NEW p \in Ladder, NEW i \in 1..Len(at[p]),
         Shortened(at, bt, p, i), NEW ends, Queued(at, side, ends)
  PROVE  QueueOf(bt, side) = RemoveAt(QueueOf(at, side), ends[RankOf(side, p) - 1] + i)
  <1> DEFINE r     == RankOf(side, p)
             lists == ListsOf(at, side)
             new   == ListsOf(bt, side)
             q     == QueueOf(at, side)
             place == ends[r - 1] + i
  <1>a. PICK list : list = RemoveAt(at[p], i) /\ Relisted(at, bt, p, list)
    BY DEF Shortened
  <1>0. Relisted(at, bt, p, list)
    BY <1>a
  <1>1. /\ r \in 1..Depth /\ Depth \in Nat
        /\ lists[r] = at[p] /\ new[r] = list
        /\ \A k \in 1..Depth : k # r => new[k] = lists[k]
    <2>1. OneList(at, bt, side, p, list)
      BY <1>0, ListsChanged
    <2> QED
      BY <2>1 DEF OneList
  <1>2. at \in [Ladder -> Seq(Bare)] /\ bt \in [Ladder -> Seq(Bare)]
    BY <1>0 DEF Relisted
  <1>3. place \in 1..Len(q) /\ q \in Seq(Bare)
    BY <1>2, PlaceOfPrice, QueueIsJoined
  <1> HIDE DEF r, lists, new, q
  <1>4. ListsIn(Bare, lists, Depth) /\ EndToEnd(lists, Depth, ends, q)
    BY DEF Queued, lists, q
  <1>5. i \in 1..Len(lists[r])
    BY <1>1
  <1>6. LessAt(lists, Depth, r, i, new)
    <2>1. list = Without(lists[r], i)
      BY <1>a, <1>1 DEF RemoveAt, Without
    <2> QED
      BY <2>1, <1>1 DEF LessAt
  <1>7. \E e : EndToEnd(new, Depth, e, Without(q, place))
    BY <1>1, <1>3, <1>4, <1>5, <1>6, JoinedWithout
  <1> HIDE DEF place
  <1>8. Without(q, place) \in Seq(Bare)
    BY <1>3, WithoutFacts
  <1>9. QueueOf(bt, side) = Without(q, place)
    BY <1>2, <1>7, <1>8, QueueIs DEF new
  <1> QED
    BY <1>9 DEF RemoveAt, Without, q, place, r

\* The first order of a list is replaced, and so it is in the queue.
LEMMA QueueReplaced ==
  ASSUME NEW at, NEW bt, NEW side \in Sides, NEW p \in Ladder, Len(at[p]) >= 1,
         NEW x \in Bare, Replaced(at, bt, p, x),
         NEW ends, Queued(at, side, ends)
  PROVE  QueueOf(bt, side) = [QueueOf(at, side) EXCEPT ![ends[RankOf(side, p) - 1] + 1] = x]
  <1> DEFINE r     == RankOf(side, p)
             lists == ListsOf(at, side)
             new   == ListsOf(bt, side)
             q     == QueueOf(at, side)
             place == ends[r - 1] + 1
  <1>a. PICK list : list = [at[p] EXCEPT ![1] = x] /\ Relisted(at, bt, p, list)
    BY DEF Replaced
  <1>0. Relisted(at, bt, p, list)
    BY <1>a
  <1>1. /\ r \in 1..Depth /\ Depth \in Nat
        /\ lists[r] = at[p] /\ new[r] = list
        /\ \A k \in 1..Depth : k # r => new[k] = lists[k]
    <2>1. OneList(at, bt, side, p, list)
      BY <1>0, ListsChanged
    <2> QED
      BY <2>1 DEF OneList
  <1>2. at \in [Ladder -> Seq(Bare)] /\ bt \in [Ladder -> Seq(Bare)]
    BY <1>0 DEF Relisted
  <1>3. 1 \in 1..Len(at[p])
    BY <1>2, LenProperties
  <1>4. place \in 1..Len(q) /\ q \in Seq(Bare)
    BY <1>2, <1>3, PlaceOfPrice, QueueIsJoined
  <1> HIDE DEF r, lists, new, q
  <1>5. ListsIn(Bare, lists, Depth) /\ EndToEnd(lists, Depth, ends, q)
    BY DEF Queued, lists, q
  <1>6. FirstAt(lists, Depth, r, x, new) /\ Len(lists[r]) >= 1
    BY <1>a, <1>1 DEF FirstAt
  <1>7. \E e : EndToEnd(new, Depth, e, [q EXCEPT ![place] = x])
    BY <1>1, <1>4, <1>5, <1>6, JoinedReplaced
  <1> HIDE DEF place
  <1>8. [q EXCEPT ![place] = x] \in Seq(Bare)
    BY <1>4, ExceptSeq
  <1>9. QueueOf(bt, side) = [q EXCEPT ![place] = x]
    BY <1>2, <1>7, <1>8, QueueIs DEF new
  <1> QED
    BY <1>9 DEF q, place, r

\* An order joins the back of a list, and stands in the queue where the list ended.
LEMMA QueueLengthened ==
  ASSUME NEW at, NEW bt, NEW side \in Sides, NEW p \in Ladder,
         NEW x \in Bare, Lengthened(at, bt, p, x),
         NEW ends, Queued(at, side, ends)
  PROVE  QueueOf(bt, side) = InsertAt(QueueOf(at, side), ends[RankOf(side, p)] + 1, x)
  <1> DEFINE r     == RankOf(side, p)
             lists == ListsOf(at, side)
             new   == ListsOf(bt, side)
             q     == QueueOf(at, side)
             place == ends[r] + 1
  <1>a. PICK list : list = Append(at[p], x) /\ Relisted(at, bt, p, list)
    BY DEF Lengthened
  <1>0. Relisted(at, bt, p, list)
    BY <1>a
  <1>1. /\ r \in 1..Depth /\ Depth \in Nat
        /\ lists[r] = at[p] /\ new[r] = list
        /\ \A k \in 1..Depth : k # r => new[k] = lists[k]
    <2>1. OneList(at, bt, side, p, list)
      BY <1>0, ListsChanged
    <2> QED
      BY <2>1 DEF OneList
  <1>2. at \in [Ladder -> Seq(Bare)] /\ bt \in [Ladder -> Seq(Bare)]
    BY <1>0 DEF Relisted
  <1>3. q \in Seq(Bare)
    BY <1>2, QueueIsJoined
  <1> HIDE DEF r, lists, new, q
  <1>4. ListsIn(Bare, lists, Depth) /\ EndToEnd(lists, Depth, ends, q)
    BY DEF Queued, lists, q
  <1>5. MoreAt(lists, Depth, r, x, new)
    BY <1>a, <1>1 DEF MoreAt
  <1>6. \E e : EndToEnd(new, Depth, e, Inserted(q, place, x))
    BY <1>1, <1>3, <1>4, <1>5, JoinedInserted
  <1>7. Inserted(q, place, x) \in Seq(Bare)
    <2>1. r \in 0..Depth /\ Depth \in 0..Depth /\ r <= Depth
      BY <1>1
    <2>2. ends[r] <= ends[Depth]
      BY <2>1, <1>1, <1>4, EndsGrow
    <2>3. ends[r] \in Nat /\ ends[Depth] = Len(q) /\ Len(q) \in Nat
      BY <2>1, <1>3, <1>4, LenProperties DEF EndToEnd
    <2>4. place \in 1..(Len(q) + 1)
      BY <2>2, <2>3
    <2> HIDE DEF place
    <2> QED
      BY <2>4, <1>3, InsertedFacts
  <1> HIDE DEF place
  <1>8. QueueOf(bt, side) = Inserted(q, place, x)
    BY <1>2, <1>6, <1>7, QueueIs DEF new
  <1> QED
    BY <1>8 DEF InsertAt, Inserted, q, place, r

-------------------------------------------------------------------------------
(***************************************************************************)
(* Where an order stands in its queue: the best price first, an order that *)
(* rests behind those of its price, a resting order at the place of its    *)
(* list.                                                                   *)
(***************************************************************************)
\* The first order of the best occupied price is the first of the queue.
LEMMA BestStandsFirst ==
  ASSUME NEW at \in [Ladder -> Seq(Bare)], NEW side \in Sides, NEW p \in Ladder, at[p] # <<>>,
         \A g \in Ladder : at[g] # <<>> => PT!AtLeastAsGood(side, p, g),
         NEW ends, Queued(at, side, ends)
  PROVE  ends[RankOf(side, p) - 1] = 0
  <1> DEFINE r     == RankOf(side, p)
             lists == ListsOf(at, side)
             q     == QueueOf(at, side)
             n     == Depth
  <1>1. r \in 1..n /\ n \in Nat /\ lists[r] = at[p]
    BY RankFacts, ListsAreTyped
  <1>2. \A k \in 1..n : k < r => lists[k] = <<>>
    <2> SUFFICES ASSUME NEW k \in 1..n, k < r PROVE at[Ranked(side, k)] = <<>>
      BY ListsAreTyped
    <2>1. Ranked(side, k) \in Ladder /\ RankOf(side, Ranked(side, k)) = k
      BY RankFacts
    <2>2. PT!AtLeastAsGood(side, p, Ranked(side, k)) <=> r <= k
      BY <2>1, RankFacts
    <2> QED
      BY <2>1, <2>2, <1>1
  <1> HIDE DEF r, lists, q
  <1>3. ListsIn(Bare, lists, n) /\ EndToEnd(lists, n, ends, q)
    BY DEF Queued, lists, q
  <1>4. Len(lists[r]) \in Nat /\ 1 \in 1..Len(lists[r])
    <2>1. lists[r] \in Seq(Bare) /\ lists[r] # <<>>
      BY <1>1, <1>3 DEF ListsIn
    <2> HIDE DEF n
    <2> QED
      BY <2>1, EmptySeq, LenProperties
  <1>5. Within(ends, q, r, 1)
    BY <1>1, <1>3, <1>4, PlaceIsWithin
  <1>6. 1 \in 1..Len(q)
    BY <1>5 DEF Within
  <1>7. InList(lists, n, ends, q, 1)
    BY <1>1, <1>3, <1>6, PlaceInList
  <1>8. PICK k \in 1..n : \E j \in 1..Len(lists[k]) : 1 = ends[k - 1] + j /\ q[1] = lists[k][j]
    BY <1>7 DEF InList
  <1>9. PICK j \in 1..Len(lists[k]) : 1 = ends[k - 1] + j /\ q[1] = lists[k][j]
    BY <1>8
  <1>10. k >= r
    <2>1. lists[k] # <<>>
      BY <1>9, EmptySeq
    <2> QED
      BY <2>1, <1>1, <1>2
  <1>11. ends[k - 1] = 0
    <2>1. Within(ends, q, k, j)
      BY <1>1, <1>3, PlaceIsWithin
    <2> QED
      BY <2>1, <1>9 DEF Within
  <1>12. ends[r - 1] <= ends[k - 1] /\ ends[r - 1] \in Nat
    <2>1. r - 1 \in 0..n /\ k - 1 \in 0..n /\ r - 1 <= k - 1
      BY <1>1, <1>10
    <2>2. ends[r - 1] <= ends[k - 1]
      BY <2>1, <1>1, <1>3, EndsGrow
    <2>3. ends[r - 1] \in Nat
      BY <2>1, <1>3 DEF EndToEnd
    <2> QED
      BY <2>2, <2>3
  <1> QED
    BY <1>11, <1>12 DEF r

\* Counting is the same in both modules.
LEMMA SameCount == \A S : PT!Cardinality(S) = Cardinality(S)
  BY DEF PT!Cardinality, Cardinality, PT!IsFiniteSet, IsFiniteSet

\* A newcomer stands where the list of its price ends.
LEMMA EnqueueIsInsert ==
  ASSUME NEW at, Listed(at), NEW side \in Sides, NEW x \in Bare,
         NEW ends, Queued(at, side, ends)
  PROVE  PT!Enqueue(side, QueueOf(at, side), x)
           = InsertAt(QueueOf(at, side), ends[RankOf(side, x.price)] + 1, x)
  <1> DEFINE r      == RankOf(side, x.price)
             q      == QueueOf(at, side)
             n      == Depth
             lists  == ListsOf(at, side)
             before == {i \in DOMAIN q : PT!AtLeastAsGood(side, q[i].price, x.price)}
             end    == ends[r]
  <1>1. /\ at \in [Ladder -> Seq(Bare)] /\ x.price \in Ladder
        /\ \A p \in Ladder : \A i \in 1..Len(at[p]) : at[p][i].price = p
    BY DEF Listed, Bare
  <1>2. r \in 1..n /\ n \in Nat
    BY <1>1, RankFacts
  <1>3. q \in Seq(Bare) /\ Len(q) \in Nat /\ DOMAIN q = 1..Len(q)
    BY <1>1, QueueIsJoined, LenProperties
  <1>4. ListsIn(Bare, lists, n) /\ EndToEnd(lists, n, ends, q)
    BY DEF Queued
  <1>5. end \in Nat /\ end <= Len(q)
    <2>1. r \in 0..n /\ n \in 0..n /\ r <= n
      BY <1>2
    <2> HIDE DEF lists, q, r
    <2>2. ends[r] <= ends[n]
      BY <2>1, <1>2, <1>4, EndsGrow
    <2>3. ends[r] \in Nat /\ ends[n] = Len(q)
      BY <2>1, <1>4 DEF EndToEnd
    <2> QED
      BY <2>2, <2>3
  <1>6. ASSUME NEW i \in 1..Len(q)
        PROVE  PT!AtLeastAsGood(side, q[i].price, x.price) <=> i <= end
    <2>1. PICK p \in Ladder : \E j : ComesFrom(at, side, ends, i, p, j)
      BY <1>1, EveryPlaceIsInAList
    <2>2. PICK j : ComesFrom(at, side, ends, i, p, j)
      BY <2>1
    <2> DEFINE k == RankOf(side, p)
    <2>3. j \in 1..Len(at[p]) /\ i = ends[k - 1] + j /\ q[i].price = p
      BY <2>2, <1>1 DEF ComesFrom
    <2>4. k \in 1..n /\ (PT!AtLeastAsGood(side, p, x.price) <=> k <= r)
      BY <1>1, RankFacts
    <2>5. Within(ends, q, k, j)
      BY <2>3, <1>1, PlaceOfPrice
    <2> DEFINE low  == ends[k - 1]
               high == ends[k]
    <2> HIDE DEF lists, q, r, k
    <2>6. low \in Nat /\ high \in Nat /\ j \in Nat /\ 1 <= j /\ i = low + j /\ i <= high
      BY <2>3, <2>5 DEF Within
    <2>7. CASE k <= r
      <3>1. k \in 0..n /\ r \in 0..n
        BY <2>4, <1>2
      <3>2. high <= end
        BY <3>1, <2>7, <1>2, <1>4, EndsGrow
      <3> HIDE DEF low, high, end
      <3> QED
        BY <3>2, <2>3, <2>4, <2>6, <2>7, <1>5
    <2>8. CASE ~(k <= r)
      <3>1. k - 1 \in 0..n /\ r \in 0..n /\ r <= k - 1
        BY <2>4, <2>8, <1>2
      <3>2. end <= low
        BY <3>1, <1>2, <1>4, EndsGrow
      <3> HIDE DEF low, high, end
      <3> QED
        BY <3>2, <2>3, <2>4, <2>6, <2>8, <1>5
    <2> QED
      BY <2>7, <2>8
  <1> HIDE DEF q, end
  <1>7. before = 1..end
    BY <1>3, <1>5, <1>6
  <1>8. Cardinality(1..end) = end
    BY <1>5, FS_Interval
  <1>9. PT!Enqueue(side, q, x) = InsertAt(q, PT!Cardinality(before) + 1, x)
    BY DEF PT!Enqueue, PT!InsertAt, InsertAt
  <1>10. PT!Cardinality(before) = end
    BY <1>7, <1>8, SameCount
  <1> QED
    BY <1>9, <1>10 DEF q, end, r

\* The only place of an order of a list, in the queue of the side.
LEMMA PositionOf ==
  ASSUME NEW at, Listed(at), EachOnce(at), NEW side \in Sides, NEW id,
         NEW ends, Queued(at, side, ends),
         NEW p \in Ladder, NEW i \in 1..Len(at[p]), at[p][i].order_id = id
  PROVE  PT!Positions(QueueOf(at, side), id) = {ends[RankOf(side, p) - 1] + i}
  <1> DEFINE q     == QueueOf(at, side)
             place == ends[RankOf(side, p) - 1] + i
  <1>1. at \in [Ladder -> Seq(Bare)]
    BY DEF Listed
  <1>2. q \in Seq(Bare) /\ DOMAIN q = 1..Len(q)
    BY <1>1, QueueIsJoined, LenProperties
  <1>3. place \in 1..Len(q) /\ q[place].order_id = id
    BY <1>1, PlaceOfPrice
  <1>4. ASSUME NEW m \in 1..Len(q), q[m].order_id = id
        PROVE  m = place
    <2>1. PICK g \in Ladder : \E j : ComesFrom(at, side, ends, m, g, j)
      BY <1>1, <1>4, EveryPlaceIsInAList
    <2>2. PICK j : ComesFrom(at, side, ends, m, g, j)
      BY <2>1
    <2>3. j \in 1..Len(at[g]) /\ m = ends[RankOf(side, g) - 1] + j /\ q[m] = at[g][j]
      BY <2>2 DEF ComesFrom
    <2> HIDE DEF q
    <2>4. at[g][j].order_id = at[p][i].order_id
      BY <2>3, <1>4
    <2>5. g = p /\ j = i
      BY <2>3, <2>4 DEF EachOnce
    <2> QED
      BY <2>3, <2>5
  <1> HIDE DEF place, q
  <1>5. PT!Positions(q, id) = {place}
    BY <1>2, <1>3, <1>4 DEF PT!Positions
  <1> QED
    BY <1>5 DEF q, place

\* An id that no list holds has no place.
LEMMA NoPosition ==
  ASSUME NEW at \in [Ladder -> Seq(Bare)], NEW side \in Sides, NEW id,
         \A p \in Ladder : \A i \in 1..Len(at[p]) : at[p][i].order_id # id
  PROVE  PT!Positions(QueueOf(at, side), id) = {}
  <1> DEFINE q == QueueOf(at, side)
  <1>1. PICK ends : Queued(at, side, ends)
    BY QueueIsJoined
  <1>2. q \in Seq(Bare) /\ DOMAIN q = 1..Len(q)
    BY QueueIsJoined, LenProperties
  <1>3. ASSUME NEW m \in 1..Len(q)
        PROVE  q[m].order_id # id
    <2>1. PICK g \in Ladder : \E j : ComesFrom(at, side, ends, m, g, j)
      BY <1>1, EveryPlaceIsInAList
    <2>2. PICK j : ComesFrom(at, side, ends, m, g, j)
      BY <2>1
    <2> QED
      BY <2>2 DEF ComesFrom
  <1> HIDE DEF q
  <1>4. PT!Positions(q, id) = {}
    BY <1>2, <1>3 DEF PT!Positions
  <1> QED
    BY <1>4 DEF q

-------------------------------------------------------------------------------
(***************************************************************************)
(* The lists of the levels, as the book publishes them: without the side,  *)
(* which the level's bits tell.                                            *)
(***************************************************************************)
BareOne(order) ==
  [order_id |-> order.order_id, price |-> order.price, qty |-> order.qty]

BareOf(orders) == [i \in DOMAIN orders |-> BareOne(orders[i])]

\* The lists of a side.
HeldAt(lv, side) ==
  [p \in Ladder |-> IF Sits(lv[p].orders, side) THEN BareOf(lv[p].orders) ELSE <<>>]

\* What bare is, entry by entry.
LEMMA BareFacts ==
  ASSUME NEW orders \in Seq(Order)
  PROVE  /\ BareOf(orders) \in Seq(Bare)
         /\ Len(BareOf(orders)) = Len(orders) /\ Len(orders) \in Nat
         /\ \A i \in 1..Len(orders) : /\ BareOf(orders)[i] = BareOne(orders[i])
                                      /\ orders[i] \in Order /\ BareOne(orders[i]) \in Bare
  <1>1. Len(orders) \in Nat /\ DOMAIN orders = 1..Len(orders)
    BY LenProperties
  <1>2. \A i \in 1..Len(orders) : orders[i] \in Order /\ BareOne(orders[i]) \in Bare
    <2>1. \A order \in Order : BareOne(order) \in Bare
      BY DEF Order, Bare, BareOne
    <2> QED
      BY <2>1, ElementOfSeq
  <1> DEFINE one(i) == BareOne(orders[i])
             len    == Len(orders)
  <1>3. BareOf(orders) = [i \in 1..len |-> one(i)]
    BY <1>1 DEF BareOf
  <1>4. \A i \in 1..len : one(i) \in Bare
    BY <1>2
  <1>5. len \in Nat
    BY <1>1
  <1> DEFINE list == [i \in 1..len |-> one(i)]
  <1> HIDE DEF one, len
  <1>6. list \in Seq(Bare) /\ Len(list) = len /\ \A i \in 1..len : list[i] = one(i)
    <2>1. list \in [1..len -> Bare]
      BY <1>4
    <2>2. list \in Seq(Bare)
      BY <2>1, <1>5, SeqDef
    <2>3. Len(list) = len
      BY <2>2, <1>5
    <2> QED
      BY <2>2, <2>3
  <1> QED
    BY <1>1, <1>2, <1>3, <1>6 DEF one, len

\* Bare lists are equal when their entries are.
LEMMA SameBare ==
  ASSUME NEW orders \in Seq(Order), NEW list \in Seq(Bare), Len(list) = Len(orders),
         \A i \in 1..Len(orders) : list[i] = BareOne(orders[i])
  PROVE  BareOf(orders) = list
  <1> DEFINE b == BareOf(orders)
  <1>1. b \in Seq(Bare) /\ Len(b) = Len(orders) /\ \A i \in 1..Len(orders) : b[i] = BareOne(orders[i])
    BY BareFacts
  <1> HIDE DEF b
  <1>2. b = list
    BY <1>1, SeqEqual
  <1> QED
    BY <1>2 DEF b

\* An order leaves the bare list as it leaves the list.
LEMMA BareRemoved ==
  ASSUME NEW orders \in Seq(Order), NEW i \in 1..Len(orders)
  PROVE  BareOf(RemoveAt(orders, i)) = RemoveAt(BareOf(orders), i)
  <1> DEFINE left == RemoveAt(orders, i)
             b    == BareOf(orders)
             list == RemoveAt(b, i)
  <1>1. /\ left \in Seq(Order) /\ Len(left) = Len(orders) - 1
        /\ \A j \in 1..(Len(orders) - 1) : left[j] = IF j < i THEN orders[j] ELSE orders[j + 1]
    BY RemoveAtLeaves DEF Left
  <1>2. /\ b \in Seq(Bare) /\ Len(b) = Len(orders) /\ Len(orders) \in Nat
        /\ \A j \in 1..Len(orders) : b[j] = BareOne(orders[j])
    BY BareFacts
  <1>3. list = Without(b, i)
    BY DEF RemoveAt, Without
  <1> HIDE DEF left, b, list
  <1>4. /\ list \in Seq(Bare) /\ Len(list) = Len(orders) - 1
        /\ \A j \in 1..(Len(orders) - 1) : list[j] = IF j < i THEN b[j] ELSE b[j + 1]
    BY <1>2, <1>3, WithoutFacts
  <1>5. ASSUME NEW j \in 1..Len(left)
        PROVE  list[j] = BareOne(left[j])
    <2>1. j \in 1..(Len(orders) - 1) /\ j \in 1..Len(orders) /\ j + 1 \in 1..Len(orders)
      BY <1>1, <1>2
    <2> QED
      BY <2>1, <1>1, <1>2, <1>4
  <1>6. BareOf(left) = list
    BY <1>1, <1>4, <1>5, SameBare
  <1> QED
    BY <1>6 DEF left, list, b

\* An order joins the bare list as it joins the list.
LEMMA BareJoined ==
  ASSUME NEW orders \in Seq(Order), NEW order \in Order
  PROVE  BareOf(Append(orders, order)) = Append(BareOf(orders), BareOne(order))
  <1> DEFINE more == Append(orders, order)
             b    == BareOf(orders)
             x    == BareOne(order)
             list == Append(b, x)
  <1>1. /\ more \in Seq(Order) /\ Len(more) = Len(orders) + 1 /\ more[Len(orders) + 1] = order
        /\ \A j \in 1..Len(orders) : more[j] = orders[j]
    BY AppendProperties
  <1>2. /\ b \in Seq(Bare) /\ Len(b) = Len(orders) /\ Len(orders) \in Nat
        /\ \A j \in 1..Len(orders) : b[j] = BareOne(orders[j])
    BY BareFacts
  <1>3. x \in Bare
    BY DEF Order, Bare, BareOne
  <1> HIDE DEF more, b, x
  <1>4. /\ list \in Seq(Bare) /\ Len(list) = Len(orders) + 1 /\ list[Len(orders) + 1] = x
        /\ \A j \in 1..Len(orders) : list[j] = b[j]
    BY <1>2, <1>3, AppendProperties
  <1> HIDE DEF list
  <1>5. ASSUME NEW j \in 1..Len(more)
        PROVE  list[j] = BareOne(more[j])
    <2>1. j \in 1..Len(orders) \/ j = Len(orders) + 1
      BY <1>1, <1>2
    <2> QED
      BY <2>1, <1>1, <1>2, <1>4 DEF x
  <1>6. BareOf(more) = list
    BY <1>1, <1>4, <1>5, SameBare
  <1> QED
    BY <1>6 DEF more, list, b, x

\* The first order with another quantity.
WithQty(order, qty) == [order_id |-> order.order_id, price |-> order.price, qty |-> qty]

\* A first order that shrinks is a new first entry of the bare list.
LEMMA BareShrunk ==
  ASSUME NEW orders \in Seq(Order), orders # <<>>, NEW qty \in Nat \ {0},
         NEW new, Shrunk(orders, qty, new)
  PROVE  /\ WithQty(orders[1], qty) \in Bare
         /\ BareOf(new) = [BareOf(orders) EXCEPT ![1] = WithQty(orders[1], qty)]
  <1> DEFINE x    == [Head(orders) EXCEPT !.qty = qty]
             y    == WithQty(orders[1], qty)
             b    == BareOf(orders)
             list == [b EXCEPT ![1] = y]
  <1>1. Len(orders) \in Nat /\ 1 \in 1..Len(orders) /\ Head(orders) = orders[1] /\ orders[1] \in Order
    BY EmptySeq, LenProperties, ElementOfSeq
  <1>2. x \in Order /\ y \in Bare /\ BareOne(x) = y
    BY <1>1 DEF Order, Bare, BareOne, WithQty
  <1>3. /\ b \in Seq(Bare) /\ Len(b) = Len(orders)
        /\ \A j \in 1..Len(orders) : b[j] = BareOne(orders[j])
    BY BareFacts
  <1>4. new = <<x>> \o Tail(orders)
    BY DEF Shrunk
  <1>5. /\ new \in Seq(Order) /\ Len(new) = Len(orders)
        /\ \A j \in 1..Len(orders) : new[j] = IF j = 1 THEN x ELSE orders[j]
    <2> DEFINE tail == Tail(orders)
    <2>1. tail \in Seq(Order) /\ Len(tail) = Len(orders) - 1
          /\ \A j \in 1..(Len(orders) - 1) : tail[j] = orders[j + 1]
      BY HeadTailProperties
    <2>2. <<x>> \in Seq(Order) /\ Len(<<x>>) = 1 /\ <<x>>[1] = x
      BY <1>2
    <2> HIDE DEF tail, x
    <2>3. /\ new \in Seq(Order) /\ Len(new) = 1 + Len(tail)
          /\ \A j \in 1..(1 + Len(tail)) : new[j] = IF j <= 1 THEN <<x>>[j] ELSE tail[j - 1]
      BY <2>1, <2>2, <1>4, ConcatProperties DEF tail
    <2>4. ASSUME NEW j \in 1..Len(orders)
          PROVE  new[j] = IF j = 1 THEN x ELSE orders[j]
      <3>1. j \in 1..(1 + Len(tail))
        BY <2>1, <1>1
      <3>2. CASE j = 1
        BY <3>1, <3>2, <2>2, <2>3
      <3>3. CASE j # 1
        <4>1. j - 1 \in 1..(Len(orders) - 1) /\ (j - 1) + 1 = j
          BY <3>3, <1>1
        <4> QED
          BY <4>1, <3>1, <3>3, <2>1, <2>3
      <3> QED
        BY <3>2, <3>3
    <2> QED
      BY <2>1, <2>3, <2>4, <1>1
  <1> HIDE DEF x, y, b
  <1>6. /\ list \in Seq(Bare) /\ Len(list) = Len(orders)
        /\ \A j \in 1..Len(orders) : list[j] = IF j = 1 THEN y ELSE b[j]
    BY <1>1, <1>2, <1>3, ExceptSeq
  <1> HIDE DEF list
  <1>7. \A j \in 1..Len(new) : list[j] = BareOne(new[j])
    BY <1>2, <1>3, <1>5, <1>6
  <1>8. BareOf(new) = list
    BY <1>5, <1>6, <1>7, SameBare
  <1> QED
    BY <1>2, <1>8 DEF y, b, list

\* The lists of the levels are lists for the prices, and hold each order once.
LEMMA HeldFacts ==
  ASSUME NEW lv, NEW ix, LevelsGood(lv), IndexGood(lv, ix), NEW side
  PROVE  Listed(HeldAt(lv, side)) /\ EachOnce(HeldAt(lv, side))
  <1> DEFINE at == HeldAt(lv, side)
  <1>1. \A p \in Ladder : lv[p].orders \in Seq(Order) /\ PlacedAt(lv[p].orders, p, ix)
    BY DEF LevelsGood, IndexGood, Level
  <1>2. \A p \in Ladder : at[p] = IF Sits(lv[p].orders, side) THEN BareOf(lv[p].orders) ELSE <<>>
    BY DEF HeldAt
  <1>3. ASSUME NEW p \in Ladder
        PROVE  at[p] \in Seq(Bare)
    <2>1. BareOf(lv[p].orders) \in Seq(Bare)
      BY <1>1, BareFacts
    <2>2. <<>> \in Seq(Bare)
      BY EmptySeq
    <2> QED
      BY <2>1, <2>2, <1>2
  <1>4. at \in [Ladder -> Seq(Bare)]
    BY <1>2, <1>3 DEF HeldAt
  <1> HIDE DEF at
  <1>5. ASSUME NEW p \in Ladder, NEW i \in 1..Len(at[p])
        PROVE  /\ i \in DOMAIN lv[p].orders
               /\ at[p][i].price = p /\ at[p][i].order_id = lv[p].orders[i].order_id
               /\ ix[at[p][i].order_id] = p
    <2>1. at[p] # <<>>
      BY <1>5, EmptySeq
    <2>2. at[p] = BareOf(lv[p].orders)
      BY <2>1, <1>2
    <2>3. i \in 1..Len(lv[p].orders) /\ at[p][i] = BareOne(lv[p].orders[i])
      BY <2>2, <1>1, BareFacts
    <2>4. i \in DOMAIN lv[p].orders
      BY <2>3, <1>1, LenProperties
    <2> QED
      BY <2>3, <2>4, <1>1 DEF PlacedAt, BareOne
  <1>6. Listed(at)
    BY <1>4, <1>5 DEF Listed
  <1>7. EachOnce(at)
    <2> SUFFICES ASSUME NEW p \in Ladder, NEW r \in Ladder,
                        NEW i \in 1..Len(at[p]), NEW j \in 1..Len(at[r]),
                        at[p][i].order_id = at[r][j].order_id
                 PROVE  p = r /\ i = j
      BY DEF EachOnce
    <2>1. p = r
      BY <1>5
    <2>2. i \in DOMAIN lv[p].orders /\ j \in DOMAIN lv[p].orders
      BY <2>1, <1>5
    <2>3. lv[p].orders[i].order_id = lv[p].orders[j].order_id
      BY <2>1, <1>5
    <2> QED
      BY <2>1, <2>2, <2>3, <1>1 DEF PlacedAt
  <1> QED
    BY <1>6, <1>7 DEF at

\* What orders(side) publishes is the queue of the lists of that side.
LEMMA OrdersOfIs ==
  SoundNow => \A side \in Sides : OrdersOf(side) = QueueOf(HeldAt(levels, side), side)
  <1> SUFFICES ASSUME SoundNow, NEW side \in Sides
               PROVE  OrdersOf(side) = QueueOf(HeldAt(levels, side), side)
    OBVIOUS
  <1> DEFINE at    == HeldAt(levels, side)
             lists == ListsOf(at, side)
             Published(f) == f = [k \in 1..Depth |->
                                 IF k = 1 THEN OrdersAt(side, Ranked(side, k))
                                 ELSE f[k - 1] \o OrdersAt(side, Ranked(side, k))]
             joined == CHOOSE f : Published(f)
  <1>1. ASSUME NEW p \in Ladder
        PROVE  OrdersAt(side, p) = at[p]
    <2>1. index_for(p) \in occupied[side] <=> Sits(levels[p].orders, side)
      BY DEF SoundNow, Sound, BitsGood
    <2>2. at[p] = IF Sits(levels[p].orders, side) THEN BareOf(levels[p].orders) ELSE <<>>
      BY DEF HeldAt
    <2>3. OrdersAt(side, p) = IF index_for(p) \notin occupied[side] THEN <<>>
                              ELSE BareOf(levels[p].orders)
      BY DEF OrdersAt, BareOf, BareOne
    <2> QED
      BY <2>1, <2>2, <2>3
  <1>2. \A k \in 1..Depth : OrdersAt(side, Ranked(side, k)) = at[Ranked(side, k)]
    BY <1>1, RankFacts
  <1>3. at \in [Ladder -> Seq(Bare)]
    BY HeldFacts DEF SoundNow, Sound, Listed
  <1> HIDE DEF at
  <1>4. \A k \in 1..Depth : OrdersAt(side, Ranked(side, k)) = lists[k]
    BY <1>2 DEF ListsOf
  <1>5. ListsIn(Bare, lists, Depth) /\ Depth \in Nat \ {0}
    BY <1>3, ListsAreTyped, RankFacts
  <1> HIDE DEF lists
  <1>6. Flattened(lists, Depth, joined)
    <2>1. PICK f : Flattened(lists, Depth, f)
      BY <1>5, FlattenedExists
    <2>2. Published(f)
      BY <2>1, <1>4 DEF Flattened
    <2>3. Published(joined)
      <3> HIDE DEF Published
      <3> QED
        BY <2>2
    <2> HIDE DEF joined
    <2> QED
      BY <2>3, <1>4 DEF Flattened
  <1>7. OrdersOf(side) = joined[Depth]
    BY DEF OrdersOf, Depth
  <1> HIDE DEF joined
  <1>8. joined[Depth] \in Seq(Bare) /\ \E ends : EndToEnd(lists, Depth, ends, joined[Depth])
    BY <1>5, <1>6, FlattenedIsJoined
  <1> QED
    BY <1>3, <1>7, <1>8, QueueIs DEF at, lists

-------------------------------------------------------------------------------
(***************************************************************************)
(* What a call does to the queues.                                         *)
(***************************************************************************)
\* The queue of a side of the levels lv, and both.
QueueIn(lv, side) == QueueOf(HeldAt(lv, side), side)
QueuesOf(lv) == [side \in Sides |-> QueueIn(lv, side)]

\* The book of the refinement is these queues.
LEMMA BookIs ==
  /\ SoundNow => Book = QueuesOf(levels)
  /\ SoundNow' => Book' = QueuesOf(levels')
  <1>1. SoundNow => Book = QueuesOf(levels)
    BY OrdersOfIs DEF Book, QueuesOf, QueueIn
  <1>2. (SoundNow => Book = QueuesOf(levels))'
    BY <1>1, PTL
  <1>3. QueuesOf(levels)' = QueuesOf(levels')
    BY DEF QueuesOf, QueueIn, QueueOf, ListsOf, HeldAt, Sits, BareOf, BareOne
  <1> QED
    BY <1>1, <1>2, <1>3

\* The queues are queues of bare orders.
LEMMA QueueIsTyped ==
  ASSUME NEW lv, NEW ix, LevelsGood(lv), IndexGood(lv, ix), NEW side \in Sides
  PROVE  QueueIn(lv, side) \in Seq(Bare) /\ \E ends : Queued(HeldAt(lv, side), side, ends)
  <1>1. HeldAt(lv, side) \in [Ladder -> Seq(Bare)]
    BY HeldFacts DEF Listed
  <1> QED
    BY <1>1, QueueIsJoined DEF QueueIn

\* A level that only one side has orders in.
OnlySide(orders, side) == \A s \in Sides : Sits(orders, s) => s = side

\* The lists of the levels lw differ from those of lv in one place of one side.
OnePlace(lv, lw, side, p) ==
  /\ HeldAt(lv, side)[p] = BareOf(lv[p].orders)
  /\ Relisted(HeldAt(lv, side), HeldAt(lw, side), p, BareOf(lw[p].orders))
  /\ \A s \in Sides : s # side => HeldAt(lw, s) = HeldAt(lv, s)

\* What the side of a level sees of it.
LEMMA HeldByItsSide ==
  ASSUME NEW lv, LevelsGood(lv), NEW p \in Ladder, NEW side \in Sides, OnlySide(lv[p].orders, side)
  PROVE  /\ HeldAt(lv, side)[p] = BareOf(lv[p].orders)
         /\ \A s \in Sides : s # side => HeldAt(lv, s)[p] = <<>>
  <1>1. lv[p].orders \in Seq(Order)
    BY DEF LevelsGood, Level
  <1>2. CASE Sits(lv[p].orders, side)
    BY <1>2 DEF HeldAt, OnlySide
  <1>3. CASE ~Sits(lv[p].orders, side)
    <2>1. \A s \in Sides : ~Sits(lv[p].orders, s)
      BY <1>3 DEF OnlySide
    <2>2. lv[p].orders = <<>>
      BY <1>1, <2>1, NobodySits
    <2>3. BareOf(<<>>) = <<>>
      BY DEF BareOf
    <2> QED
      BY <2>1, <2>2, <2>3 DEF HeldAt
  <1> QED
    BY <1>2, <1>3

\* The levels that changed in one place.
LEMMA OneLevelSeen ==
  ASSUME NEW lv, NEW ix, LevelsGood(lv), IndexGood(lv, ix),
         NEW lw, NEW iy, LevelsGood(lw), IndexGood(lw, iy),
         NEW p \in Ladder, \A q \in Ladder : q # p => lw[q] = lv[q],
         NEW side \in Sides, OnlySide(lv[p].orders, side), OnlySide(lw[p].orders, side)
  PROVE  OnePlace(lv, lw, side, p)
  <1>1. /\ HeldAt(lv, side)[p] = BareOf(lv[p].orders)
        /\ HeldAt(lw, side)[p] = BareOf(lw[p].orders)
        /\ \A s \in Sides : s # side => HeldAt(lw, s)[p] = HeldAt(lv, s)[p]
    BY HeldByItsSide
  <1>2. \A s \in Sides : \A q \in Ladder : q # p => HeldAt(lw, s)[q] = HeldAt(lv, s)[q]
    BY DEF HeldAt
  <1>3. \A s \in Sides : HeldAt(lv, s) \in [Ladder -> Seq(Bare)] /\ HeldAt(lw, s) \in [Ladder -> Seq(Bare)]
    BY HeldFacts DEF Listed
  <1>4. \A s \in Sides : s # side => HeldAt(lw, s) = HeldAt(lv, s)
    <2> SUFFICES ASSUME NEW s \in Sides, s # side PROVE HeldAt(lw, s) = HeldAt(lv, s)
      OBVIOUS
    <2>1. \A q \in Ladder : HeldAt(lw, s)[q] = HeldAt(lv, s)[q]
      BY <1>1, <1>2
    <2>2. HeldAt(lv, s) \in [Ladder -> Seq(Bare)] /\ HeldAt(lw, s) \in [Ladder -> Seq(Bare)]
      BY <1>3
    <2> QED
      BY <2>1, <2>2
  <1> QED
    BY <1>1, <1>2, <1>3, <1>4 DEF OnePlace, Relisted

\* The orders of a level are of one side.
LEMMA LevelHasOneSide ==
  ASSUME SoundNow, NEW p \in Ladder, NEW i \in DOMAIN levels[p].orders
  PROVE  OnlySide(levels[p].orders, levels[p].orders[i].side)
  BY OneSided DEF OnlySide

\* Cancel and the first half of Modify: what the promise calls the withdrawn book.
LEMMA WithdrawnQueues ==
  ASSUME SoundNow, NEW id \in DOMAIN order_index, RemoveOrder(id), NEW s \in Sides
  PROVE  QueueIn(levels', s) = PT!WithoutOrder(QueueIn(levels, s), id)
  <1> DEFINE p      == order_index[id]
             orders == levels[p].orders
             i      == Position(orders, id)
             side   == OrderOf(id).side
             at     == HeldAt(levels, s)
             bt     == HeldAt(levels', s)
             q      == QueueOf(at, s)
  <1>1. /\ p \in Ladder /\ i \in 1..Len(orders) /\ orders \in Seq(Order)
        /\ PlacedAt(orders, p, order_index) /\ OrderOf(id) = orders[i]
        /\ orders[i].order_id = id /\ side \in Sides
    BY IndexedOrder, LevelFacts DEF OrderOf
  <1>2. /\ levels' = [levels EXCEPT ![p] = LevelWithout(levels[p], i)]
        /\ SoundNow' /\ LevelsGood(levels) /\ IndexGood(levels, order_index)
    BY RemoveOrderKeeps DEF RemoveOrder, UpdateLevel, SoundNow, Sound
  <1>3. LevelsGood(levels') /\ IndexGood(levels', order_index')
    BY <1>2 DEF SoundNow, Sound, LevelsGood, IndexGood, Names, PlacedAt, TotalQty
  <1>4. /\ levels'[p].orders = RemoveAt(orders, i)
        /\ \A r \in Ladder : r # p => levels'[r] = levels[r]
    BY <1>1, <1>2 DEF LevelsGood, LevelWithout
  <1>5. OnlySide(orders, side)
    BY <1>1, LevelFacts, LevelHasOneSide
  <1>6. OnlySide(RemoveAt(orders, i), side)
    <2>1. Left(orders, i, RemoveAt(orders, i))
      BY <1>1, RemoveAtLeaves
    <2>2. \A z : Sits(RemoveAt(orders, i), z) => Sits(orders, z)
      BY <1>1, <2>1, LeavingKeepsPlaces
    <2> QED
      BY <2>2, <1>5 DEF OnlySide
  <1>7. OnePlace(levels, levels', side, p)
    BY <1>1, <1>2, <1>3, <1>4, <1>5, <1>6, OneLevelSeen
  <1>8. BareOf(RemoveAt(orders, i)) = RemoveAt(BareOf(orders), i)
    BY <1>1, BareRemoved
  <1>9. BareOf(orders) \in Seq(Bare) /\ Len(BareOf(orders)) = Len(orders)
        /\ BareOf(orders)[i].order_id = id
    <2> HIDE DEF orders, i, p
    <2>1. BareOf(orders)[i] = BareOne(orders[i])
      BY <1>1, BareFacts
    <2>2. BareOne(orders[i]).order_id = id
      BY <1>1 DEF BareOne
    <2> QED
      BY <1>1, <2>1, <2>2, BareFacts
  <1>10. Listed(at) /\ EachOnce(at) /\ at \in [Ladder -> Seq(Bare)]
    BY <1>2, HeldFacts DEF Listed
  <1>11. PICK ends : Queued(at, s, ends)
    BY <1>10, QueueIsJoined
  <1> HIDE DEF p, orders, i, side, at, bt
  <1>12. CASE s = side
    <2> DEFINE m == ends[RankOf(s, p) - 1] + i
    <2>1. at[p] = BareOf(orders) /\ Shortened(at, bt, p, i)
      BY <1>4, <1>7, <1>8, <1>12 DEF OnePlace, Shortened, at, bt, orders
    <2>2. i \in 1..Len(at[p]) /\ at[p][i].order_id = id
      BY <1>1, <1>9, <2>1
    <2>3. QueueOf(bt, s) = RemoveAt(q, m)
      BY <1>1, <1>11, <2>1, <2>2, QueueShortened
    <2>4. PT!Positions(q, id) = {m}
      BY <1>1, <1>10, <1>11, <2>2, PositionOf
    <2>5. m \in Nat
      <3>1. m \in 1..Len(q)
        BY <1>1, <1>10, <1>11, <2>2, PlaceOfPrice
      <3> QED
        BY <3>1
    <2> HIDE DEF m, q
    <2>6. (CHOOSE j \in {m} : \A k \in {m} : j <= k) = m
      BY <2>5
    <2>7. PT!RemoveAt(q, m) = RemoveAt(q, m)
      BY DEF PT!RemoveAt, RemoveAt
    <2>8. PT!WithoutOrder(q, id) = RemoveAt(q, m)
      BY <2>4, <2>6, <2>7 DEF PT!WithoutOrder
    <2> QED
      BY <2>3, <2>8 DEF q, at, bt, QueueIn
  <1>13. CASE s # side
    <2>1. bt = at
      BY <1>7, <1>13 DEF OnePlace, at, bt
    <2>2. at[p] = <<>>
      BY <1>1, <1>2, <1>5, <1>13, HeldByItsSide DEF at, orders
    <2>3. \A r \in Ladder : \A j \in 1..Len(at[r]) : at[r][j].order_id # id
      <3> SUFFICES ASSUME NEW r \in Ladder, NEW j \in 1..Len(at[r]), at[r][j].order_id = id
                   PROVE  FALSE
        OBVIOUS
      <3>1. Sits(levels[r].orders, s) /\ at[r] = BareOf(levels[r].orders)
        <4>1. Sits(levels[r].orders, s) \/ at[r] = <<>>
          BY DEF at, HeldAt
        <4>2. at[r] # <<>>
          BY EmptySeq
        <4> QED
          BY <4>1, <4>2 DEF at, HeldAt
      <3>2. levels[r].orders \in Seq(Order) /\ DOMAIN levels[r].orders = 1..Len(levels[r].orders)
        BY LevelFacts
      <3>3. j \in DOMAIN levels[r].orders /\ levels[r].orders[j].order_id = id
        <4>1. j \in 1..Len(levels[r].orders) /\ at[r][j] = BareOne(levels[r].orders[j])
          BY <3>1, <3>2, BareFacts
        <4>2. at[r][j].order_id = levels[r].orders[j].order_id
          BY <4>1 DEF BareOne
        <4> QED
          BY <3>2, <4>1, <4>2
      <3>4. r = p
        BY <3>3, OrderFacts DEF p
      <3> QED
        BY <2>2, <3>4, EmptySeq
    <2>4. PT!Positions(q, id) = {}
      BY <1>10, <2>3, NoPosition
    <2> HIDE DEF q
    <2>5. PT!WithoutOrder(q, id) = q
      BY <2>4 DEF PT!WithoutOrder
    <2> QED
      BY <2>1, <2>5 DEF q, at, bt, QueueIn
  <1> QED
    BY <1>12, <1>13

-------------------------------------------------------------------------------
(***************************************************************************)
(* One fill, seen from the queues.  What a match takes from a queue of     *)
(* resting orders is proved in OrderBookProofs for any prices; of the      *)
(* constants of that module only the ids matter here.                      *)
(***************************************************************************)
B == INSTANCE OrderBookProofs WITH MaxPrice <- 1, Quantities <- {}, AddRequests <- {}

\* What that module assumes of its constants holds of those it is given here.
LEMMA Assumed == B!PriceAssumption /\ B!QuantityAssumption /\ B!RequestAssumption
  BY LadderAssumption DEF B!PriceAssumption, B!QuantityAssumption, B!RequestAssumption

\* A queue of the ladder is one of those queues.
LEMMA BareIsRested == Bare = B!Rested(Ladder)
  BY DEF Bare, B!Rested

\* The call under way reaches the prices of the ladder that its limit crosses; a market
\* order, matched at the end of the ladder, reaches them all.
ReachInv ==
  ~Idle => \A p \in Ladder :
             B!Reaches(incoming, p) <=> Crosses(incoming.side, incoming.price, p)

\* The trade a fill makes.
TradedSide == OtherSide(incoming.side)
TradedPrice == PriceAt(best_index(TradedSide))
TradedOrders == levels[TradedPrice].orders
TradedQty == Smaller(incoming.qty, TradedOrders[1].qty)

\* What is known of it.
LEMMA FillFacts ==
  ASSUME IInv, Fill
  PROVE  /\ ~Idle /\ incoming \in Call /\ incoming.qty \in Nat \ {0}
         /\ TradedSide \in Sides /\ incoming.side \in Sides /\ TradedSide # incoming.side
         /\ TradedPrice \in Ladder /\ index_for(TradedPrice) \in occupied[TradedSide]
         /\ Crosses(incoming.side, incoming.price, TradedPrice)
         /\ TradedOrders \in Seq(Order) /\ TradedOrders # <<>> /\ 1 \in 1..Len(TradedOrders)
         /\ TradedOrders[1].side = TradedSide /\ TradedOrders[1].price = TradedPrice
         /\ TradedOrders[1].qty \in Nat \ {0} /\ Head(TradedOrders) = TradedOrders[1]
         /\ TradedQty \in Nat \ {0} /\ TradedQty <= incoming.qty
         /\ TradedQty <= TradedOrders[1].qty
  <1> DEFINE opposite == TradedSide
  <1>1. SoundNow /\ ~Idle /\ incoming \in Call
    BY DEF IInv, CallSound, Fill
  <1>2. /\ incoming.qty > 0 /\ word_occupied[TradedSide] # {}
        /\ Crosses(incoming.side, incoming.price, TradedPrice)
    BY DEF Fill, Matching, TradedPrice, TradedSide
  <1>3. incoming.side \in Sides /\ TradedSide \in Sides /\ TradedSide # incoming.side
    BY <1>1 DEF Call, OtherSide, Sides, TradedSide
  <1>4. /\ TradedPrice \in Ladder /\ index_for(TradedPrice) \in occupied[TradedSide]
        /\ 1 \in DOMAIN TradedOrders /\ TradedOrders[1].side = TradedSide
    BY <1>1, <1>2, <1>3, TradedLevel DEF TradedPrice, TradedOrders
  <1>5. TradedOrders \in Seq(Order) /\ DOMAIN TradedOrders = 1..Len(TradedOrders)
    BY <1>1, <1>4, LevelFacts DEF TradedOrders
  <1>6. TradedOrders # <<>> /\ Head(TradedOrders) = TradedOrders[1]
    BY <1>4, <1>5
  <1>7. TradedOrders[1].qty \in Nat \ {0} /\ TradedOrders[1].price = TradedPrice
    BY <1>1, <1>4, OrderFacts DEF TradedOrders
  <1>8. incoming.qty \in Nat \ {0}
    BY <1>1, <1>2 DEF Call
  <1>9. TradedQty \in Nat \ {0} /\ TradedQty <= incoming.qty /\ TradedQty <= TradedOrders[1].qty
    BY <1>7, <1>8 DEF TradedQty, Smaller
  <1> QED
    BY <1>1, <1>2, <1>3, <1>4, <1>5, <1>6, <1>7, <1>8, <1>9

\* What it changes.
LEMMA FillChanges ==
  ASSUME IInv, Fill
  PROVE  /\ trades' = Append(trades, [resting_order_id |-> TradedOrders[1].order_id,
                                      price |-> TradedOrders[1].price, qty |-> TradedQty])
         /\ traded_qty' = traded_qty + TradedQty /\ error' = error
         /\ ~Idle' /\ incoming'.qty = incoming.qty - TradedQty
         /\ incoming'.side = incoming.side /\ incoming'.price = incoming.price
         /\ incoming'.order_id = incoming.order_id /\ incoming'.can_rest = incoming.can_rest
         /\ incoming'.is_market = incoming.is_market
         /\ levels' = [levels EXCEPT ![TradedPrice] =
                         LevelAfterFill(levels[TradedPrice], TradedQty)]
         /\ LevelsGood(levels) /\ IndexGood(levels, order_index)
         /\ LevelsGood(levels') /\ IndexGood(levels', order_index')
  <1>1. Head(TradedOrders) = TradedOrders[1] /\ incoming \in Call /\ TradedPrice \in Ladder
    BY FillFacts
  <1>2. TradedQty = Smaller(incoming.qty, Head(TradedOrders).qty)
    BY <1>1 DEF TradedQty
  <1>3. /\ trades' = Append(trades, [resting_order_id |-> Head(TradedOrders).order_id,
                                     price |-> Head(TradedOrders).price, qty |-> TradedQty])
        /\ traded_qty' = traded_qty + TradedQty
        /\ incoming' = [incoming EXCEPT !.qty = @ - TradedQty]
        /\ UpdateLevel(TradedSide, TradedPrice, LevelAfterFill(levels[TradedPrice], TradedQty))
        /\ error' = error
    BY <1>2 DEF Fill, TradedSide, TradedPrice, TradedOrders
  <1>4. /\ incoming'.qty = incoming.qty - TradedQty
        /\ incoming'.side = incoming.side /\ incoming'.price = incoming.price
        /\ incoming'.order_id = incoming.order_id /\ incoming'.can_rest = incoming.can_rest
        /\ incoming'.is_market = incoming.is_market
    BY <1>1, <1>3 DEF Call
  <1>5. ~Idle'
    <2>1. DOMAIN incoming' = DOMAIN incoming
      BY <1>3
    <2>2. "qty" \in DOMAIN incoming
      BY <1>1 DEF Call
    <2>3. "qty" \notin DOMAIN NoOrder
      BY DEF NoOrder
    <2> QED
      BY <2>1, <2>2, <2>3 DEF Idle
  <1>6. levels' = [levels EXCEPT ![TradedPrice] = LevelAfterFill(levels[TradedPrice], TradedQty)]
    BY <1>3 DEF UpdateLevel
  <1>7. LevelsGood(levels) /\ IndexGood(levels, order_index)
    BY DEF IInv, SoundNow, Sound
  <1>8. IInv'
    BY FillPreserves
  <1>9. LevelsGood(levels') /\ IndexGood(levels', order_index')
    BY <1>8 DEF IInv, SoundNow, Sound, LevelsGood, IndexGood, Names, PlacedAt, TotalQty
  <1> QED
    BY <1>1, <1>3, <1>4, <1>5, <1>6, <1>7, <1>9

\* One fill, seen in the opposing queue: its first order is taken, or loses the quantity.
FillOfQueue(q, new) ==
  /\ q \in Seq(Bare) /\ new \in Seq(Bare)
  /\ B!TakesFirst(incoming, q, TradedQty, new)
  /\ trades' = Append(trades, B!FirstTrade(q, TradedQty))

\* The best occupied level of a side stands before its other levels.
LEMMA BestIsFirst ==
  ASSUME SoundNow, NEW side \in Sides, word_occupied[side] # {}, NEW ends,
         Queued(HeldAt(levels, side), side, ends),
         HeldAt(levels, side)[PriceAt(best_index(side))] # <<>>
  PROVE  ends[RankOf(side, PriceAt(best_index(side))) - 1] = 0
  <1> DEFINE i  == best_index(side)
             p  == PriceAt(i)
             at == HeldAt(levels, side)
  <1>1. BitsGood(levels, occupied, word_occupied) /\ LevelsGood(levels) /\ IndexGood(levels, order_index)
    BY DEF SoundNow, Sound
  <1>2. i \in occupied[side] /\ NoneBefore(side, occupied[side], i) /\ i \in Indexes
    BY <1>1, BestIndexIsBest DEF BitsGood
  <1>3. p \in Ladder
    BY <1>2, IndexFacts
  <1>4. at \in [Ladder -> Seq(Bare)]
    BY <1>1, HeldFacts DEF Listed
  <1> HIDE DEF i
  <1>5. ASSUME NEW g \in Ladder, at[g] # <<>>
        PROVE  PT!AtLeastAsGood(side, p, g)
    <2>1. Sits(levels[g].orders, side)
      BY <1>5 DEF HeldAt
    <2>2. index_for(g) \in occupied[side]
      BY <1>1, <2>1 DEF BitsGood
    <2>3. IF side = "Ask" THEN i <= index_for(g) ELSE i >= index_for(g)
      BY <1>2, <2>2 DEF NoneBefore
    <2>4. i \in Int /\ g \in Int /\ MinPrice \in Int
      BY <1>2, IndexFacts, LadderAssumption DEF Ladder
    <2> QED
      BY <2>3, <2>4 DEF PT!AtLeastAsGood, PriceAt, index_for, Sides
  <1> HIDE DEF p, at
  <1>6. at[p] # <<>> /\ Queued(at, side, ends)
    BY DEF p, at, i
  <1>7. ends[RankOf(side, p) - 1] = 0
    BY <1>3, <1>4, <1>5, <1>6, BestStandsFirst
  <1> QED
    BY <1>7 DEF p, i

\* The level traded with changes in the lists of its side alone.
LEMMA FillSeen ==
  ASSUME IInv, Fill
  PROVE  /\ OnePlace(levels, levels', TradedSide, TradedPrice)
         /\ levels[TradedPrice].orders = TradedOrders
         /\ TradedQty = TradedOrders[1].qty =>
              levels'[TradedPrice].orders = RemoveAt(TradedOrders, 1)
         /\ TradedQty # TradedOrders[1].qty =>
              Shrunk(TradedOrders, TradedOrders[1].qty - TradedQty, levels'[TradedPrice].orders)
  <1> DEFINE p      == TradedPrice
             orders == TradedOrders
             new    == levels'[TradedPrice].orders
  <1>1. /\ p \in Ladder /\ orders \in Seq(Order) /\ orders # <<>> /\ 1 \in 1..Len(orders)
        /\ Head(orders) = orders[1] /\ orders[1].side = TradedSide /\ TradedSide \in Sides
        /\ orders[1].qty \in Nat \ {0} /\ TradedQty \in Nat \ {0} /\ TradedQty <= orders[1].qty
    BY FillFacts
  <1>2. /\ levels' = [levels EXCEPT ![p] = LevelAfterFill(levels[p], TradedQty)]
        /\ LevelsGood(levels) /\ IndexGood(levels, order_index)
        /\ LevelsGood(levels') /\ IndexGood(levels', order_index')
    BY FillChanges
  <1>3. SoundNow /\ orders = levels[p].orders
    BY DEF IInv, TradedOrders
  <1>4. PlacedAt(orders, p, order_index)
    BY <1>1, <1>3, LevelFacts
  <1>5. /\ \A r \in Ladder : r # p => levels'[r] = levels[r]
        /\ levels'[p] = LevelAfterFill(levels[p], TradedQty)
    BY <1>1, <1>2 DEF LevelsGood
  <1>6. new = IF orders[1].qty = TradedQty THEN Tail(orders)
              ELSE <<[Head(orders) EXCEPT !.qty = @ - TradedQty]>> \o Tail(orders)
    BY <1>1, <1>3, <1>5 DEF LevelAfterFill
  <1>7. OnlySide(orders, TradedSide)
    <2>1. 1 \in DOMAIN levels[p].orders
      BY <1>1, <1>3
    <2>2. OnlySide(levels[p].orders, levels[p].orders[1].side)
      BY <1>1, <1>3, <2>1, LevelHasOneSide
    <2> QED
      BY <1>1, <1>3, <2>2
  <1> HIDE DEF p, orders, new
  <1>8. CASE TradedQty = orders[1].qty
    <2>1. new = RemoveAt(orders, 1)
      BY <1>1, <1>6, <1>8, TailIsRemoveAt
    <2>2. Left(orders, 1, RemoveAt(orders, 1))
      BY <1>1, RemoveAtLeaves
    <2>3. \A s : Sits(new, s) => Sits(orders, s)
      BY <1>1, <1>4, <2>1, <2>2, LeavingKeepsPlaces
    <2>4. OnlySide(new, TradedSide)
      BY <2>3, <1>7 DEF OnlySide
    <2>5. OnePlace(levels, levels', TradedSide, p)
      BY <1>1, <1>2, <1>3, <1>5, <1>7, <2>4, OneLevelSeen DEF new, p
    <2> QED
      BY <1>3, <1>8, <2>1, <2>5 DEF p, orders, new
  <1>9. CASE TradedQty # orders[1].qty
    <2> DEFINE qty == orders[1].qty - TradedQty
    <2>1. qty \in Nat \ {0}
      BY <1>1, <1>9
    <2>2. Shrunk(orders, qty, new)
      <3>1. [Head(orders) EXCEPT !.qty = @ - TradedQty] = [Head(orders) EXCEPT !.qty = qty]
        BY <1>1
      <3> QED
        BY <3>1, <1>6, <1>9 DEF Shrunk
    <2> HIDE DEF qty
    <2>3. \A s : Sits(new, s) <=> Sits(orders, s)
      BY <1>1, <2>1, <2>2, ShrinkingKeepsPlaces
    <2>4. OnlySide(new, TradedSide)
      BY <2>3, <1>7 DEF OnlySide
    <2>5. OnePlace(levels, levels', TradedSide, p)
      BY <1>1, <1>2, <1>3, <1>5, <1>7, <2>4, OneLevelSeen DEF new, p
    <2> QED
      BY <1>3, <1>9, <2>2, <2>5 DEF p, orders, new, qty
  <1> QED
    BY <1>8, <1>9

\* A turn of the matching loop is such a fill and leaves the own side alone.
LEMMA FillQueues ==
  ASSUME IInv, ReachInv, Fill
  PROVE  /\ FillOfQueue(QueueIn(levels, TradedSide), QueueIn(levels', TradedSide))
         /\ QueueIn(levels', incoming.side) = QueueIn(levels, incoming.side)
  <1> DEFINE side   == TradedSide
             p      == TradedPrice
             orders == TradedOrders
             at     == HeldAt(levels, side)
             bt     == HeldAt(levels', side)
             q      == QueueOf(at, side)
             new    == QueueOf(bt, side)
  <1>1. /\ side \in Sides /\ incoming.side \in Sides /\ side # incoming.side
        /\ p \in Ladder /\ Crosses(incoming.side, incoming.price, p) /\ ~Idle
        /\ orders \in Seq(Order) /\ orders # <<>> /\ 1 \in 1..Len(orders)
        /\ orders[1].price = p /\ orders[1].qty \in Nat \ {0} /\ incoming.qty \in Nat \ {0}
        /\ TradedQty \in Nat \ {0} /\ TradedQty <= incoming.qty /\ TradedQty <= orders[1].qty
    BY FillFacts
  <1>2. /\ trades' = Append(trades, [resting_order_id |-> orders[1].order_id,
                                     price |-> orders[1].price, qty |-> TradedQty])
        /\ LevelsGood(levels) /\ IndexGood(levels, order_index)
        /\ LevelsGood(levels') /\ IndexGood(levels', order_index')
    BY FillChanges
  <1>3. /\ OnePlace(levels, levels', side, p) /\ levels[p].orders = orders
        /\ TradedQty = orders[1].qty => levels'[p].orders = RemoveAt(orders, 1)
        /\ TradedQty # orders[1].qty =>
             Shrunk(orders, orders[1].qty - TradedQty, levels'[p].orders)
    BY FillSeen
  <1>4. at[p] = BareOf(orders) /\ Relisted(at, bt, p, BareOf(levels'[p].orders))
    BY <1>3 DEF OnePlace
  <1>5. QueueIn(levels', incoming.side) = QueueIn(levels, incoming.side)
    BY <1>1, <1>3 DEF OnePlace, QueueIn
  <1>6. /\ q \in Seq(Bare) /\ new \in Seq(Bare) /\ at \in [Ladder -> Seq(Bare)]
        /\ \E ends : Queued(at, side, ends)
    BY <1>1, <1>2, QueueIsTyped, HeldFacts DEF QueueIn, Listed
  <1>7. PICK ends : Queued(at, side, ends)
    BY <1>6
  <1>8. Len(at[p]) >= 1 /\ 1 \in 1..Len(at[p]) /\ at[p] # <<>> /\ at[p][1] = BareOne(orders[1])
    <2> HIDE DEF orders, at, p
    <2>1. BareOf(orders) \in Seq(Bare) /\ Len(BareOf(orders)) = Len(orders)
          /\ Len(orders) \in Nat /\ BareOf(orders)[1] = BareOne(orders[1])
      BY <1>1, BareFacts
    <2>2. BareOf(orders) # <<>>
      BY <2>1, <1>1, EmptySeq
    <2> QED
      BY <1>1, <1>4, <2>1, <2>2
  <1>9. ends[RankOf(side, p) - 1] = 0
    <2>1. SoundNow /\ word_occupied[TradedSide] # {}
      BY DEF IInv, Fill, Matching, TradedSide
    <2> HIDE DEF orders
    <2> QED
      BY <2>1, <1>1, <1>7, <1>8, BestIsFirst DEF TradedPrice
  <1> HIDE DEF side, p, orders, at, bt
  <1>10. 1 \in 1..Len(q) /\ q[1] = BareOne(orders[1])
    <2>1. ends[RankOf(side, p) - 1] + 1 \in 1..Len(q)
          /\ q[ends[RankOf(side, p) - 1] + 1] = at[p][1]
      <3>1. /\ side \in Sides /\ p \in Ladder /\ at \in [Ladder -> Seq(Bare)]
            /\ Queued(at, side, ends) /\ 1 \in 1..Len(at[p])
        BY <1>1, <1>6, <1>7, <1>8, Zenon
      <3> QED
        BY <3>1, PlaceOfPrice
    <2> QED
      BY <2>1, <1>8, <1>9
  <1>11. /\ q[1].order_id = orders[1].order_id /\ q[1].price = p /\ q[1].qty = orders[1].qty
         /\ q[1].price = orders[1].price /\ q[1] = BareOne(orders[1])
    BY <1>1, <1>10 DEF BareOne
  <1>12. q # <<>> /\ B!Reaches(incoming, q[1].price)
    BY <1>1, <1>10, <1>11 DEF ReachInv
  <1>13. TradedQty = B!Smaller(incoming.qty, q[1].qty)
    BY <1>11 DEF TradedQty, Smaller, B!Smaller, orders
  <1>14. trades' = Append(trades, B!FirstTrade(q, TradedQty))
    BY <1>2, <1>11 DEF B!FirstTrade
  <1>15. CASE orders[1].qty <= incoming.qty
    <2>1. TradedQty = orders[1].qty
      BY <1>1, <1>15 DEF TradedQty, Smaller, orders
    <2>2. BareOf(levels'[p].orders) = RemoveAt(BareOf(orders), 1)
      BY <2>1, <1>1, <1>3, BareRemoved
    <2>3. Shortened(at, bt, p, 1)
      BY <2>2, <1>4 DEF Shortened
    <2>4. new = RemoveAt(q, ends[RankOf(side, p) - 1] + 1)
      BY <2>3, <1>1, <1>7, <1>8, QueueShortened
    <2> HIDE DEF q, new
    <2>5. new = RemoveAt(q, 1)
      BY <2>4, <1>9
    <2>6. new = Tail(q)
      BY <2>5, <1>6, <1>12, TailIsRemoveAt
    <2>7. ~(incoming.qty < q[1].qty)
      BY <1>1, <1>11, <1>15
    <2>8. FillOfQueue(q, new)
      BY <2>6, <2>7, <1>6, <1>12, <1>13, <1>14 DEF FillOfQueue, B!TakesFirst
    <2> QED
      BY <2>8, <1>5 DEF q, new, side, at, bt, QueueIn
  <1>16. CASE incoming.qty < orders[1].qty
    <2> DEFINE left == orders[1].qty - incoming.qty
               x    == WithQty(orders[1], left)
    <2>1. TradedQty = incoming.qty /\ TradedQty # orders[1].qty
      BY <1>1, <1>16 DEF TradedQty, Smaller, orders
    <2>2. left \in Nat \ {0} /\ Shrunk(orders, left, levels'[p].orders)
      BY <2>1, <1>1, <1>3, <1>16
    <2> HIDE DEF left
    <2>3. x \in Bare /\ BareOf(levels'[p].orders) = [BareOf(orders) EXCEPT ![1] = x]
      BY <2>2, <1>1, BareShrunk
    <2>4. x = B!FirstLess(q, incoming.qty)
      <3>1. x = [q[1] EXCEPT !.qty = @ - incoming.qty]
        BY <1>11 DEF BareOne, WithQty, left
      <3> QED
        BY <3>1 DEF B!FirstLess
    <2> HIDE DEF x
    <2>5. Replaced(at, bt, p, x)
      BY <2>3, <1>4, Zenon DEF Replaced
    <2>6. new = [q EXCEPT ![ends[RankOf(side, p) - 1] + 1] = x]
      BY <2>3, <2>5, <1>1, <1>7, <1>8, QueueReplaced
    <2> HIDE DEF q, new
    <2>7. new = [q EXCEPT ![1] = B!FirstLess(q, incoming.qty)]
      BY <2>4, <2>6, <1>9
    <2>8. ~(q[1].qty <= incoming.qty)
      BY <1>1, <1>11, <1>16
    <2>9. FillOfQueue(q, new)
      BY <2>7, <2>8, <1>6, <1>12, <1>13, <1>14 DEF FillOfQueue, B!TakesFirst
    <2> QED
      BY <2>9, <1>5 DEF q, new, side, at, bt, QueueIn
  <1>17. orders[1].qty <= incoming.qty \/ incoming.qty < orders[1].qty
    BY <1>1
  <1> QED
    BY <1>15, <1>16, <1>17

\* When the loop is over, the rest of the call takes nothing from the opposing queue.
LEMMA NothingReached ==
  ASSUME IInv, ReachInv, ~Idle, ~Matching
  PROVE  LET q == QueueIn(levels, OtherSide(incoming.side))
         IN  /\ B!TradesOf(incoming, q) = <<>>
             /\ B!AfterFills(incoming, q) = q
             /\ B!Executed(incoming, q) = 0
  <1> DEFINE other == OtherSide(incoming.side)
             at    == HeldAt(levels, other)
             q     == QueueOf(at, other)
  <1>1. /\ incoming \in Call /\ incoming.qty \in Nat /\ other \in Sides /\ SoundNow
        /\ LevelsGood(levels) /\ IndexGood(levels, order_index)
        /\ BitsGood(levels, occupied, word_occupied)
    BY DEF IInv, CallSound, Call, OtherSide, Sides, SoundNow, Sound
  <1>2. Listed(at) /\ at \in [Ladder -> Seq(Bare)] /\ q \in Seq(Bare)
    BY <1>1, HeldFacts, QueueIsTyped DEF Listed, QueueIn
  <1>3. PICK ends : Queued(at, other, ends)
    BY <1>1, <1>2, QueueIsJoined
  <1>4. ASSUME incoming.qty # 0, NEW i \in 1..Len(q)
        PROVE  ~B!Reaches(incoming, q[i].price)
    <2>1. \A k \in occupied[other] : ~Crosses(incoming.side, incoming.price, PriceAt(k))
      <3>1. incoming.qty > 0
        BY <1>1, <1>4
      <3> QED
        BY <3>1, <1>1, NothingMatches
    <2> HIDE DEF other
    <2>2. PICK p \in Ladder : \E j : ComesFrom(at, other, ends, i, p, j)
      BY <1>1, <1>2, <1>3, <1>4, EveryPlaceIsInAList
    <2>3. PICK j : ComesFrom(at, other, ends, i, p, j)
      BY <2>2
    <2>4. j \in 1..Len(at[p]) /\ q[i].price = p
      BY <2>3, <1>2 DEF ComesFrom, Listed
    <2>5. Sits(levels[p].orders, other)
      <3>1. at[p] # <<>>
        BY <2>4, EmptySeq
      <3> QED
        BY <3>1 DEF HeldAt
    <2>6. index_for(p) \in occupied[other] /\ PriceAt(index_for(p)) = p
      BY <2>5, <1>1, IndexFacts DEF BitsGood
    <2>7. ~Crosses(incoming.side, incoming.price, p)
      BY <2>1, <2>6
    <2> QED
      BY <2>4, <2>7 DEF ReachInv
  <1> HIDE DEF q, other
  <1>5. /\ B!TradesOf(incoming, q) = <<>>
        /\ B!AfterFills(incoming, q) = q
        /\ B!Executed(incoming, q) = 0
    BY <1>1, <1>2, <1>4, BareIsRested, Assumed, B!NothingFills
  <1> QED
    BY <1>5 DEF q, other, QueueIn

\* The queues once the call has returned: the remainder stands where it joins.
LEMMA ReturnQueues ==
  ASSUME IInv, Return
  PROVE  /\ incoming.side \in Sides /\ incoming.qty \in Nat /\ OtherSide(incoming.side) \in Sides
         /\ OtherSide(incoming.side) # incoming.side
         /\ QueueIn(levels', OtherSide(incoming.side)) = QueueIn(levels, OtherSide(incoming.side))
         /\ QueueIn(levels', incoming.side) =
              IF incoming.qty > 0 /\ incoming.can_rest
              THEN PT!Enqueue(incoming.side, QueueIn(levels, incoming.side),
                              [order_id |-> incoming.order_id, price |-> incoming.price,
                               qty |-> incoming.qty])
              ELSE QueueIn(levels, incoming.side)
  <1> DEFINE side   == incoming.side
             p      == incoming.price
             order  == [order_id |-> incoming.order_id, side |-> side, price |-> p,
                        qty |-> incoming.qty]
             rested == [order_id |-> incoming.order_id, price |-> p, qty |-> incoming.qty]
             other  == OtherSide(side)
             orders == levels[p].orders
             at     == HeldAt(levels, side)
             bt     == HeldAt(levels', side)
  <1>1. /\ ~Idle /\ ~Matching /\ incoming \in Call /\ side \in Sides /\ other \in Sides
        /\ other # side /\ incoming.qty \in Nat /\ incoming.order_id \in OrderIds /\ p \in Ladder
        /\ SoundNow /\ BitsGood(levels, occupied, word_occupied)
        /\ LevelsGood(levels) /\ IndexGood(levels, order_index)
        /\ incoming.order_id \notin DOMAIN order_index
    BY DEF IInv, CallSound, Call, OtherSide, Sides, SoundNow, Sound, Return
  <1>2. IInv'
    BY ReturnPreserves
  <1>3. LevelsGood(levels') /\ IndexGood(levels', order_index')
    BY <1>2 DEF IInv, SoundNow, Sound, LevelsGood, IndexGood, Names, PlacedAt, TotalQty
  <1>4. CASE ~Rests(incoming)
    <2>1. levels' = levels
      BY <1>4 DEF Return
    <2> QED
      BY <2>1, <1>1, <1>4 DEF Rests
  <1>5. CASE Rests(incoming)
    <2>1. incoming.qty \in Nat \ {0} /\ incoming.qty > 0 /\ incoming.can_rest
      BY <1>1, <1>5 DEF Rests
    <2>2. /\ order \in Order /\ order.order_id = incoming.order_id /\ order.price = p
          /\ order.side = side /\ BareOne(order) = rested
      BY <1>1, <2>1 DEF Order, BareOne
    <2>3. rested \in Bare /\ rested.price = p
      BY <1>1, <2>1 DEF Bare
    <2>4. levels' = [levels EXCEPT ![p] = [total_qty |-> @.total_qty + incoming.qty,
                                           orders    |-> Append(@.orders, order)]]
      BY <1>5 DEF Return
    <2>5. levels'[p].orders = Append(orders, order) /\ \A r \in Ladder : r # p => levels'[r] = levels[r]
      BY <2>4, <1>1 DEF LevelsGood
    <2>6. orders \in Seq(Order) /\ PlacedAt(orders, p, order_index)
      BY <1>1, LevelFacts
    <2>7. OnlySide(orders, side)
      <3>1. \A k \in occupied[other] : ~Crosses(side, p, PriceAt(k))
        BY <1>1, <2>1, NothingMatches
      <3>2. Crosses(side, p, PriceAt(index_for(p)))
        BY <1>1, IndexFacts, LadderAssumption DEF Crosses, Ladder
      <3>3. index_for(p) \notin occupied[other]
        BY <3>1, <3>2
      <3>4. ~Sits(orders, other)
        BY <3>3, <1>1 DEF BitsGood
      <3>5. \A s \in Sides : s = side \/ s = other
        BY <1>1 DEF Sides
      <3> QED
        BY <3>4, <3>5 DEF OnlySide
    <2> HIDE DEF order, orders, p, side, other, at, bt, rested
    <2>8. OnlySide(Append(orders, order), side)
      <3>1. \A s : Sits(Append(orders, order), s) <=> Sits(orders, s) \/ s = order.side
        BY <1>1, <2>2, <2>6, JoiningKeepsPlaces
      <3> QED
        BY <3>1, <2>2, <2>7 DEF OnlySide
    <2>9. OnlySide(levels[p].orders, side) /\ OnlySide(levels'[p].orders, side)
      BY <2>5, <2>7, <2>8 DEF orders
    <2>10. OnePlace(levels, levels', side, p)
      BY <1>1, <1>3, <2>5, <2>9, OneLevelSeen
    <2>11. QueueIn(levels', other) = QueueIn(levels, other)
      BY <2>10, <1>1 DEF OnePlace, QueueIn
    <2>12. BareOf(Append(orders, order)) = Append(BareOf(orders), rested)
      BY <2>2, <2>6, BareJoined
    <2>13. Lengthened(at, bt, p, rested)
      <3>1. at[p] = BareOf(orders) /\ Relisted(at, bt, p, BareOf(Append(orders, order)))
        BY <2>5, <2>10 DEF OnePlace, at, bt, orders
      <3> QED
        BY <3>1, <2>12 DEF Lengthened
    <2>14. Listed(at) /\ at \in [Ladder -> Seq(Bare)]
      BY <1>1, HeldFacts DEF Listed, at
    <2>15. PICK ends : Queued(at, side, ends)
      BY <1>1, <2>14, QueueIsJoined
    <2>16. QueueOf(bt, side) = InsertAt(QueueOf(at, side), ends[RankOf(side, p)] + 1, rested)
      BY <1>1, <2>3, <2>13, <2>15, QueueLengthened
    <2>17. PT!Enqueue(side, QueueOf(at, side), rested)
             = InsertAt(QueueOf(at, side), ends[RankOf(side, rested.price)] + 1, rested)
      BY <1>1, <2>3, <2>14, <2>15, EnqueueIsInsert
    <2>18. QueueIn(levels', side) = PT!Enqueue(side, QueueIn(levels, side), rested)
      BY <2>3, <2>16, <2>17 DEF QueueIn, at, bt
    <2> QED
      BY <2>1, <2>11, <2>18, <1>1 DEF side, other, rested, p
  <1> QED
    BY <1>4, <1>5

-------------------------------------------------------------------------------
(***************************************************************************)
(* The refinement, its promise and OrderBookProofs have each its own copy  *)
(* of every operator of PriceTime; each means the same.                    *)
(***************************************************************************)
\* In the refinement mapping,
LEMMA SameMatching ==
  /\ \A in, p : PT!Reaches(in, p) = B!Reaches(in, p)
  /\ \A in, q : PT!Executed(in, q) = B!Executed(in, q)
  /\ \A in, q : PT!TradesOf(in, q) = B!TradesOf(in, q)
  /\ \A b, in, canRest : PT!Matched(b, in, canRest) = B!Matched(b, in, canRest)
  <1>1. \A in, p : PT!Reaches(in, p) = B!Reaches(in, p)
    BY DEF PT!Reaches, B!Reaches, PT!AtLeastAsGood, B!AtLeastAsGood
  <1>2. \A in, q : PT!Executed(in, q) = B!Executed(in, q)
    BY DEF PT!Executed, B!Executed, PT!Smaller, B!Smaller, PT!Available, B!Available, PT!QtyOf,
           B!QtyOf, PT!Reaches, B!Reaches, PT!AtLeastAsGood, B!AtLeastAsGood
  <1>3. \A in, q : PT!TradesOf(in, q) = B!TradesOf(in, q)
    BY DEF PT!TradesOf, B!TradesOf, PT!FillAt, B!FillAt, PT!Ahead, B!Ahead, PT!Smaller,
           B!Smaller, PT!QtyOf, B!QtyOf, PT!Reaches, B!Reaches, PT!AtLeastAsGood,
           B!AtLeastAsGood, PT!Cardinality, B!Cardinality, PT!IsFiniteSet, B!IsFiniteSet
  <1>4. \A b, in, canRest : PT!Matched(b, in, canRest) = B!Matched(b, in, canRest)
    BY DEF PT!Matched, B!Matched, PT!Sides, B!Sides, PT!OtherSide, B!OtherSide, PT!AfterFills,
           B!AfterFills, PT!Enqueue, B!Enqueue, PT!InsertAt, B!InsertAt, PT!Executed, B!Executed,
           PT!Available, B!Available, PT!FillAt, B!FillAt, PT!Ahead, B!Ahead, PT!Smaller,
           B!Smaller, PT!QtyOf, B!QtyOf, PT!Reaches, B!Reaches, PT!AtLeastAsGood,
           B!AtLeastAsGood, PT!Cardinality, B!Cardinality, PT!IsFiniteSet, B!IsFiniteSet
  <1> QED
    BY <1>1, <1>2, <1>3, <1>4

\* in the promise.
LEMMA SamePromise ==
  /\ \A in, p : Promise!Reaches(in, p) = B!Reaches(in, p)
  /\ \A in, q : Promise!Executed(in, q) = B!Executed(in, q)
  /\ \A in, q : Promise!TradesOf(in, q) = B!TradesOf(in, q)
  /\ \A b, in, canRest : Promise!Matched(b, in, canRest) = B!Matched(b, in, canRest)
  <1>1. \A in, p : Promise!Reaches(in, p) = B!Reaches(in, p)
    BY DEF Promise!Reaches, B!Reaches, Promise!AtLeastAsGood, B!AtLeastAsGood
  <1>2. \A in, q : Promise!Executed(in, q) = B!Executed(in, q)
    BY DEF Promise!Executed, B!Executed, Promise!Smaller, B!Smaller, Promise!Available,
           B!Available, Promise!QtyOf, B!QtyOf, Promise!Reaches, B!Reaches,
           Promise!AtLeastAsGood, B!AtLeastAsGood
  <1>3. \A in, q : Promise!TradesOf(in, q) = B!TradesOf(in, q)
    BY DEF Promise!TradesOf, B!TradesOf, Promise!FillAt, B!FillAt, Promise!Ahead, B!Ahead,
           Promise!Smaller, B!Smaller, Promise!QtyOf, B!QtyOf, Promise!Reaches, B!Reaches,
           Promise!AtLeastAsGood, B!AtLeastAsGood, Promise!Cardinality, B!Cardinality,
           Promise!IsFiniteSet, B!IsFiniteSet
  <1>4. \A b, in, canRest : Promise!Matched(b, in, canRest) = B!Matched(b, in, canRest)
    BY DEF Promise!Matched, B!Matched, Promise!Sides, B!Sides, Promise!OtherSide, B!OtherSide,
           Promise!AfterFills, B!AfterFills, Promise!Enqueue, B!Enqueue, Promise!InsertAt,
           B!InsertAt, Promise!Executed, B!Executed, Promise!Available, B!Available,
           Promise!FillAt, B!FillAt, Promise!Ahead, B!Ahead, Promise!Smaller, B!Smaller,
           Promise!QtyOf, B!QtyOf, Promise!Reaches, B!Reaches, Promise!AtLeastAsGood,
           B!AtLeastAsGood, Promise!Cardinality, B!Cardinality, Promise!IsFiniteSet,
           B!IsFiniteSet
  <1> QED
    BY <1>1, <1>2, <1>3, <1>4

\* And the names they share with the ladder.
LEMMA SameNames ==
  /\ Sides = B!Sides /\ Promise!Sides = Sides
  /\ \A s : B!OtherSide(s) = OtherSide(s) /\ Promise!OtherSide(s) = OtherSide(s)
  /\ \A side, q, x : PT!Enqueue(side, q, x) = B!Enqueue(side, q, x)
  /\ \A q, id : /\ Promise!WithoutOrder(q, id) = PT!WithoutOrder(q, id)
                 /\ Promise!Positions(q, id) = PT!Positions(q, id)
  BY DEF Sides, B!Sides, Promise!Sides, OtherSide, B!OtherSide, Promise!OtherSide,
         PT!Enqueue, B!Enqueue, PT!AtLeastAsGood, B!AtLeastAsGood, PT!InsertAt, B!InsertAt,
         PT!Cardinality, B!Cardinality, PT!IsFiniteSet, B!IsFiniteSet,
         Promise!WithoutOrder, PT!WithoutOrder, Promise!Positions, PT!Positions,
         Promise!RemoveAt, PT!RemoveAt

\* What is reported to the caller.
Reported == [resting_order_id : OrderIds, price : Ladder, qty : Nat]

RefineInv == ReachInv /\ trades \in Seq(Reported) /\ traded_qty \in Nat

\* A fill takes from the prediction for the whole call exactly its own first part.
LEMMA FillLeavesTheRest ==
  ASSUME IInv, RefineInv, Fill
  PROVE  LET q   == QueueIn(levels, TradedSide)
             new == QueueIn(levels', TradedSide)
         IN  /\ B!Executed(incoming, q) = TradedQty + B!Executed(incoming', new)
             /\ B!AfterFills(incoming, q) = B!AfterFills(incoming', new)
             /\ trades \o B!TradesOf(incoming, q) = trades' \o B!TradesOf(incoming', new)
             /\ B!Executed(incoming', new) \in Nat
  <1> DEFINE q   == QueueIn(levels, TradedSide)
             new == QueueIn(levels', TradedSide)
             out == incoming'
  <1>1. FillOfQueue(q, new)
    BY FillQueues DEF RefineInv
  <1>2. /\ TradedQty \in Nat \ {0} /\ TradedQty <= incoming.qty /\ incoming.qty \in Nat \ {0}
    BY FillFacts
  <1>3. /\ out.qty = incoming.qty - TradedQty /\ out.side = incoming.side
        /\ out.price = incoming.price /\ out.is_market = incoming.is_market
    BY FillChanges
  <1>4. trades \in Seq(Reported)
    BY DEF RefineInv
  <1> HIDE DEF q, new, out
  <1>5. /\ q \in Seq(B!Rested(Ladder)) /\ new \in Seq(B!Rested(Ladder))
        /\ B!TakesFirst(incoming, q, TradedQty, new)
        /\ trades' = Append(trades, B!FirstTrade(q, TradedQty))
    BY <1>1, BareIsRested DEF FillOfQueue
  <1>6. B!WantsLess(incoming, out, TradedQty) /\ out.qty \in Nat
    BY <1>2, <1>3 DEF B!WantsLess
  <1>7. /\ B!Executed(incoming, q) = TradedQty + B!Executed(out, new)
        /\ B!AfterFills(incoming, q) = B!AfterFills(out, new)
        /\ trades \o B!TradesOf(incoming, q)
             = Append(trades, B!FirstTrade(q, TradedQty)) \o B!TradesOf(out, new)
    BY <1>2, <1>4, <1>5, <1>6, Assumed, B!TakingTheFirst, SMTT(30)
  <1>8. B!Executed(out, new) \in Nat
    <2>1. B!Counted(B!Rested(Ladder))
      BY Assumed, B!RestedCount
    <2>2. B!QtyOf(new, {i \in DOMAIN new : B!Reaches(out, new[i].price)}) \in Nat
      BY <1>5, <2>1, Assumed, B!QtyFacts
    <2> QED
      BY <1>6, <2>2 DEF B!Executed, B!Available, B!Smaller
  <1> QED
    BY <1>5, <1>7, <1>8 DEF q, new, out

\* A fill is a stuttering step of the promise: what the whole call will have done is as before.
LEMMA FillStutters ==
  ASSUME IInv, RefineInv, Fill
  PROVE  UNCHANGED Promise!bookVars
  <1> DEFINE b    == QueuesOf(levels)
             c    == QueuesOf(levels')
             side == TradedSide
             out  == incoming'
  <1>1. /\ ~Idle /\ side \in Sides /\ incoming.side \in Sides /\ side # incoming.side
        /\ TradedQty \in Nat \ {0} /\ incoming.qty \in Nat \ {0}
    BY FillFacts
  <1>2. /\ ~Idle' /\ traded_qty' = traded_qty + TradedQty /\ error' = error
        /\ out.qty = incoming.qty - TradedQty
        /\ out.side = incoming.side /\ out.price = incoming.price
        /\ out.can_rest = incoming.can_rest /\ out.order_id = incoming.order_id
    BY FillChanges
  <1>3. side = OtherSide(incoming.side)
    BY DEF TradedSide
  <1>4. /\ b[side] = QueueIn(levels, side) /\ c[side] = QueueIn(levels', side)
        /\ \A s \in Sides : s # side => s = incoming.side
        /\ b[incoming.side] = c[incoming.side]
    <2>1. QueueIn(levels', incoming.side) = QueueIn(levels, incoming.side)
      BY FillQueues DEF RefineInv
    <2>2. \A s \in Sides : s # side => s = incoming.side
      BY <1>1 DEF Sides
    <2> QED
      BY <2>1, <2>2, <1>1 DEF QueuesOf
  <1>5. /\ B!Executed(incoming, b[side]) = TradedQty + B!Executed(out, c[side])
        /\ B!AfterFills(incoming, b[side]) = B!AfterFills(out, c[side])
        /\ trades \o B!TradesOf(incoming, b[side]) = trades' \o B!TradesOf(out, c[side])
        /\ B!Executed(out, c[side]) \in Nat
    BY <1>4, FillLeavesTheRest
  <1>6. IInv'
    BY FillPreserves
  <1>7. Book = b /\ Book' = c
    BY <1>6, BookIs DEF IInv
  <1>8. Opposing = b[side] /\ Opposing' = c[side]
    BY <1>2, <1>3, <1>7 DEF Opposing, OtherSide
  <1> HIDE DEF b, c, side, out
  <1>9. incoming.qty - B!Executed(incoming, b[side]) = out.qty - B!Executed(out, c[side])
    BY <1>1, <1>2, <1>5
  <1>10. traded_qty + B!Executed(incoming, b[side]) = traded_qty' + B!Executed(out, c[side])
    BY <1>1, <1>2, <1>5 DEF RefineInv
  <1>11. B!Matched(b, incoming, incoming.can_rest) = B!Matched(c, out, out.can_rest)
    <2>1. side = B!OtherSide(incoming.side) /\ B!Sides = Sides
      BY <1>3, SameNames
    <2>2. \A s \in B!Sides : s # B!OtherSide(incoming.side) => b[s] = c[s]
      BY <2>1, <1>4
    <2>3. B!Matched(b, incoming, incoming.can_rest) = B!Matched(c, out, incoming.can_rest)
      BY <2>1, <2>2, <1>2, <1>5, <1>9, Assumed, B!MatchedAlike
    <2> QED
      BY <2>3, <1>2
  <1>12. AbstractQueue' = AbstractQueue
    BY <1>1, <1>2, <1>7, <1>11, SameMatching DEF AbstractQueue, out
  <1>13. AbstractTrades' = AbstractTrades
    BY <1>1, <1>2, <1>5, <1>8, SameMatching DEF AbstractTrades, out
  <1>14. AbstractTradedQty' = AbstractTradedQty
    BY <1>1, <1>2, <1>8, <1>10, SameMatching DEF AbstractTradedQty, out
  <1> QED
    BY <1>2, <1>12, <1>13, <1>14 DEF Promise!bookVars

\* The return is a stuttering step of the promise.
LEMMA ReturnStutters ==
  ASSUME IInv, RefineInv, Return
  PROVE  UNCHANGED Promise!bookVars
  <1> DEFINE side  == incoming.side
             other == OtherSide(side)
             b     == QueuesOf(levels)
             rested == [order_id |-> incoming.order_id, price |-> incoming.price,
                        qty |-> incoming.qty]
  <1>1. ~Idle /\ ~Matching /\ Idle' /\ UNCHANGED <<traded_qty, trades, error>>
    BY DEF Return, Idle
  <1>2. /\ side \in Sides /\ incoming.qty \in Nat /\ other # side /\ other \in Sides
        /\ QueueIn(levels', other) = QueueIn(levels, other)
        /\ QueueIn(levels', side) =
             IF incoming.qty > 0 /\ incoming.can_rest
             THEN PT!Enqueue(side, QueueIn(levels, side), rested)
             ELSE QueueIn(levels, side)
    BY ReturnQueues
  <1>3. b[other] = QueueIn(levels, other) /\ b[side] = QueueIn(levels, side)
    BY <1>2 DEF QueuesOf
  <1>4. /\ B!TradesOf(incoming, b[other]) = <<>>
        /\ B!AfterFills(incoming, b[other]) = b[other]
        /\ B!Executed(incoming, b[other]) = 0
    BY <1>1, <1>3, NothingReached DEF RefineInv
  <1>5. IInv'
    BY ReturnPreserves
  <1>6. Book = b /\ Book' = QueuesOf(levels')
    BY <1>5, BookIs DEF IInv
  <1>7. Opposing = b[other]
    BY <1>6 DEF Opposing
  <1>8. AbstractTrades' = AbstractTrades
    <2>1. trades \o <<>> = trades
      BY DEF RefineInv
    <2> QED
      BY <2>1, <1>1, <1>4, <1>7, SameMatching DEF AbstractTrades
  <1>9. AbstractTradedQty' = AbstractTradedQty
    <2>1. traded_qty + 0 = traded_qty
      BY DEF RefineInv
    <2> QED
      BY <2>1, <1>1, <1>4, <1>7, SameMatching DEF AbstractTradedQty
  <1>10. B!Matched(b, incoming, incoming.can_rest) = QueuesOf(levels')
    <2> DEFINE left == incoming.qty - B!Executed(incoming, b[other])
               matched(s) ==
                 IF s = other THEN B!AfterFills(incoming, b[s])
                 ELSE IF left > 0 /\ incoming.can_rest
                      THEN B!Enqueue(s, b[s], [order_id |-> incoming.order_id,
                                               price |-> incoming.price, qty |-> left])
                      ELSE b[s]
    <2>1. B!Matched(b, incoming, incoming.can_rest) = [s \in Sides |-> matched(s)]
      BY SameNames DEF B!Matched
    <2>2. left = incoming.qty
      BY <1>2, <1>4
    <2> HIDE DEF left, side, other, b
    <2>3. matched(other) = QueueIn(levels', other)
      BY <1>2, <1>3, <1>4
    <2>4. matched(side) = QueueIn(levels', side)
      BY <2>2, <1>2, <1>3, SameNames
    <2>5. \A s \in Sides : s = other \/ s = side
      BY <1>2 DEF Sides
    <2> HIDE DEF matched
    <2>6. \A s \in Sides : matched(s) = QueueIn(levels', s)
      BY <2>3, <2>4, <2>5
    <2> QED
      BY <2>1, <2>6 DEF QueuesOf
  <1> HIDE DEF b
  <1>11. AbstractQueue' = AbstractQueue
    BY <1>1, <1>6, <1>10, SameMatching DEF AbstractQueue
  <1> QED
    BY <1>1, <1>8, <1>9, <1>11 DEF Promise!bookVars

-------------------------------------------------------------------------------
(***************************************************************************)
(* Each call of the ladder is an atomic call of the promise.               *)
(***************************************************************************)
\* An id rests in the queues when it is in the index, on the side of its order.
LEMMA RestingIsIndexed ==
  ASSUME SoundNow, NEW id
  PROVE  /\ Promise!Resting(QueuesOf(levels), id) <=> id \in DOMAIN order_index
         /\ id \in DOMAIN order_index => Promise!SideOf(QueuesOf(levels), id) = OrderOf(id).side
  <1> DEFINE b    == QueuesOf(levels)
             side == OrderOf(id).side
  <1>1. LevelsGood(levels) /\ IndexGood(levels, order_index)
    BY DEF SoundNow, Sound
  <1>2. \A s \in Sides : b[s] = QueueOf(HeldAt(levels, s), s)
    BY DEF QueuesOf, QueueIn
  <1>3. ASSUME NEW s \in Sides, id \notin DOMAIN order_index \/ s # side
        PROVE  PT!Positions(b[s], id) = {}
    <2> DEFINE at == HeldAt(levels, s)
    <2>1. at \in [Ladder -> Seq(Bare)]
      BY <1>1, HeldFacts DEF Listed
    <2>2. \A p \in Ladder : \A j \in 1..Len(at[p]) : at[p][j].order_id # id
      <3> SUFFICES ASSUME NEW p \in Ladder, NEW j \in 1..Len(at[p]), at[p][j].order_id = id
                   PROVE  FALSE
        OBVIOUS
      <3>1. Sits(levels[p].orders, s) /\ at[p] = BareOf(levels[p].orders)
        <4>1. at[p] # <<>>
          BY EmptySeq
        <4> QED
          BY <4>1 DEF HeldAt
      <3>2. levels[p].orders \in Seq(Order) /\ DOMAIN levels[p].orders = 1..Len(levels[p].orders)
        BY LevelFacts
      <3>3. j \in DOMAIN levels[p].orders /\ levels[p].orders[j].order_id = id
        <4>1. j \in 1..Len(levels[p].orders) /\ at[p][j] = BareOne(levels[p].orders[j])
          BY <3>1, <3>2, BareFacts
        <4>2. at[p][j].order_id = levels[p].orders[j].order_id
          BY <4>1 DEF BareOne
        <4> QED
          BY <3>2, <4>1, <4>2
      <3>4. id \in DOMAIN order_index /\ order_index[id] = p
        BY <3>3, OrderFacts
      <3>5. OrderOf(id) = levels[p].orders[j]
        <4>1. /\ Position(levels[p].orders, id) \in DOMAIN levels[p].orders
              /\ OrderOf(id) = levels[p].orders[Position(levels[p].orders, id)]
              /\ OrderOf(id).order_id = id
          BY <3>4, IndexedOrder DEF OrderOf
        <4>2. Position(levels[p].orders, id) = j
          BY <3>3, <4>1, LevelFacts DEF PlacedAt
        <4> QED
          BY <4>1, <4>2
      <3>6. s = side
        BY <3>1, <3>3, <3>5, OneSided
      <3> QED
        BY <1>3, <3>4, <3>6
    <2> QED
      BY <2>1, <2>2, <1>2, NoPosition
  <1>4. ASSUME id \in DOMAIN order_index
        PROVE  side \in Sides /\ PT!Positions(b[side], id) # {}
    <2> DEFINE p  == order_index[id]
               i  == Position(levels[p].orders, id)
               at == HeldAt(levels, side)
    <2>1. /\ p \in Ladder /\ i \in DOMAIN levels[p].orders /\ side \in Sides
          /\ OrderOf(id) = levels[p].orders[i] /\ levels[p].orders[i].order_id = id
      BY <1>4, IndexedOrder DEF OrderOf
    <2>2. levels[p].orders \in Seq(Order) /\ DOMAIN levels[p].orders = 1..Len(levels[p].orders)
      BY <2>1, LevelFacts
    <2>3. Sits(levels[p].orders, side)
      BY <2>1, OneSided
    <2> HIDE DEF i, p
    <2>4. at[p] = BareOf(levels[p].orders)
      BY <2>1, <2>3 DEF HeldAt
    <2>5. i \in 1..Len(at[p]) /\ at[p][i].order_id = id
      <3>1. i \in 1..Len(at[p]) /\ at[p][i] = BareOne(levels[p].orders[i])
        BY <2>1, <2>2, <2>4, BareFacts
      <3> QED
        BY <3>1, <2>1 DEF BareOne
    <2>6. Listed(at) /\ EachOnce(at) /\ at \in [Ladder -> Seq(Bare)]
      BY <1>1, HeldFacts DEF Listed
    <2>7. PICK ends : Queued(at, side, ends)
      BY <2>1, <2>6, QueueIsJoined
    <2>8. PT!Positions(QueueOf(at, side), id) = {ends[RankOf(side, p) - 1] + i}
      <3> HIDE DEF at, side
      <3> QED
        BY <2>1, <2>5, <2>6, <2>7, PositionOf
    <2> QED
      BY <2>1, <2>8, <1>2
  <1> HIDE DEF b, side
  <1>5. Promise!Resting(b, id) <=> \E s \in Sides : PT!Positions(b[s], id) # {}
    BY SameNames DEF Promise!Resting
  <1>6. ASSUME id \in DOMAIN order_index
        PROVE  Promise!SideOf(b, id) = side
    <2>1. Promise!SideOf(b, id) = CHOOSE s \in Sides : PT!Positions(b[s], id) # {}
      BY SameNames DEF Promise!SideOf
    <2>2. \A s \in Sides : PT!Positions(b[s], id) # {} <=> s = side
      BY <1>3, <1>4, <1>6
    <2>3. side \in Sides
      BY <1>4, <1>6
    <2> QED
      BY <2>1, <2>2, <2>3
  <1> QED
    BY <1>3, <1>4, <1>5, <1>6 DEF b, side

\* The queues an order has left are the withdrawn book of the promise.
LEMMA WithdrawnIs ==
  ASSUME SoundNow, NEW id \in DOMAIN order_index, RemoveOrder(id)
  PROVE  Promise!Withdrawn(QueuesOf(levels), id) = QueuesOf(levels')
  <1> DEFINE b == QueuesOf(levels)
  <1>1. \A s \in Sides : b[s] = QueueIn(levels, s)
    BY DEF QueuesOf
  <1>2. \A s \in Sides : Promise!WithoutOrder(b[s], id) = QueueIn(levels', s)
    BY <1>1, WithdrawnQueues, SameNames
  <1> HIDE DEF b
  <1>3. Promise!Withdrawn(b, id) = [s \in Sides |-> QueueIn(levels', s)]
    BY <1>2, SameNames DEF Promise!Withdrawn
  <1> QED
    BY <1>3 DEF QueuesOf, b

\* Between calls what a client sees is the book itself.
LEMMA IdleBook == SoundNow /\ Idle => AbstractQueue = QueuesOf(levels)
  BY BookIs DEF AbstractQueue

\* What a client sees once a call is refused.
LEMMA RefusedSeen ==
  ASSUME IInv, Idle, NEW reason, reason # "None", Reject(reason)
  PROVE  /\ Promise!Seen'.error # "None"
         /\ Promise!Refuse(QueuesOf(levels), Promise!Seen')
  <1>1. Idle' /\ SoundNow'
    BY RejectPreserves DEF Reject, Idle, IInv
  <1>2. QueuesOf(levels') = QueuesOf(levels)
    BY DEF Reject
  <1>3. Book' = QueuesOf(levels)
    BY <1>1, <1>2, BookIs
  <1>4. /\ AbstractQueue' = QueuesOf(levels) /\ AbstractTrades' = <<>>
        /\ AbstractTradedQty' = AbstractTradedQty
    BY <1>1, <1>3 DEF AbstractQueue, AbstractTrades, AbstractTradedQty, Reject
  <1> QED
    BY <1>4 DEF Promise!Refuse, Promise!Seen, Reject

\* What the call under way reaches is what the request reaches, and its remainder is the same.
Matches(in, call, canRest) ==
  /\ in.qty = call.qty /\ in.side = call.side
  /\ \A p : B!Reaches(in, p) <=> B!Reaches(call, p)
  /\ call.can_rest = canRest
  /\ canRest => in.order_id = call.order_id /\ in.price = call.price

\* What a client will see once an admitted call returns is known at its admission.
LEMMA AdmittedSeen ==
  ASSUME IInv', Idle, ~Idle', trades' = <<>>, traded_qty' = traded_qty, error' = "None",
         NEW in, NEW canRest, Matches(in, incoming', canRest)
  PROVE  Promise!Execute(QueuesOf(levels'), Promise!Seen', in, canRest)
  <1> DEFINE b    == QueuesOf(levels')
             out  == incoming'
             q    == b[OtherSide(in.side)]
  <1>1. Book' = b /\ Opposing' = q
    BY BookIs DEF Opposing, Matches, IInv, OtherSide
  <1>2. q \in Seq(B!Rested(Ladder))
    <2>1. LevelsGood(levels') /\ IndexGood(levels', order_index')
      BY DEF IInv, SoundNow, Sound, LevelsGood, IndexGood, Names, PlacedAt, TotalQty
    <2>2. incoming' \in Call
      BY DEF IInv, CallSound, Call
    <2>3. OtherSide(in.side) \in Sides
      BY <2>2 DEF Call, OtherSide, Sides, Matches
    <2> QED
      BY <2>1, <2>3, QueueIsTyped, BareIsRested DEF QueuesOf
  <1> HIDE DEF b, q, out
  <1>3. /\ B!TradesOf(in, q) = B!TradesOf(out, q) /\ B!Executed(in, q) = B!Executed(out, q)
        /\ B!Matched(b, in, canRest) = B!Matched(b, out, canRest)
    <2>1. /\ in.qty = out.qty /\ in.side = out.side
          /\ \A p : B!Reaches(in, p) <=> B!Reaches(out, p)
          /\ canRest => in.order_id = out.order_id /\ in.price = out.price
      BY DEF out, Matches
    <2> QED
      BY <2>1, Assumed, B!SameReachSameFills, B!SameReachSameBook
  <1>4. AbstractTrades' = B!TradesOf(in, q)
    <2>1. AbstractTrades' = <<>> \o B!TradesOf(out, q)
      BY <1>1, SameMatching DEF AbstractTrades, out
    <2>2. <<>> \o B!TradesOf(in, q) = B!TradesOf(in, q)
      BY <1>2, Assumed, B!TradesAreListed
    <2> QED
      BY <2>1, <2>2, <1>3
  <1>5. AbstractTradedQty' = AbstractTradedQty + B!Executed(in, q)
    BY <1>1, <1>3, SameMatching DEF AbstractTradedQty, out
  <1>6. AbstractQueue' = B!Matched(b, in, canRest)
    BY <1>1, <1>3, SameMatching DEF AbstractQueue, out, Matches
  <1>7. Promise!Execute(b, Promise!Seen', in, canRest)
    BY <1>4, <1>5, <1>6, SamePromise, SameNames DEF Promise!Execute, Promise!Seen, q
  <1> QED
    BY <1>7 DEF b

\* A request reaches what the price it is matched at crosses.
LEMMA RequestReaches ==
  ASSUME NEW add \in AddRequests, NEW p \in Ladder
  PROVE  B!Reaches(add, p) <=> Crosses(add.side, MatchPrice(add), p)
  <1>1. add.side \in Sides /\ add.is_market \in BOOLEAN
    BY LadderAssumption DEF Adds
  <1>2. CASE add.is_market
    <2>1. MatchPrice(add) = IF add.side = "Bid" THEN MaxPrice ELSE MinPrice
      BY <1>2 DEF MatchPrice
    <2>2. Crosses(add.side, MatchPrice(add), p)
      BY <2>1, LadderAssumption DEF Crosses, Ladder
    <2> QED
      BY <2>2, <1>2 DEF B!Reaches
  <1>3. CASE ~add.is_market
    BY <1>3 DEF B!Reaches, B!AtLeastAsGood, Crosses, MatchPrice
  <1> QED
    BY <1>1, <1>2, <1>3

\* An admitted add is for a quantity.
LEMMA AdmittedQty ==
  ASSUME NEW add, AddError(add) = "None"
  PROVE  ~(add.qty <= 0)
  <1> DEFINE price    == MatchPrice(add)
             crossing == MaxCrossingQty(add.side, price, add.qty)
  <1> HIDE DEF price, crossing
  <1> QED
    BY ErrorFacts DEF AddError, price, crossing

\* An add of the ladder is refused without effect or is the atomic add of the promise.
LEMMA AddMaps ==
  ASSUME IInv, NEW add \in AddRequests, Add(add)
  PROVE  Promise!MatchingNext
  <1> DEFINE b == QueuesOf(levels)
  <1>1. Idle /\ SoundNow /\ AbstractQueue = b
    BY IdleBook DEF Add, IInv
  <1>2. CASE AddError(add) # "None"
    <2>1. Reject(AddError(add))
      BY <1>2 DEF Add
    <2>2. Promise!Seen'.error # "None" /\ Promise!Refuse(b, Promise!Seen')
      BY <1>1, <1>2, <2>1, RefusedSeen
    <2> HIDE DEF b
    <2> QED
      BY <1>1, <2>2 DEF Promise!MatchingNext
  <1>3. CASE AddError(add) = "None"
    <2>1. /\ incoming' = [order_id |-> add.order_id, side |-> add.side,
                          price |-> MatchPrice(add), qty |-> add.qty, can_rest |-> CanRest(add),
                          is_market |-> add.is_market, time_in_force |-> add.time_in_force]
          /\ trades' = <<>> /\ error' = "None" /\ levels' = levels /\ traded_qty' = traded_qty
      BY <1>3 DEF Add
    <2>2. ~Idle' /\ IInv'
      BY <2>1, AddPreserves DEF Idle, NoOrder
    <2>3. add.is_market \in BOOLEAN
      BY LadderAssumption DEF Adds
    <2>4. incoming'.can_rest = Promise!CanRest(add)
      <3>1. CanRest(add) <=> Promise!CanRest(add)
        BY <2>3 DEF CanRest, MatchPolicy, Promise!CanRest
      <3>2. CanRest(add) \in BOOLEAN /\ Promise!CanRest(add) \in BOOLEAN
        BY DEF CanRest, Promise!CanRest
      <3> QED
        BY <2>1, <3>1, <3>2
    <2>5. \A p : B!Reaches(add, p) <=> B!Reaches(incoming', p)
      <3>1. /\ incoming'.is_market = add.is_market /\ incoming'.price = MatchPrice(add)
            /\ incoming'.side = add.side
        BY <2>1
      <3>2. CASE add.is_market
        BY <3>1, <3>2 DEF B!Reaches
      <3>3. CASE ~add.is_market
        <4>1. incoming'.price = add.price
          BY <3>1, <3>3 DEF MatchPrice
        <4> QED
          BY <3>1, <4>1 DEF B!Reaches
      <3> QED
        BY <2>3, <3>2, <3>3
    <2>6. Promise!CanRest(add) => add.order_id = incoming'.order_id /\ add.price = incoming'.price
      BY <2>1 DEF Promise!CanRest, MatchPrice
    <2> DEFINE canRest == Promise!CanRest(add)
    <2>7. Matches(add, incoming', canRest)
      BY <2>1, <2>4, <2>5, <2>6 DEF Matches
    <2> HIDE DEF canRest
    <2>8. Promise!Execute(QueuesOf(levels'), Promise!Seen', add, canRest)
      BY <1>1, <2>1, <2>2, <2>7, AdmittedSeen
    <2>9. Promise!Execute(b, Promise!Seen', add, Promise!CanRest(add))
      BY <2>1, <2>8 DEF canRest
    <2>10. add.qty > 0 /\ ~Promise!Resting(b, add.order_id)
      <3>1. add.qty \in Nat /\ ~(add.qty <= 0) /\ add.order_id \notin DOMAIN order_index
        BY <1>1, <1>3, AdmittedAdd, AdmittedQty
      <3> QED
        BY <1>1, <3>1, RestingIsIndexed
    <2> HIDE DEF b
    <2> QED
      BY <1>1, <2>9, <2>10 DEF Promise!MatchingNext
  <1> QED
    BY <1>2, <1>3

\* A cancel of the ladder is the atomic cancel of the promise.
LEMMA CancelMaps ==
  ASSUME IInv, NEW id \in OrderIds, Cancel(id)
  PROVE  Promise!MatchingNext
  <1> DEFINE b == QueuesOf(levels)
  <1>1. Idle /\ SoundNow /\ AbstractQueue = b
    BY IdleBook DEF Cancel, IInv
  <1>2. CASE id \notin DOMAIN order_index
    <2>1. Reject("UnknownOrderId")
      BY <1>2 DEF Cancel
    <2>2. Promise!Seen'.error # "None" /\ Promise!Refuse(b, Promise!Seen')
      <3> DEFINE reason == "UnknownOrderId"
      <3>1. reason # "None" /\ Reject(reason)
        BY <2>1
      <3> HIDE DEF reason, b
      <3> QED
        BY <1>1, <3>1, RefusedSeen DEF b
    <2> HIDE DEF b
    <2> QED
      BY <1>1, <2>2 DEF Promise!MatchingNext
  <1>3. CASE id \in DOMAIN order_index
    <2>1. /\ RemoveOrder(id) /\ error' = "None" /\ Idle'
          /\ traded_qty' = traded_qty /\ trades' = <<>>
      BY <1>1, <1>3 DEF Cancel, Idle
    <2>2. Promise!Withdrawn(b, id) = QueuesOf(levels')
      BY <1>1, <1>3, <2>1, WithdrawnIs
    <2>3. SoundNow'
      BY CancelPreserves DEF IInv
    <2>4. AbstractQueue' = Promise!Withdrawn(b, id)
      <3>1. Book' = QueuesOf(levels')
        BY <2>3, BookIs
      <3> QED
        BY <2>1, <2>2, <3>1 DEF AbstractQueue
    <2>5. AbstractTrades' = <<>> /\ AbstractTradedQty' = AbstractTradedQty
      BY <1>1, <2>1 DEF AbstractTrades, AbstractTradedQty
    <2>6. Promise!Resting(b, id)
      BY <1>1, <1>3, RestingIsIndexed
    <2> HIDE DEF b
    <2>7. Promise!Cancel(b, Promise!Seen', id)
      BY <2>1, <2>4, <2>5, <2>6 DEF Promise!Cancel, Promise!Seen
    <2> QED
      BY <1>1, <2>7 DEF Promise!MatchingNext
  <1> QED
    BY <1>2, <1>3

\* An admitted modify is for a quantity.
LEMMA AdmittedModifyQty ==
  ASSUME NEW id, NEW price, NEW qty, ModifyError(id, price, qty) = "None"
  PROVE  ~(qty <= 0)
  <1> DEFINE own      == IF order_index[id] = price THEN OrderOf(id).qty ELSE 0
             crossing == MaxCrossingQty(OrderOf(id).side, price, qty)
  <1> HIDE DEF own, crossing
  <1> QED
    BY ErrorFacts DEF ModifyError, own, crossing

\* A modify of the ladder is refused without effect or is the atomic modify of the promise.
LEMMA ModifyMaps ==
  ASSUME IInv, NEW id \in OrderIds, NEW price \in RequestPrices, NEW qty \in Quantities,
         Modify(id, price, qty)
  PROVE  Promise!MatchingNext
  <1> DEFINE b == QueuesOf(levels)
  <1>1. Idle /\ SoundNow /\ AbstractQueue = b
    BY IdleBook DEF Modify, IInv
  <1>2. CASE ModifyError(id, price, qty) # "None"
    <2>1. Reject(ModifyError(id, price, qty))
      BY <1>2 DEF Modify
    <2>2. Promise!Seen'.error # "None" /\ Promise!Refuse(b, Promise!Seen')
      BY <1>1, <1>2, <2>1, RefusedSeen
    <2> HIDE DEF b
    <2> QED
      BY <1>1, <2>2 DEF Promise!MatchingNext
  <1>3. CASE ModifyError(id, price, qty) = "None"
    <2> DEFINE in == Promise!Replacement(b, id, price, qty)
    <2>1. /\ RemoveOrder(id)
          /\ incoming' = [order_id |-> id, side |-> OrderOf(id).side, price |-> price,
                          qty |-> qty, can_rest |-> TRUE,
                          is_market |-> FALSE, time_in_force |-> "GTC"]
          /\ trades' = <<>> /\ error' = "None" /\ traded_qty' = traded_qty
      BY <1>3 DEF Modify
    <2>2. id \in DOMAIN order_index /\ qty \in Nat /\ ~(qty <= 0)
      BY <1>1, <1>3, AdmittedModify, AdmittedModifyQty
    <2>3. ~Idle' /\ IInv'
      BY <2>1, ModifyPreserves DEF Idle, NoOrder
    <2>4. Promise!Withdrawn(b, id) = QueuesOf(levels')
      BY <1>1, <2>1, <2>2, WithdrawnIs
    <2>5. in = [order_id |-> id, side |-> OrderOf(id).side, price |-> price, qty |-> qty,
                is_market |-> FALSE]
      <3>1. Promise!SideOf(b, id) = OrderOf(id).side
        BY <1>1, <2>2, RestingIsIndexed
      <3> HIDE DEF b
      <3> QED
        BY <3>1 DEF Promise!Replacement
    <2>6. /\ in.qty = incoming'.qty /\ in.side = incoming'.side
          /\ in.order_id = incoming'.order_id /\ in.price = incoming'.price
          /\ in.is_market = incoming'.is_market /\ incoming'.can_rest = TRUE
      BY <2>1, <2>5
    <2> HIDE DEF in
    <2>7. \A p : B!Reaches(in, p) <=> B!Reaches(incoming', p)
      BY <2>6 DEF B!Reaches
    <2>8. Promise!Execute(QueuesOf(levels'), Promise!Seen', in, TRUE)
      <3> DEFINE canRest == TRUE
      <3>1. Matches(in, incoming', canRest)
        BY <2>6, <2>7 DEF Matches
      <3> HIDE DEF canRest
      <3>2. Promise!Execute(QueuesOf(levels'), Promise!Seen', in, canRest)
        BY <1>1, <2>1, <2>3, <3>1, AdmittedSeen
      <3> QED
        BY <3>2 DEF canRest
    <2>9. Promise!Execute(Promise!Withdrawn(b, id), Promise!Seen', in, TRUE)
      BY <2>4, <2>8
    <2>10. qty > 0 /\ Promise!Resting(b, id)
      BY <1>1, <2>2, RestingIsIndexed
    <2> HIDE DEF b
    <2> QED
      BY <1>1, <2>9, <2>10 DEF Promise!MatchingNext, in
  <1> QED
    BY <1>2, <1>3

\* A match at the end of the ladder reaches it all, a limit what it crosses, and what is
\* reported stays a list of trades.
LEMMA RefineIsKept == IInv /\ RefineInv /\ [Next]_vars => RefineInv'
  <1> SUFFICES ASSUME IInv, RefineInv, [Next]_vars
               PROVE  RefineInv'
    OBVIOUS
  <1>1. <<>> \in Seq(Reported)
    OBVIOUS
  <1>2. ASSUME Idle', trades' = <<>>, traded_qty' = traded_qty
        PROVE  RefineInv'
    BY <1>1, <1>2 DEF RefineInv, ReachInv, Idle, Reported
  <1>3. CASE UNCHANGED vars
    BY <1>3 DEF vars, RefineInv, ReachInv, Idle, B!Reaches, B!AtLeastAsGood
  <1>4. CASE \E add \in AddRequests : Add(add)
    <2>1. PICK add \in AddRequests : Add(add)
      BY <1>4
    <2>2. CASE AddError(add) # "None"
      BY <2>1, <2>2, <1>2 DEF Add, Reject, Idle
    <2>3. CASE AddError(add) = "None"
      <3>1. /\ incoming'.side = add.side /\ incoming'.price = MatchPrice(add)
            /\ incoming'.is_market = add.is_market /\ trades' = <<>> /\ traded_qty' = traded_qty
        BY <2>1, <2>3 DEF Add
      <3>2. \A p \in Ladder : B!Reaches(add, p) <=> Crosses(add.side, MatchPrice(add), p)
        BY RequestReaches
      <3>3. add.is_market \in BOOLEAN
        BY LadderAssumption DEF Adds
      <3>4. \A p \in Ladder : B!Reaches(incoming', p) <=> Crosses(incoming'.side, incoming'.price, p)
        <4>1. CASE add.is_market
          BY <4>1, <3>1, <3>2 DEF B!Reaches
        <4>2. CASE ~add.is_market
          BY <4>2, <3>1 DEF B!Reaches, B!AtLeastAsGood, Crosses
        <4> QED
          BY <3>3, <4>1, <4>2
      <3>5. ReachInv'
        BY <3>4 DEF ReachInv, Crosses, Ladder
      <3> QED
        BY <3>1, <3>5, <1>1 DEF RefineInv, Reported
    <2> QED
      BY <2>2, <2>3
  <1>5. CASE \E id \in OrderIds : Cancel(id)
    BY <1>5, <1>2 DEF Cancel, Reject, Idle
  <1>6. CASE \E id \in OrderIds, price \in RequestPrices, qty \in Quantities :
               Modify(id, price, qty)
    <2>1. PICK id \in OrderIds, price \in RequestPrices, qty \in Quantities :
            Modify(id, price, qty)
      BY <1>6
    <2>2. CASE ModifyError(id, price, qty) # "None"
      BY <2>1, <2>2, <1>2 DEF Modify, Reject, Idle
    <2>3. CASE ModifyError(id, price, qty) = "None"
      <3>1. ~incoming'.is_market /\ trades' = <<>> /\ traded_qty' = traded_qty
        BY <2>1, <2>3 DEF Modify
      <3>2. \A p \in Ladder : B!Reaches(incoming', p) <=> Crosses(incoming'.side, incoming'.price, p)
        BY <3>1 DEF B!Reaches, B!AtLeastAsGood, Crosses
      <3>3. ReachInv'
        BY <3>2 DEF ReachInv, Crosses, Ladder
      <3> QED
        BY <3>1, <3>3, <1>1 DEF RefineInv, Reported
    <2> QED
      BY <2>2, <2>3
  <1>7. CASE Fill
    <2>1. /\ ~Idle /\ incoming'.side = incoming.side /\ incoming'.price = incoming.price
          /\ incoming'.is_market = incoming.is_market
          /\ traded_qty' = traded_qty + TradedQty
          /\ trades' = Append(trades, [resting_order_id |-> TradedOrders[1].order_id,
                                       price |-> TradedOrders[1].price, qty |-> TradedQty])
      BY <1>7, FillFacts, FillChanges
    <2>2. /\ TradedQty \in Nat /\ TradedOrders \in Seq(Order) /\ 1 \in 1..Len(TradedOrders)
          /\ TradedPrice \in Ladder /\ TradedOrders[1].price = TradedPrice
      BY <1>7, FillFacts
    <2>3. [resting_order_id |-> TradedOrders[1].order_id,
           price |-> TradedOrders[1].price, qty |-> TradedQty] \in Reported
      <3>1. TradedOrders[1] \in Order
        BY <2>2
      <3> QED
        BY <2>2, <3>1 DEF Order, Reported
    <2>4. trades' \in Seq(Reported) /\ traded_qty' \in Nat
      BY <2>1, <2>2, <2>3 DEF RefineInv
    <2>5. \A p \in Ladder : B!Reaches(incoming, p) <=> Crosses(incoming.side, incoming.price, p)
      BY <2>1 DEF RefineInv, ReachInv
    <2>6. \A p \in Ladder : B!Reaches(incoming', p) <=> Crosses(incoming'.side, incoming'.price, p)
      BY <2>1, <2>5 DEF B!Reaches, B!AtLeastAsGood, Crosses
    <2>7. ReachInv'
      BY <2>6 DEF ReachInv, Crosses, Ladder
    <2> QED
      BY <2>4, <2>7 DEF RefineInv, Reported
  <1>8. CASE Return
    BY <1>8 DEF Return, RefineInv, ReachInv, Idle, Reported
  <1> QED
    BY <1>3, <1>4, <1>5, <1>6, <1>7, <1>8 DEF Next

\* Every step of the ladder is a call of the promise or changes nothing a client sees.
LEMMA StepMaps ==
  IInv /\ RefineInv /\ [Next]_vars => [Promise!MatchingNext]_(Promise!bookVars)
  <1> SUFFICES ASSUME IInv, RefineInv, [Next]_vars
               PROVE  Promise!MatchingNext \/ UNCHANGED Promise!bookVars
    OBVIOUS
  <1>1. CASE UNCHANGED vars
    <2>1. Book' = Book
      <3>1. IInv'
        BY StepPreserves
      <3>2. levels' = levels
        BY <1>1 DEF vars
      <3>3. Book = QueuesOf(levels) /\ Book' = QueuesOf(levels')
        BY <3>1, BookIs DEF IInv
      <3> QED
        BY <3>2, <3>3
    <2>2. Opposing' = Opposing /\ Idle' = Idle /\ incoming' = incoming
      BY <1>1, <2>1 DEF vars, Opposing, Idle, OtherSide
    <2>3. AbstractQueue' = AbstractQueue
      BY <2>1, <2>2, SameMatching DEF AbstractQueue
    <2>4. AbstractTrades' = AbstractTrades /\ AbstractTradedQty' = AbstractTradedQty
      BY <1>1, <2>2, SameMatching DEF vars, AbstractTrades, AbstractTradedQty
    <2> QED
      BY <1>1, <2>3, <2>4 DEF vars, Promise!bookVars
  <1>2. CASE \E add \in AddRequests : Add(add)
    BY <1>2, AddMaps
  <1>3. CASE \E id \in OrderIds : Cancel(id)
    BY <1>3, CancelMaps
  <1>4. CASE \E id \in OrderIds, price \in RequestPrices, qty \in Quantities :
               Modify(id, price, qty)
    BY <1>4, ModifyMaps
  <1>5. CASE Fill
    BY <1>5, FillStutters DEF Promise!bookVars
  <1>6. CASE Return
    BY <1>6, ReturnStutters DEF Promise!bookVars
  <1> QED
    BY <1>1, <1>2, <1>3, <1>4, <1>5, <1>6 DEF Next

\* The empty ladder is the empty promise.
LEMMA InitMaps == Init => Promise!Init /\ RefineInv
  <1> SUFFICES ASSUME Init PROVE Promise!Init /\ RefineInv
    OBVIOUS
  <1>1. /\ Idle /\ levels = [price \in Ladder |-> [total_qty |-> 0, orders |-> <<>>]]
        /\ trades = <<>> /\ traded_qty = 0 /\ error = "None"
    BY DEF Init, Idle
  <1>2. SoundNow /\ LevelsGood(levels) /\ IndexGood(levels, order_index)
    BY InitEstablishes DEF IInv, SoundNow, Sound
  <1>3. ASSUME NEW side \in Sides
        PROVE  QueueIn(levels, side) = <<>>
    <2> DEFINE at == HeldAt(levels, side)
               q  == QueueIn(levels, side)
    <2>1. /\ at \in [Ladder -> Seq(Bare)] /\ q \in Seq(Bare)
          /\ \E ends : Queued(at, side, ends)
      BY <1>2, HeldFacts, QueueIsTyped DEF Listed
    <2>2. \A p \in Ladder : at[p] = <<>>
      BY <1>1 DEF HeldAt, Sits
    <2>3. PICK ends : Queued(at, side, ends)
      BY <2>1
    <2> HIDE DEF at
    <2>4. ASSUME NEW i \in 1..Len(q)
          PROVE  FALSE
      <3>1. i \in 1..Len(QueueOf(at, side))
        BY DEF QueueIn, at
      <3>2. PICK p \in Ladder : \E j : ComesFrom(at, side, ends, i, p, j)
        BY <2>1, <2>3, <3>1, EveryPlaceIsInAList
      <3>3. PICK j : j \in 1..Len(at[p])
        BY <3>2 DEF ComesFrom
      <3>4. at[p] = <<>>
        BY <2>2
      <3> QED
        BY <3>3, <3>4
    <2> HIDE DEF q
    <2> QED
      BY <2>1, <2>4, EmptySeq DEF q
  <1>4. AbstractQueue = [side \in Sides |-> <<>>]
    <2>1. QueuesOf(levels) = [side \in Sides |-> <<>>]
      BY <1>3 DEF QueuesOf
    <2> QED
      BY <1>1, <1>2, <2>1, IdleBook
  <1>5. AbstractTrades = <<>> /\ AbstractTradedQty = 0
    BY <1>1 DEF AbstractTrades, AbstractTradedQty
  <1> QED
    BY <1>1, <1>4, <1>5, SameNames DEF Promise!Init, RefineInv, ReachInv

\* A call of the ladder is refused without effect or has the effect of one atomic match on
\* the price-time queues: the same trades in the same order, the same resting orders.
THEOREM LadderIsPriceTime == Spec => ImplementsPriceTimeMatching
  <1>1. Init => Promise!Init /\ RefineInv
    BY InitMaps
  <1>2. IInv /\ RefineInv /\ [Next]_vars => RefineInv'
    BY RefineIsKept
  <1>3. IInv /\ RefineInv /\ [Next]_vars => [Promise!MatchingNext]_(Promise!bookVars)
    BY StepMaps
  <1>4. Spec => []IInv
    BY InvariantHolds
  <1> QED
    BY <1>1, <1>2, <1>3, <1>4, PTL DEF Spec, ImplementsPriceTimeMatching, Promise!MatchingSpec

(***************************************************************************)
(* The scan of ask levels.  From a word it takes the lowest bit and clears *)
(* the lowest bit, so unlike the scan of bid levels it misses none and     *)
(* takes none twice.                                                       *)
(***************************************************************************)
\* The members of a set of numbers, each once and in order.
Rising(s, S) ==
  /\ s \in Seq(S)
  /\ \A i, j \in 1..Len(s) : i < j => s[i] < s[j]
  /\ \A c \in S : \E i \in 1..Len(s) : s[i] = c

\* The least member goes before the others.
LEMMA LeastComesFirst ==
  ASSUME NEW S \in SUBSET Nat, NEW x \in S, \A c \in S : x <= c, NEW s, Rising(s, S \ {x})
  PROVE  Rising(<<x>> \o s, S)
  <1> DEFINE new == <<x>> \o s
  <1>1. s \in Seq(S) /\ Len(s) \in Nat /\ <<x>> \in Seq(S) /\ Len(<<x>>) = 1
    BY LenProperties DEF Rising
  <1>2. /\ new \in Seq(S) /\ Len(new) = Len(s) + 1 /\ new[1] = x
        /\ \A i \in 1..Len(s) : new[i + 1] = s[i]
    <2>1. new \in Seq(S) /\ Len(new) = Len(s) + 1
      BY <1>1, ConcatProperties
    <2>2. new[1] = x
      BY <1>1
    <2>3. ASSUME NEW i \in 1..Len(s)
          PROVE  new[i + 1] = s[i]
      <3>1. i + 1 \in 1..(Len(<<x>>) + Len(s)) /\ ~(i + 1 <= Len(<<x>>)) /\ (i + 1) - Len(<<x>>) = i
        BY <1>1
      <3> QED
        BY <3>1, <1>1, ConcatProperties
    <2> QED
      BY <2>1, <2>2, <2>3
  <1> HIDE DEF new
  <1>3. \A i \in 1..Len(s) : s[i] \in S \ {x}
    BY ElementOfSeq DEF Rising
  <1>4. ASSUME NEW i \in 1..Len(new), NEW j \in 1..Len(new), i < j
        PROVE  new[i] < new[j]
    <2>1. j - 1 \in 1..Len(s) /\ new[j] = s[j - 1]
      <3>1. j - 1 \in 1..Len(s) /\ (j - 1) + 1 = j
        BY <1>1, <1>2, <1>4
      <3> QED
        BY <3>1, <1>2
    <2>2. CASE i = 1
      <3>1. s[j - 1] \in S /\ s[j - 1] # x
        BY <2>1, <1>3
      <3>2. x \in Nat /\ s[j - 1] \in Nat /\ x <= s[j - 1]
        BY <3>1
      <3> QED
        BY <3>1, <3>2, <2>1, <2>2, <1>2
    <2>3. CASE i # 1
      <3>1. i - 1 \in 1..Len(s) /\ (i - 1) + 1 = i /\ i - 1 < j - 1
        BY <1>1, <1>2, <1>4, <2>3
      <3>2. new[i] = s[i - 1]
        BY <3>1, <1>2
      <3> QED
        BY <3>1, <3>2, <2>1 DEF Rising
    <2> QED
      BY <2>2, <2>3
  <1>5. ASSUME NEW c \in S
        PROVE  \E i \in 1..Len(new) : new[i] = c
    <2>1. CASE c = x
      <3>1. 1 \in 1..Len(new)
        BY <1>1, <1>2
      <3> QED
        BY <3>1, <2>1, <1>2
    <2>2. CASE c # x
      <3>1. PICK i \in 1..Len(s) : s[i] = c
        BY <2>2 DEF Rising
      <3>2. i + 1 \in 1..Len(new) /\ new[i + 1] = c
        BY <3>1, <1>1, <1>2
      <3> QED
        BY <3>2
    <2> QED
      BY <2>1, <2>2
  <1> QED
    BY <1>2, <1>4, <1>5 DEF Rising, new

\* The bits of a word, or of a bitmap of words.
LEMMA AskScanRises ==
  ASSUME NEW bits \in SUBSET Indexes
  PROVE  Rising(ScanOf("Ask", bits), bits)
  <1>1. PICK scan : ScansOn("Ask", SUBSET Indexes, scan) /\ ScanOf("Ask", bits) = scan[bits]
    BY ScanIsRecursive
  <1> DEFINE good == {n \in Nat : \A b \in Upper(n) : Rising(scan[b], b)}
  <1>2. \A b \in SUBSET Indexes :
          scan[b] = IF b = {} THEN <<>> ELSE <<Lowest(b)>> \o scan[b \ {Lowest(b)}]
    BY <1>1 DEF ScansOn, FirstBit
  <1>3. Rising(scan[{}], {})
    <2>1. scan[{}] = <<>>
      BY <1>2
    <2>2. <<>> \in Seq({}) /\ 1..Len(<<>>) = {}
      BY EmptySeq
    <2> QED
      BY <2>1, <2>2 DEF Rising
  <1>4. 0 \in good
    BY <1>3, UpperFacts
  <1>5. ASSUME NEW n \in Nat, n \in good
        PROVE  n + 1 \in good
    <2> SUFFICES ASSUME NEW b \in Upper(n + 1) PROVE Rising(scan[b], b)
      OBVIOUS
    <2>1. b \in SUBSET Indexes
      BY DEF Upper
    <2>2. CASE b = {}
      BY <2>2, <1>3
    <2>3. CASE b # {}
      <3>1. b \ {Lowest(b)} \in Upper(n)
        BY <2>3, UpperFacts
      <3>2. Rising(scan[b \ {Lowest(b)}], b \ {Lowest(b)})
        BY <3>1, <1>5
      <3>3. Lowest(b) \in b /\ \A c \in b : Lowest(b) <= c
        BY <2>1, <2>3, LowestIsFirst
      <3>4. b \in SUBSET Nat
        BY <2>1, IndexFacts
      <3>5. scan[b] = <<Lowest(b)>> \o scan[b \ {Lowest(b)}]
        BY <2>1, <2>3, <1>2
      <3> QED
        BY <3>2, <3>3, <3>4, <3>5, LeastComesFirst
    <2> QED
      BY <2>2, <2>3
  <1>6. LastIndex + 1 \in good
    <2> HIDE DEF good
    <2>1. LastIndex + 1 \in Nat
      BY IndexFacts
    <2> QED
      BY <1>4, <1>5, <2>1, NaturalsAreReached
  <1> QED
    BY <1>1, <1>6, UpperFacts

\* The members of sets that lie one behind the other, put end to end.
Divided(S, n, lists, part) ==
  /\ \A k \in 1..n : Rising(lists[k], part[k])
  /\ \A k, m \in 1..n : k < m => \A a \in part[k], b \in part[m] : a < b
  /\ \A c \in S : \E k \in 1..n : c \in part[k]

LEMMA RisingEndToEnd ==
  ASSUME NEW S \in SUBSET Nat, NEW n \in Nat, NEW lists, ListsIn(S, lists, n),
         NEW ends, NEW q \in Seq(S), EndToEnd(lists, n, ends, q),
         NEW part, Divided(S, n, lists, part)
  PROVE  Rising(q, S)
  <1>1. \A k \in 1..n : \A i \in 1..Len(lists[k]) :
          /\ Within(ends, q, k, i)
          /\ q[ends[k - 1] + i] = lists[k][i]
    BY PlaceIsWithin DEF EndToEnd
  <1>2. \A k \in 1..n : \A i \in 1..Len(lists[k]) : lists[k][i] \in part[k]
    BY ElementOfSeq DEF Divided, Rising
  <1>3. ASSUME NEW i \in 1..Len(q), NEW j \in 1..Len(q), i < j
        PROVE  q[i] < q[j]
    <2>1. InList(lists, n, ends, q, i) /\ InList(lists, n, ends, q, j)
      BY PlaceInList
    <2>2. PICK k \in 1..n : \E a \in 1..Len(lists[k]) : i = ends[k - 1] + a /\ q[i] = lists[k][a]
      BY <2>1 DEF InList
    <2>3. PICK a \in 1..Len(lists[k]) : i = ends[k - 1] + a /\ q[i] = lists[k][a]
      BY <2>2
    <2>4. PICK m \in 1..n : \E b \in 1..Len(lists[m]) : j = ends[m - 1] + b /\ q[j] = lists[m][b]
      BY <2>1 DEF InList
    <2>5. PICK b \in 1..Len(lists[m]) : j = ends[m - 1] + b /\ q[j] = lists[m][b]
      BY <2>4
    <2>6. Within(ends, q, k, a) /\ Within(ends, q, m, b)
      BY <1>1
    <2>7. CASE k = m
      <3>1. a < b
        BY <2>3, <2>5, <2>6, <2>7, <1>3 DEF Within
      <3> QED
        BY <3>1, <2>3, <2>5, <2>7 DEF Divided, Rising
    <2>8. CASE k < m
      <3>1. lists[k][a] \in part[k] /\ lists[m][b] \in part[m]
        BY <1>2
      <3> QED
        BY <3>1, <2>3, <2>5, <2>8 DEF Divided
    <2>9. CASE m < k
      <3>1. ends[m] <= ends[k - 1]
        <4>1. m \in 0..n /\ k - 1 \in 0..n /\ m <= k - 1
          BY <2>9
        <4> QED
          BY <4>1, EndsGrow
      <3>2. /\ ends[m - 1] + b <= ends[m] /\ ends[m] \in Nat
            /\ ends[k - 1] \in Nat /\ a \in Nat /\ 1 <= a
        BY <2>6 DEF Within
      <3>3. ends[m - 1] + b < ends[k - 1] + a
        <4>1. ends[m - 1] \in Nat /\ b \in Nat
          BY <2>6 DEF Within
        <4> QED
          BY <4>1, <3>1, <3>2
      <3> QED
        BY <3>3, <2>3, <2>5, <1>3
    <2> QED
      BY <2>7, <2>8, <2>9
  <1>4. ASSUME NEW c \in S
        PROVE  \E i \in 1..Len(q) : q[i] = c
    <2>1. PICK k \in 1..n : c \in part[k]
      BY DEF Divided
    <2>2. PICK a \in 1..Len(lists[k]) : lists[k][a] = c
      BY <2>1 DEF Divided, Rising
    <2>3. Within(ends, q, k, a) /\ q[ends[k - 1] + a] = c
      BY <2>2, <1>1
    <2>4. ends[k - 1] + a \in 1..Len(q)
      BY <2>3 DEF Within
    <2> QED
      BY <2>3, <2>4
  <1> QED
    BY <1>3, <1>4 DEF Rising

\* max_crossing_qty visits every level of the asks once, the best first.
LEMMA AsksAreVisited ==
  ASSUME BitsGood(levels, occupied, word_occupied)
  PROVE  Rising(Visited("Ask"), occupied["Ask"])
  <1> DEFINE asks  == occupied["Ask"]
             words == ScanOf("Ask", word_occupied["Ask"])
             n     == Len(words)
             part  == [k \in 1..n |-> BitsOf("Ask", words[k])]
             lists == [k \in DOMAIN words |-> ScanOf("Ask", BitsOf("Ask", words[k]))]
  <1>1. asks \in SUBSET Indexes /\ asks \in SUBSET Nat /\ word_occupied["Ask"] \in SUBSET Indexes
    BY IndexFacts DEF BitsGood, Sides
  <1>2. word_occupied["Ask"] = {WordOf(i) : i \in asks}
    BY DEF BitsGood, Sides
  <1>3. Rising(words, word_occupied["Ask"])
    BY <1>1, AskScanRises
  <1>4. n \in Nat /\ DOMAIN words = 1..n
    BY <1>3, LenProperties DEF Rising
  <1> HIDE DEF words, n
  <1>5. ASSUME NEW k \in 1..n
        PROVE  Rising(lists[k], part[k]) /\ lists[k] \in Seq(asks)
    <2>1. part[k] \in SUBSET Indexes /\ part[k] \subseteq asks
      BY <1>1 DEF BitsOf
    <2>2. lists[k] = ScanOf("Ask", part[k])
      BY <1>4
    <2> HIDE DEF lists, part
    <2>3. Rising(lists[k], part[k])
      BY <2>1, <2>2, AskScanRises
    <2>4. lists[k] \in Seq(part[k])
      BY <2>3 DEF Rising
    <2> QED
      BY <2>1, <2>3, <2>4
  <1>6. lists \in Seq(Seq(asks)) /\ Len(lists) = n
    <2>1. lists = [k \in 1..n |-> lists[k]]
      BY <1>4
    <2> HIDE DEF lists
    <2> QED
      BY <2>1, <1>4, <1>5, IsASeq
  <1>7. ASSUME NEW k \in 1..n, NEW m \in 1..n, k < m, NEW a \in part[k], NEW b \in part[m]
        PROVE  a < b
    <2>1. a \in asks /\ b \in asks /\ WordOf(a) = words[k] /\ WordOf(b) = words[m]
      BY DEF BitsOf
    <2>2. words[k] < words[m]
      BY <1>7, <1>3 DEF Rising, n
    <2>3. a \in Nat /\ b \in Nat
      BY <2>1, <1>1
    <2>4. b <= a => WordOf(b) \in Nat /\ WordOf(a) \in Nat /\ WordOf(b) <= WordOf(a)
      BY <2>3, WordsInOrder
    <2> QED
      BY <2>1, <2>2, <2>3, <2>4
  <1>8. ASSUME NEW c \in asks
        PROVE  \E k \in 1..n : c \in part[k]
    <2>1. WordOf(c) \in word_occupied["Ask"]
      BY <1>2
    <2>2. PICK k \in 1..n : words[k] = WordOf(c)
      BY <2>1, <1>3 DEF Rising, n
    <2>3. c \in part[k]
      BY <2>2 DEF BitsOf
    <2> QED
      BY <2>3
  <1>9. Divided(asks, n, lists, part)
    BY <1>5, <1>7, <1>8 DEF Divided
  <1>10. Visited("Ask") = FlattenSeq(lists)
    BY DEF Visited, words
  <1> HIDE DEF asks, part, lists
  <1>11. PICK ends : EndToEnd(lists, n, ends, FlattenSeq(lists))
    BY <1>6, FlattenFacts
  <1>12. FlattenSeq(lists) \in Seq(asks) /\ ListsIn(asks, lists, n)
    BY <1>4, <1>5, <1>6, FlattenFacts DEF ListsIn
  <1>13. Rising(FlattenSeq(lists), asks)
    BY <1>1, <1>4, <1>9, <1>11, <1>12, RisingEndToEnd
  <1> QED
    BY <1>10, <1>13 DEF asks

(***************************************************************************)
(* What the orders of a queue add up to is what its lists add up to.       *)
(***************************************************************************)
\* The operators of the order book are those used here.
LEMMA SameLists ==
  /\ \A S, lists, n : B!ListsIn(S, lists, n) <=> ListsIn(S, lists, n)
  /\ \A lists, n, ends, q : B!EndToEnd(lists, n, ends, q) <=> EndToEnd(lists, n, ends, q)
  /\ \A Entry : B!Counted(Entry) <=> Counted(Entry)
  /\ \A orders : B!SumOfQty(orders) = SumOfQty(orders)
  BY DEF B!ListsIn, ListsIn, B!EndToEnd, EndToEnd, B!Counted, Counted, B!SumOfQty, SumOfQty

\* A published order has a quantity that counts.
LEMMA BareCounts == Counted(Bare) /\ B!Counted(Bare)
  BY DEF Counted, B!Counted, Bare

\* What the book publishes of a level adds up to what the level holds.
LEMMA BareSum ==
  ASSUME NEW orders \in Seq(Order)
  PROVE  SumOfQty(BareOf(orders)) = TotalQty(orders)
  <1> DEFINE bare == BareOf(orders)
             len  == Len(orders)
  <1>1. /\ len \in Nat /\ bare \in Seq(Bare) /\ Len(bare) = len
        /\ \A i \in 1..len : bare[i].qty = orders[i].qty
    <2>1. /\ len \in Nat /\ bare \in Seq(Bare) /\ Len(bare) = len
          /\ \A i \in 1..len : bare[i] = BareOne(orders[i])
      BY BareFacts
    <2>2. \A i \in 1..len : BareOne(orders[i]).qty = orders[i].qty
      BY DEF BareOne
    <2> HIDE DEF bare, len
    <2> QED
      BY <2>1, <2>2
  <1> HIDE DEF bare
  <1>2. PICK f : RunningSum(orders, f) /\ SumOfQty(orders) = f[len]
    BY <1>1, SumIsRunning
  <1>3. PICK g : RunningSum(bare, g) /\ SumOfQty(bare) = g[len]
    BY <1>1, SumIsRunning
  <1>4. f[0] = 0 /\ \A i \in 1..len : f[i] = f[i - 1] + orders[i].qty
    BY <1>2, OrdersCount, RunningSumSteps
  <1>5. g[0] = 0 /\ \A i \in 1..len : g[i] = g[i - 1] + bare[i].qty
    <2>1. g[0] = 0 /\ \A i \in 1..Len(bare) : g[i] = g[i - 1] + bare[i].qty
      BY <1>1, <1>3, BareCounts, RunningSumSteps
    <2> QED
      BY <2>1, <1>1
  <1> HIDE DEF len
  <1> DEFINE good == {i \in Nat : i <= len => f[i] = g[i]}
  <1>6. 0 \in good
    BY <1>4, <1>5
  <1>7. ASSUME NEW i \in Nat, i \in good
        PROVE  i + 1 \in good
    <2> SUFFICES ASSUME i + 1 <= len PROVE f[i + 1] = g[i + 1]
      OBVIOUS
    <2>1. i + 1 \in 1..len /\ (i + 1) - 1 = i /\ i <= len
      BY <1>1
    <2> QED
      BY <2>1, <1>1, <1>4, <1>5, <1>7
  <1>8. \A i \in Nat : i \in good
    <2> HIDE DEF good
    <2> QED
      BY <1>6, <1>7, NaturalsAreReached
  <1> QED
    BY <1>1, <1>2, <1>3, <1>8, TotalIsSum DEF bare

\* The list of a side at a price adds up to the total of the level, if it is its level.
LEMMA HeldSum ==
  ASSUME NEW lv, NEW ix, LevelsGood(lv), IndexGood(lv, ix), NEW side, NEW p \in Ladder
  PROVE  /\ SumOfQty(HeldAt(lv, side)[p]) =
              IF Sits(lv[p].orders, side) THEN lv[p].total_qty ELSE 0
         /\ SumOfQty(HeldAt(lv, side)[p]) \in 0..MaxQty
         /\ HeldAt(lv, side)[p] \in Seq(Bare)
  <1>1. /\ lv[p].orders \in Seq(Order) /\ lv[p].total_qty = TotalQty(lv[p].orders)
        /\ lv[p].total_qty <= MaxQty /\ MaxQty \in Nat
    BY LadderAssumption DEF LevelsGood, Level
  <1>2. lv[p].total_qty \in Nat
    BY <1>1, TotalFacts
  <1>3. HeldAt(lv, side)[p] = IF Sits(lv[p].orders, side) THEN BareOf(lv[p].orders) ELSE <<>>
    BY DEF HeldAt
  <1>4. SumOfQty(<<>>) = 0 /\ <<>> \in Seq(Bare)
    BY BareCounts, SumFacts, EmptySeq
  <1>5. SumOfQty(BareOf(lv[p].orders)) = lv[p].total_qty /\ BareOf(lv[p].orders) \in Seq(Bare)
    BY <1>1, BareSum, BareFacts
  <1>6. CASE Sits(lv[p].orders, side)
    BY <1>1, <1>2, <1>3, <1>5, <1>6
  <1>7. CASE ~Sits(lv[p].orders, side)
    BY <1>1, <1>3, <1>4, <1>7
  <1> QED
    BY <1>6, <1>7

\* t runs over the sums of the lists of the prices G, from the best price on.
PriceSums(at, side, G, t) ==
  /\ t[0] = 0
  /\ \A k \in 1..Depth :
       t[k] = t[k - 1] + (IF Ranked(side, k) \in G THEN SumOfQty(at[Ranked(side, k)]) ELSE 0)
  /\ \A k \in 0..Depth : t[k] \in Nat

\* What a queue adds up to at the prices G is what the lists of those prices add up to.
LEMMA LadderSums ==
  ASSUME NEW at, Listed(at), NEW side \in Sides, NEW P, NEW G,
         \A i \in 1..Len(QueueOf(at, side)) : i \in P <=> QueueOf(at, side)[i].price \in G
  PROVE  \E t : PriceSums(at, side, G, t) /\ B!QtyOf(QueueOf(at, side), P) = t[Depth]
  <1> DEFINE lists == ListsOf(at, side)
             q     == QueueOf(at, side)
             ranks == {k \in 1..Depth : Ranked(side, k) \in G}
  <1>1. at \in [Ladder -> Seq(Bare)] /\ \A p \in Ladder : \A i \in 1..Len(at[p]) : at[p][i].price = p
    BY DEF Listed
  <1>2. PICK ends : Queued(at, side, ends)
    BY <1>1, QueueIsJoined
  <1>3. /\ q \in Seq(Bare) /\ Depth \in Nat
        /\ ListsIn(Bare, lists, Depth) /\ EndToEnd(lists, Depth, ends, q)
    BY <1>1, <1>2, QueueIsJoined, RankFacts DEF Queued
  <1>4. \A k \in 1..Depth : lists[k] = at[Ranked(side, k)] /\ Ranked(side, k) \in Ladder
    BY <1>1, ListsAreTyped, RankFacts
  <1> HIDE DEF lists, q
  <1>5. ASSUME NEW k \in 1..Depth, NEW j \in 1..Len(lists[k])
        PROVE  ends[k - 1] + j \in P <=> k \in ranks
    <2>1. Within(ends, q, k, j)
      BY <1>3, PlaceIsWithin
    <2>2. ends[k - 1] + j \in 1..Len(q)
      BY <2>1 DEF Within
    <2>3. q[ends[k - 1] + j] = lists[k][j]
      BY <1>3 DEF EndToEnd
    <2>4. lists[k][j].price = Ranked(side, k)
      BY <1>1, <1>4
    <2>5. ends[k - 1] + j \in P <=> q[ends[k - 1] + j].price \in G
      BY <2>2 DEF q
    <2> QED
      BY <2>3, <2>4, <2>5
  <1>6. B!PlacesOf(lists, Depth, ends, P, ranks)
    BY <1>5 DEF B!PlacesOf
  <1>7. \A k \in 1..Depth : k \in ranks <=> Ranked(side, k) \in G
    OBVIOUS
  <1> HIDE DEF ranks
  <1>8. B!ListsIn(Bare, lists, Depth) /\ B!EndToEnd(lists, Depth, ends, q)
    BY <1>3, SameLists
  <1>9. PICK t : B!ListSums(lists, Depth, ranks, t) /\ B!QtyOf(q, P) = t[Depth]
    BY <1>3, <1>6, <1>8, BareCounts, Assumed, B!SumOverLists
  <1>10. /\ t[0] = 0 /\ \A k \in 0..Depth : t[k] \in Nat
         /\ \A k \in 1..Depth : t[k] = t[k - 1] + (IF k \in ranks THEN SumOfQty(lists[k]) ELSE 0)
    BY <1>9, SameLists DEF B!ListSums
  <1>11. PriceSums(at, side, G, t)
    BY <1>4, <1>7, <1>10 DEF PriceSums
  <1> QED
    BY <1>9, <1>11 DEF q

\* Where no list is added the sum stands still.
LEMMA StandsStill ==
  ASSUME NEW n \in Nat, NEW t, NEW a \in 0..n, NEW b \in 0..n, a <= b,
         \A k \in 1..n : a < k /\ k <= b => t[k] = t[k - 1]
  PROVE  t[b] = t[a]
  <1> DEFINE good == {i \in Nat : a + i <= b => t[a + i] = t[a]}
  <1>1. 0 \in good
    OBVIOUS
  <1>2. ASSUME NEW i \in Nat, i \in good
        PROVE  i + 1 \in good
    <2> SUFFICES ASSUME a + (i + 1) <= b PROVE t[a + (i + 1)] = t[a]
      OBVIOUS
    <2>1. /\ a + (i + 1) \in 1..n /\ a < a + (i + 1) /\ (a + (i + 1)) - 1 = a + i
          /\ a + i <= b
      OBVIOUS
    <2> QED
      BY <2>1, <1>2
  <1>3. \A i \in Nat : i \in good
    <2> HIDE DEF good
    <2> QED
      BY <1>1, <1>2, NaturalsAreReached
  <1>4. b - a \in Nat /\ a + (b - a) = b
    OBVIOUS
  <1> QED
    BY <1>3, <1>4

\* What rests at one price is what its list adds up to.
LEMMA QtyAtPriceIsHeld ==
  ASSUME NEW at, Listed(at), NEW side \in Sides, NEW p \in Ladder
  PROVE  B!QtyAtPrice(QueueOf(at, side), p) = SumOfQty(at[p])
  <1> DEFINE q == QueueOf(at, side)
             P == {i \in DOMAIN q : q[i].price = p}
             r == RankOf(side, p)
  <1>1. q \in Seq(Bare) /\ DOMAIN q = 1..Len(q) /\ at[p] \in Seq(Bare)
    BY QueueIsJoined, LenProperties DEF Listed
  <1>2. \A i \in 1..Len(q) : i \in P <=> q[i].price \in {p}
    BY <1>1
  <1>3. B!QtyAtPrice(q, p) = B!QtyOf(q, P)
    BY DEF B!QtyAtPrice
  <1>4. Depth \in Nat /\ r \in 1..Depth /\ \A k \in 1..Depth : Ranked(side, k) \in {p} <=> k = r
    BY RankFacts
  <1>5. SumOfQty(at[p]) \in Nat
    BY <1>1, BareCounts, SumFacts
  <1> HIDE DEF P, q
  <1>6. PICK t : PriceSums(at, side, {p}, t) /\ B!QtyOf(q, P) = t[Depth]
    BY <1>2, LadderSums DEF q
  <1>7. Ranked(side, r) = p
    BY RankFacts
  <1> HIDE DEF r
  <1>8. /\ t[0] = 0
        /\ \A k \in 1..Depth : t[k] = t[k - 1] + (IF k = r THEN SumOfQty(at[p]) ELSE 0)
        /\ \A k \in 0..Depth : t[k] \in Nat
    BY <1>4, <1>6, <1>7 DEF PriceSums
  <1>9. t[r - 1] = 0
    <2>1. \A k \in 1..Depth : 0 < k /\ k <= r - 1 => t[k] = t[k - 1]
      <3> SUFFICES ASSUME NEW k \in 1..Depth, k <= r - 1 PROVE t[k] = t[k - 1]
        OBVIOUS
      <3>1. k # r /\ k - 1 \in 0..Depth
        BY <1>4
      <3>2. t[k] = t[k - 1] + 0 /\ t[k - 1] \in Nat
        BY <3>1, <1>8
      <3> QED
        BY <3>2
    <2>2. r - 1 \in 0..Depth /\ 0 \in 0..Depth /\ 0 <= r - 1
      BY <1>4
    <2>3. t[r - 1] = t[0]
      BY <2>1, <2>2, <1>4, StandsStill
    <2> QED
      BY <2>3, <1>8
  <1>10. t[r] = SumOfQty(at[p])
    BY <1>4, <1>5, <1>8, <1>9
  <1>11. t[Depth] = t[r]
    <2>1. \A k \in 1..Depth : r < k /\ k <= Depth => t[k] = t[k - 1]
      <3> SUFFICES ASSUME NEW k \in 1..Depth, r < k PROVE t[k] = t[k - 1]
        OBVIOUS
      <3>1. k # r /\ k - 1 \in 0..Depth
        BY <1>4
      <3>2. t[k] = t[k - 1] + 0 /\ t[k - 1] \in Nat
        BY <3>1, <1>8
      <3> QED
        BY <3>2
    <2>2. r \in 0..Depth /\ Depth \in 0..Depth /\ r <= Depth
      BY <1>4
    <2> QED
      BY <2>1, <2>2, <1>4, StandsStill
  <1> QED
    BY <1>3, <1>6, <1>10, <1>11 DEF q

\* No more orders rest on a side than the totals of the levels have room for.
LEMMA LadderIsShort ==
  ASSUME NEW lv, NEW ix, LevelsGood(lv), IndexGood(lv, ix), NEW side \in Sides
  PROVE  Len(QueueIn(lv, side)) \in Nat /\ Len(QueueIn(lv, side)) <= Depth * MaxQty
  <1> DEFINE at    == HeldAt(lv, side)
             lists == ListsOf(at, side)
             q     == QueueOf(at, side)
  <1>1. at \in [Ladder -> Seq(Bare)]
    BY HeldFacts DEF Listed
  <1>2. PICK ends : Queued(at, side, ends)
    BY <1>1, QueueIsJoined
  <1>3. /\ Depth \in Nat /\ MaxQty \in Nat
        /\ ListsIn(Bare, lists, Depth) /\ EndToEnd(lists, Depth, ends, q)
    BY <1>2, RankFacts, LadderAssumption DEF Queued
  <1>4. \A k \in 1..Depth : lists[k] = at[Ranked(side, k)] /\ Ranked(side, k) \in Ladder
    BY <1>1, ListsAreTyped, RankFacts
  <1>5. ASSUME NEW k \in 1..Depth
        PROVE  Len(lists[k]) <= MaxQty
    <2>1. lists[k] \in Seq(Bare) /\ SumOfQty(lists[k]) \in 0..MaxQty
      BY <1>4, HeldSum
    <2> HIDE DEF lists
    <2>2. Len(lists[k]) <= B!SumOfQty(lists[k])
      BY <2>1, BareCounts, Assumed, B!SumAtLeastLen
    <2>3. B!SumOfQty(lists[k]) = SumOfQty(lists[k]) /\ Len(lists[k]) \in Nat
      BY <2>1, SameLists, LenProperties
    <2> QED
      BY <2>1, <2>2, <2>3, <1>3
  <1> HIDE DEF lists, q
  <1>6. B!ListsIn(Bare, lists, Depth) /\ B!EndToEnd(lists, Depth, ends, q)
    BY <1>3, SameLists
  <1>7. Len(q) \in Nat /\ Len(q) <= Depth * MaxQty
    BY <1>3, <1>5, <1>6, Assumed, B!JoinedIsShort
  <1> QED
    BY <1>7 DEF q, QueueIn

(***************************************************************************)
(* The prediction of a buy is what it executes.                            *)
(***************************************************************************)
\* t runs over the sums of what the ranks 1..n give.
RunsOver(n, give, t) ==
  /\ t[0] = 0 /\ \A k \in 0..n : t[k] \in Nat
  /\ \A k \in 1..n : give[k] \in Nat /\ t[k] = t[k - 1] + give[k]

\* rank climbs in m steps over every rank that gives something.
Climbs(n, give, m, rank) ==
  /\ rank[0] = 0 /\ \A k \in 0..m : rank[k] \in 0..n
  /\ \A j, k \in 0..m : j < k => rank[j] < rank[k]
  /\ \A j \in 1..n : give[j] # 0 => \E k \in 1..m : rank[k] = j

\* What is stepped over gives nothing.
LEMMA NothingSkipped ==
  ASSUME NEW n \in Nat, NEW give, NEW t, RunsOver(n, give, t),
         NEW m \in Nat, NEW rank, Climbs(n, give, m, rank)
  PROVE  /\ \A k \in 1..m : t[rank[k]] = t[rank[k - 1]] + give[rank[k]]
         /\ t[n] = t[rank[m]]
  <1>1. /\ \A k \in 0..m : rank[k] \in 0..n
        /\ \A j, k \in 0..m : j < k => rank[j] < rank[k]
        /\ \A j \in 1..n : give[j] # 0 => \E k \in 1..m : rank[k] = j
    BY DEF Climbs
  <1>2. \A k \in 1..n : t[k] = t[k - 1] + give[k] /\ t[k - 1] \in Nat
    <2> SUFFICES ASSUME NEW k \in 1..n PROVE t[k] = t[k - 1] + give[k] /\ t[k - 1] \in Nat
      OBVIOUS
    <2>1. k - 1 \in 0..n
      OBVIOUS
    <2> QED
      BY <2>1 DEF RunsOver
  <1>3. ASSUME NEW k \in 1..m
        PROVE  t[rank[k]] = t[rank[k - 1]] + give[rank[k]]
    <2> DEFINE a == rank[k - 1]
               b == rank[k] - 1
    <2>1. k - 1 \in 0..m /\ k \in 0..m /\ k - 1 < k
      OBVIOUS
    <2>2. a \in 0..n /\ rank[k] \in 1..n /\ b \in 0..n /\ a <= b
      BY <2>1, <1>1
    <2>3. \A j \in 1..n : a < j /\ j <= b => t[j] = t[j - 1]
      <3> SUFFICES ASSUME NEW j \in 1..n, a < j, j <= b PROVE t[j] = t[j - 1]
        OBVIOUS
      <3>1. give[j] = 0
        <4> SUFFICES ASSUME give[j] # 0 PROVE FALSE
          OBVIOUS
        <4>1. PICK i \in 1..m : rank[i] = j
          BY <1>1
        <4>2. i \in 0..m /\ (i < k - 1 \/ i = k - 1 \/ i = k \/ k < i)
          OBVIOUS
        <4>3. rank[i] <= a \/ rank[k] <= rank[i]
          BY <4>2, <2>1, <2>2, <1>1
        <4> QED
          BY <4>1, <4>3, <2>2
      <3> QED
        BY <3>1, <1>2
    <2> HIDE DEF a, b
    <2>4. t[b] = t[a]
      BY <2>2, <2>3, StandsStill
    <2>5. t[rank[k]] = t[b] + give[rank[k]]
      BY <2>2, <1>2 DEF b
    <2> QED
      BY <2>4, <2>5 DEF a
  <1>4. t[n] = t[rank[m]]
    <2>1. rank[m] \in 0..n /\ n \in 0..n /\ rank[m] <= n
      BY <1>1
    <2>2. \A j \in 1..n : rank[m] < j /\ j <= n => t[j] = t[j - 1]
      <3> SUFFICES ASSUME NEW j \in 1..n, rank[m] < j PROVE t[j] = t[j - 1]
        OBVIOUS
      <3>1. give[j] = 0
        <4> SUFFICES ASSUME give[j] # 0 PROVE FALSE
          OBVIOUS
        <4>1. PICK i \in 1..m : rank[i] = j
          BY <1>1
        <4>2. i \in 0..m /\ m \in 0..m /\ (i < m \/ i = m)
          OBVIOUS
        <4>3. rank[i] <= rank[m]
          BY <4>2, <2>1, <1>1
        <4> QED
          BY <4>1, <4>3, <2>1
      <3> QED
        BY <3>1, <1>2
    <2> QED
      BY <2>1, <2>2, StandsStill
  <1> QED
    BY <1>3, <1>4

\* What one rank gives, the sum holds.
LEMMA SumHoldsEach ==
  ASSUME NEW n \in Nat, NEW give, NEW t, RunsOver(n, give, t), NEW j \in 1..n
  PROVE  give[j] <= t[n]
  <1> DEFINE good == {i \in Nat : j + i <= n => give[j] <= t[j + i]}
  <1>1. 0 \in good
    <2>1. j - 1 \in 0..n /\ j + 0 = j
      OBVIOUS
    <2>2. t[j] = t[j - 1] + give[j] /\ t[j - 1] \in Nat /\ give[j] \in Nat
      BY <2>1 DEF RunsOver
    <2> QED
      BY <2>1, <2>2
  <1>2. ASSUME NEW i \in Nat, i \in good
        PROVE  i + 1 \in good
    <2> SUFFICES ASSUME j + (i + 1) <= n PROVE give[j] <= t[j + (i + 1)]
      OBVIOUS
    <2>1. /\ j + (i + 1) \in 1..n /\ (j + (i + 1)) - 1 = j + i
          /\ j + i <= n /\ j + i \in 0..n
      OBVIOUS
    <2>2. /\ t[j + (i + 1)] = t[j + i] + give[j + (i + 1)] /\ give[j + (i + 1)] \in Nat
          /\ t[j + i] \in Nat /\ give[j] \in Nat
      BY <2>1 DEF RunsOver
    <2>3. give[j] <= t[j + i]
      BY <2>1, <1>2
    <2> QED
      BY <2>2, <2>3
  <1>3. \A i \in Nat : i \in good
    <2> HIDE DEF good
    <2> QED
      BY <1>1, <1>2, NaturalsAreReached
  <1>4. n - j \in Nat /\ j + (n - j) = n
    OBVIOUS
  <1> QED
    BY <1>3, <1>4

\* A scan that takes from each rank what is still wanted gets what is wanted, or all.
LEMMA ClimbTakes ==
  ASSUME NEW n \in Nat, NEW give, NEW t, RunsOver(n, give, t),
         NEW m \in Nat, NEW rank, Climbs(n, give, m, rank),
         NEW qty \in Nat, NEW got, got[0] = 0,
         \A k \in 1..m : got[k - 1] \in 0..qty =>
           got[k] = got[k - 1] + Smaller(qty - got[k - 1], give[rank[k]])
  PROVE  got[m] = Smaller(qty, t[n])
  <1> DEFINE good == {k \in Nat : k <= m => got[k] = Smaller(qty, t[rank[k]])}
  <1>1. 0 \in good
    BY DEF RunsOver, Climbs, Smaller
  <1>2. ASSUME NEW k \in Nat, k \in good
        PROVE  k + 1 \in good
    <2> SUFFICES ASSUME k + 1 <= m PROVE got[k + 1] = Smaller(qty, t[rank[k + 1]])
      OBVIOUS
    <2>1. k + 1 \in 1..m /\ (k + 1) - 1 = k /\ k <= m /\ k \in 0..m /\ k + 1 \in 0..m /\ k < k + 1
          /\ 0 \in 0..m
      OBVIOUS
    <2>2. got[k] = Smaller(qty, t[rank[k]])
      BY <2>1, <1>2
    <2>3. t[rank[k + 1]] = t[rank[k]] + give[rank[k + 1]]
      BY <2>1, NothingSkipped
    <2>4. rank[k] \in 0..n /\ rank[k + 1] \in 1..n
      BY <2>1 DEF Climbs
    <2>5. t[rank[k]] \in Nat /\ give[rank[k + 1]] \in Nat
      BY <2>4 DEF RunsOver
    <2>6. got[k] \in 0..qty
      BY <2>2, <2>5 DEF Smaller
    <2>7. got[k + 1] = got[k] + Smaller(qty - got[k], give[rank[k + 1]])
      BY <2>1, <2>6
    <2> QED
      BY <2>2, <2>3, <2>5, <2>6, <2>7 DEF Smaller
  <1>3. \A k \in Nat : k \in good
    <2> HIDE DEF good
    <2> QED
      BY <1>1, <1>2, NaturalsAreReached
  <1>4. got[m] = Smaller(qty, t[rank[m]])
    BY <1>3
  <1> QED
    BY <1>4, NothingSkipped

\* The total of an ask level, or nothing.
AskTotal(p) == IF Sits(levels[p].orders, "Ask") THEN levels[p].total_qty ELSE 0

\* What the ranks of the ask side give to a buy with this limit.
AskGives(limit) ==
  [k \in 1..Depth |-> IF Crosses("Bid", limit, Ranked("Ask", k)) THEN AskTotal(Ranked("Ask", k)) ELSE 0]

\* The ranks of the levels in the order the scan visits them.
AskRank == [k \in 0..Len(Visited("Ask")) |-> IF k = 0 THEN 0 ELSE Visited("Ask")[k] + 1]

\* The total of an ask level is what its list adds up to, and its bit tells whether it has one.
LEMMA AskTotalIs ==
  ASSUME SoundNow, NEW p \in Ladder
  PROVE  /\ AskTotal(p) = SumOfQty(HeldAt(levels, "Ask")[p])
         /\ AskTotal(p) \in 0..MaxQty
         /\ index_for(p) \in occupied["Ask"] => AskTotal(p) = levels[p].total_qty
         /\ index_for(p) \notin occupied["Ask"] => AskTotal(p) = 0
  <1>1. LevelsGood(levels) /\ IndexGood(levels, order_index) /\ "Ask" \in Sides
        /\ BitsGood(levels, occupied, word_occupied)
    BY DEF SoundNow, Sound, Sides
  <1>2. AskTotal(p) = SumOfQty(HeldAt(levels, "Ask")[p]) /\ AskTotal(p) \in 0..MaxQty
    BY <1>1, HeldSum DEF AskTotal
  <1>3. index_for(p) \in occupied["Ask"] <=> Sits(levels[p].orders, "Ask")
    BY <1>1 DEF BitsGood
  <1> QED
    BY <1>2, <1>3 DEF AskTotal

\* The scan climbs the ranks of the ask levels and leaves none out.
LEMMA AskScanClimbs ==
  ASSUME SoundNow, NEW limit
  PROVE  /\ Len(Visited("Ask")) \in Nat
         /\ Climbs(Depth, AskGives(limit), Len(Visited("Ask")), AskRank)
         /\ \A k \in 1..Len(Visited("Ask")) :
              /\ PriceAt(Visited("Ask")[k]) \in Ladder
              /\ PriceAt(Visited("Ask")[k]) = Ranked("Ask", AskRank[k])
              /\ index_for(PriceAt(Visited("Ask")[k])) \in occupied["Ask"]
  <1> DEFINE v == Visited("Ask")
             m == Len(v)
  <1>1. BitsGood(levels, occupied, word_occupied) /\ occupied["Ask"] \subseteq Indexes
    BY DEF SoundNow, Sound, BitsGood, Sides
  <1>2. Rising(v, occupied["Ask"])
    BY <1>1, AsksAreVisited
  <1> HIDE DEF v
  <1>3. m \in Nat /\ \A k \in 1..m : v[k] \in occupied["Ask"]
    BY <1>2 DEF Rising
  <1>4. \A j, k \in 1..m : j < k => v[j] < v[k]
    BY <1>2 DEF Rising
  <1>5. \A i \in occupied["Ask"] : \E k \in 1..m : v[k] = i
    BY <1>2 DEF Rising
  <1>6. AskRank = [k \in 0..m |-> IF k = 0 THEN 0 ELSE v[k] + 1]
    BY DEF AskRank, v
  <1>7. Indexes = 0..LastIndex /\ LastIndex \in Nat /\ Depth = LastIndex + 1
    BY IndexFacts DEF Depth, LastIndex
  <1> HIDE DEF v, m
  <1>8. AskRank[0] = 0 /\ \A k \in 1..m : AskRank[k] = v[k] + 1 /\ v[k] \in 0..LastIndex
    <2>1. AskRank[0] = 0 /\ \A k \in 1..m : AskRank[k] = v[k] + 1
      BY <1>3, <1>6
    <2>2. \A k \in 1..m : v[k] \in 0..LastIndex
      BY <1>1, <1>3, <1>7
    <2> QED
      BY <2>1, <2>2
  <1>9. \A k \in 0..m : AskRank[k] \in 0..Depth
    <2> SUFFICES ASSUME NEW k \in 0..m PROVE AskRank[k] \in 0..Depth
      OBVIOUS
    <2>1. k = 0 \/ k \in 1..m
      BY <1>3
    <2> QED
      BY <2>1, <1>7, <1>8
  <1>10. \A j, k \in 0..m : j < k => AskRank[j] < AskRank[k]
    <2> SUFFICES ASSUME NEW j \in 0..m, NEW k \in 0..m, j < k PROVE AskRank[j] < AskRank[k]
      OBVIOUS
    <2>1. k \in 1..m /\ (j = 0 \/ j \in 1..m)
      BY <1>3
    <2> QED
      BY <2>1, <1>4, <1>8
  <1>11. \A j \in 1..Depth : AskGives(limit)[j] # 0 => \E k \in 1..m : AskRank[k] = j
    <2> SUFFICES ASSUME NEW j \in 1..Depth, AskGives(limit)[j] # 0
                 PROVE  \E k \in 1..m : AskRank[k] = j
      OBVIOUS
    <2>1. Ranked("Ask", j) \in Ladder
      BY RankFacts DEF Sides
    <2>2. AskTotal(Ranked("Ask", j)) # 0
      BY DEF AskGives
    <2>3. index_for(Ranked("Ask", j)) \in occupied["Ask"]
      BY <2>1, <2>2, AskTotalIs
    <2>4. index_for(Ranked("Ask", j)) = j - 1
      BY LadderAssumption DEF index_for, Ranked
    <2>5. PICK k \in 1..m : v[k] = j - 1
      BY <2>3, <2>4, <1>5
    <2> QED
      BY <2>5, <1>8
  <1>12. ASSUME NEW k \in 1..m
        PROVE  /\ PriceAt(v[k]) \in Ladder
               /\ PriceAt(v[k]) = Ranked("Ask", AskRank[k])
               /\ index_for(PriceAt(v[k])) \in occupied["Ask"]
    <2>1. v[k] \in Indexes /\ v[k] \in occupied["Ask"]
      BY <1>1, <1>3
    <2>2. PriceAt(v[k]) \in Ladder /\ index_for(PriceAt(v[k])) = v[k]
      BY <2>1, IndexFacts
    <2>3. PriceAt(v[k]) = Ranked("Ask", AskRank[k])
      BY <1>8, LadderAssumption DEF PriceAt, Ranked
    <2> QED
      BY <2>1, <2>2, <2>3
  <1>13. Climbs(Depth, AskGives(limit), m, AskRank)
    BY <1>8, <1>9, <1>10, <1>11 DEF Climbs
  <1> QED
    BY <1>3, <1>12, <1>13 DEF v, m

\* What a buy is predicted to take is what is wanted, or all that its limit reaches.
LEMMA BuyTakes ==
  ASSUME SoundNow, NEW limit, NEW qty \in Nat, NEW t, RunsOver(Depth, AskGives(limit), t)
  PROVE  MaxCrossingQty("Bid", limit, qty) = Smaller(qty, t[Depth])
  <1> DEFINE v    == Visited("Ask")
             m    == Len(v)
             give == AskGives(limit)
             total(k) == levels[PriceAt(v[k])].total_qty
             Reaches(f) ==
               f = [k \in 0..m |->
                      IF k = 0 THEN 0
                      ELSE IF Crosses("Bid", limit, PriceAt(v[k]))
                      THEN f[k - 1] + Smaller(qty - f[k - 1], total(k))
                      ELSE f[k - 1]]
  <1>1. /\ m \in Nat /\ Climbs(Depth, give, m, AskRank)
        /\ \A k \in 1..m : /\ PriceAt(v[k]) \in Ladder
                           /\ PriceAt(v[k]) = Ranked("Ask", AskRank[k])
                           /\ index_for(PriceAt(v[k])) \in occupied["Ask"]
    BY AskScanClimbs
  <1>2. Depth \in Nat /\ t[0] = 0 /\ \A k \in 0..Depth : t[k] \in Nat
    BY RankFacts DEF RunsOver, Sides
  <1>3. \A k \in 1..m : give[AskRank[k]] =
                          IF Crosses("Bid", limit, PriceAt(v[k])) THEN total(k) ELSE 0
    <2> SUFFICES ASSUME NEW k \in 1..m
                 PROVE  give[AskRank[k]] =
                          IF Crosses("Bid", limit, PriceAt(v[k])) THEN total(k) ELSE 0
      OBVIOUS
    <2>1. AskRank[k] \in 1..Depth
      BY <1>1, <1>2 DEF Climbs
    <2>2. total(k) = AskTotal(PriceAt(v[k]))
      BY <1>1, AskTotalIs
    <2> QED
      BY <2>1, <2>2, <1>1 DEF AskGives
  <1>4. \E f : Reaches(f)
    <2> DEFINE f == [k \in 0..m |-> Smaller(qty, t[AskRank[k]])]
    <2>1. f[0] = 0
      BY <1>1, <1>2 DEF Smaller, Climbs
    <2>2. ASSUME NEW k \in 1..m
          PROVE  f[k] = IF Crosses("Bid", limit, PriceAt(v[k]))
                        THEN f[k - 1] + Smaller(qty - f[k - 1], total(k)) ELSE f[k - 1]
      <3>1. k - 1 \in 0..m /\ k \in 0..m
        OBVIOUS
      <3>2. t[AskRank[k]] = t[AskRank[k - 1]] + give[AskRank[k]]
        BY <1>1, <1>2, NothingSkipped
      <3>3. AskRank[k - 1] \in 0..Depth /\ AskRank[k] \in 1..Depth
        BY <3>1, <1>1, <1>2 DEF Climbs
      <3>4. t[AskRank[k - 1]] \in Nat /\ give[AskRank[k]] \in Nat
        BY <3>3, <1>2 DEF RunsOver
      <3>5. f[k] = Smaller(qty, t[AskRank[k]]) /\ f[k - 1] = Smaller(qty, t[AskRank[k - 1]])
        BY <3>1
      <3>6. give[AskRank[k]] = IF Crosses("Bid", limit, PriceAt(v[k])) THEN total(k) ELSE 0
        BY <1>3
      <3> HIDE DEF f, give, total, v, m
      <3>7. CASE Crosses("Bid", limit, PriceAt(v[k]))
        <4>1. give[AskRank[k]] = total(k)
          BY <3>6, <3>7
        <4>2. f[k] = f[k - 1] + Smaller(qty - f[k - 1], give[AskRank[k]])
          BY <3>2, <3>4, <3>5 DEF Smaller
        <4> QED
          BY <4>1, <4>2, <3>7
      <3>8. CASE ~Crosses("Bid", limit, PriceAt(v[k]))
        <4>1. t[AskRank[k]] = t[AskRank[k - 1]]
          BY <3>2, <3>4, <3>6, <3>8
        <4> QED
          BY <4>1, <3>5, <3>8
      <3> QED
        BY <3>7, <3>8
    <2>3. f = [k \in 0..m |-> f[k]]
      OBVIOUS
    <2> HIDE DEF f, total, v, m
    <2>4. Reaches(f)
      <3>1. \A k \in 0..m : k = 0 \/ k \in 1..m
        BY <1>1
      <3> QED
        BY <2>1, <2>2, <2>3, <3>1
    <2> HIDE DEF Reaches
    <2> QED
      BY <2>4
  <1>5. PICK f : Reaches(f) /\ MaxCrossingQty("Bid", limit, qty) = f[m]
    <2>1. OtherSide("Bid") = "Ask"
      BY DEF OtherSide
    <2> QED
      BY <2>1, <1>4 DEF MaxCrossingQty
  <1> HIDE DEF v, m, give, total
  <1>6. f[0] = 0
    BY <1>1, <1>5
  <1>7. ASSUME NEW k \in 1..m, f[k - 1] \in 0..qty
        PROVE  f[k] = f[k - 1] + Smaller(qty - f[k - 1], give[AskRank[k]])
    <2>1. f[k] = IF Crosses("Bid", limit, PriceAt(v[k]))
                 THEN f[k - 1] + Smaller(qty - f[k - 1], total(k)) ELSE f[k - 1]
      BY <1>1, <1>5
    <2>2. CASE Crosses("Bid", limit, PriceAt(v[k]))
      BY <2>1, <2>2, <1>3
    <2>3. CASE ~Crosses("Bid", limit, PriceAt(v[k]))
      <3>1. give[AskRank[k]] = 0 /\ f[k] = f[k - 1]
        BY <2>1, <2>3, <1>3
      <3> QED
        BY <3>1, <1>7 DEF Smaller
    <2> QED
      BY <2>2, <2>3
  <1>8. RunsOver(Depth, give, t)
    BY DEF give
  <1>9. f[m] = Smaller(qty, t[Depth])
    BY <1>1, <1>2, <1>6, <1>7, <1>8, ClimbTakes
  <1> QED
    BY <1>5, <1>9

\* The prediction of a buy is what the match executes, and it leaves nothing of an ask
\* level it could have had.
LEMMA BuyPrediction ==
  ASSUME SoundNow, NEW limit, NEW in, in.qty \in Nat,
         \A p \in Ladder : B!Reaches(in, p) <=> Crosses("Bid", limit, p)
  PROVE  LET crossing == MaxCrossingQty("Bid", limit, in.qty)
         IN  /\ crossing = B!Executed(in, QueueIn(levels, "Ask"))
             /\ crossing \in 0..in.qty
             /\ \A p \in Ladder : Crosses("Bid", limit, p) => Smaller(in.qty, AskTotal(p)) <= crossing
  <1> DEFINE at   == HeldAt(levels, "Ask")
             q    == QueueOf(at, "Ask")
             P    == {i \in DOMAIN q : B!Reaches(in, q[i].price)}
             G    == {p \in Ladder : Crosses("Bid", limit, p)}
             give == AskGives(limit)
  <1>1. LevelsGood(levels) /\ IndexGood(levels, order_index) /\ "Ask" \in Sides
    BY DEF SoundNow, Sound, Sides
  <1>2. Listed(at) /\ at \in [Ladder -> Seq(Bare)]
    BY <1>1, HeldFacts DEF Listed
  <1>3. q \in Seq(Bare) /\ DOMAIN q = 1..Len(q) /\ \A i \in 1..Len(q) : q[i].price \in Ladder
    <2>1. q \in Seq(Bare)
      BY <1>1, <1>2, QueueIsJoined
    <2> HIDE DEF q
    <2>2. DOMAIN q = 1..Len(q) /\ \A i \in 1..Len(q) : q[i] \in Bare
      BY <2>1, ElementOfSeq, LenProperties
    <2> QED
      BY <2>1, <2>2 DEF Bare
  <1>4. \A i \in 1..Len(q) : i \in P <=> q[i].price \in G
    <2> HIDE DEF q
    <2> QED
      BY <1>3
  <1>5. B!Available(in, q) = B!QtyOf(q, P)
    BY DEF B!Available
  <1>6. \A k \in 1..Depth :
          /\ Ranked("Ask", k) \in Ladder
          /\ Ranked("Ask", k) \in G <=> Crosses("Bid", limit, Ranked("Ask", k))
    BY <1>1, RankFacts
  <1> HIDE DEF P, G, q, at
  <1>7. PICK t : PriceSums(at, "Ask", G, t) /\ B!QtyOf(q, P) = t[Depth]
    BY <1>1, <1>2, <1>4, LadderSums DEF q
  <1>8. \A k \in 1..Depth :
          /\ give[k] = IF Ranked("Ask", k) \in G THEN SumOfQty(at[Ranked("Ask", k)]) ELSE 0
          /\ give[k] \in Nat
    <2> SUFFICES ASSUME NEW k \in 1..Depth
                 PROVE  /\ give[k] = IF Ranked("Ask", k) \in G THEN SumOfQty(at[Ranked("Ask", k)]) ELSE 0
                        /\ give[k] \in Nat
      OBVIOUS
    <2>1. /\ AskTotal(Ranked("Ask", k)) = SumOfQty(at[Ranked("Ask", k)])
          /\ AskTotal(Ranked("Ask", k)) \in 0..MaxQty
      BY <1>6, AskTotalIs DEF at
    <2>2. give[k] = IF Crosses("Bid", limit, Ranked("Ask", k)) THEN AskTotal(Ranked("Ask", k)) ELSE 0
      BY DEF AskGives
    <2> HIDE DEF give
    <2> QED
      BY <2>1, <2>2, <1>6, LadderAssumption
  <1>9. RunsOver(Depth, give, t)
    BY <1>7, <1>8 DEF RunsOver, PriceSums
  <1>10. Depth \in Nat /\ t[Depth] \in Nat
    BY <1>1, <1>9, RankFacts DEF RunsOver
  <1>11. MaxCrossingQty("Bid", limit, in.qty) = Smaller(in.qty, t[Depth])
    BY <1>9, BuyTakes
  <1>12. B!Executed(in, q) = Smaller(in.qty, t[Depth])
    BY <1>5, <1>7 DEF B!Executed, B!Smaller, Smaller
  <1>13. Smaller(in.qty, t[Depth]) \in 0..in.qty
    BY <1>10 DEF Smaller
  <1>14. ASSUME NEW p \in Ladder, Crosses("Bid", limit, p)
         PROVE  Smaller(in.qty, AskTotal(p)) <= Smaller(in.qty, t[Depth])
    <2> DEFINE j == RankOf("Ask", p)
    <2>1. j \in 1..Depth /\ Ranked("Ask", j) = p
      BY <1>1, RankFacts
    <2> HIDE DEF j
    <2>2. give[j] = AskTotal(p)
      BY <2>1, <1>14 DEF AskGives
    <2>3. give[j] <= t[Depth] /\ give[j] \in Nat
      BY <2>1, <1>8, <1>9, <1>10, SumHoldsEach
    <2> QED
      BY <2>2, <2>3, <1>10 DEF Smaller
  <1> QED
    BY <1>11, <1>12, <1>13, <1>14 DEF q, at, QueueIn

\* A remainder fits a level's total when it fits what its own side has there: if asks have
\* the level, the prediction has taken them before anything is left to rest.
LEMMA SameRoom ==
  ASSUME SoundNow, NEW p \in Ladder, NEW qty \in 0..MaxQty, NEW crossing \in 0..qty,
         Smaller(qty, AskTotal(p)) <= crossing,
         NEW own \in Nat, own # 0 => Sits(levels[p].orders, "Bid")
  PROVE  AddWouldOverflow(levels[p].total_qty - own, qty - crossing)
           <=> AddWouldOverflow(SumOfQty(HeldAt(levels, "Bid")[p]) - own, qty - crossing)
  <1> DEFINE orders == levels[p].orders
             total  == levels[p].total_qty
             held   == SumOfQty(HeldAt(levels, "Bid")[p])
  <1>1. LevelsGood(levels) /\ IndexGood(levels, order_index)
    BY DEF SoundNow, Sound
  <1>2. held = IF Sits(orders, "Bid") THEN total ELSE 0
    BY <1>1, HeldSum
  <1>3. orders \in Seq(Order) /\ total = TotalQty(orders) /\ total <= MaxQty /\ MaxQty \in Nat
    BY LevelFacts, LadderAssumption
  <1>4. AskTotal(p) = IF Sits(orders, "Ask") THEN total ELSE 0
    BY DEF AskTotal
  <1>5. total \in Nat /\ (orders = <<>> => total = 0)
    BY <1>3, TotalFacts
  <1> HIDE DEF orders, total, held
  <1>6. CASE Sits(orders, "Bid")
    BY <1>2, <1>6 DEF total, held
  <1>7. CASE ~Sits(orders, "Bid") /\ Sits(orders, "Ask")
    <2>1. own = 0 /\ held = 0
      BY <1>2, <1>7 DEF orders
    <2>2. Smaller(qty, total) <= crossing
      BY <1>4, <1>7
    <2>3. ~AddWouldOverflow(total - own, qty - crossing)
      BY <2>1, <2>2, <1>3, <1>5 DEF AddWouldOverflow, Smaller
    <2>4. ~AddWouldOverflow(held - own, qty - crossing)
      BY <2>1, <1>3 DEF AddWouldOverflow
    <2> QED
      BY <2>3, <2>4 DEF total, held
  <1>8. CASE ~Sits(orders, "Bid") /\ ~Sits(orders, "Ask")
    <2>1. orders = <<>>
      BY <1>3, <1>8, NobodySits DEF Sides
    <2>2. held = total
      BY <2>1, <1>2, <1>5, <1>8
    <2> QED
      BY <2>2 DEF total, held
  <1> QED
    BY <1>6, <1>7, <1>8

\* The operators of the exact promise are those used here.
LEMMA SameExact ==
  /\ \A s : Exact!OtherSide(s) = OtherSide(s)
  /\ \A in, q : Exact!Executed(in, q) = B!Executed(in, q)
  /\ \A q, p : Exact!QtyAtPrice(q, p) = B!QtyAtPrice(q, p)
  /\ \A left, right : Exact!Overflows(left, right) <=> AddWouldOverflow(left, right)
  /\ \A price : Exact!PriceError(price) = PriceError(price)
  /\ \A add : Exact!CanRest(add) <=> ~add.is_market /\ add.time_in_force = "GTC"
  <1>1. \A s : Exact!OtherSide(s) = OtherSide(s)
    BY DEF Exact!OtherSide, OtherSide
  <1>2. \A in, q : Exact!Executed(in, q) = B!Executed(in, q)
    BY DEF Exact!Executed, B!Executed, Exact!Smaller, B!Smaller, Exact!Available,
           B!Available, Exact!QtyOf, B!QtyOf, Exact!Reaches, B!Reaches,
           Exact!AtLeastAsGood, B!AtLeastAsGood
  <1>3. \A q, p : Exact!QtyAtPrice(q, p) = B!QtyAtPrice(q, p)
    BY DEF Exact!QtyAtPrice, B!QtyAtPrice, Exact!QtyOf, B!QtyOf
  <1>4. \A left, right : Exact!Overflows(left, right) <=> AddWouldOverflow(left, right)
    BY DEF Exact!Overflows, AddWouldOverflow
  <1>5. \A price : Exact!PriceError(price) = PriceError(price)
    BY DEF Exact!PriceError, PriceError
  <1>6. \A add : Exact!CanRest(add) <=> ~add.is_market /\ add.time_in_force = "GTC"
    BY DEF Exact!CanRest
  <1> QED
    BY <1>1, <1>2, <1>3, <1>4, <1>5, <1>6

\* Its book is read as the promise reads it.
LEMMA SameReading ==
  /\ \A b, id : Exact!Resting(b, id) <=> Promise!Resting(b, id)
  /\ \A b, id : Exact!SideOf(b, id) = Promise!SideOf(b, id)
  /\ \A b, id : \A s \in Sides : Exact!Withdrawn(b, id)[s] = PT!WithoutOrder(b[s], id)
  <1>1. Exact!Sides = Sides /\ \A q, id : Exact!Positions(q, id) = PT!Positions(q, id)
    BY DEF Exact!Sides, Sides, Exact!Positions, PT!Positions
  <1>2. \A q, id : Exact!WithoutOrder(q, id) = PT!WithoutOrder(q, id)
    BY DEF Exact!WithoutOrder, PT!WithoutOrder, Exact!Positions, PT!Positions, Exact!RemoveAt,
           PT!RemoveAt
  <1>3. \A b, id : Exact!Resting(b, id) <=> Promise!Resting(b, id)
    BY <1>1, SameNames DEF Exact!Resting, Promise!Resting
  <1>4. \A b, id : Exact!SideOf(b, id) = Promise!SideOf(b, id)
    BY <1>1, SameNames DEF Exact!SideOf, Promise!SideOf
  <1>5. \A b, id : \A s \in Sides : Exact!Withdrawn(b, id)[s] = PT!WithoutOrder(b[s], id)
    BY <1>1, <1>2 DEF Exact!Withdrawn
  <1> QED
    BY <1>3, <1>4, <1>5

\* What a replacement would rest beside: the list of its price without the order itself.
LEMMA WithdrawnRoom ==
  ASSUME SoundNow, NEW id \in DOMAIN order_index, OrderOf(id).side = "Bid", NEW price \in Ladder
  PROVE  B!QtyAtPrice(PT!WithoutOrder(QueueIn(levels, "Bid"), id), price)
           = SumOfQty(HeldAt(levels, "Bid")[price])
               - (IF order_index[id] = price THEN OrderOf(id).qty ELSE 0)
  <1> DEFINE p      == order_index[id]
             orders == levels[p].orders
             i      == Position(orders, id)
             at     == HeldAt(levels, "Bid")
             bt     == [at EXCEPT ![p] = RemoveAt(at[p], i)]
             q      == QueueOf(at, "Bid")
  <1>1. /\ p \in Ladder /\ i \in 1..Len(orders) /\ orders \in Seq(Order)
        /\ OrderOf(id) = orders[i] /\ orders[i].order_id = id
    BY IndexedOrder, LevelFacts DEF OrderOf
  <1>2. LevelsGood(levels) /\ IndexGood(levels, order_index) /\ "Bid" \in Sides
    BY DEF SoundNow, Sound, Sides
  <1>3. Listed(at) /\ EachOnce(at) /\ at \in [Ladder -> Seq(Bare)]
    BY <1>2, HeldFacts DEF Listed
  <1>4. at[p] = BareOf(orders)
    <2>1. i \in DOMAIN orders
      BY IndexedOrder
    <2>2. Sits(orders, "Bid")
      BY <1>1, <2>1 DEF Sits
    <2> HIDE DEF i
    <2> QED
      BY <1>1, <2>2 DEF HeldAt
  <1>5. i \in 1..Len(at[p]) /\ at[p][i].order_id = id /\ at[p][i].qty = OrderOf(id).qty
    <2> HIDE DEF orders, i, p, at
    <2>1. Len(BareOf(orders)) = Len(orders) /\ BareOf(orders)[i] = BareOne(orders[i])
      BY <1>1, BareFacts
    <2>2. BareOne(orders[i]).order_id = orders[i].order_id /\ BareOne(orders[i]).qty = orders[i].qty
      BY DEF BareOne
    <2> QED
      BY <1>1, <1>4, <2>1, <2>2
  <1> HIDE DEF p, orders, i, at
  <1>6. at[p] \in Seq(Bare) /\ RemoveAt(at[p], i) = Without(at[p], i)
    BY <1>1, <1>3 DEF RemoveAt, Without
  <1>7. /\ Without(at[p], i) \in Seq(Bare)
        /\ Len(Without(at[p], i)) = Len(at[p]) - 1 /\ Len(at[p]) \in Nat
        /\ \A j \in 1..(Len(at[p]) - 1) :
             Without(at[p], i)[j] = IF j < i THEN at[p][j] ELSE at[p][j + 1]
    BY <1>5, <1>6, WithoutFacts, LenProperties
  <1>8. bt \in [Ladder -> Seq(Bare)]
    BY <1>3, <1>6, <1>7
  <1>9. bt[p] = Without(at[p], i) /\ \A r \in Ladder : r # p => bt[r] = at[r]
    BY <1>1, <1>3, <1>6
  <1>10. Shortened(at, bt, p, i)
    BY <1>3, <1>6, <1>8, <1>9 DEF Shortened, Relisted
  <1> HIDE DEF bt
  <1>11. Listed(bt)
    <2> SUFFICES ASSUME NEW r \in Ladder, NEW j \in 1..Len(bt[r]) PROVE bt[r][j].price = r
      BY <1>8 DEF Listed
    <2>1. CASE r = p
      <3>1. j \in 1..(Len(at[p]) - 1) /\ (bt[r][j] = at[p][j] \/ bt[r][j] = at[p][j + 1])
        BY <2>1, <1>7, <1>9
      <3>2. j \in 1..Len(at[p]) /\ j + 1 \in 1..Len(at[p])
        BY <3>1, <1>7
      <3> QED
        BY <2>1, <3>1, <3>2, <1>1, <1>3 DEF Listed
    <2>2. CASE r # p
      BY <2>2, <1>3, <1>9 DEF Listed
    <2> QED
      BY <2>1, <2>2
  <1>12. PICK ends : Queued(at, "Bid", ends)
    BY <1>2, <1>3, QueueIsJoined
  <1>13. PT!WithoutOrder(q, id) = QueueOf(bt, "Bid")
    <2> DEFINE m == ends[RankOf("Bid", p) - 1] + i
    <2>1. QueueOf(bt, "Bid") = RemoveAt(q, m)
      BY <1>1, <1>2, <1>5, <1>10, <1>12, QueueShortened
    <2>2. PT!Positions(q, id) = {m}
      BY <1>1, <1>2, <1>3, <1>5, <1>12, PositionOf
    <2>3. m \in Nat
      <3>1. m \in 1..Len(q)
        BY <1>1, <1>2, <1>3, <1>5, <1>12, PlaceOfPrice
      <3> QED
        BY <3>1
    <2> HIDE DEF m, q
    <2>4. (CHOOSE j \in {m} : \A k \in {m} : j <= k) = m
      BY <2>3
    <2>5. PT!RemoveAt(q, m) = RemoveAt(q, m)
      BY DEF PT!RemoveAt, RemoveAt
    <2> QED
      BY <2>1, <2>2, <2>4, <2>5 DEF PT!WithoutOrder
  <1>14. B!QtyAtPrice(QueueOf(bt, "Bid"), price) = SumOfQty(bt[price])
    BY <1>2, <1>11, QtyAtPriceIsHeld
  <1>15. SumOfQty(at[price]) \in Nat
    BY <1>3, BareCounts, SumFacts
  <1>16. SumOfQty(bt[price]) = SumOfQty(at[price]) - (IF p = price THEN OrderOf(id).qty ELSE 0)
    <2>1. CASE p = price
      BY <2>1, <1>5, <1>6, <1>9, BareCounts, SumOfWithout
    <2>2. CASE p # price
      BY <2>2, <1>9, <1>15
    <2> QED
      BY <2>1, <2>2
  <1> QED
    BY <1>13, <1>14, <1>16 DEF q, at, p, QueueIn

\* No book of the ladder reaches the capacity the promise is given.
LEMMA NeverAtCapacity ==
  ASSUME SoundNow
  PROVE  ~(Exact!OrdersIn(QueuesOf(levels)) >= 2 * (MaxPrice - MinPrice + 1) * MaxQty + 1)
  <1> DEFINE most == Depth * MaxQty
             x    == Len(QueueIn(levels, "Bid"))
             y    == Len(QueueIn(levels, "Ask"))
  <1>1. LevelsGood(levels) /\ IndexGood(levels, order_index) /\ "Bid" \in Sides /\ "Ask" \in Sides
    BY DEF SoundNow, Sound, Sides
  <1>2. x \in Nat /\ x <= most /\ y \in Nat /\ y <= most
    BY <1>1, LadderIsShort
  <1>3. most \in Nat /\ 2 * (MaxPrice - MinPrice + 1) * MaxQty = most + most
    <2>1. Depth \in Nat /\ MaxQty \in Nat /\ MaxPrice - MinPrice + 1 = Depth
      BY <1>1, RankFacts, LadderAssumption DEF Depth
    <2> QED
      BY <2>1
  <1>4. Exact!OrdersIn(QueuesOf(levels)) = x + y
    BY <1>1 DEF Exact!OrdersIn, QueuesOf
  <1> HIDE DEF most, x, y
  <1>5. ~(x + y >= most + most + 1)
    BY <1>2, <1>3
  <1> QED
    BY <1>3, <1>4, <1>5

(***************************************************************************)
(* The two checks of a buy, in the order they are made.                    *)
(***************************************************************************)
\* A buy is refused by both, for the same reason, or by neither.
LEMMA BuyAddErrors ==
  ASSUME SoundNow, NEW add \in AddRequests, add.side = "Bid"
  PROVE  AddError(add) = Exact!AddError(QueuesOf(levels), add)
  <1> DEFINE b        == QueuesOf(levels)
             price    == MatchPrice(add)
             crossing == MaxCrossingQty("Bid", price, add.qty)
             executed == B!Executed(add, b["Ask"])
             cap      == 2 * (MaxPrice - MinPrice + 1) * MaxQty + 1
  <1>1. /\ add.qty \in 0..MaxQty /\ MaxQty \in Nat /\ add.qty \in Nat
        /\ add.is_market \in BOOLEAN /\ add.time_in_force \in Policies /\ add.post_only \in BOOLEAN
    <2>1. /\ add.qty \in Quantities
          /\ add.is_market \in BOOLEAN /\ add.time_in_force \in Policies /\ add.post_only \in BOOLEAN
      BY LadderAssumption DEF Adds
    <2>2. Quantities \subseteq 0..MaxQty /\ MaxQty \in Nat
      BY LadderAssumption
    <2>3. add.qty \in 0..MaxQty
      BY <2>1, <2>2
    <2>4. add.qty \in Nat
      BY <2>2, <2>3
    <2> QED
      BY <2>1, <2>2, <2>3, <2>4
  <1>2. /\ b["Ask"] = QueueIn(levels, "Ask") /\ b["Bid"] = QueueIn(levels, "Bid")
        /\ OtherSide("Bid") = "Ask"
    BY DEF QueuesOf, Sides, OtherSide
  <1>3. LevelsGood(levels) /\ IndexGood(levels, order_index) /\ "Bid" \in Sides
    BY DEF SoundNow, Sound, Sides
  <1>4. /\ crossing = executed /\ crossing \in 0..add.qty
        /\ \A p \in Ladder : Crosses("Bid", price, p) => Smaller(add.qty, AskTotal(p)) <= crossing
    <2>1. \A p \in Ladder : B!Reaches(add, p) <=> Crosses("Bid", price, p)
      BY RequestReaches
    <2> HIDE DEF price
    <2> QED
      BY <2>1, <1>1, <1>2, BuyPrediction
  <1> DEFINE badPrice  == ~add.is_market /\ add.price \notin Ladder
             takes     == add.is_market /\ add.post_only
             badQty    == add.qty <= 0
             known     == add.order_id \in DOMAIN order_index
             short     == MatchPolicy(add) = "FOK" /\ crossing < add.qty
             crosses   == add.post_only /\ crossing # 0
             overflows == \/ CanRest(add) /\ AddWouldOverflow(levels[price].total_qty, add.qty - crossing)
                          \/ AddWouldOverflow(traded_qty, crossing)
  <1>5. AddError(add) =
          IF badPrice THEN PriceError(add.price)
          ELSE IF takes THEN "WouldTakeLiquidity"
          ELSE IF badQty THEN "InvalidQuantity"
          ELSE IF known THEN "DuplicateOrderId"
          ELSE IF short THEN "InsufficientLiquidity"
          ELSE IF crosses THEN "WouldTakeLiquidity"
          ELSE IF overflows THEN "QuantityOverflow"
          ELSE "None"
    BY DEF AddError
  <1> DEFINE known2     == Exact!Resting(b, add.order_id)
             short2     == ~add.is_market /\ add.time_in_force = "FOK" /\ executed < add.qty
             crosses2   == add.post_only /\ executed > 0
             canRest2   == ~add.is_market /\ add.time_in_force = "GTC"
             overflows2 == \/ /\ canRest2
                              /\ AddWouldOverflow(B!QtyAtPrice(b["Bid"], add.price), add.qty - executed)
                           \/ AddWouldOverflow(traded_qty, executed)
             full       == /\ Exact!OrdersIn(b) >= cap
                           /\ Exact!OrdersIn(Exact!Matched(b, add, Exact!CanRest(add))) > cap
  <1>6. Exact!AddError(b, add) =
          IF badPrice THEN PriceError(add.price)
          ELSE IF takes THEN "WouldTakeLiquidity"
          ELSE IF badQty THEN "InvalidQuantity"
          ELSE IF known2 THEN "DuplicateOrderId"
          ELSE IF short2 THEN "InsufficientLiquidity"
          ELSE IF crosses2 THEN "WouldTakeLiquidity"
          ELSE IF overflows2 THEN "QuantityOverflow"
          ELSE IF full THEN "CapacityExceeded"
          ELSE "None"
    <2> HIDE DEF b
    <2> QED
      BY <1>2, SameExact DEF Exact!AddError
  <1>7. known <=> known2
    BY RestingIsIndexed, SameReading
  <1> HIDE DEF b, crossing, executed, price
  <1>8. (short <=> short2) /\ (crosses <=> crosses2)
    <2>1. MatchPolicy(add) = "FOK" <=> ~add.is_market /\ add.time_in_force = "FOK"
      BY <1>1 DEF MatchPolicy
    <2> QED
      BY <2>1, <1>1, <1>4
  <1>9. ~badPrice => (overflows <=> overflows2)
    <2> SUFFICES ASSUME ~badPrice PROVE overflows <=> overflows2
      OBVIOUS
    <2>1. CanRest(add) <=> canRest2
      BY <1>1 DEF CanRest, MatchPolicy
    <2>2. ASSUME canRest2
          PROVE  AddWouldOverflow(B!QtyAtPrice(b["Bid"], add.price), add.qty - executed)
                   <=> AddWouldOverflow(levels[price].total_qty, add.qty - crossing)
      <3> DEFINE held == SumOfQty(HeldAt(levels, "Bid")[price])
      <3>1. price = add.price /\ price \in Ladder
        BY <2>2 DEF MatchPrice, price
      <3>2. B!QtyAtPrice(b["Bid"], price) = held
        <4>1. Listed(HeldAt(levels, "Bid"))
          BY <1>3, HeldFacts
        <4> QED
          BY <4>1, <1>2, <1>3, <3>1, QtyAtPriceIsHeld DEF QueueIn
      <3>3. Smaller(add.qty, AskTotal(price)) <= crossing
        <4>1. Crosses("Bid", price, price)
          BY <3>1, LadderAssumption DEF Crosses, Ladder
        <4> QED
          BY <4>1, <3>1, <1>4
      <3>4. AddWouldOverflow(levels[price].total_qty - 0, add.qty - crossing)
              <=> AddWouldOverflow(held - 0, add.qty - crossing)
        BY <3>1, <3>3, <1>1, <1>4, SameRoom
      <3>5. levels[price].total_qty - 0 = levels[price].total_qty
        BY <3>1, LevelFacts
      <3>6. held - 0 = held
        <4>1. held \in 0..MaxQty
          BY <1>3, <3>1, HeldSum
        <4> HIDE DEF held
        <4> QED
          BY <4>1, <1>1
      <3> HIDE DEF held
      <3> QED
        BY <3>1, <3>2, <3>4, <3>5, <3>6, <1>4
    <2> QED
      BY <2>1, <2>2, <1>4
  <1>10. ~full
    BY NeverAtCapacity DEF b
  <1> HIDE DEF badPrice, takes, badQty, known, known2, short, short2, crosses, crosses2,
               overflows, overflows2, full
  <1>11. AddError(add) = Exact!AddError(b, add)
    BY <1>5, <1>6, <1>7, <1>8, <1>9, <1>10
  <1> QED
    BY <1>11 DEF b

\* So is a modify of an order that bids.
LEMMA BuyModifyErrors ==
  ASSUME SoundNow, NEW id, NEW price, NEW qty \in Quantities,
         id \in DOMAIN order_index => OrderOf(id).side = "Bid"
  PROVE  ModifyError(id, price, qty) = Exact!ModifyError(QueuesOf(levels), id, price, qty)
  <1> DEFINE b == QueuesOf(levels)
  <1>1. Exact!Resting(b, id) <=> id \in DOMAIN order_index
    BY RestingIsIndexed, SameReading
  <1>2. qty \in 0..MaxQty /\ qty \in Nat /\ MaxQty \in Nat
    BY LadderAssumption
  <1>3. \A p : Exact!PriceError(p) = PriceError(p)
    BY SameExact
  <1>4. CASE id \notin DOMAIN order_index
    <2> HIDE DEF b
    <2>1. Exact!ModifyError(b, id, price, qty) = "UnknownOrderId"
      BY <1>1, <1>4 DEF Exact!ModifyError
    <2> QED
      BY <2>1, <1>4 DEF ModifyError, b
  <1>5. CASE id \in DOMAIN order_index /\ price \notin Ladder
    <2> HIDE DEF b
    <2>1. Exact!ModifyError(b, id, price, qty) = PriceError(price)
      BY <1>1, <1>3, <1>5 DEF Exact!ModifyError
    <2> QED
      BY <2>1, <1>5 DEF ModifyError, b
  <1>6. CASE id \in DOMAIN order_index /\ price \in Ladder
    <2> DEFINE crossing == MaxCrossingQty("Bid", price, qty)
               new      == Exact!Replacement(b, id, price, qty)
               executed == B!Executed(new, b["Ask"])
               own      == IF order_index[id] = price THEN OrderOf(id).qty ELSE 0
               rest     == B!QtyAtPrice(Exact!Withdrawn(b, id)["Bid"], price)
               held     == SumOfQty(HeldAt(levels, "Bid")[price])
    <2>1. /\ b["Ask"] = QueueIn(levels, "Ask") /\ b["Bid"] = QueueIn(levels, "Bid")
          /\ OtherSide("Bid") = "Ask" /\ "Bid" \in Sides
      BY DEF QueuesOf, Sides, OtherSide
    <2>2. Exact!SideOf(b, id) = "Bid" /\ OrderOf(id).side = "Bid"
      BY <1>6, RestingIsIndexed, SameReading
    <2>3. /\ new.side = "Bid" /\ new.qty = qty
          /\ \A p : B!Reaches(new, p) <=> Crosses("Bid", price, p)
      <3> HIDE DEF b
      <3>1. new = [order_id |-> id, side |-> "Bid", price |-> price, qty |-> qty,
                   is_market |-> FALSE]
        BY <2>2 DEF Exact!Replacement
      <3> HIDE DEF new
      <3> QED
        BY <3>1 DEF B!Reaches, B!AtLeastAsGood, Crosses
    <2>4. /\ crossing = executed /\ crossing \in 0..qty
          /\ \A p \in Ladder : Crosses("Bid", price, p) => Smaller(qty, AskTotal(p)) <= crossing
      <3> HIDE DEF new
      <3> QED
        BY <2>1, <2>3, <1>2, BuyPrediction
    <2>5. rest = held - own
      BY <1>6, <2>1, <2>2, SameReading, WithdrawnRoom
    <2>6. own \in Nat /\ (own # 0 => Sits(levels[price].orders, "Bid"))
      <3>1. OrderOf(id).qty \in Nat
        BY <1>6, IndexedOrder
      <3>2. ASSUME order_index[id] = price
            PROVE  Sits(levels[price].orders, "Bid")
        <4>1. /\ Position(levels[price].orders, id) \in DOMAIN levels[price].orders
              /\ OrderOf(id) = levels[price].orders[Position(levels[price].orders, id)]
          BY <1>6, <3>2, IndexedOrder DEF OrderOf
        <4> QED
          BY <4>1, <2>2 DEF Sits
      <3> QED
        BY <3>1, <3>2
    <2>7. AddWouldOverflow(levels[price].total_qty - own, qty - crossing)
            <=> AddWouldOverflow(held - own, qty - crossing)
      <3>1. Smaller(qty, AskTotal(price)) <= crossing
        <4>1. Crosses("Bid", price, price)
          BY <1>6, LadderAssumption DEF Crosses, Ladder
        <4> QED
          BY <4>1, <1>6, <2>4
      <3> HIDE DEF own
      <3> QED
        BY <3>1, <1>2, <1>6, <2>4, <2>6, SameRoom
    <2>8. ModifyError(id, price, qty) =
            IF qty <= 0 THEN "InvalidQuantity"
            ELSE IF \/ AddWouldOverflow(levels[price].total_qty - own, qty - crossing)
                    \/ AddWouldOverflow(traded_qty, crossing)
                 THEN "QuantityOverflow" ELSE "None"
      BY <1>6, <2>2 DEF ModifyError
    <2>9. Exact!ModifyError(b, id, price, qty) =
            IF qty <= 0 THEN "InvalidQuantity"
            ELSE IF \/ AddWouldOverflow(rest, qty - executed)
                    \/ AddWouldOverflow(traded_qty, executed)
                 THEN "QuantityOverflow" ELSE "None"
      <3> HIDE DEF b
      <3> DEFINE in == Exact!Replacement(b, id, price, qty)
      <3>1. Exact!ModifyError(b, id, price, qty) =
              IF qty <= 0 THEN "InvalidQuantity"
              ELSE IF \/ AddWouldOverflow(B!QtyAtPrice(Exact!Withdrawn(b, id)[in.side], price),
                                          qty - B!Executed(in, b[OtherSide(in.side)]))
                      \/ AddWouldOverflow(traded_qty, B!Executed(in, b[OtherSide(in.side)]))
                   THEN "QuantityOverflow" ELSE "None"
        BY <1>1, <1>6, SameExact DEF Exact!ModifyError
      <3>2. in.side = "Bid"
        BY <2>3
      <3> HIDE DEF in
      <3>3. OtherSide(in.side) = "Ask"
        BY <3>2, <2>1
      <3> QED
        BY <3>1, <3>2, <3>3 DEF in
    <2> HIDE DEF b, crossing, executed, own, rest, held
    <2>10. ModifyError(id, price, qty) = Exact!ModifyError(b, id, price, qty)
      BY <2>4, <2>5, <2>7, <2>8, <2>9
    <2> QED
      BY <2>10 DEF b
  <1> QED
    BY <1>4, <1>5, <1>6

\* Between calls the ladder refuses the buys the promise refuses, for the same reason.
THEOREM LadderRefusesBuysAlike == Spec => []BuyRefusalsAgree
  <1>1. IInv => BuyRefusalsAgree
    <2> SUFFICES ASSUME IInv, NEW queues, queues = Book
                 PROVE  /\ \A add \in {a \in AddRequests : a.side = "Bid"} :
                             AddError(add) = Exact!AddError(queues, add)
                        /\ \A id \in OrderIds, price \in RequestPrices, qty \in Quantities :
                             (id \in DOMAIN order_index => OrderOf(id).side = "Bid")
                             => ModifyError(id, price, qty) = Exact!ModifyError(queues, id, price, qty)
      BY DEF BuyRefusalsAgree
    <2>1. SoundNow /\ queues = QueuesOf(levels)
      BY BookIs DEF IInv
    <2> QED
      BY <2>1, BuyAddErrors, BuyModifyErrors
  <1> QED
    BY <1>1, InvariantHolds, PTL
==============================================================================
