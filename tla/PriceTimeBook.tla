---------------------------- MODULE PriceTimeBook ----------------------------
(***************************************************************************)
(* What every matching engine of the repository promises: price-time       *)
(* matching, and exactly these refusals in exactly this order.  It is the  *)
(* model of the oracle of the test suite, tests/reference_order_book.cpp,  *)
(* which keeps orders and no total, index, slot or bitmap; the oracle's    *)
(* loops are given by the closed forms of PriceTime.  Two parameters let   *)
(* the engines with a bound be instances of the same promise: LimitPrices  *)
(* (the price ladder rejects a positive price outside its range) and       *)
(* Capacity (the pooled book rejects an order that would rest beyond its   *)
(* pool).                                                                  *)
(***************************************************************************)
EXTENDS PriceTimeMatching

CONSTANTS LimitPrices,  \* prices at which an order may rest
          MaxQty,       \* std::numeric_limits<Quantity>::max()
          Capacity      \* most orders that may rest at once

Overflows(left, right) == right > 0 /\ left > MaxQty - right

OrdersIn(book) == Len(book["Bid"]) + Len(book["Ask"])

PriceError(price) == IF price > 0 THEN "PriceOutOfRange" ELSE "InvalidPrice"

\* The first reason to refuse an add, in the order the checks are made.
AddError(book, add) ==
  LET executed == Executed(add, book[OtherSide(add.side)])
  IN  IF ~add.is_market /\ add.price \notin LimitPrices THEN PriceError(add.price)
      ELSE IF add.is_market /\ add.post_only THEN "WouldTakeLiquidity"
      ELSE IF add.qty <= 0 THEN "InvalidQuantity"
      ELSE IF Resting(book, add.order_id) THEN "DuplicateOrderId"
      ELSE IF ~add.is_market /\ add.time_in_force = "FOK" /\ executed < add.qty
           THEN "InsufficientLiquidity"
      ELSE IF add.post_only /\ executed > 0 THEN "WouldTakeLiquidity"
      ELSE IF \/ /\ CanRest(add)
                 /\ Overflows(QtyAtPrice(book[add.side], add.price), add.qty - executed)
              \/ Overflows(traded_qty, executed)
           THEN "QuantityOverflow"
      ELSE IF /\ OrdersIn(book) >= Capacity
              /\ OrdersIn(Matched(book, add, CanRest(add))) > Capacity
           THEN "CapacityExceeded"
      ELSE "None"

Add(book, after, add) ==
  LET reason == AddError(book, add)
  IN  /\ after.error = reason
      /\ \/ reason # "None" /\ Refuse(book, after)
         \/ reason = "None" /\ Execute(book, after, add, CanRest(add))

ModifyError(book, id, price, qty) ==
  IF ~Resting(book, id) THEN "UnknownOrderId"
  ELSE IF price \notin LimitPrices THEN PriceError(price)
  ELSE IF qty <= 0 THEN "InvalidQuantity"
  ELSE LET new      == Replacement(book, id, price, qty)
           executed == Executed(new, book[OtherSide(new.side)])
       IN  IF \/ Overflows(QtyAtPrice(Withdrawn(book, id)[new.side], price), qty - executed)
              \/ Overflows(traded_qty, executed)
           THEN "QuantityOverflow"
           ELSE "None"

Modify(book, after, id, price, qty) ==
  LET reason == ModifyError(book, id, price, qty)
  IN  /\ after.error = reason
      /\ \/ reason # "None" /\ Refuse(book, after)
         \/ /\ reason = "None"
            /\ Execute(Withdrawn(book, id), after, Replacement(book, id, price, qty), TRUE)

Next ==
  \E book \in {queue}, after \in {Seen'} :
    \/ \E id \in OrderIds : Cancel(book, after, id)
    \/ \E add \in AddRequests : Add(book, after, add)
    \/ \E id \in OrderIds, price \in RequestPrices, qty \in Quantities :
         Modify(book, after, id, price, qty)

Spec == Init /\ [][Next]_bookVars
==============================================================================
