-------------------------- MODULE PriceTimeMatching --------------------------
(***************************************************************************)
(* The matching half of what an engine promises: a book that is nothing    *)
(* but its two queues of resting orders, and three calls that each take    *)
(* effect in one step.  A call may be refused for any reason here, and     *)
(* then changes nothing; once admitted it has exactly its price-time       *)
(* effect.  PriceTimeBook adds which calls are refused, and why.           *)
(***************************************************************************)
EXTENDS PriceTime

CONSTANTS OrderIds,       \* ids the callers use
          RequestPrices,  \* prices the callers send, some of them not positive
          Quantities,     \* quantities the callers send, some of them not positive
          AddRequests     \* add events the callers send

VARIABLES queue,       \* queue[side]: what orders(side) returns
          traded_qty,  \* EngineStats::traded_qty
          trades,      \* the trades of the last call
          error        \* the BookError of the last call

bookVars == <<queue, traded_qty, trades, error>>

\* A market order never rests, whatever its time in force says.
CanRest(add) == ~add.is_market /\ add.time_in_force = "GTC"

Resting(book, id) == \E side \in Sides : Positions(book[side], id) # {}

SideOf(book, id) == CHOOSE side \in Sides : Positions(book[side], id) # {}

(***************************************************************************)
(* The calls, as relations between the queues before and what a client     *)
(* sees after: the queues, the traded total, the trades and the error.     *)
(***************************************************************************)
Seen == [queue |-> queue, traded_qty |-> traded_qty, trades |-> trades, error |-> error]

Refuse(book, after) ==
  after.trades = <<>> /\ after.queue = book /\ after.traded_qty = traded_qty

Execute(book, after, in, canRest) ==
  /\ after.error = "None"
  /\ after.trades = TradesOf(in, book[OtherSide(in.side)])
  /\ after.queue = Matched(book, in, canRest)
  /\ after.traded_qty = traded_qty + Executed(in, book[OtherSide(in.side)])

\* The book once the order id has left it.
Withdrawn(book, id) == [side \in Sides |-> WithoutOrder(book[side], id)]

Cancel(book, after, id) ==
  \/ ~Resting(book, id) /\ after.error = "UnknownOrderId" /\ Refuse(book, after)
  \/ /\ Resting(book, id)
     /\ after.error = "None" /\ after.trades = <<>>
     /\ after.queue = Withdrawn(book, id)
     /\ after.traded_qty = traded_qty

\* A modified order is a new limit order of the same id and side.
Replacement(book, id, price, qty) ==
  [order_id |-> id, side |-> SideOf(book, id), price |-> price, qty |-> qty,
   is_market |-> FALSE]

Init ==
  /\ queue = [side \in Sides |-> <<>>]
  /\ traded_qty = 0
  /\ trades = <<>>
  /\ error = "None"

\* What is before and after is bound once, so that a checker of a refinement maps
\* each once.
MatchingNext ==
  \E book \in {queue}, after \in {Seen'} :
    \/ after.error # "None" /\ Refuse(book, after)
    \/ \E id \in OrderIds : Cancel(book, after, id)
    \/ \E add \in AddRequests :
         add.qty > 0 /\ ~Resting(book, add.order_id) /\ Execute(book, after, add, CanRest(add))
    \/ \E id \in OrderIds, price \in RequestPrices, qty \in Quantities :
         /\ qty > 0 /\ Resting(book, id)
         /\ Execute(Withdrawn(book, id), after, Replacement(book, id, price, qty), TRUE)

MatchingSpec == Init /\ [][MatchingNext]_bookVars
==============================================================================
