----------------------------- MODULE EngineReplay ----------------------------
(***************************************************************************)
(* What a book has become after a sequence of events, as the tools around  *)
(* the engines see it: each of them applies events one by one with         *)
(* OrderBook::process and compares or prints what is left.  The engine is  *)
(* its promise, PriceTimeBook, with quantities too small to overflow.      *)
(*                                                                         *)
(* A state of a book is what StateDigest hashes: the orders it publishes,  *)
(* the trades it has made and the number of requests it has refused.  An   *)
(* event is a record of its type, its order id, the fields of an add and   *)
(* its policies; price and qty are new_price and new_qty of a modify.      *)
(***************************************************************************)
EXTENDS Integers, Sequences

LOCAL INSTANCE PriceTime

CONSTANTS LimitPrices,  \* prices at which the engine lets an order rest
          Capacity      \* most orders it lets rest at once

\* More than the events of a run add up to.
LOCAL Unbounded == 1000000

LOCAL Engine == INSTANCE PriceTimeBook
  WITH OrderIds <- {}, RequestPrices <- {}, Quantities <- {}, AddRequests <- {},
       MaxQty <- Unbounded, queue <- <<>>, traded_qty <- 0, trades <- <<>>,
       error <- "None"

\* The policies of an event that does not mention any.
DefaultPolicies == [is_market |-> FALSE, time_in_force |-> "GTC", post_only |-> FALSE]

\* A book nobody has used.
Fresh == [book |-> [side \in Sides |-> <<>>], trades |-> <<>>, rejected |-> 0]

IsResting(state, id) == Engine!Resting(state.book, id)

\* process returns an error.
Refused(state, event) ==
  \/ event.type = "Add" /\ Engine!AddError(state.book, event) # "None"
  \/ event.type = "Cancel" /\ ~IsResting(state, event.order_id)
  \/ /\ event.type = "Modify"
     /\ Engine!ModifyError(state.book, event.order_id, event.price, event.qty) # "None"

\* The order an add or a modify brings to the other side of the book.
Incoming(state, event) ==
  IF event.type = "Add" THEN event
  ELSE Engine!Replacement(state.book, event.order_id, event.price, event.qty)

Process(state, event) ==
  LET left    == Engine!Withdrawn(state.book, event.order_id)
      in      == Incoming(state, event)
      canRest == event.type = "Modify" \/ Engine!CanRest(event)
  IN  IF Refused(state, event) THEN [state EXCEPT !.rejected = @ + 1]
      ELSE IF event.type = "Cancel" THEN [state EXCEPT !.book = left]
      ELSE [state EXCEPT !.book = Matched(left, in, canRest),
                         !.trades = @ \o TradesOf(in, left[OtherSide(in.side)])]

\* direct_replay: the events one after the other, those refused included.
Replay(events) ==
  LET after[n \in 0..Len(events)] ==
        IF n = 0 THEN Fresh ELSE Process(after[n - 1], events[n])
  IN  after[Len(events)]
==============================================================================
