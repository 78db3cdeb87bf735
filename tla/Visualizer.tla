------------------------------ MODULE Visualizer ------------------------------
(***************************************************************************)
(* The replay page, src/visualizer/app.js, with the development server that *)
(* runs the matcher for it, src/scripts/serve_visualizer.py.  The page      *)
(* probes the trace endpoint once.  If it answers, the page is live: it     *)
(* asks for a new trace some time after the reader has changed a field, and *)
(* the requests are served by threads of the server, in any order.          *)
(* Otherwise it loads the trace that is checked in and, if it can, a second *)
(* one to switch to.                                                        *)
(*                                                                          *)
(* The fields are the scenario the panel describes and whether every number *)
(* in it is whole (BigInt refuses the others).  A frame is what             *)
(* orda_replay --trace-json prints for one event.                           *)
(***************************************************************************)
EXTENDS EventReplay, TraceCharts

CONSTANTS Scenarios,      \* what a reader can put into the fields of the panel
          LargestNumber,  \* the largest number the event parser reads
          MaxEdits        \* the bound on the changes a reader makes

SellTypes == {"LIMIT", "MARKET", "IOC", "FOK", "POST_ONLY"}

Fields == [buy1Size : Nat, buy2Size : Nat, buy2Price : Nat, sellPrice : Nat, sellSize : Nat,
           sellType : SellTypes, modifyFirst : BOOLEAN, whole : BOOLEAN]

ASSUME VisualizerAssumption ==
  /\ Scenarios \subseteq Fields /\ IsFiniteSet(Scenarios)
  /\ LargestNumber \in Nat /\ MaxEdits \in Nat

VARIABLES page,              \* "probing", then "live", or "loading", "offering", "static" or "failed"
          fields,            \* parameterFields
          edits,             \* how often the reader has changed them
          timer,             \* parameterTimer is running
          requests,          \* the calls of refreshFromParameters, by requestSerial
          frames,            \* the trace on the page, <<>> before there is one
          scale,             \* priceLevels, maximumCumulativeDepth and history
          currentStep,
          playing,           \* playbackTimer is running
          loadError,         \* the error text is visible
          defaultFrames, alternateFrames, showingAlternate

panel == <<fields, edits, timer>>
shown == <<frames, scale, currentStep, playing, loadError>>
runs == <<defaultFrames, alternateFrames, showingAlternate>>
vars == <<page, fields, edits, timer, requests, frames, scale, currentStep, playing,
          loadError, defaultFrames, alternateFrames, showingAlternate>>

(***************************************************************************)
(* The scenario the panel sends, and what the matcher makes of it.         *)
(***************************************************************************)
DefaultFields ==
  [buy1Size |-> 3, buy2Size |-> 2, buy2Price |-> 100, sellPrice |-> 100, sellSize |-> 4,
   sellType |-> "LIMIT", modifyFirst |-> FALSE, whole |-> TRUE]
AlternateFields == [DefaultFields EXCEPT !.modifyFirst = TRUE]

Limit(id, side, price, qty) ==
  [type |-> "Add", order_id |-> id, side |-> side, price |-> price, qty |-> qty,
   is_market |-> FALSE, time_in_force |-> "GTC", post_only |-> FALSE]

Sell(in) ==
  [Limit(6, "Ask", in.sellPrice, in.sellSize) EXCEPT
     !.is_market = in.sellType = "MARKET",
     !.price = IF in.sellType = "MARKET" THEN 0 ELSE @,
     !.time_in_force = CASE in.sellType \in {"MARKET", "IOC"} -> "IOC"
                         [] in.sellType = "FOK" -> "FOK"
                         [] OTHER -> "GTC",
     !.post_only = in.sellType = "POST_ONLY"]

ModifyFirst(in) == [type |-> "Modify", order_id |-> 1, price |-> 100, qty |-> in.buy1Size]

buildScenario(in) ==
  <<Limit(1, "Bid", 100, in.buy1Size), Limit(2, "Bid", in.buy2Price, in.buy2Size),
    Limit(3, "Bid", 99, 2)>>
  \o (IF in.modifyFirst THEN <<ModifyFirst(in)>> ELSE <<>>)
  \o <<Limit(4, "Ask", 101, 3), Limit(5, "Ask", 102, 2), Sell(in)>>

FramesOf(events) ==
  LET after[n \in 0..Len(events)] ==
        IF n = 0 THEN Fresh ELSE Process(after[n - 1], events[n])
      frame(n) == [accepted |-> ~Refused(after[n - 1], events[n]),
                   trades   |-> SubSeq(after[n].trades, Len(after[n - 1].trades) + 1,
                                       Len(after[n].trades)),
                   book     |-> after[n].book]
      empty == [accepted |-> TRUE, trades |-> <<>>, book |-> Fresh.book]
  IN  <<empty>> \o [n \in DOMAIN events |-> frame(n)]

Traces == [in \in Scenarios \cup {DefaultFields, AlternateFields} |-> FramesOf(buildScenario(in))]

\* The parser reads every number the panel sends.
Parsed(in) ==
  \A n \in {in.buy1Size, in.buy2Size, in.buy2Price, in.sellSize}
           \cup (IF in.sellType = "MARKET" THEN {} ELSE {in.sellPrice}) : n <= LargestNumber
-----------------------------------------------------------------------------
NoScale == [priceLevels |-> <<>>, maximumCumulativeDepth |-> 0,
            history |-> [Bid |-> <<>>, Ask |-> <<>>]]

Init ==
  /\ page = "probing"
  /\ fields \in Scenarios /\ edits = 0 /\ timer = FALSE
  /\ requests = <<>>
  /\ frames = <<>> /\ scale = NoScale /\ currentStep = 0 /\ playing = FALSE
  /\ loadError = FALSE
  /\ defaultFrames = <<>> /\ alternateFrames = <<>> /\ showingAlternate = FALSE

\* prepareBookScale.
ScaleOf(run) ==
  LET rows == priceScale(run)
  IN  [priceLevels |-> rows.priceLevels,
       maximumCumulativeDepth |-> rows.maximumCumulativeDepth,
       history |-> depthByEvent(run, rows.priceLevels)]

\* renderTrace.  The slip: the charts keep the scale of the first run.
RenderKeepingScale(run) ==
  /\ frames' = run
  /\ scale' = IF frames = <<>> THEN ScaleOf(run) ELSE scale
  /\ currentStep' = 0
  /\ playing' = FALSE
  /\ loadError' = FALSE
RenderTrace(run) ==
  /\ frames' = run
  /\ scale' = ScaleOf(run)
  /\ currentStep' = 0
  /\ playing' = FALSE
  /\ loadError' = FALSE

ShowError == loadError' = TRUE /\ UNCHANGED <<frames, scale, currentStep, playing>>

(***************************************************************************)
(* The live page.                                                          *)
(***************************************************************************)
requestSerial == Len(requests)

\* refreshFromParameters up to its await.  A number that is not whole throws
\* before anything is sent.
RefreshFromParameters ==
  /\ requests' = Append(requests, [fields  |-> fields, handled |-> ~fields.whole,
                                   answer |-> IF fields.whole THEN "none" ELSE "error"])
  /\ IF fields.whole THEN UNCHANGED shown ELSE ShowError

\* loadReplay.
ProbeAnswers ==
  /\ page = "probing"
  /\ page' = "live"
  /\ RefreshFromParameters
  /\ UNCHANGED <<panel, runs>>

ProbeFails ==
  /\ page = "probing"
  /\ page' = "loading"
  /\ UNCHANGED <<panel, requests, shown, runs>>

\* scheduleParameterRefresh: a later change starts the wait again.  The slip: nothing
\* is asked for while an answer is awaited.
AskUnlessWaiting == \A serial \in DOMAIN requests : requests[serial].handled
AskAgain == TRUE
Edit(in) ==
  /\ page = "live"
  /\ edits < MaxEdits /\ edits' = edits + 1
  /\ fields' = in
  /\ timer' = AskAgain
  /\ UNCHANGED <<page, requests, shown, runs>>

TimerFires ==
  /\ timer
  /\ timer' = FALSE
  /\ RefreshFromParameters
  /\ UNCHANGED <<page, fields, edits, runs>>

\* handle_trace: the engine's trace, its message if it cannot read the scenario, or
\* the time limit; or the connection is lost.
ServerAnswers(serial) ==
  /\ requests[serial].answer = "none"
  /\ \E answer \in {"trace", "error"} :
       /\ answer = "trace" => Parsed(requests[serial].fields)
       /\ requests' = [requests EXCEPT ![serial].answer = answer]
  /\ UNCHANGED <<page, panel, shown, runs>>

Awaited(serial) == requests[serial].answer # "none" /\ ~requests[serial].handled

\* refreshFromParameters after its await.  The slip: it shows whatever comes.
ShowsLate(serial) == TRUE
IsNewest(serial) == serial = requestSerial

Receive(serial) ==
  Awaited(serial) /\ requests' = [requests EXCEPT ![serial].handled = TRUE]

HandleAnswer(serial) ==
  /\ Receive(serial)
  /\ \/ ~IsNewest(serial) /\ UNCHANGED shown
     \/ /\ IsNewest(serial) /\ requests[serial].answer = "trace"
        /\ RenderTrace(Traces[requests[serial].fields])
     \/ IsNewest(serial) /\ requests[serial].answer = "error" /\ ShowError
  /\ UNCHANGED <<page, panel, runs>>

(***************************************************************************)
(* The page without a server.                                              *)
(***************************************************************************)
FetchDefault ==
  /\ page = "loading"
  /\ \/ page' = "offering" /\ UNCHANGED shown
     \/ page' = "failed" /\ ShowError
  /\ UNCHANGED <<panel, requests, runs>>

AllFetched == page = "offering" /\ page' = "static"

FetchAlternate ==
  /\ AllFetched
  /\ alternateFrames' \in {<<>>, Traces[AlternateFields]}
  /\ showingAlternate' = FALSE
  /\ defaultFrames' = Traces[DefaultFields]
  /\ RenderTrace(defaultFrames')
  /\ UNCHANGED <<panel, requests>>

\* A scenario button, which shows with the second run.
SwitchRun(wantsAlternate) ==
  /\ page = "static" /\ alternateFrames # <<>>
  /\ wantsAlternate # showingAlternate
  /\ showingAlternate' = wantsAlternate
  /\ RenderTrace(IF wantsAlternate THEN alternateFrames ELSE defaultFrames)
  /\ UNCHANGED <<page, panel, requests, defaultFrames, alternateFrames>>

(***************************************************************************)
(* Stepping through the frames, with the buttons, the slider, the timeline *)
(* or the keys, and playing them.                                          *)
(***************************************************************************)
LastStep == Len(frames) - 1

\* Without frames setStep stops the playback and then throws.
SetStep(step) ==
  /\ playing' = FALSE
  /\ currentStep' = Max({0, Min({step, LastStep})})
  /\ UNCHANGED <<page, panel, requests, frames, scale, loadError, runs>>

Play ==
  /\ page # "failed"
  /\ playing' = ~playing
  /\ currentStep' = IF ~playing /\ currentStep = LastStep THEN 0 ELSE currentStep
  /\ UNCHANGED <<page, panel, requests, frames, scale, loadError, runs>>

PlaybackTick ==
  /\ playing
  /\ currentStep' = IF currentStep >= LastStep THEN currentStep ELSE currentStep + 1
  /\ playing' = (currentStep' < LastStep)
  /\ UNCHANGED <<page, panel, requests, frames, scale, loadError, runs>>

Next ==
  \/ ProbeAnswers \/ ProbeFails
  \/ \E in \in Scenarios : Edit(in)
  \/ TimerFires
  \/ \E serial \in DOMAIN requests : ServerAnswers(serial)
  \/ \E serial \in DOMAIN requests : HandleAnswer(serial)
  \/ FetchDefault \/ FetchAlternate
  \/ \E wantsAlternate \in BOOLEAN : SwitchRun(wantsAlternate)
  \/ \E step \in -1..LastStep + 1 : SetStep(step)
  \/ Play \/ PlaybackTick

(***************************************************************************)
(* Timers fire and promises settle: a fetch ends with an answer or an      *)
(* error, and the server answers by its time limit at the latest.  Nothing *)
(* is assumed of the reader.  Only HandleAnswer receives an answer and only *)
(* FetchAlternate has all fetched.                                         *)
(***************************************************************************)
Fairness ==
  /\ WF_vars(ProbeAnswers \/ ProbeFails)
  /\ WF_vars(TimerFires)
  /\ WF_vars(\E serial \in DOMAIN requests : ServerAnswers(serial))
  /\ WF_requests(\E serial \in DOMAIN requests : Receive(serial))
  /\ WF_vars(FetchDefault) /\ WF_page(AllFetched)

Spec == Init /\ [][Next]_vars /\ Fairness
-----------------------------------------------------------------------------
(***************************************************************************)
(* Properties.                                                             *)
(***************************************************************************)
Newest == requests[requestSerial]

\* Whatever the order in which the answers come: once the answer to the newest request
\* has been handled, the page shows it, the trace of that request or, if there is
\* none, the error.  A static page shows the
\* run whose button is pressed.
ShowsNewest ==
  /\ page = "live" /\ Newest.handled =>
       IF Newest.answer = "trace" THEN frames = Traces[Newest.fields] /\ ~loadError
       ELSE loadError
  /\ page = "static" =>
       /\ frames = (IF showingAlternate THEN alternateFrames ELSE defaultFrames)
       /\ ~loadError

\* Nothing is left to wait for, and the newest request is for what the fields say.
Quiet ==
  \/ /\ page = "live" /\ ~timer
     /\ \A serial \in DOMAIN requests : requests[serial].handled
     /\ Newest.fields = fields
  \/ page \in {"static", "failed"}

\* Once the reader leaves the fields alone, the page comes to rest with the answer to
\* the last change, whichever requests were under way when it was made.
PageSettles == <>[]Quiet

\* What check-depth.mjs computes as a filtered sum: all that rests at a price or a
\* better one, and nothing outside the prices of the side.
ExpectedAt(orders, price, descending) ==
  IF \E p, q \in PricesOf(orders) : p <= price /\ price <= q
  THEN FoldLeft(LAMBDA sum, order :
                  IF (IF descending THEN order.price >= price ELSE order.price <= price)
                  THEN sum + order.qty ELSE sum, 0, orders)
  ELSE NoDepth

\* The charts of the step on the page are those of the run on the page: each bar is
\* the quantity from the touch to its price and fits the scale, each resting order
\* has a row, and the history ends in what the book holds.
ChartsAgree ==
  frames # <<>> =>
    LET frame == frames[currentStep + 1]
    IN  \A side \in {"Bid", "Ask"} :
          \A orders \in {frame.book[side]} :
            \A drawn \in {depthProfile(orders, side = "Bid", scale.priceLevels)} :
              /\ PricesOf(orders) \subseteq Range(scale.priceLevels)
              /\ \A row \in DOMAIN scale.priceLevels :
                   /\ drawn[row] = ExpectedAt(orders, scale.priceLevels[row], side = "Bid")
                   /\ drawn[row] <= scale.maximumCumulativeDepth
              /\ scale.history[side][currentStep + 1] =
                   FoldLeft(LAMBDA sum, order : sum + order.qty, 0, orders)
==============================================================================
