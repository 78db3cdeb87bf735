----------------------------- MODULE MCReplayTool -----------------------------
(* Instances of the replay tool for TLC. *)
EXTENDS ReplayTool, TLC

CONSTANTS FileLength, MostOptions

Event(type, id, side, price, qty) ==
  [type |-> type, order_id |-> id, side |-> side, price |-> price, qty |-> qty]
    @@ DefaultPolicies

Requests ==
  {Event("Add", 1, "Bid", 2, 2), Event("Add", 2, "Ask", 2, 1),
   Event("Modify", 1, "Bid", -1, 1), Event("Cancel", 1, "Bid", 0, 0)}

Blank == [kind |-> "blank"]
Bad == [kind |-> "bad"]

Line(event, options, n) ==
  [kind |-> "event", event |-> [line_number |-> n] @@ event, options |-> options]

LineOf(choice, n) == IF choice \in Requests THEN Line(choice, <<>>, n) ELSE choice

UpTo(length, choices) == UNION {[1..n -> choices] : n \in 0..length}

TextsOf(choices) ==
  {[n \in DOMAIN chosen |-> LineOf(chosen[n], n)] : chosen \in UpTo(FileLength, choices)}

\* An order of every policy that meets one it can trade with in part.
Ask == Line(Event("Add", 2, "Ask", 2, 1), <<>>, 1)
Bid == Event("Add", 1, "Bid", 2, 2)

Options == TimesInForce \cup {"POST_ONLY", "LIMIT", "OTHER"}

OptionTexts ==
  {<<Ask, Line([Bid EXCEPT !.is_market = market], options, 2)>> :
     market \in BOOLEAN, options \in UpTo(MostOptions, Options)}

PolicyRecords ==
  {<<Ask, Line([Bid EXCEPT !.is_market = market, !.time_in_force = time_in_force,
                           !.post_only = post_only], <<>>, 2)>> :
     market \in BOOLEAN, time_in_force \in TimesInForce, post_only \in BOOLEAN}

\* A record that no event of the program is written as.
SpoiledRecord(field) ==
  [kind |-> "bad", event |-> [line_number |-> 2] @@ Bid, field |-> field]

SpoiledRecords == {<<Ask, SpoiledRecord(field)>> : field \in DOMAIN LargestCode}

\* A binary file has no blank records and its events no options; --trace-json reads text.
MCFiles ==
  [lines : TextsOf(Requests \cup {Bad, Blank}) \cup OptionTexts, binary : {FALSE},
   trace : BOOLEAN, opens : BOOLEAN, cut : {FALSE}]
  \cup
  [lines : TextsOf(Requests \cup {SpoiledRecord("type")}) \cup SpoiledRecords \cup PolicyRecords,
   binary : {TRUE}, trace : {FALSE}, opens : BOOLEAN, cut : BOOLEAN]
==============================================================================
