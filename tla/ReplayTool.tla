------------------------------ MODULE ReplayTool ------------------------------
(***************************************************************************)
(* src/src/replay_main.cpp with the readers it calls: the text parser      *)
(* (src/src/event_parser.cpp) and the binary codec                         *)
(* (src/src/binary_event_codec.cpp).  A reader hands each event to a       *)
(* callback as soon as it has read it; the callback applies it to a book.  *)
(* Nothing is printed before the reader has returned.                      *)
(*                                                                         *)
(* A file is the lines it has or, for a binary one, the records it was     *)
(* written from: an event, a line that says nothing, or one that cannot be *)
(* read; a record cannot be read if one of its fields holds no code.  A    *)
(* file opens if it is there and, a binary one, begins with the header.    *)
(* An ADD line gives the policies of its event as options, a record of a   *)
(* binary file has them in fields.  A word of a record holds a number      *)
(* modulo Modulus (2^64 in the program), and a binary file may end in the  *)
(* middle of a record.                                                     *)
(***************************************************************************)
EXTENDS EventReplay, SequencesExt

CONSTANTS Modulus,
          MaximumTraceEvents,   \* kMaximumTraceEvents, 500 in the program
          Files                 \* the files and options the tool is run with

ASSUME ReplayAssumption ==
  /\ Modulus \in Nat /\ Modulus > 2 /\ Modulus % 2 = 0
  /\ MaximumTraceEvents \in Nat \ {0}

VARIABLES file,         \* [lines, binary, trace, opens, cut]
          reader,       \* "open", then "reading" until it has "parsed" or "failed"
          position,     \* lines or records read
          engine,       \* the book and the trades made
          event_count,
          failure,      \* replay: failed_line of the event the book refused, 0 before
          frames,       \* trace: a frame for every event, after the empty one
          trace_too_large

vars == <<file, reader, position, engine, event_count, failure, frames, trace_too_large>>

(***************************************************************************)
(* Binary records.                                                         *)
(***************************************************************************)
TypeCode == [Add |-> 0, Cancel |-> 1, Modify |-> 2]
TimeInForceCode == [GTC |-> 0, IOC |-> 1, FOK |-> 2]

NameOf(codes, code) == CHOOSE name \in DOMAIN codes : codes[name] = code

Flag(condition) == IF condition THEN 1 ELSE 0

Encode(n) == n % Modulus
DecodeUnsigned(word) == word
Decode(word) == IF word >= Modulus \div 2 THEN word - Modulus ELSE word

encode_event(event) ==
  [type |-> TypeCode[event.type], order_id |-> event.order_id,
   side |-> Flag(event.side = "Ask"),
   price |-> Encode(event.price), qty |-> Encode(event.qty),
   order_type |-> Flag(event.is_market),
   time_in_force |-> TimeInForceCode[event.time_in_force],
   post_only |-> Flag(event.post_only),
   line_number |-> event.line_number]

\* The fields that hold codes, with the largest code of each.
LargestCode == [type |-> 2, side |-> 1, order_type |-> 1, time_in_force |-> 2, post_only |-> 1]

Spoiled(record, field) == [record EXCEPT ![field] = LargestCode[field] + 1]

Decodable(record) == \A field \in DOMAIN LargestCode : record[field] <= LargestCode[field]

decode_event(record) ==
  [type |-> NameOf(TypeCode, record.type),
   order_id |-> record.order_id,
   side |-> (IF record.side = 0 THEN "Bid" ELSE "Ask"),
   price |-> Decode(record.price), qty |-> Decode(record.qty),
   is_market |-> record.order_type = 1,
   time_in_force |-> NameOf(TimeInForceCode, record.time_in_force),
   post_only |-> record.post_only = 1,
   line_number |-> record.line_number]

(***************************************************************************)
(* The options of an ADD line, one token at a time.  Some combinations are *)
(* refused when the second option is read, some only at the end of the     *)
(* line.  An option that is none of the six is OTHER.                      *)
(***************************************************************************)
TimesInForce == DOMAIN TimeInForceCode

PostOnly(parsed) ==
  [parsed EXCEPT !.ok = ~parsed.event.is_market /\ parsed.event.time_in_force # "FOK",
                 !.event.post_only = TRUE]

TimeInForce(parsed, option) ==
  [parsed EXCEPT !.ok = /\ option \in TimesInForce /\ ~parsed.saw_time_in_force
                        /\ ~(parsed.event.is_market /\ option = "GTC"),
                 !.event.time_in_force = option,
                 !.saw_time_in_force = TRUE]

TakeOption(parsed, option) ==
  IF ~parsed.ok THEN parsed
  ELSE IF option = "POST_ONLY" THEN PostOnly(parsed)
  ELSE IF option = "LIMIT" THEN [parsed EXCEPT !.ok = ~parsed.event.is_market]
  ELSE TimeInForce(parsed, option)

AtEndOfLine(parsed) ==
  [parsed EXCEPT
     !.ok = @ /\ ~(parsed.event.post_only /\ parsed.event.time_in_force = "FOK"),
     !.event.time_in_force =
        IF parsed.event.is_market /\ ~parsed.saw_time_in_force THEN "IOC" ELSE @]

parse_add_options(event, options) ==
  AtEndOfLine(FoldLeft(TakeOption, [ok |-> TRUE, saw_time_in_force |-> FALSE, event |-> event],
                       options))

(***************************************************************************)
(* What a reader makes of the n-th line or record.                         *)
(***************************************************************************)
IsEvent(line) == line.kind = "event"

RecordAt(n) ==
  IF IsEvent(file.lines[n]) THEN encode_event(file.lines[n].event)
  ELSE Spoiled(encode_event(file.lines[n].event), file.lines[n].field)

ParsedLine(n) == parse_add_options(file.lines[n].event, file.lines[n].options)

Readable(n) ==
  IF file.binary THEN Decodable(RecordAt(n))
  ELSE IF IsEvent(file.lines[n]) THEN ParsedLine(n).ok
  ELSE file.lines[n].kind # "bad"

EventAt(n) ==
  IF file.binary THEN decode_event(RecordAt(n)) ELSE ParsedLine(n).event

Init ==
  /\ file \in Files
  /\ reader = "open"
  /\ position = 0
  /\ engine = Fresh
  /\ event_count = 0
  /\ failure = 0
  /\ frames = <<>>
  /\ trace_too_large = FALSE

(***************************************************************************)
(* The two callbacks.                                                      *)
(***************************************************************************)
NeverHalted == FALSE
Halted == failure # 0

ConsumeForReplay(event) ==
  /\ UNCHANGED <<frames, trace_too_large>>
  /\ \/ Halted /\ UNCHANGED <<engine, event_count, failure>>
     \/ /\ ~Halted
        /\ engine' = Process(engine, event)
        /\ IF Refused(engine, event)
           THEN failure' = event.line_number /\ UNCHANGED event_count
           ELSE event_count' = event_count + 1 /\ UNCHANGED failure

AllTrades(before, after) == after.trades
NewTrades(before, after) == SubSeq(after.trades, Len(before.trades) + 1, Len(after.trades))

FrameOf(before, event, after) ==
  [accepted |-> ~Refused(before, event), trades |-> NewTrades(before, after),
   book |-> after.book]

TraceFull == event_count = MaximumTraceEvents

ConsumeForTrace(event) ==
  /\ UNCHANGED failure
  /\ trace_too_large' = (trace_too_large \/ TraceFull)
  /\ \/ trace_too_large' /\ UNCHANGED <<engine, event_count, frames>>
     \/ /\ ~trace_too_large'
        /\ engine' = Process(engine, event)
        /\ event_count' = event_count + 1
        /\ frames' = Append(frames, FrameOf(engine, event, engine'))

Consume(event) == IF file.trace THEN ConsumeForTrace(event) ELSE ConsumeForReplay(event)

NothingConsumed == UNCHANGED <<engine, event_count, failure, frames, trace_too_large>>

(***************************************************************************)
(* The readers.                                                            *)
(***************************************************************************)
Open ==
  /\ reader = "open"
  /\ reader' = IF file.opens THEN "reading" ELSE "failed"
  /\ UNCHANGED <<file, position>> /\ NothingConsumed

MoreToRead == position < Len(file.lines)

ReadEvent ==
  /\ reader = "reading" /\ MoreToRead
  /\ Readable(position + 1)
  /\ IsEvent(file.lines[position + 1])
  /\ Consume(EventAt(position + 1))
  /\ position' = position + 1
  /\ UNCHANGED <<file, reader>>

SkipBlank ==
  /\ reader = "reading" /\ MoreToRead
  /\ file.lines[position + 1].kind = "blank"
  /\ position' = position + 1
  /\ UNCHANGED <<file, reader>> /\ NothingConsumed

ReadUnreadable ==
  /\ reader = "reading" /\ MoreToRead
  /\ ~Readable(position + 1)
  /\ position' = position + 1
  /\ reader' = "failed"
  /\ UNCHANGED file /\ NothingConsumed

\* A read that comes upon the end of a cut record sets eof as well as fail, and only
\* a failure without eof is taken for a truncated record.
ReadEnd ==
  /\ reader = "reading" /\ ~MoreToRead
  /\ reader' = "parsed"
  /\ UNCHANGED <<file, position>> /\ NothingConsumed

Next == Open \/ ReadEvent \/ SkipBlank \/ ReadUnreadable \/ ReadEnd

Spec == Init /\ [][Next]_vars

\* What main does when the reader has returned.
Outcome ==
  CASE reader = "failed"                     -> "parse error"
    [] reader = "parsed" /\ trace_too_large  -> "trace too large"
    [] reader = "parsed" /\ failure # 0      -> "engine error"
    [] reader = "parsed" /\ ~trace_too_large /\ failure = 0 -> "printed"
    [] OTHER                                 -> "running"
-----------------------------------------------------------------------------
(***************************************************************************)
(* Properties.                                                             *)
(***************************************************************************)
\* What the options of a line say, all of them together, and whether they make sense.
TimesGiven(line) == {i \in DOMAIN line.options : line.options[i] \in TimesInForce}
Given(line, option) == option \in ToSet(line.options)

Sensible(line) ==
  /\ ~Given(line, "OTHER")
  /\ Cardinality(TimesGiven(line)) <= 1
  /\ ~(Given(line, "POST_ONLY") /\ Given(line, "FOK"))
  /\ line.event.is_market =>
       \A option \in {"POST_ONLY", "LIMIT", "GTC"} : ~Given(line, option)

Described(line) ==
  [line.event EXCEPT
     !.post_only = @ \/ Given(line, "POST_ONLY"),
     !.time_in_force =
        IF TimesGiven(line) # {} THEN line.options[CHOOSE i \in TimesGiven(line) : TRUE]
        ELSE IF line.event.is_market /\ ~file.binary THEN "IOC"
        ELSE @]

\* The events of the file.
EventLines == SelectSeq(file.lines, IsEvent)
Events == [i \in DOMAIN EventLines |-> Described(EventLines[i])]

SoundLine(line) == line.kind # "bad" /\ (IsEvent(line) => Sensible(line))

\* Output appears exactly for a file that can be read whole, is short enough to be
\* traced and, unless it is traced, has no event refused; and then it is that of a
\* direct replay of every event of the file, in whichever format it was read and in
\* whatever order an ADD line gives its options.
PrintedIffSound ==
  reader \in {"parsed", "failed"} =>
    /\ Outcome = "printed" <=>
         /\ file.opens
         /\ \A n \in DOMAIN file.lines : SoundLine(file.lines[n])
         /\ IF file.trace THEN Len(Events) <= MaximumTraceEvents
            ELSE Replay(Events).rejected = 0
    /\ Outcome = "printed" => engine = Replay(Events) /\ event_count = Len(Events)

\* A replay names the line of the first event the book refuses, and applies none of
\* the events the reader still delivers after it.
FirstRefusalReported ==
  Outcome = "engine error" =>
    \E n \in DOMAIN Events :
      /\ failure = Events[n].line_number
      /\ Replay(SubSeq(Events, 1, n - 1)).rejected = 0
      /\ engine = Replay(SubSeq(Events, 1, n))
      /\ engine.rejected = 1

\* Frame n of a trace shows the book after the first n events, and the frames'
\* trades, one after the other, are all the trades there were.
FramesTellTheStory ==
  /\ \A n \in DOMAIN frames : frames[n].book = Replay(SubSeq(Events, 1, n)).book
  /\ file.trace => FlattenSeq([n \in DOMAIN frames |-> frames[n].trades]) = engine.trades

\* binary_event_codec.cpp:164-165 fails with "truncated binary event record".
CutFileRefused == file.binary /\ file.cut => Outcome # "printed"
==============================================================================
