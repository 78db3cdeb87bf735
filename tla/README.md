# orda-book: a TLA+ verification project

orda-book is a set of C++ limit order books with one matching rule, and the tools
around them: a replay command, a bounded queue between two threads, a per-shard
partition lab, benchmarks and a browser visualizer. This directory holds TLA+
specifications of that code, TLC configurations that check them on small
instances, and proofs that TLAPS checks for every value of the constants. All
source lines below are those of `src/`, `tests/`, `scripts/` and `visualizer/` at the
modelled commit.

## 1. The system

| Component | State it keeps | Operations | Talks to |
| --- | --- | --- | --- |
| Baseline engine `src/order_book.{hpp,cpp}` | two ordered maps of price levels, a list of orders and a cached total per level, an index from id to level and list node, counters | `add`, `cancel`, `modify` (through `process`), `top_of_book`, `levels`, `orders` | called by everything below |
| Price ladder `src/ladder_order_book.{hpp,cpp}` | one level per price of a fixed range, a two-level occupancy bitmap per side, an index | the same | benchmarks, differential tests |
| Pooled engine `src/pooled_order_book.{hpp,cpp}` | a pool of slots with a free list, levels as doubly linked lists of slots, an index | the same, and `reserve_orders` | benchmarks, differential tests |
| Oracle `tests/reference_order_book.cpp` | lists of orders, nothing cached | the same | differential tests, fuzz target |
| SPSC queue `src/spsc_queue.hpp` | a ring of slots, two atomic counters | `try_push`, `try_pop` | partition lab, ingress benchmark |
| Partition lab `src/partition_lab_main.cpp` | a queue, a book and a record of events per shard, a done flag | writer loop, matcher loops, comparison with a direct replay, workload generator | SPSC queue, baseline engine, text parser |
| Ingress benchmark `src/ingress_benchmark_main.cpp` | a queue, a book, the flags `producer_done`, `stop`, `failed` | `run_round` | SPSC queue, baseline engine |
| Text parser `src/event_parser.cpp` | a line number | stream of events through a callback, stops at the first bad line | replay, labs |
| Binary codec `src/binary_event_codec.cpp` | a record number | write and read fixed-size records | replay |
| Replay `src/replay_main.cpp` | a book, trades, trace frames | apply events, stop at an engine error, export a trace | parser, codec, baseline engine |
| Visualizer page `visualizer/app.js`, `trace.mjs` | frames of one or two traces, the scale of the charts, a request serial, the timers of the panel and of playback | probe, change a parameter, request, show, step, play, switch | trace server |
| Trace server `scripts/serve_visualizer.py` | none between requests | one replay process per request, with limits and a timeout | replay |
| Benchmarks `src/benchmark_main.cpp`, `tail_benchmark_main.cpp`, `allocation_benchmark_main.cpp` | a stream and its next id, a pool of the orders thought to be live, a book | build a stream (ten workloads), drive an engine through it or through a file | engines, parser, codec |
| Evidence scripts `scripts/validate_manifest.py` | none | check result files | |

### What is hard about it

* **Three views of one book.** Every operation of an engine updates levels, lists
  (or bitmaps, or slots) and an index by hand. A slip shows only after a long
  legal sequence of calls.
* **Decide first, act later.** Fill-or-kill, post-only, overflow and capacity are
  decided on a *prediction* of the crossing quantity, made from cached totals; the
  matching loop then works on the orders. Nothing checks that the two agree.
* **Limits.** Signed quantities whose sums may overflow, market orders at the
  numeric limits of `Price`, a pool that is full, a ring that is full.
* **Two threads.** The queue has one atomic counter per side and no lock; each
  thread works on a value of the other's counter that may be old.
* **Shutdown.** Matchers and consumers end on flags that race with the last
  elements of the queue (partition lab, ingress benchmark).
* **Partial effects.** Events take effect while the file is still being read.
* **Assumed outcomes.** The generators of streams and the benchmarks never look at a
  book and yet count on what became of the orders in it.
* **Answers out of order.** The page asks for a new trace while older requests are
  under way, and the server answers each in a thread of its own.

There is no persistence and no network protocol between processes, so there is
nothing to recover after a crash and no message to lose between engines.

`PROJECT.json` lists every hazard with its line and the properties that cover it.

## 2. The modules

| Module | What it is | Code |
| --- | --- | --- |
| `PriceTime` | what price-time priority means: closed formulas for the trades of an incoming order and for the queues after it | loops of `tests/reference_order_book.cpp` |
| `PriceTimeMatching` | abstract specification: a book that is two queues, each call one step; refusals are free to happen for any reason | the oracle |
| `PriceTimeBook` | the same, with exactly the oracle's refusals in the oracle's order; parameters for a bounded price range and a bounded capacity | the oracle |
| `OrderBook` | the baseline engine; from `PriceTime` it takes only the sides and the comparison of prices and quantities | `order_book.{hpp,cpp}` |
| `OrderBookRefinement` | its refinement mapping to `PriceTimeBook` | `orders()` |
| `OrderBookProofs` | theorems and proofs about `OrderBook`: types, index, uncrossed book, progress; totals, admission, policies, time priority; that it implements `PriceTimeBook` | |
| `LadderOrderBook`, `LadderRefinement` | the price ladder and its mapping to `PriceTimeMatching` | `ladder_order_book.{hpp,cpp}` |
| `LadderOrderBookProofs` | theorems and proofs about `LadderOrderBook`: bitmaps, index and totals; that it implements `PriceTimeMatching`; its refusals of buys | |
| `PooledOrderBook`, `PooledRefinement` | the pooled engine and its mapping to `PriceTimeBook` with a capacity | `pooled_order_book.{hpp,cpp}` |
| `PooledOrderBookProofs` | theorems and proofs about `PooledOrderBook`: slots, links, room for a remainder; its refusals; that it implements `PriceTimeBook` | |
| `BoundedFifo` | abstract specification of the queue | `docs/INGRESS_BOUNDARY_DESIGN.md`, `spsc_queue.hpp` |
| `SpscQueue` | the ring, one action per access to shared memory | `spsc_queue.hpp` |
| `SpscQueueProofs` | theorems and proofs about `SpscQueue`, its refinement included | |
| `EngineReplay` | what a book has become after a sequence of events, from `PriceTimeBook`, for a range of prices and a capacity | `direct_replay`, `StateDigest` |
| `EventReplay` | the same for the baseline engine | |
| `EventReplayProofs` | lemmas on replays that the proofs about both threaded tools use | |
| `PartitionLab` | the writer, a queue and a matcher per shard, the final comparison | `partition_lab_main.cpp` |
| `LabWorkload` | every stream the lab's generator may make | `generate_workload` |
| `PartitionLabProofs` | theorems and proofs about `PartitionLab` | |
| `IngressRound` | producer, consumer and their three flags, the final comparison | `run_round` of `ingress_benchmark_main.cpp` |
| `IngressRoundProofs` | theorems and proofs about `IngressRound` | |
| `ReplayTool` | the two readers, the two callbacks and the outcome of the replay command | `replay_main.cpp`, `event_parser.cpp`, `binary_event_codec.cpp` |
| `BenchmarkStreams` | the builders of streams, one iteration of a loop an action, and their pool of live orders | `StreamBuilder`, `LivePool`, `build_*` |
| `Benchmark` | the loops that drive an engine through a stream | `run_engine`, `run_parse_and_engine`, `run` |
| `TraceCharts` | the arithmetic of the charts | `trace.mjs` |
| `Visualizer` | the page, and what it can tell of the server | `app.js`, `serve_visualizer.py` |
| `Induction` | lemmas that stand for induction over the naturals in the proofs, and the sum of the quantities of a list of orders | |
| `MC...` | constants, symmetry and sets of requests for TLC | |

### How state and actions correspond to the code

**Engines.** `levels`, `order_index`, `traded_qty` are the members of the same name
(`bids_` and `asks_` are `levels["Bid"]` and `levels["Ask"]`, maps from price to
level). `incoming` is the local state of a call under way: it is set by `Add` and
`Modify` when a request is admitted, reduced by each `Fill` (one iteration of the
inner loop of `match_incoming`, with the erasure of the level it empties) and
cleared by `Return` (in the pooled engine by `Rest` or `Return`), which also puts
a remainder to rest. A refused request is a single step that sets `error` and
changes nothing else. Validation, which writes nothing, and the removal that
starts a modify are one step, because no caller can see the book in between; the
fills are separate steps, so that the invariants also speak of the states inside
the loop. An engine is used by one thread only, so calls do not interleave.

`MaxPrice` and `MaxQty` are the numeric limits of `Price` and `Quantity`: the
overflow guards are checked at small limits. Non-positive prices and quantities
are represented by 0. Ids are model values. The counters of `EngineStats` are left
out except `traded_qty`, the only one a guard reads.

**Ladder.** A bitmap is the set of its set bits, cut into words of `WordBits` bits
(64 in the program, 1 or 2 in the runs, so that there are several words of several
levels). `FirstBit` is `ctz` on the ask side and `clz` on the bid side. `ScanOf` is
the scan of `max_crossing_qty` exactly as written, with `bits &= bits - 1` after
either of them.

**Pool.** A slot is a record with its links; `free_head`, `head`, `tail`, `prev`,
`next`, `free_next` are the program's, 0 being `kInvalidSlot`. The order the slots
are handed out in is the free list's. The `std::logic_error` of
`add_resting_order` is the outcome `LogicError`. `Reserve` is `reserve_orders`
between two calls: every order and statistic is forgotten, which the refinement
allows as a step of its own (`Forgotten`) next to those of the promise. `Capacity` is a
constant, so a reservation of a different capacity is not a step of the model: it leaves
the book of `Init` for that capacity, and what holds from there on is what the theorems
say for every value of `Capacity`. The `std::length_error` for a capacity beyond
`SlotIndex` (`pooled_order_book.cpp:13-15`) is thrown before anything has changed.

**Queue.** The counters wrap at `Modulus` (2^64 in the program), which the capacity is
assumed to divide; for another capacity the model speaks of the first 2^64 operations,
since the slot of a counter jumps when the counter wraps. A refused `try_push` leaves
the producer in `refused` and a `try_pop` that finds nothing leaves the consumer in
`empty`, until the next try. `LoadHead(h)` and `LoadTail(t)` are the
acquire loads and may return any value the counter had since the last load of the
same thread (`Visible`). A copy into a slot has a beginning and an end, and the slot
holds `Torn` in between.

**Threads around a queue.** `PartitionLab` and `IngressRound` take a push or a pop
as one step, which `ImplementsBoundedFifo` justifies, and keep the one liberty of the
real queue a caller can notice: a pop may fail on a queue that is not empty, because
the load of the other counter returned an old value. `seen` is the last count of
pushes a consumer is known to have seen; it never falls, and a load that returns TRUE
from `producer_done` (stored with release after the last push, loaded with acquire)
raises it to the count of all pushes. A load of a flag that returns an old FALSE is
a step of its own (`SeeNotDone`, `StayInLoop`, and the producer's steps that do not see
`stop`). A refused push is a stutter: the statistic `full`, the time stamps and the
latencies are left out. The book of a matcher is a value of `EventReplay`, changed by
`Process` in the step that pops the event; `order_book` and its refinement show that
the engine is that. `IngressRound` is given every event vector; `main` replays the
vector before it calls `run_round` and passes on only those without a refused event,
so the failing rounds are those `run_round` is written for and `main` never causes.

**Generated streams.** Each draw of a random generator is a free choice, so a property
holds for every seed. `LabWorkload` computes the set of all streams of a length;
`BenchmarkStreams` builds a stream step by step and hands each iteration's events to
the engine at once: the programs build the whole stream first, but a builder never
looks at a book, so the order of the two makes no difference. `uniform(bound)` draws
one of the first `Draws` numbers. The sizes 1024, 32 and 8 of the setup phases, of the
groups and of the sweeps are constants. `RunEngine`, `RunParseAndEngine` (text and
binary, which are the same loop), `RunAllocation` and `RunTail` are one iteration of
the loop of each program; they differ in what they reserve and in what a refusal does.
A round starts with a new engine, and one round is modelled.

**Visualizer.** `requests` holds the calls of `refreshFromParameters`, the newest last;
`requestSerial` is their number. `RefreshFromParameters` is the code before the `await`
and `HandleAnswer` the code after it, where the serial is compared. The answer of the
server to a request is a trace or an error at any later moment, in any order; a trace
is possible only if the parser can read every number the panel sends. `RenderTrace`
replaces frames, scale, step and playback together, as one event handler does.
A trace is computed, by `FramesOf`, from the events that `buildScenario` makes of the
fields, so the charts are checked on real books.

**Replay.** A file is a sequence of lines (or of the records a binary file was
written from); a step reads one line and runs the callback on its event, as the
readers do. `parse_add_options` is a fold over the options of an `ADD` line.
`encode_event` and `decode_event` are modelled field by field, with words modulo
`Modulus` for 64-bit words; a record with an unknown code in any of its five coded fields
cannot be read (`SpoiledRecords`). `Outcome` is what `main` does once the reader has
returned: the message and exit code it chooses, or that it prints.

## 3. Abstract specifications and refinement

`PriceTimeBook` is the promise of an engine. A client sees `orders(side)`, the
trades, the error and `stats().traded_qty`; each call changes them in one step.
While the engine's loop runs, the abstract book is the concrete book *with the rest
of the match done*. A refinement therefore says three things at once: the call
that was admitted does exactly what the closed formula of `PriceTime` says, fill by
fill; a call has no effect but this; a refused call has none.

An abstract step does not name its request, so a refusal that is wrong for one
request could be excused by another request with the same error. `RefusalsAgree`
closes that gap: in every state between two calls, every request of the instance
is refused by the engine if and only if the promise refuses it, for the same reason.

The baseline engine has no capacity, while `PriceTimeBook` takes one. The mapping gives
it `2 * MaxPrice * MaxQty + 1`, more orders than the totals of `MaxPrice` levels on two
sides let rest, so that the promise never refuses for it; that it is out of
reach is a lemma, `NeverAtCapacity`.

The ladder refines `PriceTimeMatching`, where any call may be refused, because its
refusals are wrong for sells (section 6); `BuyRefusalsAgree` states that they are
right for buys, against a `PriceTimeBook` of the ladder's prices with a capacity that is
out of reach in the same way. The pooled engine refines `PriceTimeBook` with `Capacity` orders: an
order that would rest is refused exactly if the book would then hold more orders
than the pool has slots, so the slots freed by its own fills count.

## 4. The runs

The engine runs use three ids; they are interchangeable in the safety runs (symmetry).
Two queues of orders at one price, a level emptied while another survives, an
order that fills two levels, a duplicate and an unknown id, a total at its limit:
all of these need at most three orders and two prices, or three prices for the
bitmaps.

| Run | Bounds | States | Shows |
| --- | --- | --- | --- |
| `order_book` | 2 prices, quantities 0 to 2, `MaxQty` 4 | 9 196 | the invariants and action properties below, `RefusalsAgree`, `ImplementsPriceTimeBook` |
| `ladder_order_book` | prices 1 to 3 of 0 to 4, words of 2 bits, `MaxQty` 3 | 13 816 | `BitmapsExact`, `IndexAndTotalsExact`, `BuyRefusalsAgree`, `ImplementsPriceTimeMatching` |
| `ladder_fok` | prices 1 and 2, one word, quantities 1 to 3 | | violated: `FokLimitAllOrNothing` |
| `pooled_order_book` | 2 prices, 2 slots for 3 ids, quantities 0 to 2, `MaxQty` 3 | 6 582 | `PoolPartitioned`, `LevelsWellLinked`, `SlotForRest`, `RefusalsAgree`, `ImplementsPriceTimeBook` |
| `spsc_queue` | capacity 3, counters modulo 6, 3 values | 92 042 | `NoSlotRace`, `RefusedForReason`, `ImplementsBoundedFifo`, `NeitherWaitsForEver` |
| `partition_lab` | 2 shards, queues of 2, all files of up to 3 of 5 events, all generated streams of 4 | 68 634 | `EachBookIsReplay`, `LabFindsNoFault`, `RefusalsComeFromFills`, `LabEnds` |
| `ingress_round` | a queue of 1, all inputs of up to 4 of 4 events | 9 959 | `BookIsReplay`, `RoundAgreesWithReplay`, `RoundEnds` |
| `replay_tool` | words modulo 8, trace limit 3, files of up to 4 lines, up to 3 options on a line | 41 140 | `PrintedIffSound`, `FirstRefusalReported`, `FramesTellTheStory` |
| `replay_cut_file` | the same with files of up to 1 line | | violated: `CutFileRefused` |
| `benchmark` | streams of 3 to 9 timed events or 1 and 3 cycles, 2 orders in a setup, groups and sweeps of 2, 2 values of each draw | 114 200 | `PoolIsLive`, `StormLeavesBookAlone`, `RunsToTheEnd`, `LoopsLeaveNoTrace` |
| `benchmark_pooled_file` | the same | | violated: `FilesReplayOnEveryBackend` |
| `visualizer` | 6 scenarios, 2 changes (3 requests) | 143 748 | `ChartsAgree`, `ShowsNewest`, `PageSettles` |

`MaxQty` bounds the traded total: once it is reached, the engine itself refuses any
further trade with `QuantityOverflow`, so the state spaces are finite without any
constraint, and every run visits the states at the limit.
Capacity 2 of the partition lab's queues is less than the longest share of a shard,
so the writer does meet a full queue; with a queue of 1 the producer of the ingress
round is inside its push loop whenever the consumer leaves after a refused event.
Four lines are one more than the trace limit. Generated streams of 4 events hold two
orders that meet and a cancel or modify of each of them. Nine timed events are one
more than the eight probes of `reject-heavy`; the group builders get streams that end
with a whole group, with a cut one and with a single event. Three requests can be
answered in any of six orders. `partition_lab`, `ingress_round`,
`replay_tool`, `benchmark` and the two violation runs over the same modules switch the deadlock check off, because these
programs end; `LabEnds` and `RoundEnds` say that both of the concurrent ones do.
`OneOfEachKind` in the MC modules leaves out requests that the
engine cannot tell apart from one that is there; the comment there says which.

What the properties say, beyond their names:

* `AdmissionHolds` (baseline) takes what was decided at admission and asks for it
  again in every state of the loop: a prediction that is only right at the first
  fill would be found.
* `TimePriorityKept`: whoever is ahead of an order in its level was ahead of it
  before the step.
* `IndexMatchesLevels`, `LevelTotalsExact`: the three views of the book agree, no
  level is empty (so `begin()` is the top of the book), and the asserts of
  `order_book.cpp:45`, `111` and `143` hold.
* `LoopConsumes`: every step of a call under way ends it or moves a positive quantity
  from the incoming order to the traded total. With the check for deadlock (some step
  is always possible) this is why the two nested loops end.
* `BitmapsExact`: also that `ctz` and `clz` are never applied to 0, and that a level
  shared by the two sides never holds orders of both.
* `PoolPartitioned`: each slot is in the free list or in one level, once.
* `SlotForRest`: with no free slot, an add whose remainder would rest is admitted if anything
  crosses (`pooled_order_book.cpp:296`), before a single slot has been freed. The property
  says that this is enough: in every state of the loop a slot is free or a fill is
  still to come, so the `std::logic_error` of line 99 is never thrown.
* `NoSlotRace`: the slot being read is never the slot being written, whatever old
  counter values the threads act on.
* `RefusedForReason`: the ring uses every slot and hides nothing it holds. A refusal on
  an old counter may come when the queue is not full; the property accounts for it: what
  is in the ring and what was taken since that counter make up the capacity, in every
  state until the thread tries again. `ImplementsBoundedFifo` allows a ring that
  never uses its last slot; this does not.
* `LabFindsNoFault`: the drain after `producer_done` is enough. A matcher may have
  failed to pop on an old counter just before the writer's last push; it must not
  end before it has taken that event.
* `EachBookIsReplay`: routing by order id is what makes one book
  per shard equivalent to one history per order.
* `RoundAgreesWithReplay`: whichever thread leaves first, and whatever is left in the
  queue, the round fails exactly for the inputs a direct replay refuses.
* `PrintedIffSound`: events take effect while the rest of the file is still unread,
  and yet nothing is printed for a file with a bad line anywhere; what an `ADD` line
  means depends on the set of its options and not on their order.
* `RefusalsComeFromFills` is what is true of the comment at
  `partition_lab_main.cpp:262-264`: a book of the lab does refuse generated events, but
  only those that cancel or modify an order whose add it took, that was not cancelled,
  and so was filled.
* `PoolIsLive`: the pool of the cancel-heavy and modify-heavy builders holds exactly the
  orders that rest in the book of whichever engine runs the stream, after any number of
  swaps; otherwise `RunsToTheEnd` could not hold.
* `StormLeavesBookAlone`: the pooled engine enters the timed part of `reject-heavy` full
  and refuses every event of it; the others accept the adds of probe 0 and nothing else.
  Its action part says that no event of the storm changes an order that rests or its place.
* `ShowsNewest`, `PageSettles`: an error that comes late counts as little as a trace
  that comes late, and the last change is always asked for, because the timer starts
  again whatever is under way.
* `ChartsAgree` compares the walk of `depthProfile` with a filtered sum, for the step on
  the page and the scale kept for the run.

Every property has a mutant in `PROJECT.json`: a plausible slip in the mapped
definition that TLC must find. The mutated form is an operator that stands next to
the definition it replaces and is used nowhere else (`RoutedByLine` before
`route_symbol`, `SeeNothingMore` before `SeeAllPushes`).

### Fairness

`OrderBook` assumes weak fairness of `Fill \/ Return`: a call is a function call, and
once begun it runs on. Nothing is assumed about new calls. `SpscQueue` assumes that
each thread is scheduled (both callers loop, with `yield` after a refusal) and that
a store is seen eventually by the other thread's loads, which C++ asks of
implementations (`LoadHead(head)` and `LoadTail(tail)`, the loads that return the
current value). The producer need never offer another value. `PartitionLab` and
`IngressRound` assume weak fairness of each step of each thread, and strong fairness
of the steps that need a load to return the new value (`Take`, `SeeDone`, `SeeStop`,
`Fail`): between two of its loads a polling thread is elsewhere in its loop, so the
step is not continuously enabled, but a thread that loads again and again sees a
store in the end. `Visualizer` assumes that timers fire, that a fetch settles and that the
server answers: it kills the matcher after `REPLAY_TIMEOUT_SECONDS` (10) and sends an
error, and a lost connection is an error too. Nothing is assumed of the reader, who makes
at most `MaxEdits` changes; a reader who never stops has no last change. `Benchmark` and
`ReplayTool` have no liveness property: each makes one pass over
a finite stream or file.

## 5. What is proved

Every theorem below holds for all values of the constants that satisfy the named
assumption of the module it is about.

### The baseline engine

`OrderBookProofs` proves, for every finite or infinite set of ids, every `MaxPrice`,
`MaxQty`, set of quantities and set of add requests that satisfies the three
assumptions of `OrderBook`:

* `TypeCorrect`: `Spec => []TypeOK`,
* `IndexIsExact`: `Spec => []IndexMatchesLevels`,
* `NeverCrossed`: `Spec => []BookUncrossed`,
* `CallsMakeProgress`: `Spec => LoopConsumes`.

The inductive invariant `IInv` is the conjunction of the types, `CallTyped` and
`IncomingOutside` (the order being matched is well typed and is not in the book: without the latter,
`Return` could insert an id a second time), `Indexed` (index and levels agree in
both directions and no level is empty) and `BookUncrossed`. `BookUncrossed` is
inductive only together with the rest: `Return` may put a remainder to rest
because `~Matching` says that the best opposing level does not cross, and
`BestPrice` is the best only because a non-empty set of prices has a best
element (lemmas `SmallestExists` and `BestPriceIsBest`). What a change of one level
does to the whole book is a lemma of its own, shared by the actions: `Removal` and
`Withdrawal` for an order that leaves, `Shrinking` for one that is partly filled,
`Arrival` for a remainder that rests. There is then one lemma per action.
`CallsMakeProgress` needs of `IInv` that no level is empty and no resting quantity is 0:
then what a fill takes is positive. It gives the variant of the matching loop; that the
loop therefore ends is an induction left to the reader.

The second part of `OrderBookProofs` builds on that invariant:

* `TotalsAreExact`: `Spec => []LevelTotalsExact`,
* `AdmissionsHold`: `Spec => []AdmissionHolds`,
* `PoliciesAreKept`: `Spec => PolicyKept`,
* `PriorityIsKept`: `Spec => TimePriorityKept`.

The total of a level (`TotalQty`) and the prediction (`MaxCrossingQty`) are recursive
functions. The lemmas on them say what an append, a removal and a partial fill do to a
total (`TotalOfAppend`, `TotalOfRemoveAt`, `TotalOfShrunk`), and that the prediction is
made of the quantities of the levels alone (`MaxCrossingIsTaken`) and falls by exactly
what is taken from its first level (`TakenInParts`). The invariant `AdmissionInv` keeps
exact totals and, for the call under way, the facts it was admitted on, as statements
about the quantity *still to be predicted*: `FillTakesThePrediction` is the step that
one fill takes `part` from the order, from the best level and from the prediction.
`NothingLeftToTake` ends the argument: when the loop stops, nothing crosses any more, so
the remainder that was predicted is the remainder that is left. Totals and
predictions have to be proved together, as each is what keeps the other right.
`PriorityIsKept` needs only `IInv`: ids are distinct within a level, so positions tell
who is ahead.

The last part proves the refinement:

* `RefusalsMatch`: `Spec => []RefusalsAgree`,
* `EngineIsPriceTime`: `Spec => ImplementsPriceTimeBook`.

The promise sees one queue per side; the engine has a list per price. `FlattenSeq` is a
recursive function, so the first step is to say what it computes: the lists *put end to
end* (`EndToEnd`, with the places where each list ends), which determines the whole
(`JoinedOnce`). The lemmas `JoinedWithout`, `JoinedInserted` and `JoinedReplaced` of
`Induction` say what the whole becomes when one list loses an entry, gets one at its
end or has its first replaced. With them a change of one level is a change of the queue
at a known place: `QueueShortened`, `QueueLengthened` and `QueueReplaced`, hence
`EnqueueIsInsert` (a remainder that rests at the end of its level stands where the promise
puts it) and `WithdrawnQueues` (an order erased from its level is the one the promise
finds by its id).

The closed formulas of `PriceTime` are peeled from the head of the queue: `FullFill` and
`PartialFill` say that the trades, the queue and the quantity of a match are those of the
first order followed by those of the rest. As the loop always fills the head
(`BestStandsFirst`, `FillQueues`), what the rest of the match takes from the queue it
leaves is what was still to come before (`FillLeavesTheRest`): the mapped state does not
change, so `Fill` is a stutter, and so is `Return`, since by then nothing is reached any
more (`NothingReached`). An admitted call maps to the atomic call (`AddMaps`,
`CancelMaps`, `ModifyMaps`). The steps use `AdmissionInv` and `ReachInv`: the
order being matched reaches, by its own price, exactly the prices the loop lets it cross,
which is not obvious for a market order, that the engine matches at the extreme price.

The refusals agree because the totals are exact: the prediction of the engine is the sum
of the fills of the promise (`PredictionIsExecuted`), a total is the sum of the orders of
the queue at its price (`QtyAtPriceIsResting`), and an id is indexed exactly when it has a
place in a queue (`RestingIsIndexed`).

### The queue

From `CapacityAssumption` (a positive capacity that divides `Modulus`) `SpscQueueProofs` proves

* `RaceFree`: `Spec => []NoSlotRace`,
* `RingIsFifo`: `Spec => ImplementsBoundedFifo`,
* `RefusalsAreReal`: `Spec => []RefusedForReason`.

The invariant `IInv` adds to the types (`TypeOK`) the `Window`: the counters are never further
apart than the capacity, and the thread in the middle of an operation has checked what
it is about to rely on; and a slot is torn only while the producer copies into it
(`TornOnlyWhileWriting`). An old value of the other thread's counter errs on the safe
side only (a consumer sees too few pushes, a producer too few pops), which is why the
window survives every load. `NoSlotRace` then follows from
`DifferentSlots`: two counters less than a capacity apart are at different slots, also
across the wrap of the counters, because the capacity divides the modulus. The
refinement needs in addition that copies are complete (`CopiesComplete`): what the
producer is about to publish is in its slot, and what the consumer is about to hand
over is the oldest value of the buffer. Each action then
maps to a step of `BoundedFifo` or to a stutter. The sequence the abstract queue holds
changes at the two release stores and nowhere else; `BufferAwayFromTail` says that
writing the slot at the tail leaves it alone. For the refusals, the distance from the
counter the producer loaded to the tail stays the capacity until it tries again, since
only the producer moves the tail (`Refusals`); the `Window` splits that distance at the
real head into what has been taken and what is left.

### The partition lab

From `LabAssumption` (at least one shard, a positive capacity, inputs that are
sequences of events with a natural order id) `PartitionLabProofs` proves

* `TypeCorrect`: `Spec => []TypeOK`,
* `DrainIsComplete`: `Spec => []NothingLeftBehind`, the part of `LabFindsNoFault` that
  is about the threads: a matcher that has ended has taken exactly what was staged for
  its shard, and nothing will follow,
* `BooksAreReplays`: `Spec => []EachBookIsReplay`,
* `NoLossNoMismatch`: `Spec => []LabFindsNoFault`.

The invariant is `Counts` (the statistics agree with the queues), `Flow` (what was
staged for a shard is what its matcher has taken, then what its queue holds, then the
event in the writer's hands) and `Shutdown` (a matcher that drains has seen
`producer_done`, and so every push: its last pop fails on an empty queue and not on an
old counter).

For the last two, `LabInv` adds that the matcher's engine is the replay of what it has
consumed (`Books`), that what is staged for a shard is its share of the events routed so
far (`Routed`, a recursive function over the input), and that the sums over the shards
are what the writer has counted (`AllCounted`). When all threads have ended, `DrainIsComplete`
makes each share complete, and the two sides of the comparison are the same replay.

### The ingress round

From `RoundAssumption` (a positive capacity, inputs that are sequences of events)
`IngressRoundProofs` proves

* `RoundFollowsReplay`: `Spec => []BookIsReplay`,
* `RoundOutcome`: `Spec => []RoundAgreesWithReplay`.

The invariant is `Flow` (what was popped, then what is queued, is a beginning of the
input, and ends where the producer is) and `Book` (the engine is the replay of what was
popped; the first refusal raises `failed` and ends the loop, and a consumer that ends
without one has processed the whole input). `RoundOutcome` follows because a refusal in
a beginning of the input is a refusal in all of it (`RefusalsRemain`).
`EventReplayProofs` holds what both tools need of
replays: `ReplayOfAppend`, one more event is one more step.

### The pooled engine

From `PoolAssumption` `PooledOrderBookProofs` proves

* `NoSlotLeaks`: `Spec => []PoolPartitioned`,
* `ListsStayWellLinked`: `Spec => []LevelsWellLinked`.

The properties walk along links, which is no shape for an invariant. The invariant says
instead that *some* numbering of the slots of a level runs from 1 at the head to
`order_count` at the tail, one more at each `next` and one less at each `prev` (`Chain`,
`Doubly`), and that some running sum of the quantities ends in `total_qty` (`AddedUp`);
the free list is a chain too. A change of a list renumbers it: `Unlinking` (a slot
anywhere in a list leaves), `Appending`, `HeadShrinks`, `Freeing`, `Taking` and
`ListUntouched`, which has it that a change to slots of one list leaves every other list
alone. `SlotLeaves` and `SlotTaken` put these together for the whole book, and there is
one lemma per action. `WalkOfChain` and `ReadBackward` lead back: a walk over a numbered
list visits exactly its slots, once each, from either end.

Three more theorems say what the pooled engine does, as seen from outside:

* `RemaindersFindASlot`: `Spec => []SlotForRest`,
* `PooledRefusesAlike`: `Spec => []RefusalsAgree`,
* `PooledEngineIsPriceTime`: `Spec => ImplementsPriceTimeBook`.

They go through the baseline. A list read from its head (`FromIn`, `ReadsAlong`: the
sequence of its orders, which a numbering fixes) is a list of the baseline engine, so
`B == INSTANCE OrderBookProofs` with the lists read back in place of the linked levels
makes every definition and lemma about the baseline one about the pool. Each step but
`reserve_orders` is then a step of the baseline: what enters or leaves a linked list
enters or leaves the sequence at the same place (`CancelSeen`, `ModifySeen`, `FillSeen`,
`RestSeen`, `ReturnSeen`; `AddSeen` for an add whose post-only flag is already settled).
The invariant `PoolInv` is the pool's own, the baseline's `AdmissionInv` and `ReachInv`
seen through the mapping, and `SlotForRest`.

The baseline has no capacity, so `SlotForRest` and the refusal for it are new: a queue is as
long as its side has live slots (`QueueHoldsTheLive`), so the book is full exactly when
the free list is empty (`PoolIsFull`); a match that leaves a remainder makes the other
queue shorter if it takes anything at all (`TakingShortens`), and the remainder makes its
own queue longer by one (`EnqueueLengthens`). `OutOfSlotsMeans` puts these together: the
code's test, which counts nothing (no slot is free and nothing crosses), holds exactly
when the book after the match would hold more orders than there are slots.
`PromisesRefuseAlike` compares the two instances of `PriceTimeBook`, and the theorems follow
as for the baseline (`PoolAddMaps`, `PoolCancelMaps`, `PoolModifyMaps`; fills and the end
of a call are stutters, `LoopStutters`; `reserve_orders` changes nothing the
promise speaks of, `ReserveForgets`).

### The price ladder

From `LadderAssumption` (a range of prices, a positive word width, quantities up to
`MaxQty`) `LadderOrderBookProofs` proves

* `BitmapsAreExact`: `Spec => []BitmapsExact`,
* `IndexAndTotalsAreExact`: `Spec => []IndexAndTotalsExact`,
* `LadderIsPriceTime`: `Spec => ImplementsPriceTimeMatching`,
* `LadderRefusesBuysAlike`: `Spec => []BuyRefusalsAgree`.

The invariant `IInv` has four parts for the book (`LevelsGood`, `IndexGood`, `BitsGood`,
`Uncrossed`) and one for the call under way (`CallSound`). Orders of both sides share one
level per price, and a side's bit says only that *some* order of the side is there; that
the level belongs to that side follows because the book is not crossed (`OneSided`). And
the book is not crossed because `best_index`, which takes the best word and the best bit
in it, finds the best index of all (`BestIndexIsBest`, from `WordsInOrder`: a greater word
holds greater indexes only). `OneLevelChanged` is the lemma on what a change of one level
does to all four parts; `Departure`, `PartlyFilled` and `Arrival` are the three changes,
and there is one lemma per action.

`LevelsGood` bounds each total by `MaxQty`, which the overflow check is to see to, and
that check subtracts what `max_crossing_qty` predicts. The scan of bid levels is wrong
(section 6), so nothing can be proved of its result but that it is 0 where no level
crosses (`NothingCrosses`, from `VisitedAreOccupied`: what it visits is occupied). That is
enough. An order joins orders that rest at its price only where its own side has a level there, and then
nothing of the other side crosses that price (`OwnLevelFacesNone`): the check counted the
whole order (`Fits`). Where the level is empty the order alone fits.

The refinement leaves open which calls are refused, so the wrong scan is not in its way.
What the book publishes of a side is the lists of its levels put end to end, from the
best price on (`QueueOf`, over the lists `HeldAt` the levels of that side), and
`OrdersOfIs` has the scan of the bitmap publish just that. A change of one level is a
change of one place of one queue and leaves the other queue alone (`OneLevelSeen`); so an
order that leaves its level is the one the promise takes out (`WithdrawnQueues`), a fill
takes from the head of the queue (`FillQueues`: the best index is the first list that is
not empty, `BestIsFirst`) and a remainder rests where the promise enqueues it
(`ReturnQueues`).

What an incoming order takes from a queue is the same for every engine, and is not proved
twice: `OrderBookProofs` states it for whatever the orders and prices are
(`TakingTheFirst`: a match is its first fill followed by the match of what is left;
`SameReachSameFills`: only the prices it reaches matter), and
`B == INSTANCE OrderBookProofs` brings it here. The mapped state of a call under way is
the book after the rest of the match, so `Fill` and `Return` are stutters
(`FillStutters`, `ReturnStutters`), and an admitted call is the atomic call of the promise
(`AddMaps`, `CancelMaps`, `ModifyMaps`). `RefineInv` adds to `IInv` that the order being
matched reaches the same prices in the ladder as in the promise (`ReachInv`), which for a
market order compares the end of the ladder with no limit at all.

What a buy is predicted to execute is read from the asks, and there the scan is right: it
takes the lowest bit of a word and clears the lowest bit, so it visits every level once
and in order (`AskScanRises` for a word, `RisingEndToEnd` from word to word,
`AsksAreVisited`). In ranks, it climbs and leaves out only ranks that give nothing
(`AskScanClimbs`, `NothingSkipped`); a climb that takes from each rank what is still
wanted gets what is wanted or all there is (`ClimbTakes`). The promise executes the same,
because what rests at some prices adds up to what their lists add up to (`LadderSums`,
from `SumOverLists` of `OrderBookProofs`): `BuyPrediction`. One check still reads
differently: the ladder subtracts the prediction and adds the order to the *level* of its
price, which may hold asks, where the promise adds the remainder to the bids of that
price. Where asks have the level, the order reaches them, so they are taken whole before
anything is left to rest, and the level has room for the remainder just as an empty one has
(`SameRoom`; for a modification `WithdrawnRoom` takes the order itself out of both).
Nothing is left to compare but the capacity of the promise, which no book of the ladder
reaches (`LadderIsShort`, `NeverAtCapacity`).

### How induction is done

The induction theorems of the library take an operator as a parameter, which the provers
cannot instantiate. `NaturalsAreReached` of `Induction` does without: a *set* of naturals
that holds 0 and the successor of each of its members holds every natural, because a
least natural outside of it would have a predecessor inside. A recursive function is a
`CHOOSE`, and has the equation that defines it only once some function is shown to satisfy
it: each lemma on one (`SumIsRunning`, `FlattenedExists`, `ReplayIsState`,
`SharesOfFirstExist`, `WalkSteps`) first extends such a function one argument at a time.

### What stays with TLC

Every property of the three engines is proved, and every safety property of the queue, of
the ingress round and of the lab but `RefusalsComeFromFills`, which is about the streams the
generator of the run makes. The replay command, the benchmarks and the page are only
model-checked; their safety properties are within reach of the prover and not yet done.
That the ladder refuses *sells* alike is false (section 6). Liveness
(`NeitherWaitsForEver`, `LabEnds`, `RoundEnds`, `PageSettles`) needs
`ENABLED`, which is out of the prover's reach.

## 6. What the runs found

1. **The ladder's scan of bid levels** (`src/ladder_order_book.cpp:138-154`) takes the
   *highest* set bit of a word and then clears the *lowest* one. Against two or more
   bid levels in one word it counts the best level once for each of them. In
   `ladder_fok`, a fill-or-kill sell of 2
   against bids of 1 at two prices and a limit at the better price is admitted and
   fills 1 (README.md:31 "FOK either fills completely or changes nothing"). The
   overflow check of line 233 uses the same number, so a sell may also be admitted
   though its trades take `traded_qty` past the limit, where the signed addition is
   undefined (docs/CORRECTNESS_CAMPAIGN.md:26); no run is spent on this second
   consequence. The trades and the book themselves are right:
   `ladder_order_book` passes, because the matching loop uses `best_index`.
2. **A binary file that ends inside a record** (`src/binary_event_codec.cpp:164`): a
   read that finds fewer bytes than a record sets `eofbit` together with `failbit`, so
   the test `!input.eof()` is false and the function returns success. The cut record
   is dropped in silence; "truncated binary event record" (line 165) is never
   reported for it. `replay_cut_file` shows the replay that prints all the same.

3. **The pooled engine in file mode** (`src/benchmark_main.cpp:750` and `787`):
   `run_parse_and_engine` and `run_binary_parse_and_engine` never call `reserve_orders`,
   so with `--file F --backend pooled` (and without `--engine-only`) the first order
   that would rest is refused with `CapacityExceeded`, and the program stops with
   "replay failed". docs/BENCHMARKING.md:23-28 names the backend and the mode without
   that exception. `benchmark_pooled_file` shows it.

Seen while reading, without a run:

* Market orders with fill-or-kill (`src/order_book.cpp:173`): the parser accepts them
  and the engines execute them as immediate-or-cancel, so they may fill in part.
  README.md:31 states the rule without that exception; `PriceTimeBook` follows the code.
* The comment at `partition_lab_main.cpp:264` says that the generated stream "never
  references an unknown order id". It takes cancels and modifies from the ids it has
  not cancelled itself, filled ones among them, and the books refuse those events;
  `RefusalsComeFromFills` says that these are the only ones.
* `ask_first` of `build_cross_heavy` (`benchmark_main.cpp:442`) is always true at the
  head of the loop: every iteration but a last cut one appends two events.
* docs/BENCHMARKING.md:11 counts six workload shapes; the code has a seventh,
  `reject-heavy`.

## 7. Plan

Done: the abstract book, the three engines with their refinements, the queue, the
partition lab with its generator, the ingress round, the replay command with its readers,
the benchmarks, the page with its server, and proofs about the three engines,
the queue, the lab and the ingress round, with the refinements of all three engines and of
the queue. Next, in this order:

1. The page (`ShowsNewest`: an answer is shown only for the newest serial).
2. The replay command (`FirstRefusalReported`) and the benchmarks (`PoolIsLive`).

### Not modelled

* `scripts/validate_manifest.py`: one pass over a document, without state.
* Formatting of books, trades and traces, parsing of arguments, clocks, percentiles and
  allocation counts: measured or printed values that no decision depends on.
* Splitting a line into tokens and reading a number from one: `event_parser.cpp` is
  modelled from the tokens on, which is where the combinations of options are.
* Drawing, wording and layout of the page, keyboard and focus (stepping by a key is the
  same `SetStep`), and `validateTrace`, whose refusal is an error answer in the model.
* The size limits of the trace server: no scenario the panel can make comes near them.

## 8. Running it

    tlc -workers 2 -config MCOrderBook.cfg MCOrderBook
    tlapm OrderBookProofs.tla

and `tlapm` likewise for the other modules whose names end in `Proofs`.

`PROJECT.json` names the module of each configuration.
