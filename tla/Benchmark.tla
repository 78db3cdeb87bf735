------------------------------ MODULE Benchmark ------------------------------
(***************************************************************************)
(* The loops that drive an engine through a stream and stop the program at *)
(* the first refusal: run_engine, run_parse_and_engine and its binary twin *)
(* of src/src/benchmark_main.cpp, run of src/src/tail_benchmark_main.cpp   *)
(* and of src/src/allocation_benchmark_main.cpp.  A file holds a stream    *)
(* that write_events_file wrote; the text parser takes any integers, so a  *)
(* bad price or quantity reaches the engine.                               *)
(*                                                                         *)
(*   mode           program, options                  events               *)
(*   "generated"    orda_benchmark --events           setup, then timed    *)
(*   "engine-only"  orda_benchmark --file             all timed, parsed    *)
(*                    --engine-only                     before the run     *)
(*   "parse+engine" orda_benchmark --file             as the parser reads  *)
(*   "allocation"   orda_allocation_benchmark --file  all, parsed before   *)
(*   "tail"         orda_tail_benchmark               all                  *)
(*                                                                         *)
(* A round begins with a new engine and rounds are alike: one is modelled. *)
(* The trade buffer is cleared before each event (--reuse-trades).         *)
(***************************************************************************)
EXTENDS BenchmarkStreams, SequencesExt

VARIABLES mode, backend,
          state,         \* the engine's book and its rejected_requests
          outcome

vars == <<streamVars, mode, backend, state, outcome>>

FileModes == {"engine-only", "parse+engine", "allocation"}
Modes == FileModes \union {"generated", "tail"}
Backends == {"baseline", "pooled", "ladder"}

LOCAL Unlimited == 1000000

Baseline == INSTANCE EngineReplay WITH LimitPrices <- Nat \ {0}, Capacity <- Unlimited
LOCAL Ladder == INSTANCE EngineReplay WITH LimitPrices <- 1..200000, Capacity <- Unlimited
LOCAL Pooled(slots) == INSTANCE EngineReplay WITH LimitPrices <- Nat \ {0}, Capacity <- slots

\* stream.kind: a file does not say which workload it was written from.
RejectWorkload == mode = "generated" /\ workload = "reject-heavy"

\* The slots run_engine reserves: one for every event, except that the storm of
\* refused requests is to meet a full book.  The slip makes no exception.
ReserveAll == StreamSize
Reserved == IF RejectWorkload THEN SetupSize ELSE StreamSize

Init ==
  /\ mode \in Modes
  /\ workload \in (IF mode = "tail" THEN TailWorkloads ELSE Workloads)
  /\ InitStream
  /\ backend \in Backends
  /\ state = Baseline!Fresh
  /\ outcome = "running"

RefusedBy(slots, event) ==
  CASE backend = "pooled" -> Pooled(slots)!Refused(state, event)
    [] backend = "ladder" -> Ladder!Refused(state, event)
    [] OTHER -> Baseline!Refused(state, event)

ProcessedBy(slots, event) ==
  CASE backend = "pooled" -> Pooled(slots)!Process(state, event)
    [] backend = "ladder" -> Ladder!Process(state, event)
    [] OTHER -> Baseline!Process(state, event)

BuildStream ==
  /\ outcome = "running"
  /\ Build
  /\ UNCHANGED <<mode, backend, state, outcome>>

\* Events of the setup part are taken before the first timed one is built.
InSetup == built.timed = 0

\* process on the next event, by an engine that reserved slots; an exception ends the
\* program.
TakeEvent(reserved, refusal_ends) ==
  /\ outcome = "running"
  /\ pending # <<>>
  /\ \E slots \in {reserved}, event \in {Head(pending)} :
       /\ state' = [ProcessedBy(slots, event) EXCEPT !.trades = <<>>]
       /\ outcome' = IF RefusedBy(slots, event) /\ refusal_ends THEN "aborted" ELSE outcome
  /\ pending' = Tail(pending)
  /\ UNCHANGED <<workload, count, built, next_order_id, pool, mode, backend>>

\* In the timed part of reject-heavy a refusal is what is measured.
RunEngine ==
  /\ mode \in {"generated", "engine-only"}
  /\ TakeEvent(Reserved, ~RejectWorkload \/ InSetup)

\* Nothing is reserved where the parser drives the engine.
RunParseAndEngine == mode = "parse+engine" /\ TakeEvent(0, TRUE)

RunAllocation == mode = "allocation" /\ TakeEvent(StreamSize, TRUE)

RunTail == mode = "tail" /\ TakeEvent(StreamSize, TRUE)

Report ==
  /\ outcome = "running"
  /\ StreamComplete
  /\ outcome' = "reported"
  /\ UNCHANGED <<streamVars, mode, backend, state>>

Next ==
  \/ BuildStream
  \/ RunEngine \/ RunParseAndEngine \/ RunAllocation \/ RunTail
  \/ Report

Spec == Init /\ [][Next]_vars
-----------------------------------------------------------------------------
(***************************************************************************)
(* Properties.                                                             *)
(***************************************************************************)
AllOrders == state.book["Bid"] \o state.book["Ask"]
LiveOrders == Len(AllOrders)

\* No engine is in the middle of an iteration's events.
BetweenLoops == outcome = "running" /\ pending = <<>>

\* The builders' own account of the live orders is exact although they never look at a
\* book: the ids and sides of LivePool are those of the orders that rest, and index_
\* leads to each of them after any number of swaps.
PoolIsLive ==
  /\ DOMAIN pool.index = {pool.orders[i].order_id : i \in DOMAIN pool.orders}
  /\ \A i \in DOMAIN pool.orders : pool.index[pool.orders[i].order_id] = i
  /\ BetweenLoops /\ workload \in PoolWorkloads =>
       {pool.orders[i] : i \in DOMAIN pool.orders} =
         UNION {{[order_id |-> state.book[side][i].order_id, side |-> side] :
                   i \in DOMAIN state.book[side]} : side \in {"Bid", "Ask"}}

\* "every further non-crossing timed add exercises the reserved-capacity-full rejection
\* path on pooled" and "every backend must reject without changing book state"
\* (benchmark_main.cpp:578-582): no event of the storm touches an order that rests, the
\* pooled book refuses every one of them, the other engines all but the adds of probe 0.
Probes == built.timed - Len(pending)
AddedByProbes == IF backend = "pooled" THEN 0 ELSE (Probes + 7) \div 8
InStorm == RejectWorkload /\ built.timed > 0
StormLeavesBookAlone ==
  /\ [](InStorm =>
          /\ outcome # "aborted"
          /\ state.rejected = Probes - AddedByProbes
          /\ LiveOrders = SetupSize + AddedByProbes)
  /\ [][InStorm =>
          \A side \in {"Bid", "Ask"} :
            SelectSeq(state'.book[side], LAMBDA order : order \in ToSet(state.book[side]))
              = state.book[side]]_state

\* "tail workload event rejected", "timed event rejected" and the like are never
\* thrown: no stream but reject-heavy holds an event an engine refuses, and a run that
\* reports has taken exactly the events the slots were reserved for.  (A pool that
\* nobody reserved is the subject of a run of its own.)
RunsToTheEnd ==
  /\ outcome = "aborted" =>
       \/ workload = "reject-heavy" /\ mode \in FileModes
       \/ backend = "pooled" /\ mode = "parse+engine"
  /\ outcome = "reported" => built.setup + built.timed = StreamSize

\* The iterations of these workloads are self-contained: each takes out of the book
\* what it puts in, so a timed event always meets a book of the same size, however
\* long the run.
LoopsLeaveNoTrace ==
  BetweenLoops =>
    /\ workload \in EmptyingWorkloads /\ built.timed < count => LiveOrders = 0
    /\ workload = "tail-sweep" => LiveOrders = 0
    /\ workload \in {"tail-cancel", "tail-modify"} /\ built.loops > 0 =>
         LiveOrders = SetupSize

\* docs/BENCHMARKING.md:23-29: the benchmark supports --backend pooled, and file mode
\* can measure parsing together with engine processing.
FilesReplayOnEveryBackend ==
  outcome = "aborted" /\ mode = "parse+engine" => workload = "reject-heavy"
==============================================================================
