--------------------------- MODULE BenchmarkStreams --------------------------
(***************************************************************************)
(* The event streams the benchmarks generate: build_* and StreamBuilder of *)
(* src/src/benchmark_main.cpp, build_events of src/src/tail_benchmark_main *)
(* .cpp.  One action is one iteration of a builder's loop; it hands over   *)
(* the events of the iteration in `pending`.  The programs build the whole *)
(* stream before an engine sees its first event; a builder never looks at  *)
(* a book, so the engine may as well take each iteration's events at once. *)
(* The random generator is a free choice; uniform(bound) draws one of the  *)
(* first Draws numbers below bound.                                        *)
(***************************************************************************)
EXTENDS Integers, Sequences, FiniteSets

CONSTANTS Counts,      \* per workload, values of --events or of the tail benchmark's --cycles
          SetupSize,   \* target_live, setup_size and the tail benchmark's depth
          MaxChips,    \* 32 in build_partial_fill
          MaxLevels,   \* 8 in build_sweep
          Draws

VARIABLES workload,    \* stream_.kind
          count,
          built,       \* sizes of stream_.setup and stream_.timed, loops begun
          next_order_id,
          pool,        \* LivePool: orders_ and index_
          pending      \* events of the last iteration that no engine has taken

streamVars == <<workload, count, built, next_order_id, pool, pending>>

kFarBidBase == 99000
kFarAskBase == 101000
kCrossBase == 100000
kUnknownId == 1000000000
TailBase == 1000

PoolWorkloads == {"cancel-heavy", "modify-heavy"}
SetupWorkloads == PoolWorkloads \union {"reject-heavy"}
EmptyingWorkloads == {"cross-heavy", "partial-fill", "sweep"}
Workloads == SetupWorkloads \union EmptyingWorkloads \union {"add-only"}
TailWorkloads == {"tail-sweep", "tail-cancel", "tail-modify"}

ASSUME StreamAssumption ==
  /\ Counts \in [Workloads \union TailWorkloads -> SUBSET (Nat \ {0})]
  /\ SetupSize \in Nat \ {0} /\ MaxChips \in Nat \ {0} /\ MaxLevels \in Nat \ {0}
  /\ Draws \in Nat \ {0}

LeastOf(a, b) == IF a <= b THEN a ELSE b

Uniform(bound) == 0..(LeastOf(bound, Draws) - 1)
far_price(side) ==
  IF side = "Bid" THEN {kFarBidBase - d : d \in Uniform(64)}
  ELSE {kFarAskBase + d : d \in Uniform(64)}
random_qty(max_qty) == {1 + d : d \in Uniform(max_qty)}

Opposite(side) == IF side = "Bid" THEN "Ask" ELSE "Bid"
Alternating(i) == IF i % 2 = 0 THEN "Bid" ELSE "Ask"

AddOf(id, side, price, qty) ==
  [type |-> "Add", order_id |-> id, side |-> side, price |-> price, qty |-> qty,
   is_market |-> FALSE, time_in_force |-> "GTC", post_only |-> FALSE]
CancelOf(id) == [type |-> "Cancel", order_id |-> id]
ModifyOf(id, price, qty) == [type |-> "Modify", order_id |-> id, price |-> price, qty |-> qty]

(***************************************************************************)
(* LivePool.                                                               *)
(***************************************************************************)
EmptyPool == [orders |-> <<>>, index |-> <<>>]

PoolAdd(p, id, side) ==
  [orders |-> Append(p.orders, [order_id |-> id, side |-> side]),
   index  |-> [i \in DOMAIN p.index \union {id} |->
                 IF i = id THEN Len(p.orders) + 1 ELSE p.index[i]]]

PoolRemoveKeepingIndex(p, id) ==
  LET last == Len(p.orders)
      at   == LeastOf(p.index[id], last)
  IN  [orders |-> [i \in 1..(last - 1) |-> IF i = at THEN p.orders[last] ELSE p.orders[i]],
       index  |-> [i \in DOMAIN p.index \ {id} |-> p.index[i]]]

\* The last order takes the place of the one that leaves.
PoolRemove(p, id) ==
  LET last  == Len(p.orders)
      moved == p.orders[last]
      at    == p.index[id]
  IN  [orders |-> [i \in 1..(last - 1) |-> IF i = at THEN moved ELSE p.orders[i]],
       index  |-> [i \in DOMAIN p.index \ {id} |->
                     IF i = moved.order_id THEN at ELSE p.index[i]]]

(***************************************************************************)
(* StreamBuilder.  A group of events is appended to one part of the        *)
(* stream; new_ids of them are adds that take the next ids.                *)
(***************************************************************************)
InitStream ==
  /\ count \in Counts[workload]
  /\ built = [setup |-> 0, timed |-> 0, loops |-> 0]
  /\ next_order_id = 1
  /\ pool = EmptyPool
  /\ pending = <<>>

Emit(part, events, new_ids) ==
  /\ pending' = events
  /\ built' = [built EXCEPT ![part] = @ + Len(events), !.loops = @ + 1]
  /\ next_order_id' = next_order_id + new_ids
  /\ UNCHANGED <<workload, count>>

Timed(events, new_ids) == Emit("timed", events, new_ids)

\* Adds with the next ids, in the order of the sequence of their sides, prices and quantities.
NewAdds(orders) ==
  [i \in DOMAIN orders |->
     AddOf(next_order_id + i - 1, orders[i].side, orders[i].price, orders[i].qty)]
Row(side, price, qty) == [side |-> side, price |-> price, qty |-> qty]

Prepared == workload \in SetupWorkloads => built.setup = SetupSize

\* The loop of a builder goes round once more.
Wanted(kind) == workload = kind /\ pending = <<>> /\ Prepared /\ built.timed < count

remaining == count - built.timed

SetupQty ==
  CASE workload = "cancel-heavy" -> random_qty(256)
    [] workload = "modify-heavy" -> random_qty(128)
    [] workload = "reject-heavy" -> random_qty(64)

BuildSetup ==
  /\ workload \in SetupWorkloads
  /\ pending = <<>>
  /\ built.setup < SetupSize
  /\ LET side == Alternating(built.setup)
     IN  /\ \E price \in far_price(side), qty \in SetupQty :
              Emit("setup", NewAdds(<<Row(side, price, qty)>>), 1)
         /\ pool' = PoolAdd(pool, next_order_id, side)

BuildAddOnly ==
  /\ Wanted("add-only")
  /\ LET side == Alternating(built.timed)
     IN  \E price \in far_price(side), qty \in random_qty(256) :
           Timed(NewAdds(<<Row(side, price, qty)>>), 1)
  /\ UNCHANGED pool

WithSecond(orders) == orders
UpToCount(orders) == SubSeq(orders, 1, LeastOf(2, remaining))

\* The loop starts with an even number of events, so the ask always comes first.
BuildCrossHeavy ==
  /\ Wanted("cross-heavy")
  /\ \E d \in Uniform(8), more \in Uniform(2), qty \in random_qty(64) :
       LET price  == kCrossBase + d
           orders == IF built.timed % 2 = 0
                     THEN <<Row("Ask", price, qty), Row("Bid", price + more, qty)>>
                     ELSE <<Row("Bid", price, qty), Row("Ask", price - more, qty)>>
           group  == UpToCount(orders)
       IN  Timed(NewAdds(group), Len(group))
  /\ UNCHANGED pool

\* The last event of a builder that has no room for a group.
BuildLast(side) ==
  /\ remaining = 1
  /\ \E price \in far_price(side), qty \in random_qty(16) :
       Timed(NewAdds(<<Row(side, price, qty)>>), 1)

BuildPartialFill ==
  /\ Wanted("partial-fill")
  /\ \/ BuildLast("Bid")
     \/ /\ remaining > 1
        /\ \E d \in Uniform(4) :
             LET chips   == LeastOf(MaxChips, remaining - 1)
                 resting == IF (built.timed \div 2) % 2 = 0 THEN "Ask" ELSE "Bid"
                 price   == kCrossBase + d
             IN  Timed(NewAdds(<<Row(resting, price, chips)>> \o
                               [i \in 1..chips |-> Row(Opposite(resting), price, 1)]),
                       chips + 1)
  /\ UNCHANGED pool

\* One order takes all the levels, at the price of the last of them.
SweepAtFirstPrice(side, away, levels) ==
  [i \in 1..levels |-> Row(side, kCrossBase + away * (i - 1), 4)] \o
  <<Row(Opposite(side), kCrossBase, levels * 4)>>

SweepRows(side, away, levels) ==
  [i \in 1..levels |-> Row(side, kCrossBase + away * (i - 1), 4)] \o
  <<Row(Opposite(side), kCrossBase + away * (levels - 1), levels * 4)>>

BuildSweep ==
  /\ Wanted("sweep")
  /\ \/ BuildLast("Ask")
     \/ /\ remaining > 1
        /\ LET levels == LeastOf(MaxLevels, remaining - 1)
               rows   == IF (built.timed \div 3) % 2 = 0 THEN SweepRows("Ask", 1, levels)
                         ELSE SweepRows("Bid", -1, levels)
           IN  Timed(NewAdds(rows), levels + 1)
  /\ UNCHANGED pool

BuildCancelHeavy ==
  /\ Wanted("cancel-heavy")
  /\ \E i \in DOMAIN pool.orders :
       LET live == pool.orders[i]
           rest == PoolRemove(pool, live.order_id)
       IN  \/ /\ remaining = 1
              /\ Timed(<<CancelOf(live.order_id)>>, 0)
              /\ pool' = rest
           \/ /\ remaining > 1
              /\ \E side \in {"Bid", "Ask"} :
                 \E price \in far_price(side), qty \in random_qty(256) :
                   /\ Timed(<<CancelOf(live.order_id)>> \o
                            NewAdds(<<Row(side, price, qty)>>), 1)
                   /\ pool' = PoolAdd(rest, next_order_id, side)

\* An order that is modified across the book meets an order put there for it.
BuildModifyHeavy ==
  /\ Wanted("modify-heavy")
  /\ \E i \in DOMAIN pool.orders :
       LET live == pool.orders[i]
       IN  \E price \in far_price(live.side), qty \in random_qty(128) :
             \/ /\ Timed(<<ModifyOf(live.order_id, price, qty)>>, 0)
                /\ UNCHANGED pool
             \/ /\ remaining >= 3
                /\ LET adds == NewAdds(<<Row(Opposite(live.side), kCrossBase, 1),
                                         Row(live.side, price, qty)>>)
                   IN  Timed(<<adds[1], ModifyOf(live.order_id, kCrossBase, 1), adds[2]>>, 2)
                /\ pool' = PoolAdd(PoolRemove(pool, live.order_id), next_order_id + 1, live.side)

\* step++ is the number of timed events: each iteration makes one.
BuildRejectHeavy ==
  /\ Wanted("reject-heavy")
  /\ \E i \in DOMAIN pool.orders, side \in {"Bid", "Ask"}, qty \in random_qty(64) :
     \E price \in far_price(side) :
       LET live    == pool.orders[i].order_id
           probe   == built.timed % 8
           unknown == kUnknownId + built.timed + 1
           fresh(p, q) == NewAdds(<<Row(side, p, q)>>)
       IN  \/ probe = 0 /\ Timed(fresh(price, qty), 1)
           \/ probe = 1 /\ Timed(<<AddOf(live, side, price, qty)>>, 0)
           \/ probe = 2 /\ Timed(fresh(0, qty), 1)
           \/ probe = 3 /\ Timed(fresh(price, 0), 1)
           \/ probe = 4 /\ Timed(<<CancelOf(unknown)>>, 0)
           \/ probe = 5 /\ Timed(<<ModifyOf(unknown, price, qty)>>, 0)
           \/ probe = 6 /\ Timed(<<ModifyOf(live, 0, qty)>>, 0)
           \/ probe = 7 /\ Timed(<<ModifyOf(live, price, 0)>>, 0)
  /\ UNCHANGED pool

(***************************************************************************)
(* build_events of the tail benchmark: count cycles, with loops counting   *)
(* them from 1 once the first depth bids are there.                        *)
(***************************************************************************)
TailWanted(kind) == workload = kind /\ pending = <<>> /\ built.loops < count

TailBids == [i \in 1..SetupSize |-> Row("Bid", TailBase + i - 1, 1)]

BuildTailSweep ==
  /\ TailWanted("tail-sweep")
  /\ Timed(NewAdds([i \in 1..SetupSize |-> Row("Ask", TailBase + i - 1, 1)] \o
                   <<Row("Bid", TailBase + SetupSize, SetupSize)>>),
           SetupSize + 1)
  /\ UNCHANGED pool

\* The bids the two other workloads start from, together with their first cycle.
TailPrefix == IF built.loops = 0 THEN NewAdds(TailBids) ELSE <<>>

BuildTailCancel ==
  /\ TailWanted("tail-cancel")
  /\ LET at == built.loops % SetupSize
     IN  Timed(TailPrefix \o
               <<CancelOf(1 + at), AddOf(1 + at, "Bid", TailBase + at, 1)>>,
               IF built.loops = 0 THEN SetupSize ELSE 0)
  /\ UNCHANGED pool

BuildTailModify ==
  /\ TailWanted("tail-modify")
  /\ Timed(TailPrefix \o [i \in 1..SetupSize |-> ModifyOf(i, TailBase + i - 1, 1)],
           IF built.loops = 0 THEN SetupSize ELSE 0)
  /\ UNCHANGED pool

Build ==
  \/ BuildSetup \/ BuildAddOnly \/ BuildCrossHeavy \/ BuildPartialFill \/ BuildSweep
  \/ BuildCancelHeavy \/ BuildModifyHeavy \/ BuildRejectHeavy
  \/ BuildTailSweep \/ BuildTailCancel \/ BuildTailModify

\* The builder's loop has ended.
StreamComplete ==
  /\ pending = <<>> /\ Prepared
  /\ IF workload \in TailWorkloads THEN built.loops = count ELSE built.timed >= count

\* What events.size() will be.
StreamSize ==
  CASE workload \in SetupWorkloads -> SetupSize + count
    [] workload = "tail-sweep" -> count * (SetupSize + 1)
    [] workload = "tail-cancel" -> SetupSize + count * 2
    [] workload = "tail-modify" -> SetupSize + count * SetupSize
    [] OTHER -> count
==============================================================================
