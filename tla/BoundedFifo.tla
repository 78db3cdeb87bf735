----------------------------- MODULE BoundedFifo -----------------------------
(***************************************************************************)
(* What docs/INGRESS_BOUNDARY_DESIGN.md asks of the queue between ingress  *)
(* and the matching thread, and what src/src/spsc_queue.hpp is used for: a *)
(* bounded first-in first-out buffer.  An offered value is accepted whole  *)
(* or not at all, none is overwritten, dropped or delivered twice.         *)
(***************************************************************************)
EXTENDS Naturals, Sequences

CONSTANTS Values, Capacity

VARIABLES offered,   \* the value the producer last offered
          buffer,    \* the values accepted and not yet delivered
          delivered  \* the value last delivered

fifoVars == <<offered, buffer, delivered>>

Init == buffer = <<>>

Offer ==
  /\ offered' \in Values
  /\ UNCHANGED <<buffer, delivered>>

Accept ==
  /\ Len(buffer) < Capacity
  /\ buffer' = Append(buffer, offered)
  /\ UNCHANGED <<offered, delivered>>

Deliver ==
  /\ buffer # <<>>
  /\ delivered' = Head(buffer)
  /\ buffer' = Tail(buffer)
  /\ UNCHANGED offered

Next == Offer \/ Accept \/ Deliver

Spec == Init /\ [][Next]_fifoVars
==============================================================================
