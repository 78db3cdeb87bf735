----------------------------- MODULE EventReplay -----------------------------
(* EngineReplay for the baseline engine, the one that the replay command,  *)
(* the partition lab and the ingress benchmark use: any positive price,    *)
(* any number of orders.                                                   *)
EXTENDS Integers, Sequences

\* More orders than a run has events.
LOCAL Unlimited == 1000000

INSTANCE EngineReplay WITH LimitPrices <- Nat \ {0}, Capacity <- Unlimited
==============================================================================
