----------------------------- MODULE MCVisualizer -----------------------------
(* Instances of the visualizer for TLC. *)
EXTENDS Visualizer, TLC

\* The panel as it comes, the modified bid, a fill-or-kill that is refused, a bid that
\* crosses before the sell comes and leaves a row without orders, a number that is
\* not whole and one the parser cannot read.
MCScenarios ==
  {DefaultFields, AlternateFields,
   [DefaultFields EXCEPT !.sellType = "FOK", !.sellSize = 9],
   [DefaultFields EXCEPT !.buy2Price = 102, !.sellType = "MARKET"],
   [DefaultFields EXCEPT !.whole = FALSE],
   [DefaultFields EXCEPT !.sellSize = 1000]}
==============================================================================
