--------------------------- MODULE MCTradingCycle ---------------------------
(***************************************************************************)
(* Instances of the trading cycle for TLC.  The bankroll is a few dollars, *)
(* so one losing contract is past the 10% drop switch and two are past the *)
(* 20% drawdown latch.                                                     *)
(***************************************************************************)
EXTENDS TradingCycle, TLC

Symmetry == Permutations(Markets) \cup Permutations(Runners)

\* Bound of cycle_live: behaviours with a second trade and those with a second
\* exception, not with both.
ShortHistory == events > 1 => Len(trades) <= 1
=============================================================================
