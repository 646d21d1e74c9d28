-------------------------------- MODULE MCSizing --------------------------------
(***************************************************************************)
(* The snapshots, estimates and tariffs of a small instance of Sizing:     *)
(* estimates that pick either side, one of which stops paying when the fee *)
(* triples, and a tariff of a kind the formula does not model.             *)
(***************************************************************************)
EXTENDS Sizing

Snap(last, bid, ask) ==
  [last |-> last, bid |-> bid, ask |-> ask, thin |-> FALSE, expiry |-> "ok"]

SomeSnapshots == {Snap(50, 49, 51)}

\* Nobody has traded since the book moved away.
MovedAway == {Snap(97, 50, 52)}

SomeEstimates ==
  {[p |-> 400, confidence |-> "middle"], [p |-> 560, confidence |-> "high"]}

SomeTariffs ==
  {[type |-> "quadratic", multiplier |-> 1],
   [type |-> "quadratic_with_maker_fees", multiplier |-> 3],
   [type |-> "flat", multiplier |-> 1]}
=============================================================================
