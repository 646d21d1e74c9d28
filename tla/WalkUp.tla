------------------------------- MODULE WalkUp -------------------------------
(***************************************************************************)
(* The price ladder of a maker order (execution/walkup.py and the start    *)
(* price of execution/shadow.py), as operators.                            *)
(*                                                                         *)
(* Prices are whole cents; probabilities and edges are per mille, so that  *)
(* the floor to a cent is a division by ten.                               *)
(***************************************************************************)
EXTENDS Integers, Sequences

CONSTANTS
  StepCents,       \* MAKER_STEP_CENTS
  MaxSteps,        \* MAKER_MAX_STEPS
  RestSeconds,     \* MAKER_REST_SECONDS
  TimeoutSeconds   \* MAKER_TIMEOUT_SECONDS

ASSUME WalkAssumption ==
  /\ StepCents \in Nat \ {0}
  /\ MaxSteps \in Nat
  /\ RestSeconds \in Nat \ {0}
  /\ TimeoutSeconds \in Nat

AtMost(x, top)  == IF x > top THEN top ELSE x
AtLeast(x, low) == IF x < low THEN low ELSE x

\* One cent inside our side's best bid, or on it when the spread is a cent.
PassiveStart(side, yesBid, yesAsk, taker) ==
  LET bid    == IF side = "yes" THEN yesBid ELSE 100 - yesAsk
      inside == IF bid >= 1 THEN bid + 1 ELSE 1
      start  == IF inside >= taker THEN bid ELSE inside
  IN AtLeast(AtMost(start, taker - 1), 1)

\* Mutant of MaxPrice: the ceiling of a NO order is not the complement.
MaxPriceOfYes(side, pModel, edge) == AtLeast(AtMost((pModel - edge) \div 10, 100), 0)

\* The highest price that is still the trade that was approved.  A NO order's
\* ceiling is the complement; floored, never rounded.
MaxPrice(side, pModel, edge) ==
  LET limit == IF side = "yes" THEN pModel - edge ELSE 1000 - (pModel + edge)
  IN AtLeast(AtMost(limit \div 10, 100), 0)

\* The prices the order rests at, in order: none above the cap, at most
\* MaxSteps + 1 of them, and none that begins after the timeout.
BuildPlan(start, cap) ==
  LET Placed(i) == start + i * StepCents <= cap /\ i * RestSeconds <= TimeoutSeconds
      count     == CHOOSE n \in 0..(MaxSteps + 1) :
                     /\ \A i \in 0..(n - 1) : Placed(i)
                     /\ n = MaxSteps + 1 \/ ~Placed(n)
  IN [i \in 1..count |-> start + (i - 1) * StepCents]

\* The plan of a shadow order: what place_order stores.
ShadowPlan(side, yesBid, yesAsk, taker, pModel, edge) ==
  BuildPlan(PassiveStart(side, yesBid, yesAsk, taker),
            AtMost(MaxPrice(side, pModel, edge), taker - 1))
=============================================================================
