---------------------------- MODULE KillSwitches ----------------------------
(***************************************************************************)
(* The latched kill switches (risk/halts.py) and the cycle record they     *)
(* read (cycle_log.py).  A switch is active while its halt_events row has  *)
(* no cleared_at; only a person clears it, all of them at once.            *)
(*                                                                         *)
(* Thresholds are the code's; prices of inputs and ages are reduced to the *)
(* question each switch asks of them.                                      *)
(***************************************************************************)
EXTENDS Integers, Sequences, FiniteSetsExt

CONSTANTS
  KeptCycles    \* bound: cycle rows kept, newest first (the code keeps 60 days)

ErrorCycles == 3       \* REPEATED_ERROR_CYCLES
LatchPct    == 20      \* DRAWDOWN_LATCH_PCT
DropPct     == 10      \* BANKROLL_DROP_PCT

ASSUME KeptAssumption == KeptCycles \in Nat \ {0}

VARIABLES
  halts,     \* switches that are latched: active_halts
  cycleRuns  \* table cycle_runs, newest first: [ok, equity]

Switches ==
  {"drawdown_latch", "bankroll_drop", "stale_inputs", "implausible_edge",
   "repeated_errors", "switch_error"}

\* trip: idempotent per switch.  The ramp is demoted with it; it never leaves
\* stage 0 (see README), so there is nothing to demote.
Trip(S) == halts' = halts \cup S /\ UNCHANGED cycleRuns

\* clear_halts: every active switch, by hand.
ClearHalts == halts' = {} /\ UNCHANGED cycleRuns

\* record_cycle.
RecordCycle(ok, equity) ==
  /\ cycleRuns' = SubSeq(<<[ok |-> ok, equity |-> equity]>> \o cycleRuns, 1,
                         IF Len(cycleRuns) < KeptCycles THEN Len(cycleRuns) + 1
                                                        ELSE KeptCycles)
  /\ UNCHANGED halts

\* consecutive_failures reaches the limit.
LastCyclesFailed ==
  /\ Len(cycleRuns) >= ErrorCycles
  /\ \A i \in 1..ErrorCycles : ~cycleRuns[i].ok

\* Mutant of CheckRepeatedErrors: one failure more than the limit.
CheckRepeatedErrorsLate ==
  IF LastCyclesFailed /\ Len(cycleRuns) > ErrorCycles
  THEN Trip({"repeated_errors"}) ELSE UNCHANGED <<halts, cycleRuns>>

\* check_repeated_errors.
CheckRepeatedErrors ==
  IF LastCyclesFailed THEN Trip({"repeated_errors"}) ELSE UNCHANGED <<halts, cycleRuns>>

Below(value, high, pct) == high > 0 /\ (high - value) * 100 >= pct * high

\* The switches check_cycle_halts finds tripped: window is how many of the
\* kept cycles started in the last 24 hours, stale whether the newest price
\* snapshot is too old or missing.
CycleHalts(equity, high, window, stale) ==
  LET recent == {cycleRuns[i].equity : i \in 1..window}
  IN (IF Below(equity, high, LatchPct) THEN {"drawdown_latch"} ELSE {})
     \cup (IF recent # {} /\ Below(equity, Max(recent), DropPct)
           THEN {"bankroll_drop"} ELSE {})
     \cup (IF stale THEN {"stale_inputs"} ELSE {})
=============================================================================
