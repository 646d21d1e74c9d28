-------------------------------- MODULE Weather --------------------------------
(***************************************************************************)
(* Pricing the temperature contracts of one station (weather/): the refit  *)
(* job that measures each lead's forecast error, the archive of MOS runs,  *)
(* the live guard, and a cycle that prices with all three.  The weather,   *)
(* the archives and the rest of the pipeline are external.                 *)
(*                                                                         *)
(* A UTC day has three phases: the night, in which the station's own day   *)
(* is still the day before; the morning, before the day's 12Z run is       *)
(* published; and the evening, from when it may be.  A cycle lasts minutes *)
(* and sees at most one change of phase.                                   *)
(***************************************************************************)
EXTENDS Integers, Sequences, FiniteSets, SequencesExt

CONSTANTS
  MaxLead,      \* MAX_PRICEABLE_LEAD, and the largest of LEADS
  Lookback,     \* MAX_RUN_LOOKBACK_DAYS
  MaxFitAge,    \* MAX_FIT_AGE_DAYS
  GuardWindow,  \* GUARD_MIN_SETTLED
  LastPhase,    \* bound: the clock
  MaxTrades,    \* bound: trades placed
  MaxRefits     \* bound: refit jobs

ASSUME WeatherAssumption ==
  /\ {MaxLead, GuardWindow} \subseteq Nat \ {0}
  /\ {Lookback, MaxFitAge, LastPhase, MaxTrades, MaxRefits} \subseteq Nat

VARIABLES
  phaseNo,  \* the clock: three phases a day
  runs,     \* the days whose 12Z run the archive holds
  rules,    \* what the contract's rules name of the station's settlement
  fits,     \* WeatherCellFit of each lead
  refit,    \* the refit job: the next lead, or 0; and the jobs so far
  trades,   \* paper trades: open, placed so far, and the newest outcomes
  guard,    \* GuardState of the series
  scoring,  \* the running cycle's WeatherModel and its caches
  priced    \* the cycle's newest estimate, and what it was made from

weatherVars == <<phaseNo, runs, rules, fits, refit, trades, guard, scoring, priced>>

Leads   == 1..MaxLead
Targets == 0..(LastPhase \div 3 + MaxLead)

Day      == phaseNo \div 3
LocalDay == IF phaseNo % 3 = 0 THEN Day - 1 ELSE Day

-----------------------------------------------------------------------------
(***************************************************************************)
(* Refitting a cell and the promotion gate.                                *)
(***************************************************************************)

\* What scoring the held-out pairs can yield: pairs against the floor, skill
\* and slope against their bars.  Either can be no number: the slope when all
\* predictions fall in one bin, the skill when the base rate is certain and
\* right, and then the outcomes are all alike and the slope is zero or none.
Scores ==
  {s \in [pairs : {"few", "enough"}, skill : {"low", "clears", "nan"},
          slope : {"outside", "within", "nan"}] :
     s.skill = "nan" => s.slope # "within"}

Measured == [pairs |-> "enough", skill |-> "clears", slope |-> "within"]

\* evaluate_promotion.  No number is below the skill bar, and none is within
\* the slope's.
Promoted(s) == s.pairs = "enough" /\ s.skill # "low" /\ s.slope = "within"

\* fetch_daily_max: a day without a reading is left out; an implausible one,
\* or no reading at all, and there is no truth.
TruthKnown(readings) == "max" \in readings /\ "implausible" \notin readings

NoFit == [day |-> -1, scores |-> Measured, promoted |-> FALSE]

\* save_fit: parameters, scores and verdict in one row, stamped with today.
\* The scores of a rejected fit are not told apart.
Rejected     == [pairs |-> "few", skill |-> "low", slope |-> "outside"]
StoredFit(s) == [day |-> Day, scores |-> IF Promoted(s) THEN s ELSE Rejected,
                 promoted |-> Promoted(s)]

\* refit_all skips a station without truth, or without a MOS history.
RefitStarts ==
  /\ refit.lead = 0 /\ refit.jobs < MaxRefits
  /\ \E readings \in SUBSET {"max", "none", "implausible"}, history \in BOOLEAN :
       refit' = [lead |-> IF TruthKnown(readings) /\ history THEN 1 ELSE 0, jobs |-> refit.jobs + 1]
  /\ UNCHANGED <<phaseNo, runs, rules, fits, trades, guard, scoring, priced>>

\* refit_cell, lead by lead.  A lead with too few pairs, or nothing scored,
\* keeps the row it has.
RefitLead ==
  /\ refit.lead # 0
  /\ \/ \E s \in Scores : fits' = [fits EXCEPT ![refit.lead] = StoredFit(s)]
     \/ fits' = fits
  /\ refit' = [refit EXCEPT !.lead = IF @ = MaxLead THEN 0 ELSE @ + 1]
  /\ UNCHANGED <<phaseNo, runs, rules, trades, guard, scoring, priced>>

\* The job dies.
RefitStops ==
  /\ refit.lead # 0
  /\ refit' = [refit EXCEPT !.lead = 0]
  /\ UNCHANGED <<phaseNo, runs, rules, fits, trades, guard, scoring, priced>>

\* cell_priceable.
Priceable(fit) ==
  fit # NoFit /\ fit.promoted /\ fit.scores.pairs = "enough" /\ Day - fit.day <= MaxFitAge

-----------------------------------------------------------------------------
(***************************************************************************)
(* The live guard.                                                         *)
(***************************************************************************)

\* live_brier over the newest settled paper trades, each of them placed at a
\* stated three in four: half of them wrong is past GUARD_MAX_BRIER.  With
\* fewer than a window of them the guard is not active.
GuardPaused ==
  /\ Len(trades.outcomes) = GuardWindow
  /\ 2 * Len(SelectSeq(trades.outcomes, LAMBDA right : ~right)) >= GuardWindow

\* A trade settles: only the newest outcomes are read again.
Settled(right) ==
  LET all == Append(trades.outcomes, right)
  IN [trades EXCEPT !.open = @ - 1,
        !.outcomes = IF Len(all) > GuardWindow THEN Tail(all) ELSE all]

SettleTrade ==
  /\ scoring.step = "begun" /\ trades.open > 0
  /\ \E right \in BOOLEAN : trades' = Settled(right)
  /\ UNCHANGED <<phaseNo, runs, rules, fits, refit, guard, scoring, priced>>

\* guard_events: the row follows the guard and counts each change.  A failure
\* is not fatal.
SyncGuard ==
  /\ scoring.step = "begun"
  /\ \/ guard' = [paused |-> GuardPaused,
                  transitions |-> guard.transitions + IF guard.paused # GuardPaused THEN 1 ELSE 0]
     \/ guard' = guard
  /\ scoring' = [scoring EXCEPT !.step = "scoring", !.vetoed = GuardPaused]
  /\ UNCHANGED <<phaseNo, runs, rules, fits, refit, trades, priced>>

-----------------------------------------------------------------------------
(***************************************************************************)
(* A cycle: WeatherModel.estimate with its caches.                         *)
(***************************************************************************)
Unfetched == -2   \* not asked for yet
NoRun     == -1   \* MosUnavailable

NoPrice   == [target |-> 0, run |-> 0, lead |-> 0, fit |-> NoFit, at |-> -1]
NoScoring == [step |-> "off", start |-> 0, rules |-> {}, vetoed |-> FALSE,
              run |-> [d \in Targets |-> Unfetched], fit |-> [l \in Leads |-> <<>>]]

\* The sync has just stored the contract's rules; the model's caches are new.
CycleBegins ==
  /\ scoring.step = "off"
  /\ scoring' = [NoScoring EXCEPT !.step = "begun", !.start = phaseNo, !.rules = rules]
  /\ UNCHANGED <<phaseNo, runs, rules, fits, refit, trades, guard, priced>>

\* latest_forecast_for: the newest published 12Z run of the last days that
\* forecasts the target.  The fetch of any of them can fail.
Eligible(target) ==
  {d \in runs : Day - Lookback <= d /\ d <= Day /\ target - d >= 1}

\* verify_settlement: the rules name the station's site, by its code or in
\* prose, and an accepted authority.  Missing rules name neither.
VerifySettlement(text) == {"site", "authority"} \subseteq text

\* The lead of the target in the station's calendar, the settlement and the
\* guard, which come before any call.
Wanted(target) ==
  /\ target - LocalDay \in Leads
  /\ VerifySettlement(scoring.rules)
  /\ ~scoring.vetoed

FetchForecast ==
  /\ scoring.step = "scoring"
  /\ \E target \in Targets :
       /\ Wanted(target) /\ scoring.run[target] = Unfetched
       /\ \E d \in Eligible(target) \cup {NoRun} :
            scoring' = [scoring EXCEPT !.run[target] = d]
  /\ UNCHANGED <<phaseNo, runs, rules, fits, refit, trades, guard, priced>>

\* Mutant of FitLead: the lead the caller hoped for.
IntendedLead(target, run) == target - LocalDay

\* The lead the run has.
FitLead(target, run) == target - run

\* check_forecast: the ladder of the market's own prices pins no median, or one
\* that is near the prediction or far from it.
Sane(median) == median # "far"

\* The fit of that lead, loaded once a cycle; and a price, if the cell may price
\* and the ladder does not disagree.
Estimate ==
  /\ scoring.step = "scoring"
  /\ \E target \in Targets :
       LET run  == scoring.run[target]
           lead == FitLead(target, run)
           row  == IF scoring.fit[lead] = <<>> THEN fits[lead] ELSE scoring.fit[lead][1]
       IN /\ Wanted(target) /\ run >= 0
          /\ lead <= MaxLead
          /\ scoring' = [scoring EXCEPT !.fit[lead] = <<row>>]
          /\ \E median \in {"none", "near", "far"} :
               priced' = IF Priceable(row) /\ Sane(median)
                         THEN [target |-> target, run |-> run, lead |-> lead,
                               fit |-> row, at |-> phaseNo]
                         ELSE priced
  /\ UNCHANGED <<phaseNo, runs, rules, fits, refit, trades, guard>>

\* What has been priced may be traded on paper.
PlaceTrade ==
  /\ scoring.step = "scoring" /\ priced # NoPrice
  /\ trades.placed < MaxTrades
  /\ trades' = [trades EXCEPT !.open = @ + 1, !.placed = @ + 1]
  /\ scoring' = [scoring EXCEPT !.step = "traded"]
  /\ UNCHANGED <<phaseNo, runs, rules, fits, refit, guard, priced>>

\* It is over, or it dies.
CycleIsOver ==
  /\ scoring.step # "off"
  /\ scoring' = NoScoring
  /\ priced' = NoPrice
  /\ UNCHANGED <<phaseNo, runs, rules, fits, refit, trades, guard>>

-----------------------------------------------------------------------------
(***************************************************************************)
(* The world.                                                              *)
(***************************************************************************)

\* The archive publishes a run, in its day's evening or later, or never.
RunPublished ==
  /\ \E d \in (Day - Lookback)..Day :
       /\ d >= 0 /\ d \notin runs
       /\ phaseNo >= 3 * d + 2
       /\ runs' = runs \cup {d}
  /\ UNCHANGED <<phaseNo, rules, fits, refit, trades, guard, scoring, priced>>

\* The exchange repoints the series: another site, or another authority.
Repointed ==
  /\ \E name \in rules : rules' = rules \ {name}
  /\ UNCHANGED <<phaseNo, runs, fits, refit, trades, guard, scoring, priced>>

PhasePasses ==
  /\ phaseNo < LastPhase
  /\ scoring.step # "off" => phaseNo = scoring.start
  /\ phaseNo' = phaseNo + 1
  /\ UNCHANGED <<runs, rules, fits, refit, trades, guard, scoring, priced>>

WeatherInit ==
  /\ phaseNo = 0
  /\ runs = {}
  /\ rules \in SUBSET {"site", "authority"}
  /\ fits = [l \in Leads |-> NoFit]
  /\ refit = [lead |-> 0, jobs |-> 0]
  /\ trades = [open |-> 0, placed |-> 0, outcomes |-> <<>>]
  /\ guard = [paused |-> FALSE, transitions |-> 0]
  /\ scoring = NoScoring
  /\ priced = NoPrice

WeatherNext ==
  \/ RefitStarts \/ RefitLead \/ RefitStops
  \/ CycleBegins \/ SettleTrade \/ SyncGuard \/ FetchForecast \/ Estimate \/ PlaceTrade
  \/ CycleIsOver
  \/ RunPublished \/ Repointed \/ PhasePasses

-----------------------------------------------------------------------------
\* Every variable holds a value of its domain.
WeatherTypeOK ==
  /\ phaseNo \in 0..LastPhase
  /\ runs \subseteq 0..Day
  /\ \A l \in Leads : fits[l].scores \in Scores /\ fits[l].day <= Day
  /\ refit.lead \in 0..MaxLead
  /\ trades.open \in 0..trades.placed
  /\ trades.outcomes \in BoundedSeq(BOOLEAN, GuardWindow)
  /\ scoring.step \in {"off", "begun", "scoring", "traded"}

\* "A lead-1 fit applied to a two-day-old run is a precise statement about the
\* wrong distribution": every price is for a day that has not begun at the
\* station, from a run published by then, with the error measured for that
\* run's own lead, by scores that are numbers and clear the bars, within the
\* refit cadence; through runs that come late or never, refits that fail in
\* between and phases that change within the cycle.
PricedOnMeasuredError ==
  priced # NoPrice =>
    /\ 3 * priced.target >= priced.at                      \* the local day begins with a morning
    /\ priced.run \in runs /\ 3 * priced.run + 2 <= priced.at
    /\ priced.lead = priced.target - priced.run
    /\ priced.fit.scores = Measured
    /\ (priced.at \div 3) - priced.fit.day <= MaxFitAge
=============================================================================
