-------------------------------- MODULE Sizing --------------------------------
(***************************************************************************)
(* From snapshots to paper trades: a cycle scores the contracts, looks up  *)
(* the fee of their series, sizes each qualifying one against the limits   *)
(* and buys it.  Settlement is here as far as the limits see it; halts,    *)
(* the lock and the tables' own steps are in TradingCycle and Ledger.  The *)
(* exchange, the models and the results are external.                      *)
(*                                                                         *)
(* All contracts are of one series, so share a fee; those of one ladder    *)
(* share a cluster.  Time runs in ticks of some hours.                     *)
(***************************************************************************)
EXTENDS Pricing, Sequences, FiniteSetsExt

CONSTANTS
  Contracts,       \* the contracts, all of one series
  Ladder,          \* those of one station and day
  Snapshots,       \* what the newest snapshot of a contract can be
  Estimates,       \* what a model can say
  Miscalibration,  \* per cent, of a hundred settled trades; 0 while there are fewer
  Tariffs,         \* what the exchange can publish: type and multiplier
  Screening,       \* PRESCREEN_BEFORE_MODELS
  CacheTicks,      \* MAX_CACHE_AGE
  DayTicks,        \* a day
  LastTick,        \* bound: the clock
  MaxPlaced        \* bound: trades placed

ASSUME SizingAssumption ==
  /\ Ladder \subseteq Contracts
  /\ Screening \in BOOLEAN
  /\ Miscalibration \in 0..100
  /\ Snapshots \subseteq [last : 0..99, bid : 0..100, ask : 0..100, thin : BOOLEAN,
                          expiry : {"ok", "soon", "far"}]
  /\ Estimates \subseteq [p : 0..1000, confidence : {"high", "middle", "low"}]
  /\ Tariffs \subseteq [type : STRING, multiplier : Nat]
  /\ {CacheTicks, DayTicks} \subseteq Nat \ {0} /\ {LastTick, MaxPlaced} \subseteq Nat

VARIABLES
  tick,           \* the time
  tariff,         \* what the exchange publishes now, and when it last did each
  seriesFee,      \* SeriesFee
  account,        \* bankroll and peak_bankroll, and the results by day of entry
  positions,      \* the open Position of each contract
  opportunities,  \* the Opportunity status of each contract
  pass,           \* the running cycle, and when its fee book was built
  newest          \* the newest trade, with what it was judged on

sizingVars == <<tick, tariff, seriesFee, account, positions, opportunities, pass, newest>>

Refused    == "refused"
NoSchedule == [type |-> "none", multiplier |-> 0]
NoPosition == [quantity |-> 0, price |-> 0, fee |-> 0, day |-> 0]
NoTrade    == [placed |-> 0]
NoPass     == [step |-> "off", start |-> 0, left |-> {}, rows |-> {}, queue |-> <<>>,
               schedule |-> NoSchedule]

Today == tick \div DayTicks

-----------------------------------------------------------------------------
(***************************************************************************)
(* A cycle begins, settles and scores.                                     *)
(***************************************************************************)

\* A bankroll under a dollar refuses the cycle.
PassBegins ==
  /\ pass.step = "off"
  /\ account.bankroll >= 100
  /\ pass' = [NoPass EXCEPT !.step = "settling", !.left = Contracts]
  /\ UNCHANGED <<tick, tariff, seriesFee, account, positions, opportunities, newest>>

\* A market has a result: the bankroll moves by the realized PnL, entry fee
\* and all, and the peak follows.
SettlePosition ==
  /\ pass.step = "settling"
  /\ \E k \in Contracts, paid \in {0, 100} :
       LET p   == positions[k]
           pnl == p.quantity * (paid - p.price) - p.fee
       IN /\ p # NoPosition
          /\ positions' = [positions EXCEPT ![k] = NoPosition]
          /\ account' = [bankroll |-> account.bankroll + pnl,
                         peak     |-> Greatest(account.peak, account.bankroll + pnl),
                         closed   |-> [account.closed EXCEPT ![p.day] = @ + pnl]]
  /\ UNCHANGED <<tick, tariff, seriesFee, opportunities, pass, newest>>

ScoringBegins ==
  /\ pass.step = "settling"
  /\ pass' = [pass EXCEPT !.step = "scoring"]
  /\ UNCHANGED <<tick, tariff, seriesFee, account, positions, opportunities, newest>>

OpportunityOf(k, s, estimate) ==
  LET side == BestSide(s, estimate.p)
  IN [contract |-> k, snapshot |-> s, p |-> estimate.p, side |-> side,
      price |-> FillPrice(side, s), ev |-> NetEv(side, s, estimate.p)]

\* One market of score_all_markets, most traded first.  One that never
\* traded, is screened out or finds no model leaves no row.
ScoreContract ==
  /\ pass.step = "scoring"
  /\ \E k \in pass.left, s \in Snapshots :
       \/ pass' = [pass EXCEPT !.left = @ \ {k}]
       \/ \E estimate \in Estimates :
            /\ s.last # 0
            /\ Screening => Prescreened(s)
            /\ LET status == Status(s, estimate)
                   o      == OpportunityOf(k, s, estimate)
               IN pass' = [pass EXCEPT !.left = @ \ {k}, !.rows = @ \cup {<<k, status>>},
                             !.queue = IF status = "qualifying" THEN Append(@, o) ELSE @]
  /\ UNCHANGED <<tick, tariff, seriesFee, account, positions, opportunities, newest>>

\* All are scored, or the budget is spent: the rows are upserted at once, one
\* at most of each contract.
FlushOpportunities ==
  /\ pass.step = "scoring"
  /\ opportunities' =
       [k \in Contracts |-> IF \E row \in pass.rows : row[1] = k
                            THEN (CHOOSE row \in pass.rows : row[1] = k)[2] ELSE opportunities[k]]
  /\ pass' = [pass EXCEPT !.step = "digest", !.rows = {}, !.left = {}]
  /\ UNCHANGED <<tick, tariff, seriesFee, account, positions, newest>>

-----------------------------------------------------------------------------
(***************************************************************************)
(* The fee of the series: FeeBook.                                         *)
(***************************************************************************)
Known     == seriesFee # NoSchedule
Supported(schedule) ==
  IF schedule.type \in {"quadratic", "quadratic_with_maker_fees"} THEN schedule
  ELSE [NoSchedule EXCEPT !.type = Refused]

\* _record_success; failing: the newest try is newer than the newest answer.
Seen(schedule, at) == [type |-> schedule.type, multiplier |-> schedule.multiplier,
                       observed |-> at, failing |-> FALSE]

\* Mutant of MarkFailed: the failed try restarts the clock of the fallback.
MarkSeen(row, at) == [row EXCEPT !.failing = TRUE, !.observed = at]

\* _record_failure.
MarkFailed(row, at) == [row EXCEPT !.failing = TRUE]

\* _resolve, when the exchange answers and when it does not.
Answered(at) ==
  [row |-> Seen(tariff.current, at), schedule |-> Supported(tariff.current)]

Unanswered(at) ==
  LET known == [type |-> seriesFee.type, multiplier |-> seriesFee.multiplier]
  IN IF ~Known THEN [row |-> seriesFee, schedule |-> [NoSchedule EXCEPT !.type = Refused]]
     ELSE [row |-> MarkFailed(seriesFee, at),
           schedule |-> IF at - seriesFee.observed >= CacheTicks
                        THEN [NoSchedule EXCEPT !.type = Refused] ELSE Supported(known)]

\* The daily digest asks for every series, with a fee book of its own, before
\* there is any trading.
SweepFees ==
  /\ pass.step = "digest"
  /\ \E reply \in {Answered(tick), Unanswered(tick)} : seriesFee' = reply.row
  /\ pass' = [pass EXCEPT !.step = "swept"]
  /\ UNCHANGED <<tick, tariff, account, positions, opportunities, newest>>

\* The cycle's fee book is new and takes the time it is built at.  Most cycles
\* find the digest sent, and one with nothing that qualifies ends here.
TradingBegins ==
  /\ pass.step \in {"digest", "swept"} /\ pass.queue # <<>>
  /\ pass' = [pass EXCEPT !.step = "trading", !.start = tick, !.schedule = NoSchedule]
  /\ UNCHANGED <<tick, tariff, seriesFee, account, positions, opportunities, newest>>

\* The first opportunity asks, and the answer is kept for the cycle.
LookUpFee ==
  /\ pass.step = "trading" /\ pass.queue # <<>>
  /\ pass.schedule = NoSchedule
  /\ \E reply \in {Answered(pass.start), Unanswered(pass.start)} :
       /\ seriesFee' = reply.row
       /\ pass' = [pass EXCEPT !.schedule = reply.schedule]
  /\ UNCHANGED <<tick, tariff, account, positions, opportunities, newest>>

-----------------------------------------------------------------------------
(***************************************************************************)
(* Risk and the fill.                                                      *)
(***************************************************************************)

\* Equity marks nothing to market: a position's price is that of its entry.
Equity == account.bankroll

Cost(position)      == position.quantity * position.price
Exposure(contracts) == MapThenSumSet(LAMBDA k : Cost(positions[k]), contracts)
ClusterOf(k)        == IF k \in Ladder THEN Ladder ELSE {k}

\* LimitsChecker.check of some dollars, in hundredths of a cent.  The daily
\* loss is that of the trades entered today.
Violations(dollars, k) ==
  LET loss     == -account.closed[Today]
      exceeded == [total    |-> 100 * Exposure(Contracts) + dollars > MaxTotal * Equity,
                   daily    |-> loss > 0 /\ 100 * loss >= MaxDailyLoss * Equity,
                   drawdown |-> /\ account.peak > 0
                                /\ 100 * (account.peak - Equity) >= MaxDrawdown * account.peak,
                   cluster  |-> 100 * Exposure(ClusterOf(k)) + dollars > MaxCluster * Equity]
  IN {limit \in DOMAIN exceeded : exceeded[limit]}

RiskApproves(o) ==
  /\ SizedQuantity(o, Equity, Miscalibration) > 0
  /\ Violations(SizedDollars(o, Equity, Miscalibration), o.contract) = {}

\* _apply_fee_schedule: the after-fee value at the published rate.
AfterFee(o) ==
  IF pass.schedule.multiplier = 1 THEN o.ev
  ELSE o.ev - 10 * (ScheduledFee(1, o.price, pass.schedule.multiplier) - ScheduledFee(1, o.price, 1))

Resolved  == pass.step = "trading" /\ pass.queue # <<>> /\ pass.schedule # NoSchedule
Tradeable(o) ==
  /\ pass.schedule.type # Refused
  /\ AfterFee(o) > 0
  /\ RiskApproves(o)
  /\ positions[o.contract] = NoPosition    \* SKIP_HELD_MARKETS

\* No fee to vouch for, no edge left, refused by risk, or held already.
SkipOpportunity ==
  /\ Resolved
  /\ ~Tradeable(Head(pass.queue))
  /\ pass' = [pass EXCEPT !.queue = Tail(@)]
  /\ UNCHANGED <<tick, tariff, seriesFee, account, positions, opportunities, newest>>

\* The quantity is risk's, the price is the fill's.
PlacePaper ==
  /\ Resolved
  /\ newest.placed < MaxPlaced
  /\ LET o        == Head(pass.queue)
         quantity == SizedQuantity(o, Equity, Miscalibration)
         fee      == ScheduledFee(quantity, o.price, pass.schedule.multiplier)
     IN /\ Tradeable(o)
        /\ positions' = [positions EXCEPT ![o.contract] =
                           [quantity |-> quantity, price |-> o.price, fee |-> fee, day |-> Today]]
        /\ newest' = [placed |-> newest.placed + 1, start |-> pass.start, schedule |-> pass.schedule,
                      quantity |-> quantity, price |-> o.price, fee |-> fee,
                      belief |-> Belief(o.side, o.p), equity |-> Equity]
  /\ pass' = [pass EXCEPT !.queue = Tail(@)]
  /\ UNCHANGED <<tick, tariff, seriesFee, account, opportunities>>

\* The cycle is over, or it dies.
PassEnds ==
  /\ pass.step # "off"
  /\ pass' = NoPass
  /\ UNCHANGED <<tick, tariff, seriesFee, account, positions, opportunities, newest>>

-----------------------------------------------------------------------------
(***************************************************************************)
(* The world.                                                              *)
(***************************************************************************)
TariffChanges ==
  /\ \E t \in Tariffs \ {tariff.current} :
       tariff' = [current |-> t, last |-> [tariff.last EXCEPT ![t] = tick]]
  /\ UNCHANGED <<tick, seriesFee, account, positions, opportunities, pass, newest>>

SizingTick ==
  /\ tick < LastTick
  /\ tick' = tick + 1
  /\ tariff' = [tariff EXCEPT !.last[tariff.current] = tick + 1]
  /\ UNCHANGED <<seriesFee, account, positions, opportunities, pass, newest>>

SizingInit ==
  /\ tick = 0
  /\ \E t \in Tariffs :
       tariff = [current |-> t, last |-> [u \in Tariffs |-> IF u = t THEN 0 ELSE -CacheTicks]]
  /\ seriesFee = NoSchedule
  /\ account = [bankroll |-> 10000, peak |-> 10000, closed |-> [d \in 0..(LastTick \div DayTicks) |-> 0]]
  /\ positions = [k \in Contracts |-> NoPosition]
  /\ opportunities = [k \in Contracts |-> "none"]
  /\ pass = NoPass
  /\ newest = NoTrade

SizingNext ==
  \/ PassBegins \/ SettlePosition \/ ScoringBegins \/ ScoreContract \/ FlushOpportunities
  \/ SweepFees \/ TradingBegins \/ LookUpFee \/ SkipOpportunity \/ PlacePaper \/ PassEnds
  \/ TariffChanges \/ SizingTick

SizingSpec == SizingInit /\ [][SizingNext]_sizingVars

-----------------------------------------------------------------------------
\* Every variable holds a value of its domain.
SizingTypeOK ==
  /\ tick \in 0..LastTick
  /\ tariff.current \in Tariffs
  /\ \A k \in Contracts : positions[k].quantity \in Nat /\ positions[k].price \in 0..99
  /\ account.peak >= account.bankroll
  /\ opportunities \in [Contracts -> {"none", "qualifying", "watching", "rejected"}]
  /\ pass.step \in {"off", "settling", "scoring", "digest", "swept", "trading"}
  /\ newest.placed \in 0..MaxPlaced

\* "A fee we cannot vouch for is a refusal, never a guess": every trade is
\* charged by a schedule of a kind the formula models which the exchange
\* published within a day of its trading, and at that schedule the whole trade,
\* its fee rounded up, is still worth more than it costs; through changes of
\* the schedule within a cycle, fetches that fail for days, and cycles that
\* die between the fetch and the trade.
TradesPayTheirFee ==
  newest # NoTrade =>
    /\ newest.schedule.type \in {"quadratic", "quadratic_with_maker_fees"}
    /\ newest.start - tariff.last[newest.schedule] < CacheTicks
    /\ newest.quantity * (newest.belief - 10 * newest.price) > 10 * newest.fee

\* "Hard limits (non-overridable)": a single trade costs at most 3% of the
\* bankroll it is bought with.  The code sizes at the last trade's price.
SingleTradeWithinLimit ==
  newest # NoTrade => 100 * newest.quantity * newest.price <= MaxSingle * newest.equity
=============================================================================
