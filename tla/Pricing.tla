-------------------------------- MODULE Pricing --------------------------------
(***************************************************************************)
(* What an opportunity is worth and how much of it to buy: the fill price, *)
(* the fee, the expected value and the filter of ev/, and the sizing of    *)
(* risk/.  Prices and money are cents, probabilities per mille.            *)
(*                                                                         *)
(* A snapshot is the last trade, the book, whether the day's volume is     *)
(* thin and how near the close is; an estimate is a model's probability    *)
(* and the tier of its confidence.                                         *)
(***************************************************************************)
EXTENDS Integers, FiniteSets

Sides    == {"yes", "no"}
MaxSpread == 3     \* MAX_SPREAD_CENTS

Least(a, b)    == IF a < b THEN a ELSE b
Greatest(a, b) == IF a > b THEN a ELSE b
Size(n)        == Greatest(n, -n)
RoundUp(n, d)  == (n + d - 1) \div d
Rounded(n, d)  == (2 * n + d) \div (2 * d)

-----------------------------------------------------------------------------
(***************************************************************************)
(* Prices, fees and expected value.                                        *)
(***************************************************************************)

\* fill_prices of a taker, and of paper: each side crosses the spread.  With
\* no book the last trade is the only price.
FillPrice(side, s) ==
  LET booked == s.bid > 0 /\ s.ask > 0
  IN IF side = "yes" THEN IF booked THEN s.ask ELSE s.last
     ELSE 100 - IF booked THEN s.bid ELSE s.last

\* FeeSchedule.fee: 7% of the multiplier and the variance, rounded up.
ScheduledFee(quantity, price, multiplier) ==
  IF quantity <= 0 \/ price \notin 1..99 THEN 0
  ELSE RoundUp(7 * multiplier * quantity * price * (100 - price), 10000)

Belief(side, p) == IF side = "yes" THEN p ELSE 1000 - p

\* calculate_ev: the edge of a side, and what is left of it after the
\* standard fee.
Edge(side, s, p)  == Belief(side, p) - 10 * FillPrice(side, s)
NetEv(side, s, p) == Edge(side, s, p) - 10 * ScheduledFee(1, FillPrice(side, s), 1)

BestSide(s, p) == IF NetEv("yes", s, p) >= NetEv("no", s, p) THEN "yes" ELSE "no"

-----------------------------------------------------------------------------
(***************************************************************************)
(* TradeFilter.                                                            *)
(***************************************************************************)
EdgeThreshold == [high |-> 30, middle |-> 50, low |-> 80]

Untradeable(s) ==
  [volume |-> s.thin, spread |-> s.ask - s.bid > MaxSpread,
   soon |-> s.expiry = "soon", far |-> s.expiry = "far"]

\* Opt-in, before any model is asked.
Prescreened(s) == \A gate \in DOMAIN Untradeable(s) : ~Untradeable(s)[gate]

RejectionReasons(s, estimate) ==
  LET side  == BestSide(s, estimate.p)
      edge  == Size(Edge(side, s, estimate.p))
      fails == [ev           |-> NetEv(side, s, estimate.p) <= 0,
                edge         |-> edge < EdgeThreshold[estimate.confidence],
                disagreement |-> edge > 150,
                longshot     |-> side = "yes" /\ s.last < 30]
  IN {gate \in DOMAIN fails : fails[gate]}
     \cup {gate \in DOMAIN Untradeable(s) : Untradeable(s)[gate]}

Status(s, estimate) ==
  CASE RejectionReasons(s, estimate) = {}         -> "qualifying"
    [] RejectionReasons(s, estimate) = {"volume"} -> "watching"
    [] OTHER                                      -> "rejected"

-----------------------------------------------------------------------------
(***************************************************************************)
(* Sizing.                                                                 *)
(***************************************************************************)

\* int(implied_prob * 100): three prices come back from binary floating
\* point a cent short.
Truncated(last) == IF last \in {29, 57, 58} THEN last - 1 ELSE last

\* The price a trade is sized at: the last trade's.
SizedPrice(side, last) == IF side = "yes" THEN Truncated(last) ELSE 100 - Truncated(last)

\* calibration_shrinkage, per cent.
Shrinkage(miscalibration) == Greatest(25, 100 - 2 * miscalibration)

\* kelly_size: a quarter of (bp - q)/b of the equity, to the cent.
KellyCents(p, price, equity, miscalibration) ==
  IF p <= 10 * price THEN 0
  ELSE Rounded(equity * (p - 10 * price) * Shrinkage(miscalibration), 400 * (1000 - 10 * price))

\* The hard limits, per cent: of equity, and of the peak.
MaxSingle    == 3
MaxTotal     == 25
MaxCluster   == 10
MaxDailyLoss == 5
MaxDrawdown  == 20

\* The dollars of a trade, in hundredths of a cent, and its contracts.
SizedDollars(o, equity, miscalibration) ==
  Least(100 * KellyCents(Belief(o.side, o.p), SizedPrice(o.side, o.snapshot.last),
                         equity, miscalibration),
        MaxSingle * equity)

SizedQuantity(o, equity, miscalibration) ==
  SizedDollars(o, equity, miscalibration) \div (100 * SizedPrice(o.side, o.snapshot.last))
=============================================================================
