------------------------------ MODULE MCServices ------------------------------
(***************************************************************************)
(* A small instance of the services around the trading cycle.  In the code *)
(* they share a database and no rows, so the behaviours of one are those   *)
(* of the others left alone: a behaviour picks a part and runs it.         *)
(***************************************************************************)
EXTENDS Session, Markets, Storage, Reports, Weather, WalkUp, MCSizing

CONSTANTS
  Beliefs,  \* p_model, per mille
  Edges     \* required edges, per mille

ASSUME OffersAssumption == Beliefs \subseteq Int /\ Edges \subseteq Int

\* A book with no bid, spreads of one cent and of more, and both ends.
Quotes == {<<0, 100>>, <<1, 2>>, <<40, 41>>, <<40, 44>>, <<97, 99>>}

VARIABLES
  part,   \* the service of this behaviour
  offer   \* what a shadow order is planned from

servicesVars ==
  <<part, offer, sessionVars, marketsVars, storageVars, reportsVars, weatherVars, sizingVars>>

Parts == {"session", "markets", "storage", "reports", "weather", "sizing", "plan"}

\* Every part starts as it does; inputs only the chosen one reads are fixed.
ServicesInit ==
  /\ part \in Parts
  /\ SessionInit /\ StorageInit /\ ReportsInit
  /\ MarketsInit /\ WeatherInit /\ SizingInit
  /\ part # "markets" => /\ excluded = {} /\ history = {}
                         /\ exch = [m \in Universe |-> [close |-> 2, rules |-> 0, quote |-> "a"]]
  /\ part # "weather" => rules = {"site", "authority"}
  /\ part # "sizing" => tariff.current = [type |-> "quadratic", multiplier |-> 1]
  /\ offer \in [side : {"yes", "no"}, quote : Quotes, belief : Beliefs, edge : Edges]
  /\ part # "plan" => offer = CHOOSE o \in [side : {"yes"}, quote : Quotes, belief : Beliefs, edge : Edges] : TRUE

ServicesNext ==
  \/ /\ part = "session" /\ SessionNext
     /\ UNCHANGED <<part, offer, marketsVars, storageVars, reportsVars, weatherVars, sizingVars>>
  \/ /\ part = "markets" /\ MarketsNext
     /\ UNCHANGED <<part, offer, sessionVars, storageVars, reportsVars, weatherVars, sizingVars>>
  \/ /\ part = "storage" /\ StorageNext
     /\ UNCHANGED <<part, offer, sessionVars, marketsVars, reportsVars, weatherVars, sizingVars>>
  \/ /\ part = "reports" /\ ReportsNext
     /\ UNCHANGED <<part, offer, sessionVars, marketsVars, storageVars, weatherVars, sizingVars>>
  \/ /\ part = "weather" /\ WeatherNext
     /\ UNCHANGED <<part, offer, sessionVars, marketsVars, storageVars, reportsVars, sizingVars>>
  \/ /\ part = "sizing" /\ SizingNext
     /\ UNCHANGED <<part, offer, sessionVars, marketsVars, storageVars, reportsVars, weatherVars>>

ServicesSpec == ServicesInit /\ [][ServicesNext]_servicesVars

-----------------------------------------------------------------------------
\* Every variable of every service holds a value of its domain.
ServicesTypeOK ==
  SessionTypeOK /\ MarketsTypeOK /\ StorageTypeOK /\ ReportsTypeOK /\ WeatherTypeOK
  /\ SizingTypeOK

TakerPrice(o) == IF o.side = "yes" THEN o.quote[2] ELSE 100 - o.quote[1]

\* "Never chase past the edge": every price a maker order walks through is
\* still the trade that was approved, on either side of the market, climbs,
\* and never crosses to the price a taker would pay.
PlanKeepsEdge ==
  part = "plan" =>
    LET o    == offer
        plan == ShadowPlan(o.side, o.quote[1], o.quote[2], TakerPrice(o), o.belief, o.edge)
        kept(c) == IF o.side = "yes" THEN 10 * c + o.edge <= o.belief
                   ELSE 10 * c + o.edge <= 1000 - o.belief
    IN \A i \in DOMAIN plan :
         /\ kept(plan[i]) /\ plan[i] < TakerPrice(o)
         /\ i > 1 => plan[i] > plan[i - 1]
=============================================================================
