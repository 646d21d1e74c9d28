------------------------------ MODULE MCProviders ------------------------------
(***************************************************************************)
(* A small instance of the two parts that wait for somebody else's answer: *)
(* a live order at the exchange, and the odds at their metered provider.   *)
(* They share no rows, so a behaviour picks one and runs it.  Two polls    *)
(* let an order fill between any two reads of it, and two executions let   *)
(* what the first one leaves behind meet the second.                       *)
(***************************************************************************)
EXTENDS LiveOrder, Odds

VARIABLE part   \* what this behaviour runs

providersVars == <<part, liveVars, oddsVars>>

ProvidersInit ==
  /\ part \in {"order", "odds"}
  /\ LiveInit
  /\ OddsInit
  /\ part = "order" => setting = [espn |-> TRUE, turn |-> 0]   \* odds is not run

OrderStep(A) == part = "order" /\ A /\ UNCHANGED <<part, oddsVars>>
OddsStep(A)  == part = "odds" /\ A /\ UNCHANGED <<part, liveVars>>

ProvidersNext == OrderStep(LiveNext) \/ OddsStep(OddsNext)

\* The client's calls time out, so an execution always gets on.
OrderFairness == WF_liveVars(OrderStep(step # "idle" /\ Execute))

\* Cycles are started and get through their steps; the calendar goes on; and
\* now and again, though cycles die, one gets to its next sport, to a charge
\* and, when the provider has room, to an answer that it stores.
OddsFairness ==
  /\ WF_oddsVars(OddsStep(FetchBegins \/ RequestRefused \/ Fallback \/ FetchEnds))
  /\ SF_oddsVars(OddsStep(OddsTick))
  /\ SF_oddsVars(OddsStep(NextSport))
  /\ SF_oddsVars(OddsStep(ChargeFirst))
  /\ SF_oddsVars(OddsStep(RequestAnswered))
  /\ SF_oddsVars(OddsStep(StoreAnswer))

ProvidersSpec == ProvidersInit /\ [][ProvidersNext]_providersVars /\ OrderFairness /\ OddsFairness

\* Every variable of both parts holds a value of its domain.
ProvidersTypeOK == LiveTypeOK /\ OddsTypeOK
=============================================================================
