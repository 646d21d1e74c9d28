----------------------------- MODULE LiveOrder -----------------------------
(***************************************************************************)
(* One live order from the row written ahead of it to its last status      *)
(* (trading/engine.py: _execute_live, _poll_for_fill, _cancel_order_safe), *)
(* against an exchange that fills, cancels and loses replies on its own    *)
(* schedule.  One action is one API call or one database transaction; the  *)
(* exchange moves between any two of them.                                 *)
(*                                                                         *)
(* TradingCycle takes this whole protocol as two steps, LiveOrder and      *)
(* LiveResult; LedgerKept is the proof obligation that entitles it to.     *)
(***************************************************************************)
EXTENDS Ledger

CONSTANTS
  Polls,      \* reads of the order before the timeout: fill_timeout / POLL_INTERVAL
  Faults,     \* what can fail in this instance, see FaultKinds
  MaxFaults   \* bound: kinds of fault that happen in one behaviour

FaultKinds ==
  {"refused",  \* the placement is refused: no order, an exception
   "ack",      \* the order is placed and the reply is lost: an exception
   "read",     \* get_order fails
   "cancel",   \* cancel_order fails and the order stays
   "fee",      \* get_fills fails
   "db",       \* a database transaction fails and is rolled back
   "kill"}     \* the process dies

ASSUME LiveOrderAssumption ==
  /\ Polls \in Nat \ {0}
  /\ Faults \subseteq FaultKinds
  /\ MaxFaults \in Nat

VARIABLES
  orders,    \* the exchange's orders; row is the trade each was placed for
  orderIds,  \* trades.order_id of each trade, 0 while null
  step,      \* what _execute_live does next
  run,       \* its local variables
  faults     \* kinds of fault that have happened

orderVars == <<orders, orderIds, step, run, faults>>
liveVars  == <<ledgerVars, orderVars>>

Order == [row : Nat, qty : Nat, filled : Nat, state : {"resting", "executed", "canceled"}]

Steps == {"idle", "place", "saveId", "poll", "final", "cancel", "fee", "mark", "status",
          "undo", "fail"}

NoRun == [row |-> 0, order |-> 0, seen |-> 0, polls |-> 0, fee |-> 0]

Fails(kind) == kind \in Faults /\ Cardinality(faults \cup {kind}) <= MaxFaults
               /\ faults' = faults \cup {kind}

To(s)      == step' = s
Return     == step' = "idle" /\ run' = NoRun
\* The except clause: cancel what may be open, then mark the row.
Except     == step' = (IF run.order = 0 THEN "fail" ELSE "undo") /\ UNCHANGED run
Wanted     == trades[run.row].qty
Resting(o) == orders[o].state = "resting"

-----------------------------------------------------------------------------
\* Mutant of CreatePending: an order for a market that is already held.
CreatePendingHeld ==
  /\ step = "idle"
  /\ mode = "live"
  /\ Len(trades) < MaxTrades
  /\ \E m \in Markets, s \in Sides, p \in Prices, q \in Quantities, d \in Shas :
       CreatePendingTrade(m, s, p, q, d)
  /\ orderIds' = Append(orderIds, 0)
  /\ run' = [NoRun EXCEPT !.row = Len(trades')]
  /\ To("place")
  /\ UNCHANGED <<orders, faults>>

\* execute's held check, then _create_pending_trade.
CreatePending ==
  /\ step = "idle"
  /\ mode = "live"
  /\ Len(trades) < MaxTrades
  /\ \E m \in Markets, s \in Sides, p \in Prices, q \in Quantities, d \in Shas :
       Open(m) = {} /\ CreatePendingTrade(m, s, p, q, d)
  /\ orderIds' = Append(orderIds, 0)
  /\ run' = [NoRun EXCEPT !.row = Len(trades')]
  /\ To("place")
  /\ UNCHANGED <<orders, faults>>

Accept == orders' = Append(orders, [row |-> run.row, qty |-> Wanted, filled |-> 0,
                                    state |-> "resting"])

\* Mutant of Place: a lost reply is retried like a 429.
PlaceAgain ==
  /\ step = "place"
  /\ \/ Accept /\ run' = [run EXCEPT !.order = Len(orders')] /\ To("saveId") /\ UNCHANGED faults
     \/ Accept /\ Fails("ack") /\ UNCHANGED <<step, run>>
     \/ UNCHANGED orders /\ Fails("refused") /\ Except
  /\ UNCHANGED <<ledgerVars, orderIds>>

\* place_order; only a 429 is retried, and a 429 places nothing.
Place ==
  /\ step = "place"
  /\ \/ Accept /\ run' = [run EXCEPT !.order = Len(orders')] /\ To("saveId") /\ UNCHANGED faults
     \/ Accept /\ Fails("ack") /\ Except
     \/ UNCHANGED orders /\ Fails("refused") /\ Except
  /\ UNCHANGED <<ledgerVars, orderIds>>

\* _update_trade_order_id.
SaveId ==
  /\ step = "saveId"
  /\ \/ orderIds' = [orderIds EXCEPT ![run.row] = run.order] /\ To("poll") /\ UNCHANGED <<run, faults>>
     \/ Fails("db") /\ Except /\ UNCHANGED orderIds
  /\ UNCHANGED <<ledgerVars, orders>>

\* What _execute_live does with the contracts _poll_for_fill reports.
Decide(n) ==
  /\ run' = [run EXCEPT !.seen = n]
  /\ To(IF n = Wanted THEN "fee" ELSE "cancel")

\* Mutants of Poll: one turn too many, and no timeout at all.
PollOneMore ==
  /\ step = "poll"
  /\ LET o == orders[run.order]
     IN IF o.state # "resting"
        THEN Decide(o.filled)
        ELSE /\ run' = [run EXCEPT !.seen = o.filled, !.polls = @ + 1]
             /\ To(IF run.polls < Polls THEN "poll" ELSE "final")
  /\ UNCHANGED <<ledgerVars, orders, orderIds, faults>>

PollForever ==
  /\ step = "poll"
  /\ LET o == orders[run.order]
     IN IF o.state # "resting"
        THEN Decide(o.filled)
        ELSE run' = [run EXCEPT !.seen = o.filled] /\ UNCHANGED step
  /\ UNCHANGED <<ledgerVars, orders, orderIds, faults>>

\* One turn of the polling loop.
Poll ==
  /\ step = "poll"
  /\ LET o == orders[run.order]
     IN \/ /\ IF o.state # "resting"
              THEN Decide(o.filled)
              ELSE /\ run' = [run EXCEPT !.seen = o.filled, !.polls = @ + 1]
                   /\ To(IF run'.polls < Polls THEN "poll" ELSE "final")
           /\ UNCHANGED faults
        \/ Fails("read") /\ Except
  /\ UNCHANGED <<ledgerVars, orders, orderIds>>

\* The read after the timeout; if it fails, the last poll's answer counts.
FinalRead ==
  /\ step = "final"
  /\ \/ Decide(orders[run.order].filled) /\ UNCHANGED faults
     \/ Decide(run.seen) /\ Fails("read")
  /\ UNCHANGED <<ledgerVars, orders, orderIds>>

\* _cancel_order_safe: whatever it raises is logged and dropped.
CancelSafe(o) ==
  \/ /\ orders' = IF Resting(o) THEN [orders EXCEPT ![o].state = "canceled"] ELSE orders
     /\ UNCHANGED faults
  \/ Fails("cancel") /\ UNCHANGED orders

\* Mutant of Cancel: a partial fill leaves the rest of its order resting.
CancelEmptyOnly ==
  /\ step = "cancel"
  /\ IF run.seen > 0 THEN To("fee") /\ UNCHANGED <<orders, faults>>
     ELSE CancelSafe(run.order) /\ To("status")
  /\ UNCHANGED <<ledgerVars, orderIds, run>>

Cancel ==
  /\ step = "cancel"
  /\ CancelSafe(run.order)
  /\ To(IF run.seen > 0 THEN "fee" ELSE "status")
  /\ UNCHANGED <<ledgerVars, orderIds, run>>

\* _fetch_entry_fee: the fills' own fees, or the formula's estimate.
FetchFee ==
  /\ step = "fee"
  /\ LET price == trades[run.row].price
     IN \/ /\ \E r \in Rates :
                run' = [run EXCEPT !.fee = Fee(orders[run.order].filled, price, r)]
           /\ UNCHANGED faults
        \/ run' = [run EXCEPT !.fee = Fee(run.seen, price, BaseRate)] /\ Fails("fee")
  /\ To("mark")
  /\ UNCHANGED <<ledgerVars, orders, orderIds>>

\* Mutant of MarkFilled: the quantity asked for, not the quantity filled.
MarkFilledWanted ==
  /\ step = "mark"
  /\ \/ MarkTradeFilled(run.row, Wanted, run.fee) /\ Return /\ UNCHANGED faults
     \/ UNCHANGED ledgerVars /\ Fails("db") /\ Except
  /\ UNCHANGED <<orders, orderIds>>

MarkFilled ==
  /\ step = "mark"
  /\ \/ MarkTradeFilled(run.row, run.seen, run.fee) /\ Return /\ UNCHANGED faults
     \/ UNCHANGED ledgerVars /\ Fails("db") /\ Except
  /\ UNCHANGED <<orders, orderIds>>

MarkCancelled ==
  /\ step = "status"
  /\ \/ UpdateTradeStatus(run.row, "cancelled") /\ Return /\ UNCHANGED faults
     \/ UNCHANGED ledgerVars /\ Fails("db") /\ Except
  /\ UNCHANGED <<orders, orderIds>>

Undo ==
  /\ step = "undo"
  /\ CancelSafe(run.order)
  /\ To("fail")
  /\ UNCHANGED <<ledgerVars, orderIds, run>>

\* If even this fails the exception leaves execute and the row stays pending.
MarkError ==
  /\ step = "fail"
  /\ \/ UpdateTradeStatus(run.row, "error") /\ UNCHANGED faults
     \/ UNCHANGED ledgerVars /\ Fails("db")
  /\ Return
  /\ UNCHANGED <<orders, orderIds>>

Execute ==
  \/ CreatePending \/ Place \/ SaveId \/ Poll \/ FinalRead \/ Cancel \/ FetchFee
  \/ MarkFilled \/ MarkCancelled \/ Undo \/ MarkError

\* The cycle is killed: nothing later reads the order back.
Kill ==
  /\ step # "idle"
  /\ Fails("kill")
  /\ Return
  /\ UNCHANGED <<ledgerVars, orders, orderIds>>

-----------------------------------------------------------------------------
\* The exchange fills one contract more.
Fill ==
  /\ \E o \in DOMAIN orders :
       /\ Resting(o)
       /\ orders' = [orders EXCEPT
            ![o].filled = @ + 1,
            ![o].state = IF orders[o].filled + 1 = orders[o].qty THEN "executed" ELSE @]
  /\ UNCHANGED <<ledgerVars, orderIds, step, run, faults>>

\* The market closes and the exchange cancels what rests.
CancelledByExchange ==
  /\ \E o \in DOMAIN orders :
       Resting(o) /\ orders' = [orders EXCEPT ![o].state = "canceled"]
  /\ UNCHANGED <<ledgerVars, orderIds, step, run, faults>>

GoLive == mode = "paper" /\ SetMode("live") /\ UNCHANGED orderVars

LiveInit ==
  /\ LedgerInit
  /\ orders = <<>>
  /\ orderIds = <<>>
  /\ step = "idle"
  /\ run = NoRun
  /\ faults = {}

LiveNext == Execute \/ Kill \/ Fill \/ CancelledByExchange \/ GoLive

\* The client's calls time out, so the engine's code always gets on; starting
\* an order is up to the cycle and fills are up to the market.
LiveSpec == LiveInit /\ [][LiveNext]_liveVars /\ WF_liveVars(step # "idle" /\ Execute)

-----------------------------------------------------------------------------
(***************************************************************************)
(* What the protocol promises.                                             *)
(***************************************************************************)

\* Every variable holds a value of its domain, and an order never fills more
\* than it asked for.
LiveTypeOK ==
  /\ LedgerTypeOK
  /\ orders \in Seq(Order)
  /\ \A o \in DOMAIN orders : orders[o].filled <= orders[o].qty
  /\ orderIds \in Seq(0..Len(orders))
  /\ Len(orderIds) = Len(trades)
  /\ step \in Steps
  /\ run \in [row : 0..Len(trades), order : 0..Len(orders), seen : Nat, polls : 0..Polls,
              fee : Nat]
  /\ faults \subseteq Faults

\* The protocol implements the ledger's live entry: seen from the tables it
\* is one LiveEntry followed by at most one LiveFilled or LiveEnded, with a
\* quantity no larger than the order's, whatever fails in between.
LedgerKept == LedgerSpec

\* The ledger never claims a contract the exchange did not fill: a filled
\* row's size is at most what its own order filled, although the two were
\* read at different times and the order may have been cancelled since.
NeverOverstated ==
  \A t \in DOMAIN trades :
    trades[t].status = "filled" =>
      orderIds[t] # 0 /\ trades[t].qty <= orders[orderIds[t]].filled

\* A placement is never repeated: one row has at most one order at the
\* exchange, also when the reply was lost or the process died.
OneOrderPerRow ==
  \A o, p \in DOMAIN orders : orders[o].row = orders[p].row => o = p

\* A row that ended normally ended its order: it names the order, and the
\* order no longer rests unless the exchange failed to cancel it.
EndedRowEndsOrder ==
  \A t \in DOMAIN trades :
    trades[t].status \in {"filled", "cancelled"} =>
      /\ orderIds[t] # 0
      /\ Resting(orderIds[t]) => "cancel" \in faults

\* Every execution comes to an end, however long the order rests: the loop
\* is bounded, and so is what runs after it.
ExecutionReturns == step # "idle" ~> step = "idle"

\* "Partial fill at timeout: keep what filled, cancel the rest": once an
\* execution is over, a row that ended without an error holds all that its
\* order filled.
FillsAreKept ==
  step = "idle" =>
    \A t \in DOMAIN trades :
      LET kept == IF trades[t].status = "filled" THEN trades[t].qty ELSE 0
      IN trades[t].status \in {"filled", "cancelled"} /\ ~Resting(orderIds[t])
           => kept = orders[orderIds[t]].filled
=============================================================================
