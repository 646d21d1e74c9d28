-------------------------- MODULE ProvidersProofs --------------------------
(***************************************************************************)
(* Proofs about the two parts that wait for somebody else's answer.  One   *)
(* live order at a time: whatever fails, dies or fills between any two     *)
(* calls, the tables claim no contract the exchange did not fill, no row   *)
(* has two orders, a row that ended has ended its order, and the protocol  *)
(* implements the abstract ledger.  The metered odds budget: for every     *)
(* quota, every length of the month and every phase at which the           *)
(* provider's period may turn, the local ledger never says less than the   *)
(* provider has counted.                                                   *)
(***************************************************************************)
EXTENDS MCProviders, LedgerProofs

-----------------------------------------------------------------------------
(***************************************************************************)
(* A live order: its inductive invariant.                                  *)
(***************************************************************************)

\* The protocol's own variables are of their domains.
OrdersTyped ==
  /\ orders \in Seq(Order)
  /\ orderIds \in Seq(0..Len(orders))
  /\ Len(orderIds) = Len(trades)
  /\ step \in Steps
  /\ run \in [row : 0..Len(trades), order : 0..Len(orders), seen : Nat, polls : 0..Polls,
              fee : Nat]
  /\ faults \subseteq Faults

\* An order belongs to a row, fills no more than it asked for and rests only
\* while some of it is left; a row that names an order names its own.
OrdersInv ==
  /\ \A o \in DOMAIN orders :
       /\ orders[o].row \in DOMAIN trades
       /\ orders[o].filled <= orders[o].qty
       /\ Resting(o) => orders[o].filled < orders[o].qty
  /\ \A t \in DOMAIN trades : orderIds[t] # 0 => orders[orderIds[t]].row = t

\* What the rows promise.
RowsInv == NeverOverstated /\ OneOrderPerRow /\ EndedRowEndsOrder

\* The order of a row that is being ended has been ended first.
Stopped(o) == Resting(o) => "cancel" \in faults

\* What an execution about to do step s with local variables r relies on.
ReadyFor(s, r) ==
  /\ s = "idle" => r = NoRun
  /\ s # "idle" =>
       /\ r.row \in Pending
       /\ trades[r.row].qty > 0
       /\ Open(trades[r.row].market) = {}
  /\ s = "place" =>
       r.order = 0 /\ r.seen = 0 /\ \A o \in DOMAIN orders : orders[o].row # r.row
  /\ s \in {"place", "saveId"} => r.polls = 0
  /\ s = "undo" => r.order # 0
  /\ s \in Steps \ {"idle", "place", "undo", "fail"} =>
       /\ r.order # 0
       /\ orders[r.order].row = r.row
       /\ orders[r.order].qty = trades[r.row].qty
       /\ r.seen <= orders[r.order].filled
  /\ s \in {"poll", "final", "cancel", "fee", "mark", "status"} => orderIds[r.row] = r.order
  /\ s = "poll" => r.polls < Polls
  /\ s \in {"fee", "mark"} => r.seen > 0
  /\ s = "mark" => r.fee \in LiveFees(r.row, r.seen)

RunInv == ReadyFor(step, run)

\* Nothing is looked up or written for an order that may still fill.
StoppedInv == step \in {"fee", "mark", "status"} => Stopped(run.order)

LiveInv == OrdersTyped /\ OrdersInv /\ RowsInv /\ RunInv /\ StoppedInv /\ delisted = {}

-----------------------------------------------------------------------------
(***************************************************************************)
(* The rows and the orders.                                                *)
(***************************************************************************)

\* The fields of an order and of the local variables.
LEMMA OrderFields ==
  ASSUME LedgerTypeOK, OrdersTyped
  PROVE  /\ \A o \in DOMAIN orders :
              /\ orders[o] \in Order
              /\ orders[o].row \in Nat /\ orders[o].qty \in Nat /\ orders[o].filled \in Nat
         /\ DOMAIN orders = 1..Len(orders) /\ DOMAIN trades = 1..Len(trades)
         /\ Len(orders) \in Nat /\ Len(trades) \in Nat
         /\ DOMAIN orderIds = DOMAIN trades
         /\ \A t \in DOMAIN trades : orderIds[t] \in 0..Len(orders)
         /\ run.row \in 0..Len(trades) /\ run.order \in 0..Len(orders)
         /\ run.seen \in Nat /\ run.polls \in 0..Polls /\ run.fee \in Nat
<1>1. \A o \in DOMAIN orders : orders[o] \in Order
  BY DEF OrdersTyped
<1>2. \A e \in Order : e.row \in Nat /\ e.qty \in Nat /\ e.filled \in Nat
  BY DEF Order
<1>3. DOMAIN orders = 1..Len(orders) /\ Len(orders) \in Nat
  BY DEF OrdersTyped
<1>4. DOMAIN trades = 1..Len(trades) /\ Len(trades) \in Nat
  BY DEF LedgerTypeOK
<1>5. /\ DOMAIN orderIds = DOMAIN trades
      /\ \A t \in DOMAIN trades : orderIds[t] \in 0..Len(orders)
  BY <1>4 DEF OrdersTyped
<1>6. QED
  BY <1>1, <1>2, <1>3, <1>4, <1>5 DEF OrdersTyped

\* While the order is under way it is its row's order, and what was read of
\* it is no more than what it filled.
LEMMA OrderUnderWay ==
  ASSUME LedgerTypeOK, OrdersTyped, OrdersInv, RunInv,
         step \in {"saveId", "poll", "final", "cancel", "fee", "mark", "status"}
  PROVE  /\ run.order \in DOMAIN orders /\ run.order # 0
         /\ orders[run.order].row = run.row
         /\ orders[run.order].qty = trades[run.row].qty
         /\ run.row \in DOMAIN trades /\ trades[run.row].status = "pending"
         /\ trades[run.row].qty \in Nat /\ trades[run.row].qty > 0
         /\ orders[run.order].filled \in 0..trades[run.row].qty
         /\ run.seen \in 0..orders[run.order].filled
<1>1. /\ run.order # 0
      /\ orders[run.order].row = run.row
      /\ orders[run.order].qty = trades[run.row].qty
      /\ run.seen <= orders[run.order].filled
      /\ run.row \in Pending
      /\ trades[run.row].qty > 0
  BY DEF RunInv, ReadyFor, Steps
<1>2. run.row \in DOMAIN trades /\ trades[run.row].status = "pending"
  BY <1>1 DEF Pending
<1>3. trades[run.row].qty \in Nat
  BY <1>2, RowsTyped
<1>4. run.order \in DOMAIN orders
  BY <1>1, OrderFields
<1>5. orders[run.order].filled \in Nat /\ orders[run.order].filled <= trades[run.row].qty
  BY <1>1, <1>4, OrderFields DEF OrdersInv
<1>6. run.seen \in Nat
  BY OrderFields
<1>7. QED
  BY <1>1, <1>2, <1>3, <1>4, <1>5, <1>6

-----------------------------------------------------------------------------
(***************************************************************************)
(* Seen from the tables, every step is a step of the ledger.               *)
(***************************************************************************)

\* An order's row is created on a market that is not held, and the row is
\* filled or ended while it is pending: LiveEntry, LiveFilled, LiveEnded.
LEMMA LiveStepsTheLedger ==
  ASSUME LedgerTypeOK, LiveInv, [LiveNext]_liveVars
  PROVE  [LedgerNext]_ledgerVars
<1> USE DEF LiveInv
<1>0. /\ run \in [row : 0..Len(trades), order : 0..Len(orders), seen : Nat, polls : 0..Polls,
                  fee : Nat]
      /\ Quantities \subseteq Sizes
  BY LedgerAssumption DEF OrdersTyped, Sizes
<1>1. CASE CreatePending
  <2>1. PICK m \in Markets, s \in Sides, p \in Prices, q \in Quantities, d \in Shas :
          Open(m) = {} /\ CreatePendingTrade(m, s, p, q, d)
    BY <1>1 DEF CreatePending
  <2>2. mode = "live" /\ Enterable(m) /\ q \in Sizes
    BY <1>0, <1>1, <2>1 DEF CreatePending, Enterable
  <2>3. QED BY <2>1, <2>2 DEF LiveEntry, LedgerNext
<1>2. CASE MarkFilled
  <2>1. CASE MarkTradeFilled(run.row, run.seen, run.fee)
    <3>1. /\ run.row \in Pending /\ Open(trades[run.row].market) = {}
          /\ run.seen \in Nat /\ run.seen > 0 /\ run.fee \in LiveFees(run.row, run.seen)
      BY <1>0, <1>2 DEF RunInv, ReadyFor, MarkFilled
    <3>5. run.seen \in 1..trades[run.row].qty
      BY <1>2, <3>1, OrderUnderWay DEF MarkFilled
    <3>6. QED BY <2>1, <3>1, <3>5 DEF LiveFilled, LedgerNext
  <2>2. CASE UNCHANGED ledgerVars
    BY <2>2
  <2>3. QED BY <1>2, <2>1, <2>2 DEF MarkFilled
<1>3. CASE MarkCancelled \/ MarkError
  <2>1. run.row \in Pending
    BY <1>3 DEF RunInv, ReadyFor, MarkCancelled, MarkError
  <2>2. \/ UNCHANGED ledgerVars
        \/ \E status \in {"cancelled", "error"} : UpdateTradeStatus(run.row, status)
    BY <1>3 DEF MarkCancelled, MarkError
  <2>3. QED BY <2>1, <2>2 DEF LiveEnded, LedgerNext
<1>4. CASE GoLive
  BY <1>4 DEF GoLive, FlipMode, LedgerNext
<1>5. CASE Place \/ SaveId \/ Poll \/ FinalRead \/ Cancel \/ FetchFee \/ Undo \/ Kill
  BY <1>5 DEF Place, SaveId, Poll, FinalRead, Cancel, FetchFee, Undo, Kill
<1>6. CASE Fill \/ CancelledByExchange
  BY <1>6 DEF Fill, CancelledByExchange
<1>7. CASE UNCHANGED liveVars
  BY <1>7 DEF liveVars
<1>8. QED
  BY <1>1, <1>2, <1>3, <1>4, <1>5, <1>6, <1>7 DEF LiveNext, Execute

-----------------------------------------------------------------------------
(***************************************************************************)
(* What the exchange may do to its orders between two calls.               *)
(***************************************************************************)

\* Orders keep their row and size, fill without shrinking and never rest
\* again once they stopped.
OrdersMoved ==
  /\ orders' \in Seq(Order)
  /\ Len(orders') = Len(orders)
  /\ \A o \in DOMAIN orders :
       /\ orders'[o].row = orders[o].row /\ orders'[o].qty = orders[o].qty
       /\ orders[o].filled <= orders'[o].filled /\ orders'[o].filled <= orders[o].qty
       /\ Resting(o)' => Resting(o) /\ orders'[o].filled < orders[o].qty
  /\ faults \subseteq faults' /\ faults' \subseteq Faults

\* Leaving the orders alone moves none.
LEMMA OrdersStay ==
  ASSUME LedgerTypeOK, OrdersTyped, OrdersInv, UNCHANGED orders,
         faults \subseteq faults', faults' \subseteq Faults
  PROVE  OrdersMoved
<1>1. \A o \in DOMAIN orders : orders[o].filled \in Nat
  BY OrderFields
<1>2. QED
  BY <1>1 DEF OrdersMoved, OrdersTyped, OrdersInv, Resting

\* An order with one contract more, and an order cancelled, are orders.
LEMMA FilledOrder ==
  ASSUME NEW b \in Order, NEW st \in {"executed", b.state}
  PROVE  LET e == [b EXCEPT !.filled = @ + 1, !.state = st]
         IN /\ e \in Order /\ e.row = b.row /\ e.qty = b.qty /\ e.filled = b.filled + 1
            /\ e.state = st
<1>1. PICK c : c = [b EXCEPT !.filled = @ + 1]
  OBVIOUS
<1>2. /\ c \in Order /\ c.row = b.row /\ c.qty = b.qty /\ c.filled = b.filled + 1
      /\ c.state = b.state
  BY <1>1 DEF Order
<1>3. st \in {"resting", "executed", "canceled"}
  BY DEF Order
<1>4. [b EXCEPT !.filled = @ + 1, !.state = st] = [c EXCEPT !.state = st]
  BY <1>1
<1>5. LET e == [c EXCEPT !.state = st]
      IN /\ e \in Order /\ e.row = b.row /\ e.qty = b.qty /\ e.filled = b.filled + 1
         /\ e.state = st
  BY <1>2, <1>3 DEF Order
<1>6. QED
  BY <1>4, <1>5

\* A canceled order keeps its row and its fills and no longer rests.
LEMMA CanceledOrder ==
  ASSUME NEW b \in Order
  PROVE  LET e == [b EXCEPT !.state = "canceled"]
         IN /\ e \in Order /\ e.row = b.row /\ e.qty = b.qty /\ e.filled = b.filled
            /\ e.state # "resting"
BY DEF Order

\* One order replaced by one that moved on.
LEMMA OneOrderMoved ==
  ASSUME LedgerTypeOK, OrdersTyped, OrdersInv,
         NEW o \in DOMAIN orders, NEW e \in Order,
         orders' = [orders EXCEPT ![o] = e],
         e.row = orders[o].row, e.qty = orders[o].qty,
         orders[o].filled <= e.filled, e.filled <= e.qty,
         e.state = "resting" => Resting(o) /\ e.filled < e.qty,
         faults \subseteq faults', faults' \subseteq Faults
  PROVE  OrdersMoved
<1>1. orders \in Seq(Order)
  BY DEF OrdersTyped
<1>2. /\ orders' \in Seq(Order) /\ Len(orders') = Len(orders)
      /\ orders'[o] = e
      /\ \A p \in DOMAIN orders : p # o => orders'[p] = orders[p]
  BY <1>1
<1>3. \A p \in DOMAIN orders : orders[p].filled \in Nat
  BY OrderFields
<1>4. ASSUME NEW p \in DOMAIN orders
      PROVE  /\ orders'[p].row = orders[p].row /\ orders'[p].qty = orders[p].qty
             /\ orders[p].filled <= orders'[p].filled /\ orders'[p].filled <= orders[p].qty
             /\ Resting(p)' => Resting(p) /\ orders'[p].filled < orders[p].qty
  <2>1. CASE p = o
    BY <2>1, <1>2 DEF Resting
  <2>2. CASE p # o
    <3>1. orders'[p] = orders[p]
      BY <1>2, <2>2
    <3>2. QED BY <3>1, <1>3 DEF OrdersInv, Resting
  <2>3. QED BY <2>1, <2>2
<1>5. QED
  BY <1>2, <1>4 DEF OrdersMoved

\* The exchange's fill moves one order.
LEMMA FillMoves ==
  ASSUME LedgerTypeOK, OrdersTyped, OrdersInv, Fill
  PROVE  OrdersMoved
<1>1. PICK o \in DOMAIN orders :
        /\ Resting(o)
        /\ orders' = [orders EXCEPT
             ![o].filled = @ + 1,
             ![o].state = IF orders[o].filled + 1 = orders[o].qty THEN "executed" ELSE @]
  BY DEF Fill
<1>2. /\ orders[o] \in Order /\ orders[o].filled < orders[o].qty
      /\ orders[o].filled \in Nat /\ orders[o].qty \in Nat
  BY <1>1, OrderFields DEF OrdersInv
<1>3. PICK b \in Order : b = orders[o]
  BY <1>2
<1>s. PICK st : st = IF b.filled + 1 = b.qty THEN "executed" ELSE b.state
  OBVIOUS
<1>a. PICK e : e = [b EXCEPT !.filled = @ + 1, !.state = st]
  OBVIOUS
<1>b. /\ e \in Order /\ e.row = b.row /\ e.qty = b.qty /\ e.filled = b.filled + 1
      /\ e.state = st
  <2>1. st \in {"executed", b.state}
    BY <1>s
  <2>2. QED BY <1>a, <2>1, FilledOrder
<1>4. /\ orders[o].filled <= e.filled /\ e.filled <= e.qty
      /\ e.state = "resting" => e.filled < e.qty
  BY <1>2, <1>3, <1>s, <1>b
<1>5. orders' = [orders EXCEPT ![o] = e]
  BY <1>1, <1>3, <1>s, <1>a
<1>6. faults' = faults /\ faults \subseteq Faults
  BY DEF Fill, OrdersTyped
<1>7. QED
  BY <1>1, <1>3, <1>b, <1>4, <1>5, <1>6, OneOrderMoved

\* So does a cancellation, whoever asked for it.
LEMMA CancelMoves ==
  ASSUME LedgerTypeOK, OrdersTyped, OrdersInv, NEW o \in DOMAIN orders, Resting(o),
         orders' = [orders EXCEPT ![o].state = "canceled"], UNCHANGED faults
  PROVE  OrdersMoved /\ ~Resting(o)'
<1>1. /\ orders[o] \in Order /\ orders[o].filled < orders[o].qty /\ orders \in Seq(Order)
      /\ orders[o].filled \in Nat /\ orders[o].qty \in Nat
  BY OrderFields DEF OrdersInv, OrdersTyped
<1>2. PICK e : e = [orders[o] EXCEPT !.state = "canceled"]
  OBVIOUS
<1>3. /\ e \in Order /\ e.row = orders[o].row /\ e.qty = orders[o].qty
      /\ orders[o].filled <= e.filled /\ e.filled <= e.qty /\ e.state # "resting"
  BY <1>1, <1>2, CanceledOrder
<1>4. orders' = [orders EXCEPT ![o] = e]
  BY <1>2
<1>5. orders'[o] = e
  BY <1>1, <1>4
<1>6. faults' = faults /\ faults \subseteq Faults
  BY DEF OrdersTyped
<1>7. QED
  BY <1>3, <1>4, <1>5, <1>6, OneOrderMoved DEF Resting

\* _cancel_order_safe moves an order and leaves it stopped, or says why not.
LEMMA CancelSafeStops ==
  ASSUME LedgerTypeOK, OrdersTyped, OrdersInv, NEW o \in DOMAIN orders, CancelSafe(o)
  PROVE  OrdersMoved /\ Stopped(o)'
<1>0. faults \subseteq Faults
  BY DEF OrdersTyped
<1>1. CASE Resting(o) /\ orders' = [orders EXCEPT ![o].state = "canceled"] /\ UNCHANGED faults
  BY <1>1, CancelMoves DEF Stopped
<1>2. CASE ~Resting(o) /\ UNCHANGED <<orders, faults>>
  <2>1. OrdersMoved
    BY <1>0, <1>2, OrdersStay
  <2>2. QED BY <1>2, <2>1 DEF Stopped, Resting
<1>3. CASE Fails("cancel") /\ UNCHANGED orders
  <2>1. faults' = faults \cup {"cancel"} /\ faults' \subseteq Faults
    BY <1>0, <1>3 DEF Fails
  <2>2. OrdersMoved
    BY <1>3, <2>1, OrdersStay
  <2>3. QED BY <2>1, <2>2 DEF Stopped
<1>4. QED
  BY <1>1, <1>2, <1>3 DEF CancelSafe

-----------------------------------------------------------------------------
(***************************************************************************)
(* What a move of the orders cannot disturb.                               *)
(***************************************************************************)

\* The rows' promises survive whatever the exchange does.
LEMMA MoveKeepsRows ==
  ASSUME LedgerTypeOK, OrdersTyped, OrdersInv, RowsInv,
         UNCHANGED <<trades, orderIds>>, OrdersMoved
  PROVE  OrdersInv' /\ RowsInv'
<1>1. /\ DOMAIN orders' = DOMAIN orders
      /\ \A o \in DOMAIN orders :
           /\ orders'[o].row = orders[o].row /\ orders'[o].qty = orders[o].qty
           /\ orders[o].filled <= orders'[o].filled /\ orders'[o].filled <= orders[o].qty
           /\ Resting(o)' => Resting(o) /\ orders'[o].filled < orders[o].qty
           /\ orders[o].filled \in Nat /\ orders'[o].filled \in Nat
  <2>1. \A o \in DOMAIN orders : orders[o].filled \in Nat
    BY OrderFields
  <2>2. DOMAIN orders' = DOMAIN orders
    BY DEF OrdersMoved, OrdersTyped
  <2>3. \A o \in DOMAIN orders' : orders'[o] \in Order
    BY DEF OrdersMoved
  <2>4. \A e \in Order : e.filled \in Nat
    BY DEF Order
  <2>5. QED BY <2>1, <2>2, <2>3, <2>4 DEF OrdersMoved
<1>2. \A t \in DOMAIN trades : orderIds[t] # 0 => orderIds[t] \in DOMAIN orders
  BY OrderFields
<1>3. OrdersInv'
  BY <1>1, <1>2 DEF OrdersInv
<1>4. NeverOverstated'
  <2>1. \A t \in DOMAIN trades : trades[t].qty \in Nat
    BY RowsTyped
  <2>2. QED BY <1>1, <1>2, <2>1 DEF RowsInv, NeverOverstated
<1>5. OneOrderPerRow'
  BY <1>1 DEF RowsInv, OneOrderPerRow
<1>6. EndedRowEndsOrder'
  BY <1>1, <1>2 DEF RowsInv, EndedRowEndsOrder, OrdersMoved
<1>7. QED
  BY <1>3, <1>4, <1>5, <1>6 DEF RowsInv

\* So does what the execution relies on.
LEMMA MoveKeepsReady ==
  ASSUME LedgerTypeOK, OrdersTyped, UNCHANGED <<trades, positions, orderIds>>, OrdersMoved,
         NEW s \in Steps, NEW r, r.order \in 0..Len(orders), r.seen \in Nat, ReadyFor(s, r)
  PROVE  ReadyFor(s, r)'
<1>1. /\ Pending' = Pending
      /\ \A m : Open(m)' = Open(m)
      /\ \A t, q : LiveFees(t, q)' = LiveFees(t, q)
  BY DEF Pending, Open, LiveFees
<1>2. /\ DOMAIN orders' = DOMAIN orders
      /\ \A o \in DOMAIN orders : /\ orders[o].filled \in Nat /\ orders'[o].filled \in Nat
                                  /\ orders'[o].row = orders[o].row
                                  /\ orders'[o].qty = orders[o].qty
                                  /\ orders[o].filled <= orders'[o].filled
  <2>1. \A o \in DOMAIN orders : orders[o].filled \in Nat
    BY OrderFields
  <2>2. DOMAIN orders' = DOMAIN orders
    BY DEF OrdersMoved, OrdersTyped
  <2>3. \A o \in DOMAIN orders' : orders'[o] \in Order
    BY DEF OrdersMoved
  <2>4. \A e \in Order : e.filled \in Nat
    BY DEF Order
  <2>5. QED BY <2>1, <2>2, <2>3, <2>4 DEF OrdersMoved
<1>3. s \in Steps \ {"idle", "place", "undo", "fail"} =>
        /\ r.order # 0
        /\ orders'[r.order].row = r.row
        /\ orders'[r.order].qty = trades[r.row].qty
        /\ r.seen <= orders'[r.order].filled
  <2> SUFFICES ASSUME s \in Steps \ {"idle", "place", "undo", "fail"}
               PROVE  /\ r.order # 0
                      /\ orders'[r.order].row = r.row
                      /\ orders'[r.order].qty = trades[r.row].qty
                      /\ r.seen <= orders'[r.order].filled
    OBVIOUS
  <2>1. /\ r.order # 0
        /\ orders[r.order].row = r.row
        /\ orders[r.order].qty = trades[r.row].qty
        /\ r.seen <= orders[r.order].filled
    BY DEF ReadyFor
  <2>2. r.order \in DOMAIN orders
    BY <2>1, OrderFields
  <2>3. QED BY <1>2, <2>1, <2>2
<1>4. s = "place" => r.order = 0 /\ \A o \in DOMAIN orders' : orders'[o].row # r.row
  BY <1>2 DEF ReadyFor
<1>5. QED
  BY <1>1, <1>3, <1>4 DEF ReadyFor

-----------------------------------------------------------------------------
(***************************************************************************)
(* The steps that leave the tables alone.                                  *)
(***************************************************************************)

\* Local variables are of their domains.
RunTyped(r) ==
  r \in [row : 0..Len(trades), order : 0..Len(orders), seen : Nat, polls : 0..Polls, fee : Nat]

\* Such a step keeps the invariant when the execution is ready for its next.
LEMMA QuietStepInv ==
  ASSUME LedgerTypeOK, LiveInv, UNCHANGED <<trades, positions, delisted, orderIds>>,
         OrdersMoved, step' \in Steps, RunTyped(run'), ReadyFor(step', run'), StoppedInv'
  PROVE  LiveInv'
<1> USE DEF LiveInv
<1>1. OrdersTyped'
  BY DEF OrdersTyped, OrdersMoved, RunTyped
<1>2. OrdersInv' /\ RowsInv'
  BY MoveKeepsRows
<1>3. RunInv'
  <2>0. PICK s \in Steps : s = step'
    OBVIOUS
  <2>1. PICK r : r = run'
    OBVIOUS
  <2>2. r.order \in 0..Len(orders) /\ r.seen \in Nat /\ ReadyFor(s, r)
    BY <2>0, <2>1 DEF RunTyped
  <2>3. ReadyFor(s, r)'
    BY <2>2, MoveKeepsReady
  <2>4. QED BY <2>0, <2>1, <2>3 DEF RunInv, ReadyFor
<1>4. QED
  BY <1>1, <1>2, <1>3

\* A return leaves nothing to rely on.
LEMMA ReturnReady ==
  ASSUME LedgerTypeOK, OrdersTyped, LiveOrderAssumption, Return
  PROVE  step' \in Steps /\ RunTyped(run') /\ ReadyFor(step', run') /\ StoppedInv'
<1>1. step' = "idle" /\ run' = NoRun
  BY DEF Return
<1>2. RunTyped(NoRun)
  <2>1. Len(trades) \in Nat /\ Len(orders) \in Nat /\ Polls \in Nat
    BY OrderFields DEF LiveOrderAssumption
  <2>2. QED BY <2>1 DEF RunTyped, NoRun
<1>3. QED
  BY <1>1, <1>2 DEF ReadyFor, Steps, StoppedInv

\* The except clause relies on the row being pending, and on an order only
\* when there is one.
LEMMA ExceptReady ==
  ASSUME LedgerTypeOK, LiveInv, step # "idle", Except
  PROVE  step' \in Steps /\ RunTyped(run') /\ ReadyFor(step', run') /\ StoppedInv'
<1>1. step' \in {"fail", "undo"} /\ run' = run /\ (step' = "undo" => run.order # 0)
  BY DEF Except
<1>2. RunTyped(run)
  BY DEF LiveInv, OrdersTyped, RunTyped
<1>3. ReadyFor(step', run)
  <2>1. /\ run.row \in Pending
        /\ trades[run.row].qty > 0
        /\ Open(trades[run.row].market) = {}
    BY DEF LiveInv, RunInv, ReadyFor
  <2>2. QED BY <1>1, <2>1 DEF ReadyFor
<1>4. QED
  BY <1>1, <1>2, <1>3 DEF Steps, StoppedInv

\* A failure only adds to the faults.
LEMMA FailsGrow ==
  ASSUME OrdersTyped, NEW kind, Fails(kind) \/ UNCHANGED faults
  PROVE  faults \subseteq faults' /\ faults' \subseteq Faults
BY DEF Fails, OrdersTyped

\* A read of the order.
LEMMA PollInv ==
  ASSUME LedgerTypeOK, LiveInv, LiveOrderAssumption, Poll
  PROVE  LiveInv'
<1> USE DEF LiveInv
<1>1. UNCHANGED <<trades, positions, delisted, orderIds>> /\ UNCHANGED orders
  BY DEF Poll, ledgerVars
<1>2. Fails("read") \/ UNCHANGED faults
  BY DEF Poll
<1>3. OrdersMoved
  BY <1>1, <1>2, FailsGrow, OrdersStay
<1>4. CASE Except
  <2>1. step # "idle"
    BY DEF Poll
  <2>2. QED BY <1>1, <1>3, <1>4, <2>1, ExceptReady, QuietStepInv
<1>5. CASE ~Except
  <2> DEFINE o == orders[run.order]
  <2>0. step = "poll" /\ run.polls < Polls /\ run.polls \in 0..Polls /\ Polls \in Nat
    BY OrderFields DEF Poll, RunInv, ReadyFor, LiveOrderAssumption
  <2>1. /\ o.filled \in 0..Wanted /\ Wanted \in Nat /\ Wanted > 0
        /\ orders[run.order].row = run.row /\ orders[run.order].qty = trades[run.row].qty
        /\ run.order # 0 /\ orderIds[run.row] = run.order /\ run.row \in Pending
        /\ Open(trades[run.row].market) = {}
    BY <2>0, OrderUnderWay DEF RunInv, ReadyFor, Wanted
  <2>2. RunTyped(run)
    BY DEF OrdersTyped, RunTyped
  <2>3. CASE o.state # "resting"
    <3>1. /\ run' = [run EXCEPT !.seen = o.filled]
          /\ step' = IF o.filled = Wanted THEN "fee" ELSE "cancel"
      BY <1>5, <2>3 DEF Poll, Decide, To
    <3>2. /\ RunTyped(run') /\ run'.seen = o.filled /\ run'.row = run.row
          /\ run'.order = run.order
      BY <2>1, <2>2, <3>1, SMTT(30) DEF RunTyped
    <3>3. ReadyFor(step', run') /\ step' \in Steps
      BY <2>1, <3>1, <3>2 DEF ReadyFor, Steps, Wanted
    <3>4. StoppedInv'
      BY <1>1, <2>3, <3>2 DEF StoppedInv, Stopped, Resting
    <3>5. QED BY <1>1, <1>3, <3>2, <3>3, <3>4, QuietStepInv
  <2>4. CASE o.state = "resting"
    <3>1. /\ run' = [run EXCEPT !.seen = o.filled, !.polls = @ + 1]
          /\ step' = IF run'.polls < Polls THEN "poll" ELSE "final"
      BY <1>5, <2>4 DEF Poll, To
    <3>2. /\ RunTyped(run') /\ run'.seen = o.filled /\ run'.row = run.row
          /\ run'.order = run.order
      <4>1. PICK c : c = [run EXCEPT !.seen = o.filled]
        OBVIOUS
      <4>2. /\ RunTyped(c) /\ c.seen = o.filled /\ c.row = run.row
            /\ c.order = run.order /\ c.polls = run.polls
        BY <2>1, <2>2, <4>1, SMTT(30) DEF RunTyped
      <4>3. run' = [c EXCEPT !.polls = @ + 1]
        BY <3>1, <4>1
      <4>4. c.polls + 1 \in 0..Polls
        BY <2>0, <4>2
      <4>5. QED BY <4>2, <4>3, <4>4 DEF RunTyped
    <3>3. ReadyFor(step', run') /\ step' \in Steps /\ StoppedInv'
      BY <2>1, <3>1, <3>2 DEF ReadyFor, Steps, Wanted, StoppedInv
    <3>4. QED BY <1>1, <1>3, <3>2, <3>3, QuietStepInv
  <2>5. QED BY <2>3, <2>4
<1>6. QED
  BY <1>4, <1>5

\* The last read, or the last poll's answer.
LEMMA FinalReadInv ==
  ASSUME LedgerTypeOK, LiveInv, FinalRead
  PROVE  LiveInv'
<1> USE DEF LiveInv
<1>1. UNCHANGED <<trades, positions, delisted, orderIds>> /\ UNCHANGED orders
  BY DEF FinalRead, ledgerVars
<1>2. Fails("read") \/ UNCHANGED faults
  BY DEF FinalRead
<1>3. OrdersMoved
  BY <1>1, <1>2, FailsGrow, OrdersStay
<1>4. /\ orders[run.order].filled \in 0..Wanted /\ Wanted \in Nat /\ Wanted > 0
      /\ orders[run.order].row = run.row /\ orders[run.order].qty = trades[run.row].qty
      /\ run.order # 0 /\ orderIds[run.row] = run.order /\ run.row \in Pending
      /\ Open(trades[run.row].market) = {}
      /\ run.seen \in 0..orders[run.order].filled
  BY OrderUnderWay DEF RunInv, ReadyFor, Wanted, FinalRead
<1>5. PICK n \in {orders[run.order].filled, run.seen} :
        /\ run' = [run EXCEPT !.seen = n]
        /\ step' = IF n = Wanted THEN "fee" ELSE "cancel"
        /\ n = orders[run.order].filled \/ step' = "cancel" \/ n = Wanted
  BY DEF FinalRead, Decide, To
<1>a. n \in Nat
  BY <1>4, <1>5
<1>6. RunTyped(run') /\ run'.seen = n /\ run'.row = run.row /\ run'.order = run.order
  <2>1. RunTyped(run)
    BY DEF RunTyped, OrdersTyped
  <2>2. run' = [run EXCEPT !.seen = n]
    BY <1>5
  <2>3. QED BY <1>a, <2>1, <2>2, SMTT(30) DEF RunTyped
<1>7. ReadyFor(step', run') /\ step' \in Steps
  BY <1>4, <1>5, <1>6 DEF ReadyFor, Steps, Wanted
<1>8. StoppedInv'
  <2>1. CASE step' = "fee"
    <3>1. n = Wanted
      BY <1>5, <2>1
    <3>2. orders[run.order].filled = orders[run.order].qty /\ run.order \in DOMAIN orders
      BY <1>4, <3>1, OrderFields DEF Wanted
    <3>3. ~Resting(run.order)
      BY <3>2, OrderFields DEF OrdersInv
    <3>4. QED BY <1>1, <1>6, <3>3 DEF StoppedInv, Stopped, Resting
  <2>2. CASE step' = "cancel"
    BY <2>2 DEF StoppedInv
  <2>3. QED BY <1>5, <2>1, <2>2
<1>9. QED
  BY <1>1, <1>3, <1>6, <1>7, <1>8, QuietStepInv

\* Cancelling the rest of an order, and undoing one after an exception.
LEMMA CancelInv ==
  ASSUME LedgerTypeOK, LiveInv, Cancel \/ Undo
  PROVE  LiveInv'
<1> USE DEF LiveInv
<1>1. /\ UNCHANGED <<trades, positions, delisted, orderIds, run>>
      /\ step # "idle" /\ CancelSafe(run.order)
  BY DEF Cancel, Undo, ledgerVars
<1>2. run.order \in DOMAIN orders
  BY OrderFields DEF RunInv, ReadyFor, Cancel, Undo, Steps
<1>3. OrdersMoved /\ Stopped(run.order)'
  BY <1>1, <1>2, CancelSafeStops
<1>4. RunTyped(run')
  BY <1>1 DEF OrdersTyped, RunTyped
<1>5. ReadyFor(step', run') /\ step' \in Steps
  <2>1. CASE Cancel
    <3>1. step = "cancel" /\ step' = IF run.seen > 0 THEN "fee" ELSE "status"
      BY <2>1 DEF Cancel, To
    <3>2. QED BY <1>1, <3>1 DEF RunInv, ReadyFor, Steps
  <2>2. CASE Undo
    <3>1. step = "undo" /\ step' = "fail"
      BY <2>2 DEF Undo, To
    <3>2. QED BY <1>1, <3>1 DEF RunInv, ReadyFor, Steps
  <2>3. QED BY <2>1, <2>2
<1>6. StoppedInv'
  BY <1>1, <1>3 DEF StoppedInv
<1>7. QED
  BY <1>1, <1>3, <1>4, <1>5, <1>6, QuietStepInv

\* Looking up the fee: at least on the contracts counted, at most on the
\* contracts ordered.
LEMMA FetchFeeInv ==
  ASSUME LedgerTypeOK, LiveInv, FetchFee
  PROVE  LiveInv'
<1> USE DEF LiveInv
<1>1. UNCHANGED <<trades, positions, delisted, orderIds>> /\ UNCHANGED orders
  BY DEF FetchFee, ledgerVars
<1>2. Fails("fee") \/ UNCHANGED faults
  BY DEF FetchFee
<1>3. OrdersMoved /\ faults \subseteq faults'
  BY <1>1, <1>2, FailsGrow, OrdersStay
<1>4. /\ run.order # 0 /\ run.order \in DOMAIN orders
      /\ orders[run.order].row = run.row
      /\ orders[run.order].qty = trades[run.row].qty
      /\ run.row \in DOMAIN trades
      /\ trades[run.row].qty \in Nat
      /\ orders[run.order].filled \in 0..trades[run.row].qty
      /\ run.seen \in 0..orders[run.order].filled
  BY OrderUnderWay DEF FetchFee
<1>5. PICK f \in run.seen..trades[run.row].qty, r \in Rates \cup {BaseRate} :
        run' = [run EXCEPT !.fee = Fee(f, trades[run.row].price, r)]
  <2>1. /\ orders[run.order].filled \in run.seen..trades[run.row].qty
        /\ run.seen \in run.seen..trades[run.row].qty
    BY <1>4
  <2>2. QED BY <2>1 DEF FetchFee
<1>6. PICK fee : fee = Fee(f, trades[run.row].price, r)
  OBVIOUS
<1>7. fee \in LiveFees(run.row, run.seen)
  BY <1>6 DEF LiveFees
<1>8. fee \in Nat
  BY <1>4, <1>7, LiveFeesAreNat
<1>9. /\ RunTyped(run') /\ run'.fee = fee
      /\ run'.seen = run.seen /\ run'.row = run.row /\ run'.order = run.order
  BY <1>5, <1>6, <1>8 DEF RunTyped, OrdersTyped
<1>10. step = "fee" /\ step' = "mark"
  BY DEF FetchFee, To
<1>11. ReadyFor(step', run') /\ step' \in Steps
  BY <1>7, <1>9, <1>10 DEF RunInv, ReadyFor, Steps
<1>12. StoppedInv'
  BY <1>1, <1>3, <1>9, <1>10 DEF StoppedInv, Stopped, Resting
<1>13. QED
  BY <1>1, <1>3, <1>9, <1>11, <1>12, QuietStepInv

\* The exchange moves while the execution waits.
LEMMA ExchangeInv ==
  ASSUME LedgerTypeOK, LiveInv, Fill \/ CancelledByExchange
  PROVE  LiveInv'
<1> USE DEF LiveInv
<1>1. UNCHANGED <<trades, positions, delisted, orderIds>> /\ UNCHANGED <<step, run, faults>>
  BY DEF Fill, CancelledByExchange, ledgerVars
<1>2. OrdersMoved
  BY FillMoves, CancelMoves DEF CancelledByExchange
<1>3. RunTyped(run') /\ step' \in Steps /\ ReadyFor(step', run')
  BY <1>1 DEF RunTyped, OrdersTyped, RunInv
<1>4. StoppedInv'
  <2>1. step \in {"fee", "mark", "status"} => run.order \in DOMAIN orders
    BY OrderUnderWay
  <2>2. QED BY <1>1, <1>2, <2>1 DEF StoppedInv, Stopped, OrdersMoved
<1>5. QED
  BY <1>1, <1>2, <1>3, <1>4, QuietStepInv

\* The process dies, or a transaction that fails is rolled back.
LEMMA FailureInv ==
  ASSUME LedgerTypeOK, LiveInv, LiveOrderAssumption, step # "idle",
         UNCHANGED <<trades, positions, delisted, orderIds>>, UNCHANGED orders,
         NEW kind, Fails(kind), Except \/ Return
  PROVE  LiveInv'
<1>1. OrdersMoved
  BY FailsGrow, OrdersStay DEF LiveInv
<1>2. step' \in Steps /\ RunTyped(run') /\ ReadyFor(step', run') /\ StoppedInv'
  BY ExceptReady, ReturnReady DEF LiveInv
<1>3. QED
  BY <1>1, <1>2, QuietStepInv

\* Flipping the mode disturbs no order, and neither does a step elsewhere.
LEMMA ElsewhereInv ==
  ASSUME LedgerTypeOK, LiveInv,
         UNCHANGED <<trades, positions, delisted>>, UNCHANGED orderVars
  PROVE  LiveInv'
<1> USE DEF LiveInv
<1>1. UNCHANGED <<orders, orderIds, step, run, faults>>
  BY DEF orderVars
<1>2. OrdersMoved
  BY <1>1, OrdersStay DEF OrdersTyped
<1>3. RunTyped(run') /\ step' \in Steps /\ ReadyFor(step', run')
  BY <1>1 DEF RunTyped, OrdersTyped, RunInv
<1>4. StoppedInv'
  BY <1>1 DEF StoppedInv, Stopped, Resting
<1>5. QED
  BY <1>1, <1>2, <1>3, <1>4, QuietStepInv

-----------------------------------------------------------------------------
(***************************************************************************)
(* The steps that write a row, an order or a row's order id.               *)
(***************************************************************************)

\* The row written ahead has no order yet, at the exchange or in its column.
LEMMA CreatePendingInv ==
  ASSUME LedgerTypeOK, LiveInv, LiveOrderAssumption, CreatePending
  PROVE  LiveInv'
<1> USE DEF LiveInv
<1>1. PICK m \in Markets, s \in Sides, p \in Prices, q \in Quantities, d \in Shas :
        Open(m) = {} /\ CreatePendingTrade(m, s, p, q, d)
  BY DEF CreatePending
<1>2. PICK row : row = NewTrade(m, s, p, q, FALSE, "pending", 0, d)
  OBVIOUS
<1>3. row \in TradeRow /\ row.market = m /\ row.status = "pending" /\ row.qty = q
      /\ q \in Nat /\ q > 0
  <2>1. q \in Nat \ {0}
    BY LedgerAssumption
  <2>2. row.qty = q
    BY <1>2 DEF NewTrade
  <2>3. q \in Nat /\ q > 0
    BY <2>1
  <2>4. row \in TradeRow /\ row.market = m /\ row.status = "pending"
    BY <1>2, <2>3 DEF NewTrade, TradeRow, Status
  <2>5. QED BY <2>2, <2>3, <2>4
<1>4. trades' = Append(trades, row) /\ UNCHANGED <<positions, delisted>>
  BY <1>1, <1>2 DEF CreatePendingTrade
<1>5. /\ DOMAIN trades' = DOMAIN trades \cup {Len(trades')}
      /\ Len(trades') = Len(trades) + 1 /\ Len(trades) \in Nat
      /\ Len(trades') \notin DOMAIN trades
      /\ \A t \in DOMAIN trades : trades'[t] = trades[t]
      /\ trades'[Len(trades')] = row
  BY <1>3, <1>4, Appended DEF LedgerTypeOK
<1>6. /\ orderIds' = Append(orderIds, 0) /\ UNCHANGED <<orders, faults>>
      /\ run' = [NoRun EXCEPT !.row = Len(trades')] /\ step' = "place"
  BY DEF CreatePending, To
<1>7. /\ DOMAIN orderIds = DOMAIN trades
      /\ orderIds' \in Seq(0..Len(orders))
      /\ Len(orderIds') = Len(trades')
      /\ \A t \in DOMAIN trades : orderIds'[t] = orderIds[t]
      /\ orderIds'[Len(trades')] = 0
  <2>1. orderIds \in Seq(0..Len(orders)) /\ Len(orderIds) = Len(trades) /\ 0 \in 0..Len(orders)
    BY OrderFields DEF OrdersTyped
  <2>2. QED BY <1>5, <1>6, <2>1, Appended, OrderFields
<1>8. /\ run'.row = Len(trades') /\ run'.order = 0 /\ run'.seen = 0 /\ run'.polls = 0
      /\ run' \in [row : 0..Len(trades'), order : 0..Len(orders), seen : Nat, polls : 0..Polls,
                   fee : Nat]
  <2>1. PICK t \in Nat : t = Len(trades')
    BY <1>5
  <2>2. t \in 0..t /\ 0 \in 0..Len(orders) /\ 0 \in 0..Polls
    BY <2>1, OrderFields DEF LiveOrderAssumption
  <2>3. run' = [NoRun EXCEPT !.row = t]
    BY <1>6, <2>1
  <2>4. run'.row = t /\ run'.order = 0 /\ run'.seen = 0 /\ run'.polls = 0
        /\ run' \in [row : 0..t, order : 0..Len(orders), seen : Nat, polls : 0..Polls, fee : Nat]
    BY <2>2, <2>3 DEF NoRun
  <2>5. QED BY <2>1, <2>4
<1>9. OrdersTyped'
  BY <1>6, <1>7, <1>8 DEF OrdersTyped, Steps
<1>10. OrdersInv'
  BY <1>5, <1>6, <1>7 DEF OrdersInv, Resting
<1>11. RowsInv'
  <2>1. NeverOverstated'
    BY <1>3, <1>5, <1>6, <1>7 DEF RowsInv, NeverOverstated
  <2>2. EndedRowEndsOrder'
    BY <1>3, <1>5, <1>6, <1>7 DEF RowsInv, EndedRowEndsOrder, Resting
  <2>3. OneOrderPerRow'
    BY <1>6 DEF RowsInv, OneOrderPerRow
  <2>4. QED BY <2>1, <2>2, <2>3 DEF RowsInv
<1>12. RunInv'
  <2>1. run'.row \in Pending' /\ trades'[run'.row].qty > 0 /\ trades'[run'.row].market = m
    BY <1>3, <1>5, <1>8 DEF Pending
  <2>2. Open(m)' = {}
    BY <1>1, <1>4 DEF Open
  <2>3. \A o \in DOMAIN orders : orders[o].row # run'.row
    BY <1>5, <1>8 DEF OrdersInv
  <2>4. QED BY <1>6, <1>8, <2>1, <2>2, <2>3 DEF RunInv, ReadyFor
<1>13. QED
  BY <1>4, <1>6, <1>9, <1>10, <1>11, <1>12 DEF StoppedInv

\* A sequence over a set is one over every larger set.
LEMMA SeqWidened ==
  ASSUME NEW S, NEW T, S \subseteq T, NEW s \in Seq(S)
  PROVE  s \in Seq(T)
OBVIOUS

\* A placement adds one order for a row that has none.
LEMMA PlaceInv ==
  ASSUME LedgerTypeOK, LiveInv, LiveOrderAssumption, Place
  PROVE  LiveInv'
<1> USE DEF LiveInv
<1>0. UNCHANGED <<trades, positions, delisted, orderIds>> /\ step = "place"
  BY DEF Place, ledgerVars
<1>1. CASE UNCHANGED orders /\ Fails("refused") /\ Except
  BY <1>0, <1>1, FailureInv
<1>2. CASE Accept /\ (\/ run' = [run EXCEPT !.order = Len(orders')] /\ To("saveId")
                         /\ UNCHANGED faults
                      \/ Fails("ack") /\ Except)
  <2>1. /\ run.row \in Pending /\ run.row \in DOMAIN trades /\ Wanted > 0
        /\ Open(trades[run.row].market) = {}
        /\ run.order = 0 /\ run.seen = 0 /\ run.polls = 0
        /\ \A o \in DOMAIN orders : orders[o].row # run.row
    BY <1>0 DEF RunInv, ReadyFor, Wanted, Pending
  <2>2. Wanted \in Nat
    BY <2>1, RowsTyped DEF Wanted
  <2>3. PICK e : e = [row |-> run.row, qty |-> Wanted, filled |-> 0, state |-> "resting"]
    OBVIOUS
  <2>4. /\ e \in Order /\ e.row = run.row /\ e.qty = Wanted /\ e.filled = 0
        /\ e.state = "resting"
    <3>1. run.row \in Nat
      BY OrderFields
    <3>2. QED BY <2>2, <2>3, <3>1 DEF Order
  <2>5. /\ orders' \in Seq(Order)
        /\ Len(orders') = Len(orders) + 1 /\ Len(orders) \in Nat
        /\ DOMAIN orders' = DOMAIN orders \cup {Len(orders')}
        /\ Len(orders') \notin DOMAIN orders
        /\ \A o \in DOMAIN orders : orders'[o] = orders[o]
        /\ orders'[Len(orders')] = e
    <3>1. orders \in Seq(Order) /\ orders' = Append(orders, e)
      BY <1>2, <2>3 DEF OrdersTyped, Accept
    <3>2. QED BY <2>4, <3>1, Appended
  <2>6. \A t \in DOMAIN trades : orderIds[t] # 0 => orderIds[t] \in DOMAIN orders
    BY OrderFields
  <2>7. OrdersInv'
    <3>1. \A o \in DOMAIN orders' : /\ orders'[o].row \in DOMAIN trades
                                    /\ orders'[o].filled <= orders'[o].qty
                                    /\ Resting(o)' => orders'[o].filled < orders'[o].qty
      BY <2>1, <2>2, <2>4, <2>5 DEF OrdersInv, Resting
    <3>2. QED BY <1>0, <2>5, <2>6, <3>1 DEF OrdersInv
  <2>8. RowsInv'
    <3>1. NeverOverstated'
      BY <1>0, <2>5, <2>6 DEF RowsInv, NeverOverstated
    <3>2. OneOrderPerRow'
      BY <2>1, <2>4, <2>5 DEF RowsInv, OneOrderPerRow
    <3>3. faults \subseteq faults'
      BY <1>2, FailsGrow
    <3>4. EndedRowEndsOrder'
      BY <1>0, <2>5, <2>6, <3>3 DEF RowsInv, EndedRowEndsOrder, Resting
    <3>5. QED BY <3>1, <3>2, <3>4 DEF RowsInv
  <2>9. /\ run' \in [row : 0..Len(trades), order : 0..Len(orders'), seen : Nat,
                     polls : 0..Polls, fee : Nat]
        /\ step' \in {"saveId", "fail"} /\ run'.row = run.row
        /\ step' = "saveId" => run'.order = Len(orders') /\ run'.seen = 0 /\ run'.polls = 0
    <3>1. run \in [row : 0..Len(trades), order : 0..Len(orders), seen : Nat, polls : 0..Polls,
                   fee : Nat]
      BY DEF OrdersTyped
    <3>2. Len(orders') \in 0..Len(orders') /\ 0..Len(orders) \subseteq 0..Len(orders')
      BY <2>5
    <3>3. CASE run' = [run EXCEPT !.order = Len(orders')] /\ To("saveId")
      BY <2>1, <3>1, <3>2, <3>3 DEF To
    <3>4. CASE Except
      BY <2>1, <3>1, <3>2, <3>4 DEF Except
    <3>5. QED BY <1>2, <3>3, <3>4
  <2>10. OrdersTyped'
    <3>1. orderIds' \in Seq(0..Len(orders')) /\ Len(orderIds') = Len(trades')
      <4>1. 0..Len(orders) \subseteq 0..Len(orders')
        BY <2>5
      <4>2. orderIds \in Seq(0..Len(orders)) /\ Len(orderIds) = Len(trades)
        BY DEF OrdersTyped
      <4>3. orderIds \in Seq(0..Len(orders'))
        BY <4>1, <4>2, SeqWidened
      <4>4. QED BY <1>0, <4>2, <4>3
    <3>2. faults' \subseteq Faults
      BY <1>2, FailsGrow
    <3>3. QED BY <1>0, <2>5, <2>9, <3>1, <3>2 DEF OrdersTyped, Steps
  <2>11. RunInv'
    <3>1. Pending' = Pending /\ \A m : Open(m)' = Open(m)
      BY <1>0 DEF Pending, Open
    <3>2. Len(orders') # 0
      BY <2>5
    <3>3. QED BY <1>0, <2>1, <2>4, <2>5, <2>9, <3>1, <3>2 DEF RunInv, ReadyFor, Wanted, Steps
  <2>12. QED BY <1>0, <2>7, <2>8, <2>9, <2>10, <2>11 DEF StoppedInv
<1>3. QED
  BY <1>1, <1>2 DEF Place

\* The row's column names the row's own order.
LEMMA SaveIdInv ==
  ASSUME LedgerTypeOK, LiveInv, LiveOrderAssumption, SaveId
  PROVE  LiveInv'
<1> USE DEF LiveInv
<1>0. UNCHANGED <<trades, positions, delisted, orders>> /\ step = "saveId"
  BY DEF SaveId, ledgerVars
<1>1. CASE Fails("db") /\ Except /\ UNCHANGED orderIds
  BY <1>0, <1>1, FailureInv
<1>2. CASE orderIds' = [orderIds EXCEPT ![run.row] = run.order] /\ To("poll")
           /\ UNCHANGED <<run, faults>>
  <2>1. /\ run.order \in DOMAIN orders /\ run.order # 0
        /\ orders[run.order].row = run.row
        /\ orders[run.order].qty = trades[run.row].qty
        /\ run.row \in DOMAIN trades /\ trades[run.row].status = "pending"
        /\ run.seen <= orders[run.order].filled
        /\ trades[run.row].qty > 0
        /\ run.polls < Polls
        /\ Open(trades[run.row].market) = {}
    <3>1. run.polls = 0 /\ run.seen <= orders[run.order].filled
          /\ Open(trades[run.row].market) = {}
      BY <1>0 DEF RunInv, ReadyFor, Steps
    <3>2. QED BY <1>0, <3>1, OrderUnderWay DEF LiveOrderAssumption
  <2>2. /\ orderIds' \in Seq(0..Len(orders)) /\ Len(orderIds') = Len(trades)
        /\ orderIds'[run.row] = run.order
        /\ \A t \in DOMAIN trades : t # run.row => orderIds'[t] = orderIds[t]
    <3>1. orderIds \in Seq(0..Len(orders)) /\ Len(orderIds) = Len(trades)
          /\ DOMAIN orderIds = DOMAIN trades /\ run.order \in 0..Len(orders)
      BY OrderFields DEF OrdersTyped
    <3>2. QED BY <1>2, <2>1, <3>1
  <2>3. OrdersTyped'
    BY <1>0, <1>2, <2>2 DEF OrdersTyped, To, Steps
  <2>4. OrdersInv'
    BY <1>0, <2>1, <2>2 DEF OrdersInv, Resting
  <2>5. RowsInv'
    <3>1. NeverOverstated'
      BY <1>0, <2>1, <2>2 DEF RowsInv, NeverOverstated
    <3>2. EndedRowEndsOrder'
      BY <1>0, <1>2, <2>1, <2>2 DEF RowsInv, EndedRowEndsOrder, Resting
    <3>3. OneOrderPerRow'
      BY <1>0 DEF RowsInv, OneOrderPerRow
    <3>4. QED BY <3>1, <3>2, <3>3 DEF RowsInv
  <2>6. RunInv'
    <3>1. Pending' = Pending /\ \A m : Open(m)' = Open(m)
      BY <1>0 DEF Pending, Open
    <3>2. step' = "poll" /\ run' = run /\ run.row \in Pending
      BY <1>2, <2>1 DEF To, Pending
    <3>3. QED BY <1>0, <2>1, <2>2, <3>1, <3>2 DEF RunInv, ReadyFor, Steps
  <2>7. QED BY <1>0, <1>2, <2>3, <2>4, <2>5, <2>6 DEF StoppedInv, To
<1>3. QED
  BY <1>1, <1>2 DEF SaveId

\* The execution ends its pending row: filled with no more than its order
\* filled, cancelled once the order is stopped, or in error.
LEMMA RowEndedInv ==
  ASSUME LedgerTypeOK, LiveInv, LiveOrderAssumption, step # "idle",
         UNCHANGED <<orders, orderIds, delisted>>, Return,
         faults \subseteq faults', faults' \subseteq Faults,
         NEW row \in TradeRow, trades' = [trades EXCEPT ![run.row] = row],
         \/ row.status = "error"
         \/ row.status = "cancelled" /\ step = "status"
         \/ row.status = "filled" /\ step = "mark" /\ row.qty = run.seen
  PROVE  LiveInv'
<1> USE DEF LiveInv
<1>1. run.row \in DOMAIN trades
  BY DEF RunInv, ReadyFor, Pending
<1>2. /\ DOMAIN trades' = DOMAIN trades /\ Len(trades') = Len(trades)
      /\ trades'[run.row] = row
      /\ \A t \in DOMAIN trades : t # run.row => trades'[t] = trades[t]
  <2>1. trades' \in Seq(TradeRow) /\ DOMAIN trades' = DOMAIN trades
    BY <1>1, OneRowReplaced
  <2>2. Len(trades') = Len(trades)
    BY <2>1 DEF LedgerTypeOK
  <2>3. QED BY <1>1, <2>1, <2>2, OneRowReplaced
<1>3. step' = "idle" /\ run' = NoRun
  BY DEF Return
<1>4. row.status \in {"filled", "cancelled"} =>
        /\ run.order # 0 /\ orderIds[run.row] = run.order
        /\ run.order \in DOMAIN orders
        /\ Stopped(run.order)
        /\ run.seen <= orders[run.order].filled
  <2> SUFFICES ASSUME step \in {"mark", "status"}
               PROVE  /\ run.order # 0 /\ orderIds[run.row] = run.order
                      /\ run.order \in DOMAIN orders
                      /\ Stopped(run.order)
                      /\ run.seen <= orders[run.order].filled
    OBVIOUS
  <2>1. orderIds[run.row] = run.order /\ run.seen <= orders[run.order].filled
    BY DEF RunInv, ReadyFor, Steps
  <2>2. QED BY <2>1, OrderUnderWay DEF StoppedInv
<1>5. OrdersTyped'
  BY <1>2, <1>3, ReturnReady DEF OrdersTyped, RunTyped
<1>6. OrdersInv'
  BY <1>2 DEF OrdersInv, Resting
<1>7. RowsInv'
  <2>1. NeverOverstated'
    <3>1. ASSUME NEW t \in DOMAIN trades, trades'[t].status = "filled"
          PROVE  orderIds[t] # 0 /\ trades'[t].qty <= orders[orderIds[t]].filled
      <4>1. CASE t = run.row
        BY <1>2, <1>4, <3>1, <4>1
      <4>2. CASE t # run.row
        BY <1>2, <3>1, <4>2 DEF RowsInv, NeverOverstated
      <4>3. QED BY <4>1, <4>2
    <3>2. QED BY <1>2, <3>1 DEF NeverOverstated
  <2>2. EndedRowEndsOrder'
    <3>1. ASSUME NEW t \in DOMAIN trades, trades'[t].status \in {"filled", "cancelled"}
          PROVE  orderIds[t] # 0 /\ (Resting(orderIds[t]) => "cancel" \in faults)
      <4>1. CASE t = run.row
        BY <1>2, <1>4, <3>1, <4>1 DEF Stopped
      <4>2. CASE t # run.row
        BY <1>2, <3>1, <4>2 DEF RowsInv, EndedRowEndsOrder
      <4>3. QED BY <4>1, <4>2
    <3>2. QED BY <1>2, <3>1 DEF EndedRowEndsOrder, Resting
  <2>3. OneOrderPerRow'
    BY DEF RowsInv, OneOrderPerRow
  <2>4. QED BY <2>1, <2>2, <2>3 DEF RowsInv
<1>8. RunInv' /\ StoppedInv'
  BY <1>3 DEF RunInv, ReadyFor, StoppedInv, Steps
<1>9. QED
  BY <1>5, <1>6, <1>7, <1>8

\* Each of the three transactions that end a row, or its failure.
LEMMA EndingInv ==
  ASSUME LedgerTypeOK, LiveInv, LiveOrderAssumption, MarkFilled \/ MarkCancelled \/ MarkError
  PROVE  LiveInv'
<1> USE DEF LiveInv
<1>1. step # "idle" /\ UNCHANGED <<orders, orderIds>> /\ run.row \in DOMAIN trades
      /\ trades[run.row] \in TradeRow
  <2>1. step # "idle" /\ UNCHANGED <<orders, orderIds>>
    BY DEF MarkFilled, MarkCancelled, MarkError
  <2>2. run.row \in DOMAIN trades
    BY <2>1 DEF RunInv, ReadyFor, Pending
  <2>3. QED BY <2>1, <2>2, RowsTyped
<1>2. CASE UNCHANGED ledgerVars
  <2>1. Fails("db") /\ (Except \/ Return)
    <3>1. CASE MarkTradeFilled(run.row, run.seen, run.fee) /\ step = "mark"
      <4>1. trades'[run.row].status = "filled" /\ trades[run.row].status = "pending"
        <5>1. trades' = [trades EXCEPT ![run.row] = FilledRow(@, run.seen, run.fee)]
          BY <3>1 DEF MarkTradeFilled
        <5>2. FilledRow(trades[run.row], run.seen, run.fee).status = "filled"
          BY <1>1 DEF FilledRow, TradeRow
        <5>3. QED BY <1>1, <3>1, <5>1, <5>2, OrderUnderWay
      <4>2. QED BY <1>2, <4>1 DEF ledgerVars
    <3>2. ASSUME NEW status \in {"cancelled", "error"}, UpdateTradeStatus(run.row, status)
          PROVE  FALSE
      <4>1. trades' = [trades EXCEPT ![run.row].status = status]
        BY <3>2 DEF UpdateTradeStatus
      <4>2. [trades[run.row] EXCEPT !.status = status].status = status
        BY <1>1 DEF TradeRow
      <4>3. trades'[run.row].status = status
        BY <1>1, <4>1, <4>2
      <4>4. trades[run.row].status = "pending"
        BY <1>1 DEF RunInv, ReadyFor, Pending
      <4>5. QED BY <1>2, <4>3, <4>4 DEF ledgerVars
    <3>3. QED BY <3>1, <3>2 DEF MarkFilled, MarkCancelled, MarkError
  <2>2. QED BY <1>1, <1>2, <2>1, FailureInv DEF ledgerVars
<1>3. CASE ~UNCHANGED ledgerVars
  <2>1. Return /\ UNCHANGED faults
    BY <1>3 DEF MarkFilled, MarkCancelled, MarkError
  <2>2. CASE MarkFilled
    <3>1. MarkTradeFilled(run.row, run.seen, run.fee) /\ step = "mark"
      BY <1>3, <2>2 DEF MarkFilled
    <3>2. PICK row \in TradeRow : /\ row = FilledRow(trades[run.row], run.seen, run.fee)
                                  /\ row.status = "filled" /\ row.qty = run.seen
      <4>1. PICK old \in TradeRow, q \in Nat, fee \in Nat :
              old = trades[run.row] /\ q = run.seen /\ fee = run.fee
        BY <1>1, OrderFields
      <4>2. PICK new : new = FilledRow(old, q, fee)
        OBVIOUS
      <4>3. new \in TradeRow /\ new.status = "filled" /\ new.qty = q
        BY <4>2, FilledRowRow
      <4>4. QED BY <4>1, <4>2, <4>3
    <3>3. trades' = [trades EXCEPT ![run.row] = row] /\ UNCHANGED delisted
      BY <3>1, <3>2 DEF MarkTradeFilled
    <3>4. QED BY <1>1, <2>1, <3>1, <3>2, <3>3, RowEndedInv DEF OrdersTyped
  <2>3. CASE MarkCancelled \/ MarkError
    <3>1. PICK status \in {"cancelled", "error"} :
            /\ UpdateTradeStatus(run.row, status)
            /\ status = "cancelled" => step = "status"
      BY <1>3, <2>3 DEF MarkCancelled, MarkError
    <3>2. PICK row \in TradeRow : /\ row = [trades[run.row] EXCEPT !.status = status]
                                  /\ row.status = status
      <4>1. status \in Status
        BY DEF Status
      <4>2. QED BY <1>1, <4>1, StatusRow
    <3>3. trades' = [trades EXCEPT ![run.row] = row] /\ UNCHANGED delisted
      BY <3>1, <3>2 DEF UpdateTradeStatus
    <3>4. QED BY <1>1, <2>1, <3>1, <3>2, <3>3, RowEndedInv DEF OrdersTyped
  <2>4. QED BY <2>2, <2>3
<1>4. QED
  BY <1>2, <1>3

-----------------------------------------------------------------------------
(***************************************************************************)
(* The theorems.                                                           *)
(***************************************************************************)

\* Every step keeps the protocol's invariant.
LEMMA LiveInvStep ==
  ASSUME LedgerTypeOK, LiveInv, [LiveNext]_liveVars
  PROVE  LiveInv'
<1>0. LiveOrderAssumption
  BY LiveOrderAssumption
<1>1. CASE CreatePending \/ Place \/ SaveId
  BY <1>0, <1>1, CreatePendingInv, PlaceInv, SaveIdInv
<1>2. CASE Poll \/ FinalRead \/ Cancel \/ Undo \/ FetchFee
  BY <1>0, <1>2, PollInv, FinalReadInv, CancelInv, FetchFeeInv
<1>3. CASE MarkFilled \/ MarkCancelled \/ MarkError
  BY <1>0, <1>3, EndingInv
<1>4. CASE Kill
  <2>1. /\ step # "idle" /\ Fails("kill") /\ Return
        /\ UNCHANGED <<trades, positions, delisted, orderIds>> /\ UNCHANGED orders
    BY <1>4 DEF Kill, ledgerVars
  <2>2. QED BY <1>0, <2>1, FailureInv
<1>5. CASE Fill \/ CancelledByExchange
  BY <1>5, ExchangeInv
<1>6. CASE GoLive \/ UNCHANGED liveVars
  <2>1. UNCHANGED <<trades, positions, delisted>> /\ UNCHANGED orderVars
    BY <1>6 DEF GoLive, SetMode, liveVars, ledgerVars
  <2>2. QED BY <2>1, ElsewhereInv
<1>7. QED
  BY <1>1, <1>2, <1>3, <1>4, <1>5, <1>6 DEF LiveNext, Execute

\* Before the first order there is nothing to rely on.
LEMMA LiveInvInit ==
  ASSUME LiveInit
  PROVE  LedgerInv /\ LiveInv
<1>1. LedgerInv
  BY LedgerInvInit DEF LiveInit
<1>2. /\ trades = <<>> /\ orders = <<>> /\ orderIds = <<>>
      /\ step = "idle" /\ run = NoRun /\ faults = {} /\ delisted = {}
  BY DEF LiveInit, LedgerInit
<1>3. OrdersTyped
  BY <1>2, LiveOrderAssumption DEF OrdersTyped, Steps, NoRun
<1>4. OrdersInv /\ RowsInv
  BY <1>2 DEF OrdersInv, RowsInv, NeverOverstated, OneOrderPerRow, EndedRowEndsOrder
<1>5. RunInv /\ StoppedInv
  BY <1>2 DEF RunInv, ReadyFor, StoppedInv, Steps
<1>6. QED
  BY <1>1, <1>2, <1>3, <1>4, <1>5 DEF LiveInv

\* The protocol and its environment, without any fairness.
LiveSafety == LiveInit /\ [][LiveNext]_liveVars

\* In every state of the protocol the ledger's invariant and the protocol's
\* own hold together (_execute_live against the exchange).
THEOREM LiveInvariant == LiveSafety => [](LedgerInv /\ LiveInv)
<1>1. LedgerInv => LedgerTypeOK
  BY DEF LedgerInv
<1>2. (LedgerInv /\ LiveInv) /\ [LiveNext]_liveVars => (LedgerInv /\ LiveInv)'
  BY <1>1, LiveStepsTheLedger, LedgerInvStep, LiveInvStep
<1>3. LiveInit => LedgerInv /\ LiveInv
  BY LiveInvInit
<1>4. QED
  BY <1>2, <1>3, PTL DEF LiveSafety

\* Seen from the tables, one live order is one entry followed by at most one
\* fill or end, whatever fails in between: the protocol implements the
\* abstract ledger (_create_pending_trade, _mark_trade_filled and
\* _update_trade_status, each one transaction).
THEOREM LiveKeepsLedger == LiveSafety => LedgerKept
<1>1. LiveInit => LedgerInit
  BY DEF LiveInit
<1>2. LedgerInv /\ LiveInv /\ [LiveNext]_liveVars => [LedgerNext]_ledgerVars
  BY LiveStepsTheLedger DEF LedgerInv
<1>3. QED
  BY <1>1, <1>2, LiveInvariant, PTL DEF LiveSafety, LedgerKept, LedgerSpec

\* Every variable of the protocol holds a value of its domain and no order
\* fills more than it asked for.
THEOREM LiveTypes == LiveSafety => []LiveTypeOK
<1>1. LedgerInv /\ LiveInv => LiveTypeOK
  BY DEF LedgerInv, LiveInv, OrdersTyped, OrdersInv, LiveTypeOK
<1>2. QED
  BY <1>1, LiveInvariant, PTL

\* The ledger never claims a contract the exchange did not fill, although
\* _poll_for_fill reads the order long before _mark_trade_filled writes.
THEOREM LedgerNeverOverstated == LiveSafety => []NeverOverstated
<1>1. LedgerInv /\ LiveInv => NeverOverstated
  BY DEF LiveInv, RowsInv
<1>2. QED
  BY <1>1, LiveInvariant, PTL

\* A placement is never repeated, also when its reply was lost or the process
\* died before it arrived (place_order is not retried).
THEOREM PlacedOncePerRow == LiveSafety => []OneOrderPerRow
<1>1. LedgerInv /\ LiveInv => OneOrderPerRow
  BY DEF LiveInv, RowsInv
<1>2. QED
  BY <1>1, LiveInvariant, PTL

\* A row that ended as filled or cancelled names its order, and that order no
\* longer rests unless the exchange refused to cancel it (_cancel_order_safe).
THEOREM EndedOrdersStopped == LiveSafety => []EndedRowEndsOrder
<1>1. LedgerInv /\ LiveInv => EndedRowEndsOrder
  BY DEF LiveInv, RowsInv
<1>2. QED
  BY <1>1, LiveInvariant, PTL

-----------------------------------------------------------------------------
(***************************************************************************)
(* The odds budget: its inductive invariant.                               *)
(***************************************************************************)

\* The cycles' fetches and the calendar, without any fairness.
OddsSpec == OddsInit /\ [][OddsNext]_oddsVars

Slates == {"none", "empty", "games"}
Entry  == [slate : Slates, age : 0..(OldAge + 1)]
Fetch  ==
  [step : {"none", "next", "charge", "request", "answered", "fallback"},
   sport : Sports \cup {NoSport}, todo : SUBSET Sports, dead : BOOLEAN,
   reply : Slates, served : [Sports -> Slates]]

\* Every variable is of its domain, and a fetch that is at a sport names it.
OddsTyped ==
  /\ phase \in 0..(MonthTicks - 1)
  /\ setting \in [espn : BOOLEAN, turn : BillingTurns]
  /\ used \in Nat
  /\ billed \in 0..Quota
  /\ cache \in [Sports -> [Sources -> Entry]]
  /\ fetch \in Fetch
  /\ fetch.step \notin {"none", "next"} => fetch.sport \in Sports

\* A request that is on its way has been charged and not yet been counted.
ChargedAhead == fetch.step = "request" /\ setting.turn = 0 => billed < used

OddsInv == OddsTyped /\ ChargedAhead /\ LedgerNeverUnderCounts

-----------------------------------------------------------------------------
(***************************************************************************)
(* The cache.                                                              *)
(***************************************************************************)

\* The ages are counted in ticks.
LEMMA OldAgeIsNat == OldAge \in Nat
BY OddsAssumption DEF OldAge

\* What a lookup finds is an entry.
LEMMA CachedIsEntry ==
  ASSUME OddsTyped, NEW s \in Sports
  PROVE  Cached(s) \subseteq Entry
BY DEF OddsTyped, Cached

\* Storing an answer keeps the cache a cache.
LEMMA PutTyped ==
  ASSUME OddsTyped, NEW s \in Sports, NEW source \in Sources, NEW slate \in Slates,
         Put(s, source, slate)
  PROVE  cache' \in [Sports -> [Sources -> Entry]]
<1>1. PICK e \in Entry : e = [slate |-> slate, age |-> 0]
  <2>1. 0 \in 0..(OldAge + 1)
    BY OldAgeIsNat
  <2>2. [slate |-> slate, age |-> 0] \in Entry
    BY <2>1 DEF Entry
  <2>3. QED BY <2>2
<1>2. cache[s] \in [Sources -> Entry]
  BY DEF OddsTyped
<1>3. PICK line \in [Sources -> Entry] : line = [cache[s] EXCEPT ![source] = e]
  BY <1>2
<1>4. cache' = [cache EXCEPT ![s] = line]
  BY <1>1, <1>3 DEF Put
<1>5. QED
  BY <1>4 DEF OddsTyped

\* So does growing older.
LEMMA OlderTyped ==
  ASSUME OddsTyped, cache' = [s \in Sports |-> [src \in Sources |-> Older(cache[s][src])]]
  PROVE  cache' \in [Sports -> [Sources -> Entry]]
<1>1. ASSUME NEW s \in Sports, NEW src \in Sources
      PROVE  Older(cache[s][src]) \in Entry
  <2>1. PICK e \in Entry : e = cache[s][src]
    BY DEF OddsTyped
  <2>2. CASE e.age >= OldAge
    BY <2>1, <2>2 DEF Older
  <2>3. CASE ~(e.age >= OldAge)
    <3>1. e.age \in Nat /\ e.age + 1 \in 0..(OldAge + 1)
      BY <2>3, OldAgeIsNat DEF Entry
    <3>2. [e EXCEPT !.age = @ + 1] \in Entry
      BY <3>1 DEF Entry
    <3>3. QED BY <2>1, <2>3, <3>2 DEF Older
  <2>4. QED BY <2>2, <2>3
<1>2. QED
  BY <1>1

-----------------------------------------------------------------------------
(***************************************************************************)
(* The steps of a fetch.                                                   *)
(***************************************************************************)

\* A fresh process, and one that is over.
LEMMA NoFetchIsFetch == NoFetch \in Fetch /\ NoFetch.step = "none"
BY DEF NoFetch, Fetch, Slates

\* Steps that touch neither count.
LEMMA CountsKept ==
  ASSUME OddsInv, UNCHANGED <<phase, setting, used, billed>>,
         cache' \in [Sports -> [Sources -> Entry]],
         fetch' \in Fetch, fetch'.step \notin {"none", "next"} => fetch'.sport \in Sports,
         fetch'.step # "request"
  PROVE  OddsInv'
BY DEF OddsInv, OddsTyped, ChargedAhead, LedgerNeverUnderCounts

\* Every step of the client before and after its request.
LEMMA ClientStepInv ==
  ASSUME OddsInv,
         FetchBegins \/ NextSport \/ StoreAnswer \/ AnswerUnreadable \/ Fallback
           \/ FetchEnds \/ FetchDies
  PROVE  OddsInv'
<1> USE DEF OddsInv
<1>1. fetch \in Fetch
  BY DEF OddsTyped
<1>2. CASE FetchBegins
  <2>1. fetch' = [NoFetch EXCEPT !.step = "next", !.todo = Sports]
    BY <1>2 DEF FetchBegins
  <2>2. fetch' \in Fetch /\ fetch'.step = "next"
    BY <2>1 DEF NoFetch, Fetch, Slates
  <2>3. QED BY <1>2, <2>2, CountsKept DEF FetchBegins, OddsTyped
<1>3. CASE NextSport
  <2>0. PICK s \in fetch.todo : \E entry \in Cached(s) :
          \/ fetch' = [fetch EXCEPT !.todo = @ \ {s}, !.served[s] = entry.slate]
          \/ fetch' = [fetch EXCEPT !.todo = @ \ {s}, !.sport = s,
                         !.step = IF used < Quota THEN "charge" ELSE "fallback",
                         !.dead = @ \/ used >= Quota]
    BY <1>3 DEF NextSport
  <2>1. PICK entry \in Cached(s) :
          \/ fetch' = [fetch EXCEPT !.todo = @ \ {s}, !.served[s] = entry.slate]
          \/ fetch' = [fetch EXCEPT !.todo = @ \ {s}, !.sport = s,
                         !.step = IF used < Quota THEN "charge" ELSE "fallback",
                         !.dead = @ \/ used >= Quota]
    BY <2>0
  <2>2. s \in Sports /\ entry.slate \in Slates /\ fetch.step = "next"
    <3>1. s \in Sports
      BY <1>1 DEF Fetch
    <3>2. entry \in Entry
      BY <3>1, CachedIsEntry
    <3>3. QED BY <1>3, <3>1, <3>2 DEF Entry, NextSport
  <2>3. CASE fetch' = [fetch EXCEPT !.todo = @ \ {s}, !.served[s] = entry.slate]
    <3>1. fetch' \in Fetch /\ fetch'.step = "next"
      BY <1>1, <2>2, <2>3 DEF Fetch
    <3>2. QED BY <1>3, <3>1, CountsKept DEF NextSport, OddsTyped
  <2>4. CASE fetch' = [fetch EXCEPT !.todo = @ \ {s}, !.sport = s,
                         !.step = IF used < Quota THEN "charge" ELSE "fallback",
                         !.dead = @ \/ used >= Quota]
    <3>1. /\ fetch' \in Fetch /\ fetch'.step \in {"charge", "fallback"} /\ fetch'.sport = s
      BY <1>1, <2>2, <2>4 DEF Fetch
    <3>2. QED BY <1>3, <2>2, <3>1, CountsKept DEF NextSport, OddsTyped
  <2>5. QED BY <2>1, <2>3, <2>4
<1>4. CASE StoreAnswer
  <2>1. fetch.step = "answered" /\ fetch.sport \in Sports /\ fetch.reply \in Slates
    BY <1>1, <1>4 DEF StoreAnswer, OddsTyped, Fetch
  <2>2. cache' \in [Sports -> [Sources -> Entry]]
    BY <1>4, <2>1, PutTyped DEF StoreAnswer, Sources
  <2>3. CASE fetch.reply = "games"
    <3>1. fetch' = [fetch EXCEPT !.step = "next", !.sport = NoSport, !.reply = "none",
                      !.served[fetch.sport] = "games"]
      BY <1>4, <2>3 DEF StoreAnswer
    <3>2. fetch' \in Fetch /\ fetch'.step = "next"
      BY <1>1, <2>1, <3>1 DEF Fetch, Slates
    <3>3. QED BY <1>4, <2>2, <3>2, CountsKept DEF StoreAnswer
  <2>4. CASE fetch.reply # "games"
    <3>1. fetch' = [fetch EXCEPT !.step = "fallback", !.reply = "none"]
      BY <1>4, <2>4 DEF StoreAnswer
    <3>2. fetch' \in Fetch /\ fetch'.step = "fallback" /\ fetch'.sport = fetch.sport
      BY <1>1, <2>1, <3>1 DEF Fetch, Slates
    <3>3. QED BY <1>4, <2>1, <2>2, <3>2, CountsKept DEF StoreAnswer
  <2>5. QED BY <2>3, <2>4
<1>5. CASE AnswerUnreadable
  <2>1. fetch' \in Fetch /\ fetch'.step = "fallback" /\ fetch'.sport = fetch.sport
    BY <1>1, <1>5 DEF AnswerUnreadable, Fetch, Slates
  <2>2. fetch.sport \in Sports
    BY <1>5 DEF AnswerUnreadable, OddsTyped
  <2>3. QED BY <1>5, <2>1, <2>2, CountsKept DEF AnswerUnreadable, OddsTyped
<1>6. CASE Fallback
  <2>1. fetch.sport \in Sports
    BY <1>6 DEF Fallback, OddsTyped
  <2>2. PICK slate \in Slates :
          /\ fetch' = [fetch EXCEPT !.step = "next", !.sport = NoSport,
                         !.served[fetch.sport] = slate]
          /\ \/ UNCHANGED cache
             \/ Put(fetch.sport, "espn", slate)
    <3>1. ASSUME NEW scoreboard \in Scoreboards
          PROVE  EspnSlate(scoreboard) \in Slates
      BY DEF EspnSlate, Slates
    <3>2. ASSUME NEW entry \in Cached(fetch.sport)
          PROVE  (IF Servable(entry) THEN entry.slate ELSE "none") \in Slates
      BY <2>1, CachedIsEntry DEF Entry, Slates
    <3>3. QED BY <1>6, <3>1, <3>2 DEF Fallback
  <2>3. cache' \in [Sports -> [Sources -> Entry]]
    BY <2>1, <2>2, PutTyped DEF Sources, OddsTyped
  <2>4. fetch' \in Fetch /\ fetch'.step = "next"
    BY <1>1, <2>1, <2>2 DEF Fetch
  <2>5. QED BY <1>6, <2>3, <2>4, CountsKept DEF Fallback
<1>7. CASE FetchEnds \/ FetchDies
  <2>1. fetch' = NoFetch /\ UNCHANGED <<phase, setting, used, billed, cache>>
    BY <1>7 DEF FetchEnds, FetchDies
  <2>2. QED BY <2>1, NoFetchIsFetch, CountsKept DEF OddsTyped
<1>8. QED
  BY <1>2, <1>3, <1>4, <1>5, <1>6, <1>7

\* The charge comes before the request (QuotaLedger.charge).
LEMMA ChargeInv ==
  ASSUME OddsInv, ChargeFirst
  PROVE  OddsInv'
<1>1. /\ fetch \in Fetch /\ fetch.sport \in Sports /\ used \in Nat /\ billed \in 0..Quota
      /\ Quota \in Nat
  BY OddsAssumption DEF OddsInv, OddsTyped, ChargeFirst
<1>2. fetch' \in Fetch /\ fetch'.step = "request" /\ fetch'.sport = fetch.sport
  BY <1>1 DEF ChargeFirst, Fetch
<1>3. used' = used + 1 /\ UNCHANGED <<phase, setting, billed, cache>>
  BY DEF ChargeFirst, Charged
<1>4. OddsTyped'
  BY <1>1, <1>2, <1>3 DEF OddsInv, OddsTyped
<1>5. (setting.turn = 0 => billed < used)'
  BY <1>1, <1>3 DEF OddsInv, LedgerNeverUnderCounts
<1>6. QED
  BY <1>1, <1>3, <1>4, <1>5 DEF OddsInv, ChargedAhead, LedgerNeverUnderCounts

\* What becomes of the request: answered and adopted, lost, or refused.
LEMMA RequestInv ==
  ASSUME OddsInv, RequestAnswered \/ RequestFails \/ RequestRefused
  PROVE  OddsInv'
<1>1. /\ fetch \in Fetch /\ fetch.step = "request" /\ fetch.sport \in Sports
      /\ used \in Nat /\ billed \in 0..Quota /\ Quota \in Nat
      /\ UNCHANGED <<phase, setting, cache>>
  BY OddsAssumption DEF OddsInv, OddsTyped, RequestAnswered, RequestFails, RequestRefused
<1>2. setting.turn = 0 => billed < used
  BY <1>1 DEF OddsInv, ChargedAhead
<1>3. fetch' \in Fetch /\ fetch'.step \in {"answered", "fallback"} /\ fetch'.sport = fetch.sport
  <2>1. CASE RequestAnswered
    <3>1. PICK status \in Statuses :
            /\ ReplyOf(status) # "refused"
            /\ fetch' = [fetch EXCEPT !.step = "answered", !.reply = ReplyOf(status)]
      BY <2>1 DEF RequestAnswered
    <3>2. ReplyOf(status) \in Slates
      <4>1. status \in {200, 422, 401, 429}
        BY DEF Statuses
      <4>2. QED BY <3>1, <4>1 DEF ReplyOf, Slates
    <3>3. QED BY <1>1, <3>1, <3>2 DEF Fetch
  <2>2. CASE RequestFails
    BY <1>1, <2>2 DEF RequestFails, Fetch
  <2>3. CASE RequestRefused
    BY <1>1, <2>3 DEF RequestRefused, Fetch
  <2>4. QED BY <2>1, <2>2, <2>3
<1>4. /\ used' \in Nat /\ billed' \in 0..Quota
      /\ (setting.turn = 0 => billed <= used)'
  <2>1. CASE RequestAnswered
    <3>1. billed < Quota
      <4>1. PICK status \in Statuses : ReplyOf(status) # "refused"
        BY <2>1 DEF RequestAnswered
      <4>2. status \notin {401, 429}
        BY <4>1 DEF ReplyOf
      <4>3. QED BY <1>1, <4>2 DEF Statuses
    <3>2. billed' = billed + 1 /\ used' = billed + 1 /\ setting' = setting
      BY <1>1, <2>1 DEF RequestAnswered
    <3>3. billed + 1 \in 0..Quota /\ billed + 1 \in Nat /\ billed + 1 <= billed + 1
      BY <1>1, <3>1
    <3>4. QED BY <3>2, <3>3
  <2>2. CASE RequestFails
    BY <1>1, <1>2, <2>2 DEF RequestFails
  <2>3. CASE RequestRefused
    BY <1>1, <1>2, <2>3 DEF RequestRefused
  <2>4. QED BY <2>1, <2>2, <2>3
<1>5. QED
  BY <1>1, <1>3, <1>4 DEF OddsInv, OddsTyped, ChargedAhead, LedgerNeverUnderCounts

\* A tick of the calendar, whichever of the two periods it ends, and the
\* opening of the season.
LEMMA CalendarInv ==
  ASSUME OddsInv, OddsTick \/ SeasonOpens
  PROVE  OddsInv'
<1>1. /\ used \in Nat /\ billed \in 0..Quota /\ Quota \in Nat
      /\ MonthTicks \in Nat \ {0} /\ phase \in 0..(MonthTicks - 1)
  BY OddsAssumption DEF OddsInv, OddsTyped
<1>2. CASE OddsTick
  <2>1. fetch.step = "none" /\ UNCHANGED <<setting, fetch>>
    BY <1>2 DEF OddsTick
  <2>2. cache' \in [Sports -> [Sources -> Entry]]
    BY <1>2, OlderTyped DEF OddsTick, OddsInv
  <2>3. phase' \in 0..(MonthTicks - 1)
    BY <1>1, <1>2 DEF OddsTick
  <2>4. /\ used' \in Nat /\ billed' \in 0..Quota
        /\ used' = used \/ (used' = 0 /\ phase' = 0)
        /\ billed' = IF phase' = setting.turn THEN 0 ELSE billed
    BY <1>1, <1>2 DEF OddsTick
  <2>5. (setting.turn = 0 => billed <= used)'
    BY <1>1, <2>1, <2>4 DEF OddsInv, LedgerNeverUnderCounts
  <2>6. QED BY <2>1, <2>2, <2>3, <2>4, <2>5
        DEF OddsInv, OddsTyped, ChargedAhead, LedgerNeverUnderCounts
<1>3. CASE SeasonOpens
  BY <1>3 DEF SeasonOpens, OddsInv, OddsTyped, ChargedAhead, LedgerNeverUnderCounts
<1>4. QED
  BY <1>2, <1>3

-----------------------------------------------------------------------------
\* The budget's invariant holds in every state.
THEOREM OddsInvariant == OddsSpec => []OddsInv
<1>1. ASSUME OddsInit PROVE OddsInv
  <2>1. [slate |-> "none", age |-> OldAge + 1] \in Entry
    <3>1. OldAge + 1 \in 0..(OldAge + 1)
      BY OldAgeIsNat
    <3>2. QED BY <3>1 DEF Entry, Slates
  <2>2. cache \in [Sports -> [Sources -> Entry]]
    BY <1>1, <2>1 DEF OddsInit, NoEntry
  <2>3. OddsTyped
    BY <1>1, <2>2, NoFetchIsFetch, OddsAssumption DEF OddsInit, OddsTyped
  <2>4. QED BY <1>1, <2>3, NoFetchIsFetch
        DEF OddsInit, OddsInv, ChargedAhead, LedgerNeverUnderCounts
<1>2. ASSUME OddsInv, [OddsNext]_oddsVars PROVE OddsInv'
  <2>1. CASE UNCHANGED oddsVars
    BY <1>2, <2>1 DEF oddsVars, OddsInv, OddsTyped, ChargedAhead, LedgerNeverUnderCounts
  <2>2. QED BY <1>2, <2>1, ClientStepInv, ChargeInv, RequestInv, CalendarInv DEF OddsNext
<1>3. QED
  BY <1>1, <1>2, PTL DEF OddsSpec

\* Whatever the cycles die between and whatever replies are lost, the ledger
\* never says less than the provider has counted, when their months agree
\* (_fetch charges before the call and adopts the provider's own number).
THEOREM OddsNeverUnderCounts == OddsSpec => []LedgerNeverUnderCounts
<1>1. OddsInv => LedgerNeverUnderCounts
  BY DEF OddsInv
<1>2. QED
  BY <1>1, OddsInvariant, PTL

\* Every variable of the budget holds a value of its domain; in particular the
\* provider never counts a request beyond the quota it granted.
THEOREM OddsTypes == OddsSpec => []OddsTypeOK
<1>1. OddsInv => OddsTypeOK
  BY DEF OddsInv, OddsTyped, OddsTypeOK, Fetch, Entry, Slates
<1>2. QED
  BY <1>1, OddsInvariant, PTL

-----------------------------------------------------------------------------
(***************************************************************************)
(* The two parts together: a behaviour of the instance runs one and leaves *)
(* the other alone, so it is a behaviour of each.                          *)
(***************************************************************************)

\* Every behaviour of the instance is one of each part.
LEMMA EachProviderAlone == ProvidersSpec => LiveSafety /\ OddsSpec
<1>1. ProvidersInit => LiveInit /\ OddsInit
  BY DEF ProvidersInit
<1>2. [ProvidersNext]_providersVars => [LiveNext]_liveVars /\ [OddsNext]_oddsVars
  BY DEF ProvidersNext, OrderStep, OddsStep, providersVars
<1>3. QED
  BY <1>1, <1>2, PTL DEF ProvidersSpec, LiveSafety, OddsSpec

\* The types, and what the two parts promise, hold side by side: the ledger is
\* never overstated, each row has one order, an ended row's order has stopped,
\* the quota is never under-counted, and the order keeps the ledger
\* (_execute_live; _fetch of the odds).
THEOREM ProvidersKeepTheirPromises ==
  ProvidersSpec => /\ [](/\ ProvidersTypeOK
                         /\ NeverOverstated /\ OneOrderPerRow /\ EndedRowEndsOrder
                         /\ LedgerNeverUnderCounts)
                   /\ LedgerKept
<1>1. LiveTypeOK /\ OddsTypeOK => ProvidersTypeOK
  BY DEF ProvidersTypeOK
<1>2. QED
  BY <1>1, EachProviderAlone, LiveTypes, OddsTypes, LedgerNeverOverstated, PlacedOncePerRow,
     EndedOrdersStopped, OddsNeverUnderCounts, LiveKeepsLedger, PTL
=============================================================================
