------------------------- MODULE TradingCycleProofs -------------------------
(***************************************************************************)
(* Proofs about the trading cycle, for every number of runners, markets    *)
(* and prices, as long as the server does not close the lock's connection  *)
(* under a running cycle ("drop" is not in Env; the run cycle_lock_lost    *)
(* shows what is lost when it does).                                       *)
(***************************************************************************)
EXTENDS TradingCycle, LedgerProofs, SequenceTheorems

-----------------------------------------------------------------------------
(***************************************************************************)
(* Mutual exclusion.                                                       *)
(***************************************************************************)

\* Whoever is inside a cycle, or died inside one, holds the lock.
MutexInv ==
  /\ pc \in [Runners -> Locked \cup {"idle", "dead"}]
  /\ lock \in Runners \cup {NoRunner}
  /\ \A r \in Runners : pc[r] # "idle" => lock = r

\* A runner inside a cycle goes on to another point of it.
Advances(r) ==
  /\ pc[r] \in Locked
  /\ lock' = lock
  /\ pc' = pc \/ \E to \in Locked : pc' = [pc EXCEPT ![r] = to]

\* Every step of a cycle but its last stays inside it and keeps the lock.
LEMMA CycleAdvances ==
  ASSUME NEW r \in Runners, Cycle(r) \/ Raise(r)
  PROVE  Advances(r) \/ Unlock(r) \/ ServerRelease(r)
<1> USE DEF Advances, At, Goto, Locked, Body
<1>1. CASE MarkLegacy(r) \/ CountGate(r) \/ ResyncGate(r) \/ FetchResults(r)
  BY <1>1 DEF MarkLegacy, CountGate, ResyncGate, FetchResults
<1>2. CASE SettleOne(r) \/ LockSettled(r) \/ CommitSettled(r)
  BY <1>2 DEF SettleOne, LockSettled, CommitSettled
<1>3. CASE Settled(r)
  BY <1>3 DEF Settled
<1>4. CASE SyncBankroll(r) \/ Score(r) \/ CheckSwitches(r)
  BY <1>4 DEF SyncBankroll, Score, CheckSwitches
<1>5. CASE ReadHalts(r) \/ Implausible(r) \/ HaltedMidway(r)
  BY <1>5 DEF ReadHalts, Implausible, HaltedMidway, HaltRest
<1>6. CASE Refuse(r) \/ Approve(r)
  BY <1>6 DEF Refuse, Approve
<1>7. CASE CheckHeld(r) \/ Route(r)
  BY <1>7 DEF CheckHeld, Route, Done
<1>8. CASE PaperFill(r) \/ LiveOrder(r) \/ LiveResult(r)
  BY <1>8 DEF PaperFill, LiveOrder, LiveResult, Done
<1>9. CASE Finish(r) \/ Raise(r)
  BY <1>9 DEF Finish, Raise
<1>10. CASE RecordOk(r) \/ RecordFailed(r) \/ CheckErrors(r)
  BY <1>10 DEF RecordOk, RecordFailed, Record, CheckErrors
<1>11. QED
  BY <1>1, <1>2, <1>3, <1>4, <1>5, <1>6, <1>7, <1>8, <1>9, <1>10 DEF Cycle

\* Every step keeps the holder the only runner inside a cycle.
LEMMA MutexStep ==
  ASSUME "drop" \notin Env, MutexInv, [Next]_vars
  PROVE  MutexInv'
<1> USE DEF MutexInv
<1>1. ASSUME NEW r \in Runners, Advances(r)
      PROVE  MutexInv'
  <2>1. lock = r /\ lock' = r
    BY <1>1 DEF Advances, Locked, Body
  <2>2. CASE pc' = pc
    BY <1>1, <2>1, <2>2
  <2>3. ASSUME NEW to \in Locked, pc' = [pc EXCEPT ![r] = to]
        PROVE  MutexInv'
    <3>1. pc' \in [Runners -> Locked \cup {"idle", "dead"}]
      BY <2>3
    <3>2. \A k \in Runners : pc'[k] # "idle" => lock' = k
      BY <2>1, <2>3
    <3>3. QED BY <2>1, <3>1, <3>2
  <2>4. QED BY <1>1, <2>2, <2>3 DEF Advances
<1>2. ASSUME NEW r \in Runners, Unlock(r) \/ ServerRelease(r)
      PROVE  MutexInv'
  <2>1. lock = r
    BY <1>2 DEF Unlock, ServerRelease, At
  <2>2. lock' = NoRunner /\ pc' = [pc EXCEPT ![r] = "idle"]
    BY <1>2, <2>1 DEF Unlock, ServerRelease, Goto
  <2>3. QED
    BY <2>1, <2>2, CycleAssumption
<1>3. ASSUME NEW r \in Runners, Begin(r)
      PROVE  MutexInv'
  BY <1>3, CycleAssumption DEF Begin, At, Goto, Locked, Body
<1>4. ASSUME NEW r \in Runners, Kill(r)
      PROVE  MutexInv'
  BY <1>4 DEF Kill, Goto, Locked, Body
<1>5. ASSUME NEW r \in Runners, DropConnection(r)
      PROVE  FALSE
  BY <1>5 DEF DropConnection, Happens
<1>6. CASE Maintenance \/ Finalize \/ HumanClears \/ GoLive \/ UNCHANGED vars
  <2>1. UNCHANGED <<pc, lock>>
    BY <1>6 DEF Maintenance, PlanRetirement, CloseMarked, LockMarked, CommitMarked, RetireSha,
                RetireMarketTrades, CountForJob, ResyncForJob, JobOnly, Finalize, HumanClears,
                GoLive,
                cycleVars, vars
  <2>2. QED BY <2>1
<1>7. QED
  BY <1>1, <1>2, <1>3, <1>4, <1>5, <1>6, CycleAdvances DEF Next

\* Initially every runner is idle.
LEMMA MutexInit == Init => MutexInv
BY DEF Init, MutexInv

\* The inductive invariant behind the lock: a runner that is not idle holds it
\* (cycle_lock: pg_try_advisory_lock, released by the server after a death).
THEOREM Mutex == ASSUME "drop" \notin Env PROVE Spec => []MutexInv
<1>1. MutexInv /\ [Next]_vars => MutexInv'
  BY MutexStep
<1>2. QED
  BY MutexInit, <1>1, PTL DEF Spec

\* Two processes are never both inside a cycle, whatever stage raises and
\* whichever process is killed (run_pipeline takes and returns the lock).
THEOREM CyclesExclude == ASSUME "drop" \notin Env PROVE Spec => []OneCycleAtATime
<1>1. MutexInv => OneCycleAtATime
  BY DEF MutexInv, OneCycleAtATime, Locked, Body
<1>2. QED
  BY Mutex, <1>1, PTL
-----------------------------------------------------------------------------
(***************************************************************************)
(* Types of the runners' local variables and of the maintenance job.       *)
(***************************************************************************)

Buckets == {"halted", "fee_refused", "risk_rejected", "nothing", "placed"}

\* A bucket raised by a whole number leaves a funnel.
LEMMA FunnelBumped ==
  ASSUME NEW f \in Funnel, NEW b \in Buckets, NEW n \in Nat
  PROVE  [f EXCEPT ![b] = @ + n] \in Funnel
BY DEF Funnel, Buckets

\* The types of a runner's local variables.
LEMMA WorkFields ==
  ASSUME NEW w \in Work
  PROVE  /\ w.results \subseteq Markets /\ w.count \in 0..MaxTrades
         /\ w.todo \subseteq Markets /\ w.opp \in Opportunity \cup {<<>>}
         /\ w.trade \in 0..MaxTrades /\ w.funnel \in Funnel /\ w.closing \subseteq Close
BY DEF Work

\* The cleared local variables are typed.
LEMMA NoWorkTyped == NoWork \in Work
BY LedgerAssumption DEF NoWork, Work, EmptyFunnel, Funnel

\* A list of markets to deal with has a size.
LEMMA TodoIsFinite ==
  ASSUME NEW S \in SUBSET Markets
  PROVE  Cardinality(S) \in Nat
BY FS_Subset, FS_CardinalityType, LedgerAssumption

\* The gate rows are finitely many.
LEMMA GateRowsFinite ==
  ASSUME LedgerTypeOK
  PROVE  IsFiniteSet(GateRows)
<1>1. Len(trades) \in Nat /\ DOMAIN trades = 1..Len(trades)
  BY DEF LedgerTypeOK
<1>2. IsFiniteSet(1..Len(trades))
  BY <1>1, FS_Interval
<1>3. GateRows \subseteq 1..Len(trades)
  BY <1>1 DEF GateRows
<1>4. QED
  BY <1>2, <1>3, FS_Subset

\* The number of gate rows is at most the number of rows.
LEMMA GateRowsBounded ==
  ASSUME LedgerTypeOK, Len(trades) <= MaxTrades
  PROVE  Cardinality(GateRows) \in 0..MaxTrades
<1>1. Len(trades) \in Nat /\ DOMAIN trades = 1..Len(trades)
  BY DEF LedgerTypeOK
<1>2. IsFiniteSet(1..Len(trades)) /\ Cardinality(1..Len(trades)) = Len(trades)
  <2>1. ASSUME NEW n \in Nat
        PROVE  IsFiniteSet(1..n) /\ Cardinality(1..n) = n
    <3>1. IsFiniteSet(1..n) /\ Cardinality(1..n) = IF 1 > n THEN 0 ELSE n - 1 + 1
      BY FS_Interval
    <3>2. QED BY <3>1
  <2>2. QED BY <1>1, <2>1
<1>3. GateRows \subseteq 1..Len(trades)
  BY <1>1 DEF GateRows
<1>4. IsFiniteSet(GateRows) /\ Cardinality(GateRows) <= Len(trades)
  BY <1>2, <1>3, FS_Subset
<1>5. Cardinality(GateRows) \in Nat
  BY <1>4, FS_CardinalityType
<1>6. QED
  BY <1>1, <1>4, <1>5, LedgerAssumption

\* What a closing under way relies on.  The row it read is as it was, or has
\* been closed by somebody else, and then the market has no open position
\* left; once it holds the row, the trade it found and the PnL it computed are
\* those of the market still.
Follows(c) ==
  /\ c \in Close
  /\ c.pos.open
  /\ c.row \in DOMAIN positions
  /\ \/ positions[c.row] = c.pos
     \/ positions[c.row] = [c.pos EXCEPT !.open = FALSE] /\ Open(c.pos.market) = {}
  /\ c.at = "locked" => /\ c.last = Latest(Filled(c.pos.market))
                        /\ c.pnl \in PnLs(c.pos, c.yesExit)

\* A closing that has just read its position.
LEMMA SeenFollows ==
  ASSUME LedgerTypeOK, NEW m \in Markets, NEW i \in Open(m), NEW x \in 0..100
  PROVE  Follows(SeeOpen(i, x, TRUE)) /\ Follows(SeeOpen(i, x, FALSE))
<1>1. i \in DOMAIN positions /\ positions[i].open /\ positions[i].market = m /\ i \in Nat
  BY DEF Open, LedgerTypeOK
<1>2. PICK pos \in PositionRow : pos = positions[i]
  BY <1>1, RowsTyped
<1>3. ASSUME NEW c, NEW f \in BOOLEAN,
             c = [at |-> "seen", row |-> i, pos |-> pos, yesExit |-> x, finalize |-> f,
                  last |-> {}, pnl |-> 0, sum |-> 0, high |-> 0]
      PROVE  Follows(c)
  <2>1. c \in Close
    BY <1>1, <1>3 DEF Close
  <2>2. QED BY <1>1, <1>2, <1>3, <2>1 DEF Follows
<1>4. QED
  BY <1>2, <1>3 DEF SeeOpen

\* A closing that has just got the lock of its row.
LEMMA LockedFields ==
  ASSUME NEW c \in Close, NEW pnl, NEW d, d = LockedClose(c, pnl)
  PROVE  /\ d.at = "locked" /\ d.row = c.row /\ d.pos = c.pos
         /\ d.yesExit = c.yesExit /\ d.finalize = c.finalize
         /\ d.last = Latest(Filled(c.pos.market)) /\ d.pnl = pnl /\ d.sum = bankroll + pnl
BY DEF LockedClose, Close

LEMMA LockedFollows ==
  ASSUME LedgerTypeOK, NEW c, Follows(c), NEW pnl \in PnLs(c.pos, c.yesExit)
  PROVE  Follows(LockedClose(c, pnl))
<1> DEFINE d == LockedClose(c, pnl)
<1>1. c \in Close /\ c.pos \in PositionRow /\ c.yesExit \in 0..100
  BY DEF Follows, Close
<1>2. pnl \in Int
  BY <1>1, PnLsAreInts
<1>3. bankroll \in Int /\ peak \in Int
  BY DEF LedgerTypeOK
<1>4. PICK last \in SUBSET Nat : last = Latest(Filled(c.pos.market))
  <2>1. DOMAIN trades \subseteq Nat
    BY DEF LedgerTypeOK
  <2>2. Latest(Filled(c.pos.market)) \subseteq DOMAIN trades
    BY DEF Latest, Filled
  <2>3. QED BY <2>1, <2>2
<1>5. d = [c EXCEPT !.at = "locked", !.last = last, !.pnl = pnl, !.sum = bankroll + pnl,
                    !.high = peak]
  BY <1>4 DEF LockedClose
<1>6. bankroll + pnl \in Int
  BY <1>2, <1>3
<1>7. d \in Close
  BY <1>1, <1>2, <1>3, <1>5, <1>6 DEF Close
<1>8. /\ d.at = "locked" /\ d.row = c.row /\ d.pos = c.pos
      /\ d.yesExit = c.yesExit /\ d.last = last /\ d.pnl = pnl
  BY <1>1, <1>4, LockedFields
<1>9. QED
  BY <1>4, <1>7, <1>8 DEF Follows

\* A step that leaves the market of a closing alone.
LEMMA FollowsKept ==
  ASSUME LedgerTypeOK, NEW c, Follows(c), NEW S, KeptOutside(S), c.pos.market \notin S
  PROVE  Follows(c)' /\ positions'[c.row] = positions[c.row]
<1>1. /\ c.pos \in PositionRow /\ c.pos.market \in Markets
      /\ c.row \in DOMAIN positions
  BY DEF Follows, Close, PositionRow
<1>2. positions[c.row].market = c.pos.market
  BY <1>1 DEF Follows, PositionRow
<1>3. positions'[c.row] = positions[c.row] /\ c.row \in DOMAIN positions'
  BY <1>1, <1>2 DEF KeptOutside
<1>4. /\ Open(c.pos.market)' = Open(c.pos.market)
      /\ Filled(c.pos.market)' = Filled(c.pos.market)
      /\ \A t \in Filled(c.pos.market) : trades'[t].fee = trades[t].fee
  BY <1>1 DEF KeptOutside
<1>5. Latest(Filled(c.pos.market)) \subseteq Filled(c.pos.market)
  BY DEF Latest
<1>6. EntryFees(c.pos)' = EntryFees(c.pos)
  BY <1>4, <1>5 DEF EntryFees
<1>7. PnLs(c.pos, c.yesExit)' = PnLs(c.pos, c.yesExit)
  BY <1>6 DEF PnLs
<1>8. QED
  BY <1>3, <1>4, <1>7 DEF Follows

TablesTyped == LedgerTypeOK /\ Len(trades) <= MaxTrades /\ work \in [Runners -> Work]

\* A settling runner's local variables stay typed.
LEMMA ClosingTyped ==
  ASSUME TablesTyped, NEW r \in Runners, \A c \in work[r].closing : Follows(c),
         SettleOne(r) \/ LockSettled(r) \/ CommitSettled(r) \/ Raise(r)
  PROVE  \E w \in Work : Keep(r, w)
<1>1. /\ work[r] \in Work /\ work[r].results \subseteq Markets /\ work[r].closing \subseteq Close
      /\ LedgerTypeOK
  BY WorkFields DEF TablesTyped
<1>2. \A S \in SUBSET Markets, C \in SUBSET Close :
        /\ [work[r] EXCEPT !.results = S, !.closing = C] \in Work
        /\ [work[r] EXCEPT !.results = S] \in Work
        /\ [work[r] EXCEPT !.closing = C] \in Work
  BY <1>1 DEF Work
<1>3. CASE SettleOne(r)
  <2>1. PICK m \in work[r].results :
          \/ Keep(r, [work[r] EXCEPT !.results = @ \ {m}])
          \/ \E i \in Open(m) : Keep(r, [work[r] EXCEPT !.results = @ \ {m},
                                             !.closing = {SeeOpen(i, ResolvedAt(m), TRUE)}])
    BY <1>3 DEF SettleOne
  <2>2. PICK S \in SUBSET Markets : S = work[r].results \ {m}
    BY <1>1
  <2>3. m \in Markets /\ ResolvedAt(m) \in 0..100
    BY <1>1 DEF ResolvedAt
  <2>4. ASSUME NEW i \in Open(m) PROVE {SeeOpen(i, ResolvedAt(m), TRUE)} \in SUBSET Close
    <3>1. PICK c : c = SeeOpen(i, ResolvedAt(m), TRUE)
      OBVIOUS
    <3>2. Follows(c)
      BY <1>1, <2>3, <3>1, SeenFollows
    <3>3. QED BY <3>1, <3>2 DEF Follows
  <2>5. CASE Keep(r, [work[r] EXCEPT !.results = @ \ {m}])
    BY <1>2, <2>2, <2>5
  <2>6. ASSUME NEW i \in Open(m),
               Keep(r, [work[r] EXCEPT !.results = @ \ {m},
                                       !.closing = {SeeOpen(i, ResolvedAt(m), TRUE)}])
        PROVE  \E w \in Work : Keep(r, w)
    BY <1>2, <2>2, <2>4, <2>6
  <2>7. QED BY <2>1, <2>5, <2>6
<1>4. CASE LockSettled(r)
  <2>1. PICK c \in work[r].closing :
                      \E d \in GetsLock(c) : Keep(r, [work[r] EXCEPT !.closing = {d}])
    BY <1>4 DEF LockSettled
  <2>2. PICK pnl \in PnLs(c.pos, c.yesExit) :
          Keep(r, [work[r] EXCEPT !.closing = {LockedClose(c, pnl)}])
    BY <2>1 DEF GetsLock
  <2>3. PICK d : d = LockedClose(c, pnl)
    OBVIOUS
  <2>4. {d} \in SUBSET Close
    <3>1. Follows(d)
      BY <1>1, <2>3, LockedFollows
    <3>2. QED BY <3>1 DEF Follows
  <2>5. QED BY <1>2, <2>2, <2>3, <2>4
<1>5. CASE CommitSettled(r) \/ Raise(r)
  BY <1>2, <1>5 DEF CommitSettled, Raise
<1>6. QED
  BY <1>3, <1>4, <1>5

\* A cycle's step keeps every runner's local variables typed.
LEMMA WorkTyped ==
  ASSUME TablesTyped, NEW r \in Runners,
         Cycle(r) \/ Raise(r) \/ Begin(r) \/ Kill(r) \/ DropConnection(r),
         At(r, "order") => Len(trades) < MaxTrades,
         \A c \in work[r].closing : Follows(c)
  PROVE  work' \in [Runners -> Work]
<1> USE DEF TablesTyped, Keep
<1>1. work[r] \in Work
  OBVIOUS
<1>2. ASSUME NEW w \in Work, Keep(r, w)
      PROVE  work' \in [Runners -> Work]
  BY <1>2
<1>3. CASE UNCHANGED work
  BY <1>3
<1>4. CASE CountGate(r)
  BY <1>1, <1>4, GateRowsBounded DEF CountGate, Work
<1>5. CASE FetchResults(r)
  <2>1. OpenMarkets \subseteq Markets
    BY DEF OpenMarkets
  <2>2. PICK got \in SUBSET Markets : Keep(r, [work[r] EXCEPT !.results = got])
    BY <1>5, <2>1 DEF FetchResults
  <2>3. QED BY <1>1, <2>2 DEF Work
<1>6. CASE SettleOne(r) \/ LockSettled(r) \/ CommitSettled(r) \/ Raise(r)
  BY <1>1, <1>2, <1>6, ClosingTyped
<1>7. CASE Score(r)
  <2>1. PICK S \in SUBSET Markets :
          Keep(r, [work[r] EXCEPT !.todo = S,
                                  !.funnel = [EmptyFunnel EXCEPT !.qualifying = Cardinality(S)]])
    BY <1>7 DEF Score
  <2>2. [EmptyFunnel EXCEPT !.qualifying = Cardinality(S)] \in Funnel
    BY TodoIsFinite DEF EmptyFunnel, Funnel
  <2>3. QED BY <1>1, <2>1, <2>2 DEF Work
<1>8. CASE HaltRest(r)
  <2>1. Cardinality(work[r].todo) \in Nat
    BY <1>1, WorkFields, TodoIsFinite
  <2>2. [work[r].funnel EXCEPT !.halted = @ + Cardinality(work[r].todo)] \in Funnel
    BY <1>1, <2>1, WorkFields, FunnelBumped DEF Buckets
  <2>3. QED BY <1>1, <1>8, <2>2 DEF HaltRest, Work
<1>9. CASE Refuse(r)
  <2>1. PICK m \in work[r].todo, why \in {"fee_refused", "risk_rejected"} :
          Keep(r, [work[r] EXCEPT !.todo = @ \ {m}, !.funnel[why] = @ + 1])
    BY <1>9 DEF Refuse
  <2>2. [work[r].funnel EXCEPT ![why] = @ + 1] \in Funnel
    BY <1>1, WorkFields, FunnelBumped DEF Buckets
  <2>3. QED BY <1>1, <2>1, <2>2 DEF Work
<1>10. CASE Approve(r)
  <2>1. PICK m \in work[r].todo, s \in Sides, p \in Prices, q \in Quantities :
          Keep(r, [work[r] EXCEPT !.todo = @ \ {m},
                   !.opp = [market |-> m, side |-> s, price |-> p,
                            qty |-> IF mode = "live" /\ StageCap < q THEN StageCap ELSE q]])
    BY <1>10 DEF Approve
  <2>2. (IF mode = "live" /\ StageCap < q THEN StageCap ELSE q) \in Sizes
    BY LedgerAssumption, CycleAssumption DEF Sizes
  <2>3. m \in Markets
    BY <1>1, WorkFields
  <2>4. [market |-> m, side |-> s, price |-> p,
         qty |-> IF mode = "live" /\ StageCap < q THEN StageCap ELSE q] \in Opportunity
    BY <2>2, <2>3 DEF Opportunity
  <2>5. QED BY <1>1, <2>1, <2>4 DEF Work
<1>11. ASSUME NEW b \in Buckets, Done(r, b)
       PROVE  work' \in [Runners -> Work]
  <2>1. [work[r].funnel EXCEPT ![b] = @ + 1] \in Funnel
    BY <1>1, WorkFields, FunnelBumped
  <2>2. 0 \in 0..MaxTrades
    BY LedgerAssumption
  <2>3. QED BY <1>1, <1>11, <2>1, <2>2 DEF Work, Done
<1>12. CASE LiveOrder(r)
  <2>1. Len(trades) + 1 \in 0..MaxTrades
    BY <1>12, LedgerAssumption DEF LiveOrder, LedgerTypeOK
  <2>2. Keep(r, [work[r] EXCEPT !.trade = Len(trades) + 1])
    BY <1>12 DEF LiveOrder
  <2>3. QED BY <1>1, <2>1, <2>2 DEF Work
<1>13. CASE Unlock(r) \/ Kill(r)
  BY <1>13, NoWorkTyped DEF Unlock, Kill
<1>14. CASE MarkLegacy(r) \/ ResyncGate(r) \/ Settled(r) \/ SyncBankroll(r) \/ CheckSwitches(r)
            \/ Finish(r) \/ RecordOk(r) \/ RecordFailed(r) \/ CheckErrors(r) \/ ServerRelease(r)
            \/ Begin(r) \/ DropConnection(r)
  BY <1>14 DEF MarkLegacy, ResyncGate, Settled, SyncBankroll, CheckSwitches, Finish, RecordOk,
               RecordFailed, Record, CheckErrors, ServerRelease, Begin, DropConnection
<1>15. CASE ReadHalts(r) \/ Implausible(r) \/ HaltedMidway(r)
  BY <1>3, <1>8, <1>15 DEF ReadHalts, Implausible, HaltedMidway
<1>16. CASE CheckHeld(r) \/ Route(r) \/ PaperFill(r) \/ LiveResult(r)
  <2>1. UNCHANGED work \/ \E b \in Buckets : Done(r, b)
    BY <1>16 DEF CheckHeld, Route, PaperFill, LiveResult, Buckets
  <2>2. QED BY <1>3, <1>11, <2>1
<1>17. QED
  BY <1>4, <1>5, <1>6, <1>7, <1>9, <1>10, <1>12, <1>13, <1>14, <1>15, <1>16 DEF Cycle

-----------------------------------------------------------------------------
(***************************************************************************)
(* The cycle keeps the ledger.                                             *)
(*                                                                         *)
(* LedgerNext enters a market only when it is enterable in that very       *)
(* state; the cycle looks in one transaction and writes in a later one.    *)
(* What it looked at stays true in between because no other runner is      *)
(* inside a cycle and the maintenance job only ever closes positions.      *)
(***************************************************************************)

\* What a runner that trades relies on, each fact from where it was read to
\* where it is used.
RunnerInv(r) ==
  /\ pc[r] \in {"switches", "gate", "next", "held", "route", "paper", "order", "live"} =>
       work[r].todo \cap delisted = {}
  /\ pc[r] \in {"held", "route", "paper", "order", "live"} =>
       work[r].opp \in Opportunity /\ work[r].opp.market \notin delisted
  /\ pc[r] \in {"route", "paper", "order", "live"} => Open(work[r].opp.market) = {}
  /\ pc[r] \in {"held", "route", "paper", "order"} => Len(trades) < MaxTrades
  /\ pc[r] \in {"order", "sync"} => mode = "live"
  /\ pc[r] = "live" =>
       /\ work[r].trade \in Pending
       /\ trades[work[r].trade].market = work[r].opp.market
       /\ trades[work[r].trade].qty = work[r].opp.qty

\* The closings under way, each on its own position: a runner's only while it
\* settles, the maintenance job's for a market that was open or is finalized,
\* so that nobody enters it; no two of them hold the lock of one row.
ClosingInv ==
  /\ \A r \in Runners : \A c \in work[r].closing :
       /\ pc[r] = "settle" /\ Follows(c)
       /\ c.finalize /\ c.yesExit \in {0, 100}
       /\ \A d \in job.closing : ~(c.at = "locked" /\ d.at = "locked" /\ c.row = d.row)
  /\ \A d \in job.closing :
       /\ Follows(d)
       /\ ~d.finalize /\ d.yesExit \in Marks
       /\ positions[d.row].open \/ d.pos.market \in delisted
  /\ \A m \in delisted : Open(m) = {}

CycleInv ==
  /\ MutexInv
  /\ ClosingInv
  /\ LedgerInv
  /\ Len(trades) <= MaxTrades
  /\ work \in [Runners -> Work]
  /\ job \in Job /\ (job.at # "idle" => job.sha \in Deploys)
  /\ outcome \in [Markets -> Sides \cup {"none"}]
  /\ \A r \in Runners : RunnerInv(r)

\* The invariant holds initially.
LEMMA CycleInvInit == Init => CycleInv
<1> SUFFICES ASSUME Init PROVE CycleInv
  OBVIOUS
<1>1. MutexInv /\ LedgerInv
  BY MutexInit, LedgerInvInit DEF Init
<1>2. Len(trades) <= MaxTrades
  BY LedgerAssumption DEF Init, LedgerInit
<1>3. work \in [Runners -> Work]
  BY NoWorkTyped DEF Init
<1>4. job \in Job /\ (job.at # "idle" => job.sha \in Deploys)
  BY LedgerAssumption DEF Init, NoJob, Job
<1>5. outcome \in [Markets -> Sides \cup {"none"}]
  BY DEF Init
<1>6. \A r \in Runners : RunnerInv(r)
  BY DEF Init, RunnerInv
<1>7. ClosingInv
  BY DEF Init, LedgerInit, NoWork, NoJob, ClosingInv
<1>8. QED
  BY <1>1, <1>2, <1>3, <1>4, <1>5, <1>6, <1>7 DEF CycleInv

\* What a closing does when it commits: it closes the open position it read,
\* or, when somebody else has closed that one, nothing to the book.
LEMMA CommitIs ==
  ASSUME LedgerInv, NEW c, Follows(c), c.at = "locked", CommitClose(c)
  PROVE  \/ /\ c.row \in Open(c.pos.market)
            /\ ClosePosition(c.pos.market, c.yesExit, c.finalize)
            /\ \E fee \in Nat, exit \in 0..100 :
                 Closing(c.row, fee, exit, c.pnl, c.pos.market, c.yesExit, c.finalize)
         \/ /\ Open(c.pos.market) = {} /\ CloseAgain
            /\ UNCHANGED <<trades, positions, paperCount, mode>>
            /\ positions[c.row] = [c.pos EXCEPT !.open = FALSE]
<1> DEFINE m == c.pos.market
<1>0. /\ LedgerTypeOK /\ BookMatchesTrades /\ c \in Close /\ m \in Markets
      /\ c.pos \in PositionRow /\ c.yesExit \in 0..100 /\ c.finalize \in BOOLEAN
      /\ c.pnl \in Int /\ c.sum \in Int /\ bankroll \in Int /\ peak \in Int
      /\ c.row \in DOMAIN positions /\ c.last = Latest(Filled(m)) /\ c.pnl \in PnLs(c.pos, c.yesExit)
  BY DEF LedgerInv, LedgerTypeOK, Follows, Close, PositionRow
<1>1. /\ positions' = [positions EXCEPT ![c.row].open = FALSE]
      /\ trades' = SettledRows(Latest(Filled(m)), ExitOf(c.pos, c.yesExit), c.pnl)
      /\ bankroll' \in Int /\ peak' \in Int
      /\ delisted' = (IF c.finalize THEN delisted \cup {m} ELSE delisted)
      /\ UNCHANGED <<paperCount, mode>>
  BY <1>0 DEF CommitClose
<1>2. CASE positions[c.row] = c.pos
  <2>1. c.row \in Open(m)
    BY <1>0, <1>2 DEF Open, Follows
  <2>2. ClosePosition(m, c.yesExit, c.finalize)
    BY <1>0, <1>1, <1>2, <2>1 DEF ClosePosition
  <2>3. PICK fee \in EntryFees(c.pos) :
          c.pnl = (ExitOf(c.pos, c.yesExit) - c.pos.entry) * c.pos.qty - fee
    BY <1>0 DEF PnLs
  <2>4. fee \in Nat /\ ExitOf(c.pos, c.yesExit) \in 0..100
    BY <1>0, <2>3, PnLsAreInts
  <2>5. Latest(Filled(m)) # {} => \E t \in Latest(Filled(m)) : fee = trades[t].fee
    BY <2>3 DEF EntryFees
  <2>6. Closing(c.row, fee, ExitOf(c.pos, c.yesExit), c.pnl, m, c.yesExit, c.finalize)
    BY <1>0, <1>1, <1>2, <2>3, <2>5 DEF Closing, Follows
  <2>7. QED BY <2>1, <2>2, <2>4, <2>6
<1>3. CASE positions[c.row] = [c.pos EXCEPT !.open = FALSE] /\ Open(m) = {}
  <2>1. ~positions[c.row].open /\ positions[c.row] \in PositionRow
    BY <1>0, <1>3 DEF PositionRow
  <2>2. positions' = positions
    <3>1. PICK pos \in PositionRow : pos = positions[c.row] /\ ~pos.open
      BY <2>1
    <3>2. [pos EXCEPT !.open = FALSE] = pos
      BY <3>1 DEF PositionRow
    <3>3. positions' = [positions EXCEPT ![c.row] = pos]
      BY <1>1, <3>1, <3>2
    <3>4. QED BY <1>0, <3>1, <3>3 DEF LedgerTypeOK
  <2>3. Latest(Filled(m)) = {}
    BY <1>0, <1>3 DEF BookMatchesTrades, Latest
  <2>4. trades' = trades
    BY <1>0, <1>1, <2>3 DEF SettledRows, LedgerTypeOK
  <2>5. CloseAgain
    BY <1>0, <1>1, <1>3, <2>2, <2>4 DEF CloseAgain
  <2>6. QED BY <1>1, <1>3, <2>2, <2>4, <2>5
<1>4. QED
  BY <1>2, <1>3 DEF Follows

\* Either way its market ends with no open position, the rows keep their
\* standing and everything else is left alone.
LEMMA CommitKeeps ==
  ASSUME LedgerInv, NEW c, Follows(c), c.at = "locked", CommitClose(c)
  PROVE  /\ KeptOutside({c.pos.market})
         /\ Open(c.pos.market)' = {}
         /\ positions'[c.row] = [c.pos EXCEPT !.open = FALSE]
         /\ Open(c.pos.market) = {} => UNCHANGED <<trades, positions>>
         /\ delisted' = IF c.finalize THEN delisted \cup {c.pos.market} ELSE delisted
         /\ mode' = mode /\ paperCount' = paperCount
<1>1. CASE c.row \in Open(c.pos.market)
  <2>1. ClosePosition(c.pos.market, c.yesExit, c.finalize)
    BY <1>1, CommitIs
  <2>2. /\ c.pos.market \in Markets /\ c.yesExit \in 0..100
        /\ c.finalize \in BOOLEAN /\ c.pos \in PositionRow
    BY DEF Follows, Close, PositionRow
  <2>3. /\ KeptOutside({c.pos.market}) /\ Open(c.pos.market)' = {}
        /\ positions'[c.row] = [positions[c.row] EXCEPT !.open = FALSE]
    <3>1. PICK f \in BOOLEAN, m \in Markets, x \in 0..100 :
            f = c.finalize /\ m = c.pos.market /\ x = c.yesExit
      BY <2>2
    <3>2. ClosePosition(m, x, f)
      BY <2>1, <3>1
    <3>3. /\ KeptOutside({m}) /\ Open(m)' = {}
          /\ \A j \in Open(m) : positions'[j] = [positions[j] EXCEPT !.open = FALSE]
      BY <3>2, ClosedAndKept
    <3>4. Open(m)' = Open(c.pos.market)'
      BY <3>1 DEF Open
    <3>5. c.row \in Open(m)
      BY <1>1, <3>1
    <3>6. QED BY <3>1, <3>3, <3>4, <3>5
  <2>4. positions[c.row] = c.pos
    BY <1>1, <2>2 DEF Follows
  <2>5. QED BY <1>1, <2>3, <2>4 DEF CommitClose
<1>2. CASE c.row \notin Open(c.pos.market)
  <2>1. /\ Open(c.pos.market) = {} /\ UNCHANGED <<trades, positions>>
        /\ positions[c.row] = [c.pos EXCEPT !.open = FALSE]
    BY <1>2, CommitIs
  <2>2. KeptOutside({c.pos.market}) /\ Open(c.pos.market)' = {}
    BY <2>1, TablesKept DEF KeptOutside, Open
  <2>3. QED BY <2>1, <2>2 DEF CommitClose
<1>3. QED
  BY <1>1, <1>2

\* Another closing under way goes on from where the book is then.
LEMMA OtherFollows ==
  ASSUME LedgerInv, NEW c, Follows(c), c.at = "locked", CommitClose(c),
         NEW d, Follows(d), ~(d.at = "locked" /\ d.row = c.row)
  PROVE  /\ Follows(d)'
         /\ d.pos.market # c.pos.market => positions'[d.row] = positions[d.row]
<1>0. /\ LedgerTypeOK /\ OneOpenPerMarket
      /\ c.pos.market \in Markets /\ c.pos \in PositionRow /\ d.pos \in PositionRow
      /\ c.row \in DOMAIN positions /\ d.row \in DOMAIN positions /\ d \in Close
  BY DEF LedgerInv, Follows, Close, PositionRow
<1>1. CASE d.pos.market # c.pos.market
  <2>1. KeptOutside({c.pos.market})
    BY CommitKeeps
  <2>2. QED BY <1>0, <1>1, <2>1, FollowsKept
<1>2. CASE d.pos.market = c.pos.market /\ Open(c.pos.market) = {}
  <2>1. KeptOutside({})
    BY <1>2, CommitKeeps, TablesKept
  <2>2. QED BY <1>0, <1>2, <2>1, FollowsKept
<1>3. CASE d.pos.market = c.pos.market /\ Open(c.pos.market) # {}
  <2>1. positions[c.row] = c.pos /\ c.row \in Open(c.pos.market)
    BY <1>0, <1>3 DEF Follows, Open
  <2>2. positions[d.row] = d.pos /\ d.row \in Open(c.pos.market)
    BY <1>0, <1>3 DEF Follows, Open
  <2>3. d.row = c.row
    BY <1>0, <2>1, <2>2 DEF OneOpenPerMarket
  <2>4. positions'[d.row] = [d.pos EXCEPT !.open = FALSE] /\ Open(d.pos.market)' = {}
    <3>1. d.pos = c.pos
      BY <2>1, <2>2, <2>3
    <3>2. positions'[c.row] = [c.pos EXCEPT !.open = FALSE] /\ Open(c.pos.market)' = {}
      BY CommitKeeps
    <3>3. QED BY <2>3, <3>1, <3>2
  <2>5. d.row \in DOMAIN positions'
    BY <1>0, CommitKeeps DEF KeptOutside
  <2>6. d.at # "locked" /\ d.pos.open
    BY <2>3 DEF Follows
  <2>7. QED BY <1>0, <1>3, <2>4, <2>5, <2>6 DEF Follows
<1>4. QED
  BY <1>1, <1>2, <1>3

\* Every step of a runner that commits no closing is a transaction that closes
\* nothing, or leaves the ledger alone.
LEMMA RunnerOpens ==
  ASSUME CycleInv, NEW r \in Runners, Cycle(r)
  PROVE  [OpenNext]_ledgerVars \/ CommitSettled(r)
<1> USE DEF At
<1>0. /\ RunnerInv(r) /\ work[r] \in Work /\ LedgerTypeOK /\ Len(trades) <= MaxTrades
      /\ outcome \in [Markets -> Sides \cup {"none"}]
  BY DEF CycleInv, LedgerInv
<1>1. CASE MarkLegacy(r)
  BY <1>1 DEF MarkLegacy, RetireTrades, OpenNext
<1>2. CASE ResyncGate(r)
  BY <1>0, <1>2, WorkFields DEF ResyncGate, Resync, OpenNext
<1>4. CASE SyncBankroll(r)
  BY <1>0, <1>4 DEF SyncBankroll, Sync, OpenNext, RunnerInv
<1>5. CASE PaperFill(r)
  <2>1. PICK rate \in Rates, d \in Shas :
          RecordPaperFill(work[r].opp.market, work[r].opp.side, work[r].opp.price,
                          work[r].opp.qty, rate, d)
    BY <1>5 DEF PaperFill
  <2>2. work[r].opp \in Opportunity /\ Enterable(work[r].opp.market)
    BY <1>0, <1>5 DEF PaperFill, RunnerInv, Enterable
  <2>3. QED BY <2>1, <2>2 DEF Opportunity, PaperEntry, OpenNext
<1>6. CASE LiveOrder(r)
  <2>1. PICK d \in Shas :
          CreatePendingTrade(work[r].opp.market, work[r].opp.side, work[r].opp.price,
                             work[r].opp.qty, d)
    BY <1>6 DEF LiveOrder
  <2>2. work[r].opp \in Opportunity /\ Enterable(work[r].opp.market) /\ mode = "live"
    BY <1>0, <1>6 DEF LiveOrder, RunnerInv, Enterable
  <2>3. QED BY <2>1, <2>2 DEF Opportunity, LiveEntry, OpenNext
<1>7. CASE LiveResult(r)
  <2>1. /\ work[r].trade \in Pending
        /\ Open(trades[work[r].trade].market) = {}
        /\ trades[work[r].trade].qty = work[r].opp.qty
    BY <1>0, <1>7 DEF LiveResult, RunnerInv
  <2>2. \/ \E q \in 1..work[r].opp.qty : \E fee \in LiveFees(work[r].trade, q) :
             MarkTradeFilled(work[r].trade, q, fee)
        \/ \E status \in {"cancelled", "error"} : UpdateTradeStatus(work[r].trade, status)
    BY <1>7 DEF LiveResult
  <2>3. QED BY <2>1, <2>2 DEF LiveFilled, LiveEnded, OpenNext
<1>8. CASE CountGate(r) \/ FetchResults(r) \/ SettleOne(r) \/ LockSettled(r) \/ Settled(r)
           \/ Score(r) \/ CheckSwitches(r) \/ ReadHalts(r) \/ Implausible(r) \/ HaltedMidway(r)
           \/ Refuse(r) \/ Approve(r) \/ CheckHeld(r) \/ Route(r) \/ Finish(r) \/ RecordOk(r)
           \/ RecordFailed(r) \/ CheckErrors(r) \/ Unlock(r) \/ ServerRelease(r)
  BY <1>8 DEF CountGate, FetchResults, SettleOne, LockSettled, Settled, Score, CheckSwitches,
              ReadHalts, Implausible, HaltedMidway, Refuse, Approve, CheckHeld, Route, Finish,
              RecordOk, RecordFailed, Record, CheckErrors, Unlock, ServerRelease
<1>9. QED
  BY <1>1, <1>2, <1>4, <1>5, <1>6, <1>7, <1>8 DEF Cycle

\* So is every step of the maintenance job, of the market and of people.
LEMMA OthersOpen ==
  ASSUME CycleInv, Maintenance \/ Finalize \/ HumanClears \/ GoLive
  PROVE  [OpenNext]_ledgerVars \/ CommitMarked
<1>0. job \in Job /\ (job.at # "idle" => job.sha \in Deploys)
      /\ job.count \in 0..MaxTrades /\ job.markets \subseteq Markets
  BY DEF CycleInv, Job
<1>2. CASE RetireSha
  BY <1>0, <1>2 DEF RetireSha, JobStep, RetireTrades, OpenNext
<1>3. CASE RetireMarketTrades
  BY <1>0, <1>3 DEF RetireMarketTrades, JobStep, RetireTrades, OpenNext
<1>4. CASE ResyncForJob
  BY <1>0, <1>4 DEF ResyncForJob, Resync, OpenNext
<1>5. CASE GoLive
  BY <1>5 DEF GoLive, FlipMode, OpenNext
<1>6. CASE PlanRetirement \/ CloseMarked \/ LockMarked \/ CountForJob \/ Finalize \/ HumanClears
  BY <1>6 DEF PlanRetirement, CloseMarked, LockMarked, CountForJob, Finalize, HumanClears
<1>7. QED
  BY <1>2, <1>3, <1>4, <1>5, <1>6 DEF Maintenance

\* A closing that commits is one the invariant speaks of.
LEMMA CommitsFollow ==
  ASSUME CycleInv
  PROVE  /\ \A r \in Runners : CommitSettled(r) =>
              \E c \in work[r].closing : /\ c.at = "locked" /\ CommitClose(c) /\ Follows(c)
                                         /\ c.finalize /\ c.yesExit \in {0, 100}
         /\ CommitMarked =>
              \E c \in job.closing : /\ c.at = "locked" /\ CommitClose(c) /\ Follows(c)
                                     /\ ~c.finalize /\ c.yesExit \in Marks
BY DEF CycleInv, ClosingInv, CommitSettled, CommitMarked

\* Every step of the system is a step of the ledger or leaves it alone.
LEMMA StepKeepsLedger ==
  ASSUME CycleInv, [Next]_vars
  PROVE  [LedgerNext]_ledgerVars
<1>1. CASE \E r \in Runners : Begin(r) \/ Raise(r) \/ Kill(r) \/ DropConnection(r)
  BY <1>1 DEF Begin, Raise, Kill, DropConnection
<1>2. CASE UNCHANGED vars
  BY <1>2 DEF vars
<1>3. CASE [OpenNext]_ledgerVars
  BY <1>3 DEF OpenNext, LedgerNext
<1>4. ASSUME NEW c, c.at = "locked", CommitClose(c), Follows(c),
             (c.finalize /\ c.yesExit \in {0, 100}) \/ (~c.finalize /\ c.yesExit \in Marks)
      PROVE  LedgerNext
  <2>1. ClosePosition(c.pos.market, c.yesExit, c.finalize) \/ CloseAgain
    BY <1>4, CommitIs DEF CycleInv
  <2>2. c.pos.market \in Markets /\ c.finalize \in BOOLEAN
    BY <1>4 DEF Follows, Close, PositionRow
  <2>3. CASE c.finalize
    <3>1. c.finalize = TRUE /\ c.yesExit \in {0, 100}
      BY <1>4, <2>2, <2>3
    <3>2. QED BY <2>1, <2>2, <3>1 DEF Settle, LedgerNext
  <2>4. CASE ~c.finalize
    <3>1. c.finalize = FALSE /\ c.yesExit \in Marks
      BY <1>4, <2>2, <2>4
    <3>2. QED BY <2>1, <2>2, <3>1 DEF CloseAtMark, LedgerNext
  <2>5. QED BY <2>3, <2>4
<1>5. CASE CommitMarked \/ \E r \in Runners : CommitSettled(r)
  BY <1>4, <1>5, CommitsFollow
<1>6. QED
  BY <1>1, <1>2, <1>3, <1>5, RunnerOpens, OthersOpen DEF Next

\* What steps outside a runner can do to the facts the runner relies on.
Quiet ==
  /\ \A m \in Markets : Open(m) = {} => Open(m)' = {}
  /\ Len(trades') = Len(trades)
  /\ delisted' = delisted
  /\ mode = "live" => mode' = "live"
  /\ \A t \in Pending : /\ t \in Pending'
                        /\ trades'[t].market = trades[t].market
                        /\ trades'[t].qty = trades[t].qty

\* A step that leaves the tables alone is quiet.
LEMMA UnchangedQuiet ==
  ASSUME UNCHANGED <<trades, positions, delisted>>, mode' = mode \/ mode' = "live"
  PROVE  Quiet
BY DEF Quiet, Open, Pending

\* A closing opens nothing, adds no row and settles no pending one.
LEMMA CommitQuiet ==
  ASSUME LedgerInv, NEW c, Follows(c), c.at = "locked", CommitClose(c)
  PROVE  /\ \A m \in Markets : Open(m) = {} => Open(m)' = {}
         /\ DOMAIN trades' = DOMAIN trades /\ Len(trades') = Len(trades)
         /\ \A t \in Pending : t \in Pending' /\ trades'[t] = trades[t]
         /\ \A t \in DOMAIN trades : /\ trades'[t].paper = trades[t].paper
                                     /\ trades'[t].legacy = trades[t].legacy
<1>0. LedgerTypeOK /\ c.last = Latest(Filled(c.pos.market))
  BY DEF LedgerInv, Follows
<1>1. \A m \in Markets : Open(m) = {} => Open(m)' = {}
  BY CommitKeeps DEF KeptOutside
<1>2. PICK exit, pnl :
        trades' = [t \in DOMAIN trades |->
                     IF t \in c.last THEN ClosedRow(trades[t], exit, pnl) ELSE trades[t]]
  BY DEF CommitClose, SettledRows
<1>3. \A t \in Pending : t \in DOMAIN trades /\ t \notin c.last
  BY <1>0 DEF Pending, Latest, Filled
<1>4. DOMAIN trades' = DOMAIN trades /\ Len(trades') = Len(trades)
  BY <1>0, <1>2 DEF LedgerTypeOK
<1>5. \A t \in Pending : t \in DOMAIN trades' /\ trades'[t] = trades[t]
  BY <1>2, <1>3
<1>6. \A t \in DOMAIN trades : trades[t] \in TradeRow
  BY <1>0, RowsTyped
<1>7. \A t \in DOMAIN trades : /\ ClosedRow(trades[t], exit, pnl).paper = trades[t].paper
                               /\ ClosedRow(trades[t], exit, pnl).legacy = trades[t].legacy
  BY <1>6 DEF ClosedRow, TradeRow
<1>8. QED
  BY <1>1, <1>2, <1>4, <1>5, <1>7 DEF Pending

\* Marking trades as legacy is quiet.
LEMMA RetireQuiet ==
  ASSUME LedgerTypeOK, RetireTrades
  PROVE  Quiet
<1>1. Len(trades') = Len(trades) /\ DOMAIN trades' = DOMAIN trades
  BY RetireEffect DEF LedgerTypeOK
<1>2. QED
  BY <1>1, RetireEffect DEF Quiet, Open, Pending

\* Every step of the maintenance job, of the market and of people is quiet.
LEMMA OthersQuiet ==
  ASSUME CycleInv, Maintenance \/ Finalize \/ HumanClears \/ GoLive
  PROVE  Quiet /\ UNCHANGED <<pc, work>>
<1>0. /\ LedgerTypeOK /\ job.marks \subseteq Markets \X Marks /\ job.markets \subseteq Markets
      /\ (job.at # "idle" => job.sha \in Deploys)
  BY DEF CycleInv, LedgerInv, Job
<1>1. CASE CommitMarked
  <2>1. PICK c \in job.closing : /\ c.at = "locked" /\ CommitClose(c) /\ Follows(c)
                                 /\ ~c.finalize
    BY <1>1, CommitsFollow
  <2>2. UNCHANGED <<pc, work>>
    BY <1>1 DEF CommitMarked, JobOnly
  <2>3. delisted' = delisted /\ mode' = mode
    BY <2>1 DEF CommitClose
  <2>4. LedgerInv
    BY DEF CycleInv
  <2>5. QED BY <2>1, <2>2, <2>3, <2>4, CommitQuiet DEF Quiet
<1>2. CASE RetireSha \/ RetireMarketTrades
  <2>1. RetireTrades
    BY <1>0, <1>2 DEF RetireSha, RetireMarketTrades, JobStep, RetireTrades
  <2>2. UNCHANGED <<pc, work>>
    BY <1>2 DEF RetireSha, RetireMarketTrades, JobOnly
  <2>3. QED BY <1>0, <2>1, <2>2, RetireQuiet
<1>3. CASE ResyncForJob \/ PlanRetirement \/ CloseMarked \/ LockMarked \/ CountForJob
           \/ Finalize \/ HumanClears \/ GoLive
  <2>1. UNCHANGED <<trades, positions, delisted, pc, work>> /\ (mode' = mode \/ mode' = "live")
    BY <1>3 DEF ResyncForJob, PlanRetirement, CloseMarked, LockMarked, CountForJob, Finalize,
                HumanClears, GoLive, SetMode,
                WriteGateCounter, JobOnly, ledgerVars, settings, cycleVars
  <2>2. QED BY <2>1, UnchangedQuiet
<1>4. QED
  BY <1>1, <1>2, <1>3 DEF Maintenance

\* A quiet step keeps what a runner relies on.
LEMMA QuietKeeps ==
  ASSUME CycleInv, Quiet, UNCHANGED <<pc, work>>, NEW r \in Runners
  PROVE  RunnerInv(r)'
<1>1. RunnerInv(r)
  BY DEF CycleInv
<1>2. work[r].opp \in Opportunity => work[r].opp.market \in Markets
  BY DEF Opportunity
<1>3. QED
  BY <1>1, <1>2 DEF RunnerInv, Quiet

\* Where a runner relies on facts of its own.
Trading == {"switches", "gate", "next", "held", "route", "paper", "order", "live", "sync"}

\* A runner's own step keeps its own facts.
LEMMA RunnerInvStep ==
  ASSUME CycleInv, NEW r \in Runners, Cycle(r)
  PROVE  RunnerInv(r)'
<1> USE DEF At, Goto
<1>0. /\ RunnerInv(r) /\ work[r] \in Work /\ LedgerTypeOK /\ Len(trades) <= MaxTrades
      /\ pc \in [Runners -> Locked \cup {"idle", "dead"}] /\ work \in [Runners -> Work]
  BY DEF CycleInv, LedgerInv, MutexInv
<1>1. CASE pc'[r] \notin Trading
  BY <1>1 DEF RunnerInv, Trading
<1>2. CASE MarkLegacy(r) \/ CountGate(r) \/ ResyncGate(r) \/ FetchResults(r) \/ SettleOne(r)
           \/ LockSettled(r) \/ CommitSettled(r)
           \/ SyncBankroll(r) \/ Finish(r) \/ RecordOk(r) \/ RecordFailed(r) \/ CheckErrors(r)
           \/ Unlock(r) \/ ServerRelease(r) \/ Implausible(r) \/ HaltedMidway(r)
  <2>1. pc'[r] \notin Trading
    BY <1>0, <1>2 DEF MarkLegacy, CountGate, ResyncGate, FetchResults, SettleOne, LockSettled,
                      CommitSettled, SyncBankroll,
                      Finish, RecordOk, RecordFailed, CheckErrors, Unlock, ServerRelease,
                      Implausible, HaltedMidway, HaltRest, Trading
  <2>2. QED BY <1>1, <2>1
<1>3. CASE Settled(r)
  <2>1. (pc'[r] = "score" \/ (mode = "live" /\ pc'[r] = "sync")) /\ mode' = mode
    BY <1>0, <1>3 DEF Settled, ledgerVars, settings
  <2>2. QED BY <2>1 DEF RunnerInv
<1>4. CASE Score(r)
  <2>1. PICK S \in SUBSET (Markets \ delisted) :
          /\ Keep(r, [work[r] EXCEPT !.todo = S,
                                     !.funnel = [EmptyFunnel EXCEPT !.qualifying = Cardinality(S)]])
          /\ pc' = [pc EXCEPT ![r] = IF S = {} THEN "recordOk" ELSE "switches"]
    BY <1>4 DEF Score
  <2>2. pc'[r] \in {"recordOk", "switches"} /\ work'[r].todo = S
    BY <1>0, <2>1 DEF Keep, Work
  <2>3. delisted' = delisted
    BY <1>4 DEF Score, ledgerVars
  <2>4. QED BY <2>2, <2>3 DEF RunnerInv
<1>5. CASE CheckSwitches(r)
  <2>1. pc'[r] = "gate" /\ work' = work /\ delisted' = delisted /\ pc[r] = "switches"
    BY <1>0, <1>5 DEF CheckSwitches, ledgerVars
  <2>2. QED BY <1>0, <2>1 DEF RunnerInv
<1>6. CASE ReadHalts(r)
  <2>1. pc'[r] = "recordOk" \/ (pc'[r] = "next" /\ work' = work)
    BY <1>0, <1>6 DEF ReadHalts, HaltRest
  <2>2. delisted' = delisted /\ pc[r] = "gate"
    BY <1>6 DEF ReadHalts, ledgerVars
  <2>3. QED BY <1>0, <2>1, <2>2 DEF RunnerInv
<1>7. CASE Refuse(r)
  <2>1. PICK m \in work[r].todo, why \in {"fee_refused", "risk_rejected"} :
          Keep(r, [work[r] EXCEPT !.todo = @ \ {m}, !.funnel[why] = @ + 1])
    BY <1>7 DEF Refuse
  <2>2. work'[r].todo = work[r].todo \ {m}
    BY <1>0, <2>1 DEF Keep, Work
  <2>3. pc[r] = "next" /\ pc' = pc /\ delisted' = delisted
    BY <1>7 DEF Refuse, ledgerVars
  <2>4. QED BY <1>0, <2>2, <2>3 DEF RunnerInv
<1>8. CASE Approve(r)
  <2>1. PICK m \in work[r].todo, s \in Sides, p \in Prices, q \in Quantities :
          Keep(r, [work[r] EXCEPT !.todo = @ \ {m},
                   !.opp = [market |-> m, side |-> s, price |-> p,
                            qty |-> IF mode = "live" /\ StageCap < q THEN StageCap ELSE q]])
    BY <1>8 DEF Approve
  <2>2. /\ work'[r].todo = work[r].todo \ {m}
        /\ work'[r].opp.market = m
    BY <1>0, <2>1 DEF Keep, Work
  <2>3. (IF mode = "live" /\ StageCap < q THEN StageCap ELSE q) \in Sizes
    BY LedgerAssumption, CycleAssumption DEF Sizes
  <2>4. m \in Markets
    BY <1>0, WorkFields
  <2>5. work'[r].opp \in Opportunity
    BY <1>0, <2>1, <2>3, <2>4 DEF Keep, Work, Opportunity
  <2>6. /\ pc[r] = "next" /\ pc'[r] = "held" /\ delisted' = delisted /\ trades' = trades
        /\ Len(trades) < MaxTrades
    BY <1>0, <1>8 DEF Approve, ledgerVars
  <2>7. QED BY <1>0, <2>2, <2>5, <2>6 DEF RunnerInv
<1>9. ASSUME NEW b \in Buckets, Done(r, b), delisted' = delisted,
             pc[r] \in {"held", "route", "paper", "live"}
      PROVE  RunnerInv(r)'
  <2>1. pc'[r] = "next" /\ work'[r].todo = work[r].todo
    BY <1>0, <1>9 DEF Done, Keep, Work
  <2>2. QED BY <1>0, <1>9, <2>1 DEF RunnerInv
<1>10. CASE CheckHeld(r)
  <2>1. /\ UNCHANGED <<positions, trades, delisted, mode>> /\ pc[r] = "held"
        /\ \A m \in Markets : Open(m)' = Open(m)
    BY <1>10 DEF CheckHeld, ledgerVars, settings, Open
  <2>2. \/ Done(r, "nothing")
        \/ Open(work[r].opp.market) = {} /\ pc'[r] = "route" /\ work' = work
    BY <1>0, <1>10 DEF CheckHeld
  <2>3. work[r].opp.market \in Markets
    BY <1>0, <2>1 DEF RunnerInv, Opportunity
  <2>4. CASE Done(r, "nothing")
    BY <1>9, <2>1, <2>4 DEF Buckets
  <2>5. CASE Open(work[r].opp.market) = {} /\ pc'[r] = "route" /\ work' = work
    BY <1>0, <2>1, <2>3, <2>5 DEF RunnerInv
  <2>6. QED BY <2>2, <2>4, <2>5
<1>11. CASE Route(r)
  <2>1. /\ UNCHANGED <<positions, trades, delisted, mode>> /\ pc[r] = "route"
        /\ \A m \in Markets : Open(m)' = Open(m)
    BY <1>11 DEF Route, ledgerVars, settings, Open
  <2>2. \/ Done(r, "nothing")
        \/ pc'[r] = (IF mode = "paper" \/ paperCount < GateTarget THEN "paper" ELSE "order")
           /\ work' = work
    BY <1>0, <1>11 DEF Route
  <2>3. work[r].opp.market \in Markets /\ (mode = "paper" \/ mode = "live")
    BY <1>0, <2>1 DEF RunnerInv, Opportunity, LedgerTypeOK
  <2>4. CASE Done(r, "nothing")
    BY <1>9, <2>1, <2>4 DEF Buckets
  <2>5. CASE pc'[r] = (IF mode = "paper" \/ paperCount < GateTarget THEN "paper" ELSE "order")
             /\ work' = work
    BY <1>0, <2>1, <2>3, <2>5 DEF RunnerInv
  <2>6. QED BY <2>2, <2>4, <2>5
<1>12. CASE PaperFill(r)
  <2>1. delisted' = delisted /\ pc[r] = "paper" /\ Done(r, "placed")
    BY <1>12 DEF PaperFill, RecordPaperFill
  <2>2. QED BY <1>9, <2>1 DEF Buckets
<1>13. CASE LiveOrder(r)
  <2>1. PICK d \in Shas :
          CreatePendingTrade(work[r].opp.market, work[r].opp.side, work[r].opp.price,
                             work[r].opp.qty, d)
    BY <1>13 DEF LiveOrder
  <2>2. work[r].opp \in Opportunity /\ pc[r] = "order"
    BY <1>0, <1>13 DEF LiveOrder, RunnerInv
  <2>3. PICK row \in TradeRow :
          /\ trades' = Append(trades, row)
          /\ row.market = work[r].opp.market /\ row.qty = work[r].opp.qty /\ row.status = "pending"
    <3>1. /\ work[r].opp.market \in Markets /\ work[r].opp.side \in Sides
          /\ work[r].opp.price \in Prices /\ work[r].opp.qty \in Nat
      BY <2>2, SizesAreNat DEF Opportunity
    <3>2. PICK m \in Markets, s \in Sides, p \in Prices, q \in Nat :
            m = work[r].opp.market /\ s = work[r].opp.side
            /\ p = work[r].opp.price /\ q = work[r].opp.qty
      BY <3>1
    <3>3. LET row == NewTrade(m, s, p, q, FALSE, "pending", 0, d)
          IN row \in TradeRow /\ row.market = m /\ row.status = "pending" /\ row.qty = q
      BY PendingRow DEF NewTrade
    <3>4. trades' = Append(trades, NewTrade(m, s, p, q, FALSE, "pending", 0, d))
      BY <2>1, <3>2 DEF CreatePendingTrade
    <3>5. QED BY <3>2, <3>3, <3>4
  <2>4. /\ Len(trades) + 1 \in DOMAIN trades' /\ trades'[Len(trades) + 1] = row
    BY <1>0, <2>3 DEF LedgerTypeOK
  <2>5. /\ work'[r].trade = Len(trades) + 1 /\ work'[r].opp = work[r].opp
        /\ work'[r].todo = work[r].todo
    BY <1>0, <1>13 DEF LiveOrder, Keep, Work
  <2>6. /\ positions' = positions /\ delisted' = delisted /\ pc'[r] = "live"
        /\ \A m \in Markets : Open(m)' = Open(m)
    BY <1>0, <1>13, <2>1 DEF LiveOrder, CreatePendingTrade, Open
  <2>7. Len(trades) + 1 \in Pending'
    BY <2>3, <2>4 DEF Pending
  <2>8. work[r].opp.market \in Markets
    BY <2>2 DEF Opportunity
  <2>9. QED BY <1>0, <2>2, <2>3, <2>4, <2>5, <2>6, <2>7, <2>8 DEF RunnerInv
<1>14. CASE LiveResult(r)
  <2>1. delisted' = delisted /\ pc[r] = "live" /\ Done(r, "placed")
    BY <1>14 DEF LiveResult, MarkTradeFilled, UpdateTradeStatus
  <2>2. QED BY <1>9, <2>1 DEF Buckets
<1>15. QED
  BY <1>2, <1>3, <1>4, <1>5, <1>6, <1>7, <1>8, <1>10, <1>11, <1>12, <1>13, <1>14 DEF Cycle

\* Only two steps of a runner add a row to the trade table.
LEMMA RowsAdded ==
  ASSUME LedgerTypeOK, NEW r \in Runners, work[r] \in Work, Cycle(r)
  PROVE  Len(trades') = Len(trades) \/ PaperFill(r) \/ LiveOrder(r)
<1>1. CASE MarkLegacy(r)
  BY <1>1, RetireQuiet DEF MarkLegacy, RetireTrades, Quiet
<1>2. CASE CommitSettled(r)
  <2>1. PICK last, exit, pnl : trades' = SettledRows(last, exit, pnl)
    BY <1>2 DEF CommitSettled, CommitClose
  <2>2. QED BY <2>1 DEF SettledRows, LedgerTypeOK
<1>3. CASE LiveResult(r)
  <2>1. \E t, row : trades' = [trades EXCEPT ![t] = row]
    BY <1>3 DEF LiveResult, MarkTradeFilled, UpdateTradeStatus
  <2>2. QED BY <2>1 DEF LedgerTypeOK
<1>4. CASE ResyncGate(r) \/ SyncBankroll(r)
  BY <1>4 DEF ResyncGate, WriteGateCounter, SyncBankroll, SyncLiveBankroll
<1>5. CASE CountGate(r) \/ FetchResults(r) \/ SettleOne(r) \/ LockSettled(r) \/ Settled(r)
           \/ Score(r) \/ CheckSwitches(r) \/ ReadHalts(r) \/ Implausible(r) \/ HaltedMidway(r)
           \/ Refuse(r) \/ Approve(r) \/ CheckHeld(r) \/ Route(r) \/ Finish(r) \/ RecordOk(r)
           \/ RecordFailed(r) \/ CheckErrors(r) \/ Unlock(r) \/ ServerRelease(r)
  BY <1>5 DEF CountGate, FetchResults, SettleOne, LockSettled, Settled, Score, CheckSwitches,
              ReadHalts, Implausible,
              HaltedMidway, Refuse, Approve, CheckHeld, Route, Finish, RecordOk, RecordFailed,
              Record, CheckErrors, Unlock, ServerRelease, ledgerVars
<1>6. QED
  BY <1>1, <1>2, <1>3, <1>4, <1>5 DEF Cycle

\* Both had looked at the table first.
LEMMA RowsBounded ==
  ASSUME CycleInv, NEW r \in Runners, Cycle(r)
  PROVE  Len(trades') <= MaxTrades
<1>0. /\ RunnerInv(r) /\ work[r] \in Work /\ LedgerTypeOK /\ Len(trades) <= MaxTrades
      /\ Len(trades) \in Nat
  BY DEF CycleInv, LedgerInv, LedgerTypeOK
<1>1. CASE PaperFill(r) \/ LiveOrder(r)
  <2>1. Len(trades) < MaxTrades
    BY <1>0, <1>1 DEF RunnerInv, PaperFill, LiveOrder, At
  <2>2. \E row : trades' = Append(trades, row)
    BY <1>1 DEF PaperFill, LiveOrder, RecordPaperFill, CreatePendingTrade
  <2>3. Len(trades') = Len(trades) + 1
    BY <1>0, <2>2 DEF LedgerTypeOK
  <2>4. QED BY <1>0, <2>1, <2>3, LedgerAssumption
<1>2. QED
  BY <1>0, <1>1, RowsAdded

\* The maintenance job's variables stay typed.
LEMMA JobTyped ==
  ASSUME CycleInv, Maintenance
  PROVE  job' \in Job /\ (job'.at # "idle" => job'.sha \in Deploys)
<1>0. /\ job \in Job /\ (job.at # "idle" => job.sha \in Deploys)
      /\ LedgerTypeOK /\ Len(trades) <= MaxTrades
  BY DEF CycleInv, LedgerInv
<1>1. CASE PlanRetirement
  <2>1. PICK d \in Deploys, priced \in SUBSET Markets, mark \in [Markets -> Marks] :
          LET matched == {trades[t].market : t \in {u \in DOMAIN trades : trades[u].sha = d}}
          IN job' = [NoJob EXCEPT
                       !.at = "close", !.sha = d, !.markets = matched,
                       !.marks = {<<m, mark[m]>> : m \in matched \cap OpenMarkets \cap priced}]
    BY <1>1 DEF PlanRetirement
  <2>2. {trades[t].market : t \in {u \in DOMAIN trades : trades[u].sha = d}} \subseteq Markets
    BY <1>0, RowsTyped DEF TradeRow
  <2>3. PICK matched \in SUBSET Markets, marks \in SUBSET (Markets \X Marks) :
          job' = [NoJob EXCEPT !.at = "close", !.sha = d, !.markets = matched, !.marks = marks]
    <3>1. PICK matched \in SUBSET Markets :
            matched = {trades[t].market : t \in {u \in DOMAIN trades : trades[u].sha = d}}
      BY <2>2
    <3>2. {<<m, mark[m]>> : m \in matched \cap OpenMarkets \cap priced} \subseteq Markets \X Marks
      OBVIOUS
    <3>3. PICK marks \in SUBSET (Markets \X Marks) :
            marks = {<<m, mark[m]>> : m \in matched \cap OpenMarkets \cap priced}
      BY <3>2
    <3>4. job' = [NoJob EXCEPT !.at = "close", !.sha = d, !.markets = matched, !.marks = marks]
      BY <2>1, <3>1, <3>3
    <3>5. QED BY <3>4
  <2>4. job' = [at |-> "close", sha |-> d, markets |-> matched, marks |-> marks, count |-> 0,
                closing |-> {}]
    BY <2>3 DEF NoJob
  <2>5. QED BY <2>4, LedgerAssumption DEF Job, Deploys
<1>2. ASSUME NEW S \in SUBSET (Markets \X Marks), NEW C \in SUBSET Close, job.at # "idle",
             \/ job' = [job EXCEPT !.marks = S]
             \/ job' = [job EXCEPT !.closing = C]
             \/ job' = [job EXCEPT !.marks = S, !.closing = C]
      PROVE  job' \in Job /\ (job'.at # "idle" => job'.sha \in Deploys)
  BY <1>0, <1>2 DEF Job
<1>7. CASE CloseMarked
  <2>1. PICK k \in job.marks :
          \/ job' = [job EXCEPT !.marks = @ \ {k}]
          \/ \E i \in Open(k[1]) :
               job' = [job EXCEPT !.marks = @ \ {k}, !.closing = {SeeOpen(i, k[2], FALSE)}]
    BY <1>7 DEF CloseMarked
  <2>2. PICK S \in SUBSET (Markets \X Marks) : S = job.marks \ {k}
    BY <1>0 DEF Job
  <2>3. k[1] \in Markets /\ k[2] \in 0..100
    BY <1>0, LedgerAssumption DEF Job
  <2>4. ASSUME NEW i \in Open(k[1]) PROVE {SeeOpen(i, k[2], FALSE)} \in SUBSET Close
    <3>1. PICK c : c = SeeOpen(i, k[2], FALSE)
      OBVIOUS
    <3>2. Follows(c)
      BY <1>0, <2>3, <3>1, SeenFollows
    <3>3. QED BY <3>1, <3>2 DEF Follows
  <2>5. job.at # "idle" /\ {} \in SUBSET Close
    BY <1>7 DEF CloseMarked
  <2>6. CASE job' = [job EXCEPT !.marks = @ \ {k}]
    BY <1>2, <2>2, <2>5, <2>6
  <2>7. ASSUME NEW i \in Open(k[1]),
               job' = [job EXCEPT !.marks = @ \ {k}, !.closing = {SeeOpen(i, k[2], FALSE)}]
        PROVE  job' \in Job /\ (job'.at # "idle" => job'.sha \in Deploys)
    BY <1>2, <2>2, <2>4, <2>5, <2>7
  <2>8. QED BY <2>1, <2>6, <2>7
<1>8. CASE LockMarked
  <2>1. PICK c \in job.closing : \E d \in GetsLock(c) : job' = [job EXCEPT !.closing = {d}]
    BY <1>8 DEF LockMarked
  <2>2. PICK pnl \in PnLs(c.pos, c.yesExit) : job' = [job EXCEPT !.closing = {LockedClose(c, pnl)}]
    BY <2>1 DEF GetsLock
  <2>3. PICK d : d = LockedClose(c, pnl)
    OBVIOUS
  <2>4. Follows(c)
    BY DEF CycleInv, ClosingInv
  <2>5. {d} \in SUBSET Close /\ job.marks \in SUBSET (Markets \X Marks) /\ job.at # "idle"
    <3>1. Follows(d)
      BY <1>0, <2>3, <2>4, LockedFollows
    <3>2. QED BY <1>0, <1>8, <3>1 DEF Follows, LockMarked, Job
  <2>6. QED BY <1>2, <2>2, <2>3, <2>5
<1>9. CASE CommitMarked
  <2>1. {} \in SUBSET Close /\ job.marks \in SUBSET (Markets \X Marks) /\ job.at # "idle"
    BY <1>0, <1>9 DEF CommitMarked, Job
  <2>2. QED BY <1>2, <1>9, <2>1 DEF CommitMarked
<1>3. CASE RetireSha \/ RetireMarketTrades
  BY <1>0, <1>3 DEF RetireSha, RetireMarketTrades, JobStep, Job
<1>4. CASE CountForJob
  BY <1>0, <1>4, GateRowsBounded DEF CountForJob, Job
<1>5. CASE ResyncForJob
  BY <1>5, LedgerAssumption DEF ResyncForJob, NoJob, Job
<1>6. QED
  BY <1>1, <1>3, <1>4, <1>5, <1>7, <1>8, <1>9 DEF Maintenance

\* While one runner moves, every other is idle before and after.
LEMMA OthersIdle ==
  ASSUME MutexInv, NEW r \in Runners, NEW k \in Runners, k # r,
         Begin(r) \/ Cycle(r) \/ Raise(r) \/ Kill(r)
  PROVE  pc[k] = "idle" /\ pc'[k] = "idle"
<1>1. pc' = pc \/ \E to : pc' = [pc EXCEPT ![r] = to]
  BY CycleAdvances DEF Begin, Kill, Advances, Unlock, ServerRelease, Goto
<1>2. lock = NoRunner \/ lock = r
  BY CycleAdvances DEF Begin, Kill, Advances, Unlock, ServerRelease, At, MutexInv, Locked, Body
<1>3. pc[k] = "idle"
  BY <1>2, CycleAssumption DEF MutexInv
<1>4. QED
  BY <1>1, <1>3 DEF MutexInv

\* Nor does a runner touch the maintenance job.
LEMMA RunnerLeavesJob ==
  ASSUME NEW r \in Runners, Begin(r) \/ Cycle(r) \/ Raise(r) \/ Kill(r)
  PROVE  UNCHANGED <<outcome, job>>
BY DEF Begin, Raise, Kill, Cycle, MarkLegacy, CountGate, ResyncGate, FetchResults, SettleOne,
       LockSettled, CommitSettled, Settled, SyncBankroll, Score, CheckSwitches, ReadHalts,
       Implausible, HaltedMidway, Refuse, Approve, CheckHeld, Route, PaperFill, LiveOrder,
       LiveResult, Finish, RecordOk, RecordFailed, Record, CheckErrors, Unlock, ServerRelease

\* A runner's step outside the settlement leaves its closing alone or drops it.
LEMMA ClosingLeft ==
  ASSUME CycleInv, NEW r \in Runners, Begin(r) \/ Cycle(r) \/ Raise(r) \/ Kill(r),
         ~SettleOne(r), ~LockSettled(r), ~CommitSettled(r)
  PROVE  \A k \in Runners : work'[k].closing = {}
<1> USE DEF At, Keep
<1>0. /\ work \in [Runners -> Work] /\ work[r] \in Work
      /\ pc[r] # "settle" => work[r].closing = {}
  BY DEF CycleInv, ClosingInv
<1>1. work'[r].closing = {} /\ \A k \in Runners : k # r => work'[k] = work[k]
  <2>1. CASE Unlock(r) \/ Kill(r) \/ Raise(r)
    BY <1>0, <2>1 DEF Unlock, Kill, Raise, NoWork, Work
  <2>2. CASE Settled(r)
    BY <1>0, <2>2 DEF Settled
  <2>3. CASE MarkLegacy(r) \/ ResyncGate(r) \/ SyncBankroll(r) \/ CheckSwitches(r) \/ Finish(r)
             \/ RecordOk(r) \/ RecordFailed(r) \/ CheckErrors(r) \/ ServerRelease(r) \/ Begin(r)
    BY <1>0, <2>3 DEF MarkLegacy, ResyncGate, SyncBankroll, CheckSwitches, Finish, RecordOk,
                      RecordFailed, Record, CheckErrors, ServerRelease, Begin
  <2>4. CASE CountGate(r) \/ FetchResults(r) \/ LiveOrder(r)
    <3>1. /\ pc[r] # "settle"
          /\ \/ \E x : work' = [work EXCEPT ![r] = [work[r] EXCEPT !.results = x]]
             \/ \E x : work' = [work EXCEPT ![r] = [work[r] EXCEPT !.count = x]]
             \/ \E x : work' = [work EXCEPT ![r] = [work[r] EXCEPT !.trade = x]]
      BY <2>4 DEF CountGate, FetchResults, LiveOrder
    <3>2. QED BY <1>0, <3>1 DEF Work
  <2>5. CASE Score(r)
    <3>1. /\ pc[r] # "settle"
          /\ \E S, f : work' = [work EXCEPT ![r] = [work[r] EXCEPT !.todo = S, !.funnel = f]]
      BY <2>5 DEF Score
    <3>2. QED BY <1>0, <3>1 DEF Work
  <2>6. ASSUME HaltRest(r), pc[r] # "settle"
        PROVE  work'[r].closing = {} /\ \A k \in Runners : k # r => work'[k] = work[k]
    BY <1>0, <2>6 DEF HaltRest, Work
  <2>7. CASE ReadHalts(r) \/ Implausible(r) \/ HaltedMidway(r)
    <3>1. pc[r] # "settle" /\ (HaltRest(r) \/ work' = work)
      BY <2>7 DEF ReadHalts, Implausible, HaltedMidway
    <3>2. QED BY <1>0, <2>6, <3>1
  <2>8. CASE Refuse(r)
    <3>1. /\ pc[r] # "settle"
          /\ \E m, why : work' = [work EXCEPT ![r] =
                                    [work[r] EXCEPT !.todo = @ \ {m}, !.funnel[why] = @ + 1]]
      BY <2>8 DEF Refuse
    <3>2. QED BY <1>0, <3>1 DEF Work
  <2>9. CASE Approve(r)
    <3>1. /\ pc[r] # "settle"
          /\ \E m, o : work' = [work EXCEPT ![r] = [work[r] EXCEPT !.todo = @ \ {m}, !.opp = o]]
      BY <2>9 DEF Approve
    <3>2. QED BY <1>0, <3>1 DEF Work
  <2>10. CASE CheckHeld(r) \/ Route(r) \/ PaperFill(r) \/ LiveResult(r)
    <3>1. pc[r] # "settle"
      BY <2>10 DEF CheckHeld, Route, PaperFill, LiveResult
    <3>2. CASE work' = work
      BY <1>0, <3>1, <3>2
    <3>3. ASSUME NEW b, Done(r, b)
          PROVE  work'[r].closing = {} /\ \A k \in Runners : k # r => work'[k] = work[k]
      BY <1>0, <3>1, <3>3 DEF Done, Work
    <3>4. work' = work \/ Done(r, "nothing") \/ Done(r, "placed")
      BY <2>10 DEF CheckHeld, Route, PaperFill, LiveResult
    <3>5. QED BY <3>2, <3>3, <3>4
  <2>11. QED
    BY <2>1, <2>2, <2>3, <2>4, <2>5, <2>7, <2>8, <2>9, <2>10 DEF Cycle
<1>2. \A k \in Runners : k # r => work[k].closing = {}
  <2>1. \A k \in Runners : k # r => pc[k] = "idle"
    BY OthersIdle DEF CycleInv
  <2>2. QED BY <2>1 DEF CycleInv, ClosingInv
<1>3. QED
  BY <1>1, <1>2

\* The markets a runner's step enters are neither held nor finalized.
LEMMA RunnerKeepsBook ==
  ASSUME CycleInv, NEW r \in Runners, Begin(r) \/ Cycle(r) \/ Raise(r) \/ Kill(r),
         ~CommitSettled(r)
  PROVE  /\ delisted' = delisted
         /\ \E S \in SUBSET Markets :
              /\ KeptOutside(S)
              /\ \A m \in S : Open(m) = {} /\ m \notin delisted
<1> USE DEF At
<1>0. LedgerTypeOK /\ RunnerInv(r)
  BY DEF CycleInv, LedgerInv
<1>1. CASE MarkLegacy(r)
  <2>1. RetireTrades /\ delisted' = delisted
    BY <1>1 DEF MarkLegacy, RetireTrades, MarkLegacyTrades, Retire
  <2>2. QED BY <1>0, <2>1, RetireKept
<1>2. CASE ResyncGate(r) \/ SyncBankroll(r)
  <2>1. UNCHANGED <<trades, positions, delisted>>
    BY <1>2 DEF ResyncGate, WriteGateCounter, SyncBankroll, SyncLiveBankroll
  <2>2. QED BY <2>1, TablesKept
<1>3. CASE PaperFill(r)
  <2>1. PICK o \in Opportunity : /\ o = work[r].opp /\ Open(o.market) = {}
                                /\ o.market \notin delisted
    BY <1>0, <1>3 DEF PaperFill, RunnerInv
  <2>2. PICK rate \in Rates, d \in Shas :
          RecordPaperFill(o.market, o.side, o.price, o.qty, rate, d)
    BY <1>3, <2>1 DEF PaperFill
  <2>3. /\ o.market \in Markets /\ o.side \in Sides /\ o.price \in Prices /\ o.qty \in Nat
        /\ rate \in Nat /\ delisted' = delisted
    BY <2>2, SizesAreNat, LedgerAssumption DEF Opportunity, RecordPaperFill
  <2>4. KeptOutside({o.market})
    BY <1>0, <2>1, <2>2, <2>3, PaperFillKept
  <2>5. QED BY <2>1, <2>3, <2>4
<1>4. CASE LiveOrder(r)
  <2>1. PICK o \in Opportunity : o = work[r].opp
    BY <1>0, <1>4 DEF LiveOrder, RunnerInv
  <2>2. PICK d \in Shas : CreatePendingTrade(o.market, o.side, o.price, o.qty, d)
    BY <1>4, <2>1 DEF LiveOrder
  <2>3. /\ o.market \in Markets /\ o.side \in Sides /\ o.price \in Prices /\ o.qty \in Nat
        /\ delisted' = delisted
    BY <2>2, SizesAreNat DEF Opportunity, CreatePendingTrade
  <2>4. KeptOutside({})
    BY <1>0, <2>2, <2>3, PendingKept
  <2>5. QED BY <2>3, <2>4
<1>5. CASE LiveResult(r)
  <2>1. PICK t \in Pending : /\ t = work[r].trade
                             /\ trades[t].market = work[r].opp.market
                             /\ trades[t].qty = work[r].opp.qty
                             /\ Open(trades[t].market) = {} /\ trades[t].market \notin delisted
    BY <1>0, <1>5 DEF LiveResult, RunnerInv
  <2>2. trades[t] \in TradeRow
    BY <1>0, <2>1, RowsTyped DEF Pending
  <2>3. CASE \E q \in 1..work[r].opp.qty : \E fee \in LiveFees(t, q) : MarkTradeFilled(t, q, fee)
    <3>1. PICK q \in 1..trades[t].qty : \E fee \in LiveFees(t, q) : MarkTradeFilled(t, q, fee)
      BY <2>1, <2>3
    <3>2. PICK fee \in LiveFees(t, q) : MarkTradeFilled(t, q, fee)
      BY <3>1
    <3>3. q \in Nat /\ trades[t].market \in Markets /\ delisted' = delisted
      BY <2>2, <3>1, <3>2 DEF TradeRow, MarkTradeFilled
    <3>4. fee \in Nat
      <4>1. t \in DOMAIN trades
        BY DEF Pending
      <4>2. LiveFees(t, q) \subseteq Nat
        BY <1>0, <3>3, <4>1, LiveFeesAreNat
      <4>3. QED BY <3>2, <4>2
    <3>5. KeptOutside({trades[t].market})
      BY <1>0, <2>1, <3>2, <3>3, <3>4, FilledKept
    <3>6. QED BY <2>1, <3>3, <3>5
  <2>4. CASE \E status \in {"cancelled", "error"} : UpdateTradeStatus(t, status)
    <3>1. PICK status \in {"cancelled", "error"} : UpdateTradeStatus(t, status)
      BY <2>4
    <3>2. KeptOutside({}) /\ delisted' = delisted
      BY <1>0, <3>1, StatusKept DEF UpdateTradeStatus
    <3>3. QED BY <3>2
  <2>5. QED BY <1>5, <2>1, <2>3, <2>4 DEF LiveResult
<1>6. CASE CountGate(r) \/ FetchResults(r) \/ SettleOne(r) \/ LockSettled(r) \/ Settled(r)
           \/ Score(r) \/ CheckSwitches(r) \/ ReadHalts(r) \/ Implausible(r) \/ HaltedMidway(r)
           \/ Refuse(r) \/ Approve(r) \/ CheckHeld(r) \/ Route(r) \/ Finish(r) \/ RecordOk(r)
           \/ RecordFailed(r) \/ CheckErrors(r) \/ Unlock(r) \/ ServerRelease(r) \/ Begin(r)
           \/ Raise(r) \/ Kill(r)
  <2>1. UNCHANGED <<trades, positions, delisted>>
    BY <1>6 DEF CountGate, FetchResults, SettleOne, LockSettled, Settled, Score, CheckSwitches,
                ReadHalts, Implausible, HaltedMidway, Refuse, Approve, CheckHeld, Route, Finish,
                RecordOk, RecordFailed, Record, CheckErrors, Unlock, ServerRelease, Begin, Raise,
                Kill, ledgerVars
  <2>2. QED BY <2>1, TablesKept
<1>7. QED
  BY <1>1, <1>2, <1>3, <1>4, <1>5, <1>6 DEF Cycle

\* The closings under way outlast a step that enters such markets alone.
LEMMA ClosingsKept ==
  ASSUME CycleInv, delisted' = delisted, NEW S \in SUBSET Markets, KeptOutside(S),
         \A m \in S : Open(m) = {} /\ m \notin delisted
  PROVE  /\ \A d \in job.closing : /\ Follows(d)'
                                   /\ positions'[d.row].open \/ d.pos.market \in delisted'
         /\ \A m \in delisted' : Open(m)' = {}
         /\ S = {} => \A r \in Runners : \A c \in work[r].closing : Follows(c)'
<1>0. LedgerTypeOK /\ delisted \subseteq Markets
  BY DEF CycleInv, LedgerInv, LedgerTypeOK
<1>1. ASSUME NEW d \in job.closing
      PROVE  /\ Follows(d)'
             /\ positions'[d.row].open \/ d.pos.market \in delisted'
  <2>1. Follows(d) /\ (positions[d.row].open \/ d.pos.market \in delisted)
    BY DEF CycleInv, ClosingInv
  <2>2. d.pos \in PositionRow /\ d.row \in DOMAIN positions
    BY <2>1 DEF Follows, Close
  <2>3. d.pos.market \notin S
    <3>1. CASE d.pos.market \in delisted
      BY <3>1
    <3>2. CASE positions[d.row].open
      <4>1. d.row \in Open(d.pos.market)
        BY <2>1, <2>2, <3>2 DEF Follows, Open, PositionRow
      <4>2. QED BY <4>1
    <3>3. QED BY <2>1, <3>1, <3>2
  <2>4. Follows(d)' /\ positions'[d.row] = positions[d.row]
    BY <1>0, <2>1, <2>3, FollowsKept
  <2>5. QED BY <2>1, <2>4
<1>2. \A m \in delisted' : Open(m)' = {}
  BY <1>0 DEF KeptOutside, CycleInv, ClosingInv
<1>3. ASSUME S = {}, NEW r \in Runners, NEW c \in work[r].closing PROVE Follows(c)'
  <2>1. Follows(c)
    BY DEF CycleInv, ClosingInv
  <2>2. QED BY <1>0, <1>3, <2>1, FollowsKept
<1>4. QED
  BY <1>1, <1>2, <1>3

\* The closings under way outlast the commit of another one.
LEMMA ClosingsOutlast ==
  ASSUME CycleInv, NEW c, Follows(c), c.at = "locked", CommitClose(c),
         NEW d, Follows(d), ~(d.at = "locked" /\ d.row = c.row),
         positions[d.row].open \/ d.pos.market \in delisted,
         c.finalize \/ d.pos.market # c.pos.market
  PROVE  positions'[d.row].open \/ d.pos.market \in delisted'
<1>0. LedgerInv /\ LedgerTypeOK
  BY DEF CycleInv, LedgerInv
<1>1. delisted' = IF c.finalize THEN delisted \cup {c.pos.market} ELSE delisted
  BY DEF CommitClose
<1>2. CASE d.pos.market = c.pos.market
  BY <1>1, <1>2
<1>3. CASE d.pos.market # c.pos.market
  BY <1>0, <1>1, <1>3, OtherFollows
<1>4. QED
  BY <1>2, <1>3

\* A delisted market has no open position after the commit of a closing.
LEMMA DelistedOutlast ==
  ASSUME CycleInv, NEW c, Follows(c), c.at = "locked", CommitClose(c)
  PROVE  \A m \in delisted' : Open(m)' = {}
<1>1. LedgerInv /\ LedgerTypeOK /\ delisted \subseteq Markets
  BY DEF CycleInv, LedgerInv, LedgerTypeOK
<1>2. KeptOutside({c.pos.market}) /\ Open(c.pos.market)' = {}
  BY <1>1, CommitKeeps
<1>3. delisted' = IF c.finalize THEN delisted \cup {c.pos.market} ELSE delisted
  BY DEF CommitClose
<1>4. \A m \in delisted : Open(m) = {}
  BY DEF CycleInv, ClosingInv
<1>5. ASSUME NEW m \in delisted', m # c.pos.market PROVE Open(m)' = {}
  <2>1. m \in delisted
    BY <1>3, <1>5
  <2>2. QED BY <1>1, <1>2, <1>4, <1>5, <2>1 DEF KeptOutside
<1>6. QED
  BY <1>2, <1>5

\* Every step keeps what is known of the closings under way.
LEMMA ClosingInvStep ==
  ASSUME "drop" \notin Env, CycleInv, [Next]_vars, work' \in [Runners -> Work], job' \in Job
  PROVE  ClosingInv'
<1> USE DEF At
<1>0. /\ LedgerInv /\ LedgerTypeOK /\ ClosingInv /\ work \in [Runners -> Work] /\ job \in Job
      /\ outcome \in [Markets -> Sides \cup {"none"}]
      /\ pc \in [Runners -> Locked \cup {"idle", "dead"}]
  BY DEF CycleInv, LedgerInv, MutexInv
<1>1. ASSUME NEW r \in Runners, Begin(r) \/ Cycle(r) \/ Raise(r) \/ Kill(r),
             ~SettleOne(r), ~LockSettled(r), ~CommitSettled(r)
      PROVE  ClosingInv'
  <2>1. \A k \in Runners : work'[k].closing = {}
    BY <1>1, ClosingLeft
  <2>2. /\ delisted' = delisted
        /\ \E S \in SUBSET Markets : /\ KeptOutside(S)
                                     /\ \A m \in S : Open(m) = {} /\ m \notin delisted
    BY <1>1, RunnerKeepsBook
  <2>3. job' = job
    BY <1>1, RunnerLeavesJob
  <2>4. /\ \A d \in job.closing : /\ Follows(d)'
                                  /\ (positions'[d.row].open \/ d.pos.market \in delisted')
        /\ \A m \in delisted' : Open(m)' = {}
    <3>1. PICK S \in SUBSET Markets : /\ KeptOutside(S)
                                      /\ \A m \in S : Open(m) = {} /\ m \notin delisted
      BY <2>2
    <3>2. QED BY <2>2, <3>1, ClosingsKept
  <2>5. \A d \in job.closing : ~d.finalize /\ d.yesExit \in Marks
    BY <1>0 DEF ClosingInv
  <2>6. QED BY <2>1, <2>3, <2>4, <2>5 DEF ClosingInv
<1>2. ASSUME UNCHANGED <<trades, positions, delisted>>
      PROVE  /\ \A d \in job.closing : /\ Follows(d)'
                                       /\ positions'[d.row].open \/ d.pos.market \in delisted'
             /\ \A m \in delisted' : Open(m)' = {}
             /\ \A r \in Runners : \A c \in work[r].closing : Follows(c)'
             /\ \A c : Follows(c) => Follows(c)'
  <2>1. KeptOutside({})
    BY <1>2, TablesKept
  <2>2. \A c : Follows(c) => Follows(c)'
    BY <1>0, <2>1, FollowsKept
  <2>3. PICK S \in SUBSET Markets : S = {}
    OBVIOUS
  <2>4. KeptOutside(S) /\ delisted' = delisted
    BY <1>2, <2>1, <2>3
  <2>5. \A m \in S : Open(m) = {} /\ m \notin delisted
    BY <2>3
  <2>6. QED BY <2>2, <2>3, <2>4, <2>5, ClosingsKept
<1>3. ASSUME NEW r \in Runners, SettleOne(r) \/ LockSettled(r)
      PROVE  ClosingInv'
  <2>1. UNCHANGED <<trades, positions, delisted, pc, job>> /\ pc[r] = "settle"
    BY <1>3 DEF SettleOne, LockSettled, ledgerVars
  <2>2. \A k \in Runners : k # r => work'[k] = work[k] /\ work[k].closing = {}
    <3>1. \A k \in Runners : k # r => pc[k] = "idle"
      BY <1>3, OthersIdle DEF CycleInv, Cycle
    <3>2. PICK w : Keep(r, w)
      BY <1>3 DEF SettleOne, LockSettled
    <3>3. \A k \in Runners : k # r => work'[k] = work[k]
      BY <1>0, <3>2 DEF Keep
    <3>4. QED BY <1>0, <3>1, <3>3 DEF ClosingInv
  <2>3. ASSUME NEW c \in work'[r].closing
        PROVE  /\ Follows(c) /\ c.finalize /\ c.yesExit \in {0, 100}
               /\ \A d \in job.closing : ~(c.at = "locked" /\ d.at = "locked" /\ c.row = d.row)
    <3>1. CASE SettleOne(r)
      <4>1. PICK m \in work[r].results :
              \/ /\ work[r].closing = {}
                 /\ Keep(r, [work[r] EXCEPT !.results = @ \ {m}])
              \/ \E i \in Open(m) :
                   Keep(r, [work[r] EXCEPT !.results = @ \ {m},
                                           !.closing = {SeeOpen(i, ResolvedAt(m), TRUE)}])
        BY <3>1 DEF SettleOne
      <4>2. m \in Markets /\ ResolvedAt(m) \in {0, 100}
        BY <1>0, WorkFields DEF ResolvedAt
      <4>3. work[r] \in Work
        BY <1>0
      <4>4. PICK i \in Open(m) : c = SeeOpen(i, ResolvedAt(m), TRUE)
        <5>1. PICK R : R = work[r].results \ {m}
          OBVIOUS
        <5>2. ~(work[r].closing = {} /\ Keep(r, [work[r] EXCEPT !.results = R]))
          <6>1. ASSUME work[r].closing = {}, Keep(r, [work[r] EXCEPT !.results = R])
                PROVE  FALSE
            <7>1. work'[r] = [work[r] EXCEPT !.results = R]
              BY <1>0, <6>1 DEF Keep
            <7>2. work'[r].closing = work[r].closing
              BY <4>3, <7>1 DEF Work
            <7>3. QED BY <6>1, <7>2
          <6>2. QED BY <6>1
        <5>3. PICK i \in Open(m) :
                Keep(r, [work[r] EXCEPT !.results = R, !.closing = {SeeOpen(i, ResolvedAt(m),
                TRUE)}])
          BY <4>1, <5>1, <5>2
        <5>4. work'[r].closing = {SeeOpen(i, ResolvedAt(m), TRUE)}
          BY <1>0, <4>3, <5>3 DEF Keep, Work
        <5>5. QED BY <5>4
      <4>5. PICK x \in 0..100 : x = ResolvedAt(m)
        BY <4>2
      <4>6. Follows(c) /\ c.at = "seen" /\ c.finalize /\ c.yesExit = x
        <5>1. Follows(c)
          BY <1>0, <4>2, <4>4, <4>5, SeenFollows
        <5>2. QED BY <4>4, <4>5, <5>1 DEF SeeOpen
      <4>7. QED BY <4>2, <4>5, <4>6
    <3>2. CASE LockSettled(r)
      <4>1. PICK b \in work[r].closing : \E d \in GetsLock(b) : Keep(r, [work[r] EXCEPT !.closing = {d}])
        BY <3>2 DEF LockSettled
      <4>2. PICK d \in GetsLock(b) : Keep(r, [work[r] EXCEPT !.closing = {d}])
        BY <4>1
      <4>3. c = d
        BY <1>0, <4>2 DEF Keep, Work
      <4>4. PICK pnl \in PnLs(b.pos, b.yesExit) : c = LockedClose(b, pnl) /\ b.row \notin LockedRows
        BY <4>2, <4>3 DEF GetsLock
      <4>5. Follows(b) /\ b.finalize /\ b.yesExit \in {0, 100}
        BY <1>0 DEF ClosingInv
      <4>6. Follows(c) /\ c.row = b.row /\ c.yesExit = b.yesExit /\ c.finalize = b.finalize
        <5>1. Follows(c)
          BY <1>0, <4>4, <4>5, LockedFollows
        <5>2. b \in Close
          BY <4>5 DEF Follows
        <5>3. QED BY <4>4, <5>1, <5>2, LockedFields
      <4>7. \A e \in job.closing : e.at = "locked" => e.row # b.row
        BY <4>4 DEF LockedRows
      <4>8. QED BY <4>5, <4>6, <4>7
    <3>3. QED BY <1>3, <3>1, <3>2
  <2>4. \A c \in work'[r].closing : Follows(c)'
    BY <1>2, <2>1, <2>3
  <2>5. \A d \in job.closing : ~d.finalize /\ d.yesExit \in Marks
    BY <1>0 DEF ClosingInv
  <2>6. QED BY <1>2, <2>1, <2>2, <2>3, <2>4, <2>5 DEF ClosingInv
<1>4. ASSUME NEW r \in Runners, CommitSettled(r)
      PROVE  ClosingInv'
  <2>1. PICK c \in work[r].closing : c.at = "locked" /\ CommitClose(c) /\ Follows(c) /\ c.finalize
    BY <1>4, CommitsFollow
  <2>2. job' = job /\ work'[r].closing = {}
    BY <1>0, <1>4 DEF CommitSettled, Keep, Work
  <2>3. \A k \in Runners : k # r => work'[k] = work[k] /\ work[k].closing = {}
    <3>1. \A k \in Runners : k # r => pc[k] = "idle"
      BY <1>4, OthersIdle DEF CycleInv, Cycle
    <3>2. QED BY <1>0, <1>4, <3>1 DEF ClosingInv, CommitSettled, Keep
  <2>4. ASSUME NEW d \in job.closing
        PROVE  Follows(d)' /\ (positions'[d.row].open \/ d.pos.market \in delisted')
    <3>1. /\ Follows(d) /\ ~(d.at = "locked" /\ d.row = c.row)
          /\ positions[d.row].open \/ d.pos.market \in delisted
      BY <1>0, <2>1 DEF ClosingInv
    <3>2. Follows(d)'
      BY <1>0, <2>1, <3>1, OtherFollows
    <3>3. QED BY <2>1, <3>1, <3>2, ClosingsOutlast
  <2>5. \A m \in delisted' : Open(m)' = {}
    BY <2>1, DelistedOutlast
  <2>6. \A d \in job.closing : ~d.finalize /\ d.yesExit \in Marks
    BY <1>0 DEF ClosingInv
  <2>7. QED BY <2>2, <2>3, <2>4, <2>5, <2>6 DEF ClosingInv
<1>5. ASSUME UNCHANGED <<trades, positions, delisted, pc, work>>,
             job'.closing = job.closing \/ job'.closing = {}
      PROVE  ClosingInv'
  BY <1>0, <1>2, <1>5 DEF ClosingInv
<1>6. CASE CloseMarked
  <2>1. UNCHANGED <<trades, positions, delisted, pc, work>> /\ job.closing = {}
    BY <1>6 DEF CloseMarked, JobOnly, ledgerVars
  <2>2. PICK k \in job.marks :
          \/ job' = [job EXCEPT !.marks = @ \ {k}]
          \/ \E i \in Open(k[1]) :
               job' = [job EXCEPT !.marks = @ \ {k}, !.closing = {SeeOpen(i, k[2], FALSE)}]
    BY <1>6 DEF CloseMarked
  <2>3. k[1] \in Markets /\ k[2] \in Marks /\ k[2] \in 0..100
    BY <1>0, LedgerAssumption DEF Job
  <2>4. CASE job' = [job EXCEPT !.marks = @ \ {k}]
    BY <1>0, <1>5, <2>1, <2>4 DEF Job
  <2>5. ASSUME NEW i \in Open(k[1]),
               job' = [job EXCEPT !.marks = @ \ {k}, !.closing = {SeeOpen(i, k[2], FALSE)}]
        PROVE  ClosingInv'
    <3>1. PICK d : d = SeeOpen(i, k[2], FALSE)
      OBVIOUS
    <3>2. /\ Follows(d) /\ d.at = "seen" /\ ~d.finalize /\ d.yesExit = k[2] /\ d.row = i
      <4>1. Follows(d)
        BY <1>0, <2>3, <3>1, SeenFollows
      <4>2. QED BY <3>1, <4>1 DEF SeeOpen
    <3>3. positions[d.row].open
      BY <3>2 DEF Open
    <3>4. job'.closing = {d}
      BY <1>0, <2>5, <3>1 DEF Job
    <3>5. Follows(d)' /\ positions'[d.row].open
      BY <1>2, <2>1, <3>2, <3>3
    <3>6. QED BY <1>0, <1>2, <2>1, <2>3, <3>2, <3>4, <3>5 DEF ClosingInv
  <2>6. QED BY <2>2, <2>4, <2>5
<1>7. CASE LockMarked
  <2>1. UNCHANGED <<trades, positions, delisted, pc, work>>
    BY <1>7 DEF LockMarked, JobOnly, ledgerVars
  <2>2. PICK b \in job.closing : \E d \in GetsLock(b) : job' = [job EXCEPT !.closing = {d}]
    BY <1>7 DEF LockMarked
  <2>3. PICK pnl \in PnLs(b.pos, b.yesExit) :
          b.row \notin LockedRows /\ job' = [job EXCEPT !.closing = {LockedClose(b, pnl)}]
    BY <2>2 DEF GetsLock
  <2>4. PICK d : d = LockedClose(b, pnl)
    OBVIOUS
  <2>5. /\ Follows(b) /\ ~b.finalize /\ b.yesExit \in Marks
        /\ positions[b.row].open \/ b.pos.market \in delisted
    BY <1>0 DEF ClosingInv
  <2>6. /\ Follows(d) /\ d.row = b.row /\ d.pos = b.pos /\ d.yesExit = b.yesExit
        /\ d.finalize = b.finalize
    <3>1. Follows(d)
      BY <1>0, <2>3, <2>4, <2>5, LockedFollows
    <3>2. b \in Close
      BY <2>5 DEF Follows
    <3>3. QED BY <2>4, <3>1, <3>2, LockedFields
  <2>7. job'.closing = {d}
    BY <1>0, <2>3, <2>4 DEF Job
  <2>8. \A r \in Runners : \A c \in work[r].closing : c.at = "locked" => c.row # d.row
    BY <2>3, <2>6 DEF LockedRows
  <2>9. Follows(d)'
    BY <1>2, <2>1, <2>6
  <2>10. QED BY <1>0, <1>2, <2>1, <2>5, <2>6, <2>7, <2>8, <2>9 DEF ClosingInv
<1>8. CASE CommitMarked
  <2>1. PICK d \in job.closing : d.at = "locked" /\ CommitClose(d) /\ Follows(d) /\ ~d.finalize
    BY <1>8, CommitsFollow
  <2>2. job'.closing = {} /\ UNCHANGED <<pc, work>>
    BY <1>0, <1>8 DEF CommitMarked, JobOnly, Job
  <2>3. ASSUME NEW r \in Runners, NEW c \in work[r].closing PROVE Follows(c)'
    <3>1. Follows(c) /\ ~(c.at = "locked" /\ c.row = d.row)
      BY <1>0, <2>1 DEF ClosingInv
    <3>2. QED BY <1>0, <2>1, <3>1, OtherFollows
  <2>4. \A m \in delisted' : Open(m)' = {}
    BY <2>1, DelistedOutlast
  <2>5. QED BY <1>0, <2>2, <2>3, <2>4 DEF ClosingInv
<1>9. CASE RetireSha \/ RetireMarketTrades
  <2>1. /\ UNCHANGED <<delisted, pc, work>> /\ job'.closing = job.closing
    BY <1>0, <1>9 DEF RetireSha, RetireMarketTrades, MarkLegacyBySha, RetireMarkets, Retire,
                      JobStep,
                JobOnly, Job
  <2>2. KeptOutside({})
    <3>1. RetireTrades
      BY <1>9 DEF RetireSha, RetireMarketTrades, JobStep, RetireTrades, CycleInv, Job
    <3>2. QED BY <1>0, <3>1, RetireKept
  <2>3. /\ \A d \in job.closing : /\ Follows(d)'
                                  /\ (positions'[d.row].open \/ d.pos.market \in delisted')
        /\ \A m \in delisted' : Open(m)' = {}
        /\ \A r \in Runners : \A c \in work[r].closing : Follows(c)'
    <3>1. PICK S \in SUBSET Markets : S = {}
      OBVIOUS
    <3>2. KeptOutside(S) /\ delisted' = delisted
      BY <2>1, <2>2, <3>1
    <3>3. \A m \in S : Open(m) = {} /\ m \notin delisted
      BY <3>1
    <3>4. QED BY <3>1, <3>2, <3>3, ClosingsKept
  <2>4. QED BY <1>0, <2>1, <2>3 DEF ClosingInv
<1>10. CASE PlanRetirement \/ CountForJob \/ ResyncForJob \/ Finalize \/ HumanClears \/ GoLive
            \/ UNCHANGED vars
  <2>1. UNCHANGED <<trades, positions, delisted, pc, work>>
    BY <1>10 DEF PlanRetirement, CountForJob, ResyncForJob, WriteGateCounter, JobOnly, Finalize,
                 HumanClears, GoLive, SetMode, vars, cycleVars, ledgerVars, settings
  <2>2. job'.closing = job.closing \/ job'.closing = {}
    <3>1. CASE PlanRetirement
      <4>1. PICK d, A, B : job' = [NoJob EXCEPT !.at = "close", !.sha = d, !.markets = A,
      !.marks = B]
        BY <3>1 DEF PlanRetirement
      <4>2. QED BY <4>1 DEF NoJob
    <3>2. CASE CountForJob
      BY <1>0, <3>2 DEF CountForJob, Job
    <3>3. CASE ResyncForJob
      BY <3>3 DEF ResyncForJob, NoJob
    <3>4. CASE Finalize \/ HumanClears \/ GoLive \/ UNCHANGED vars
      BY <3>4 DEF Finalize, HumanClears, GoLive, vars, cycleVars
    <3>5. QED BY <1>10, <3>1, <3>2, <3>3, <3>4
  <2>3. QED BY <1>5, <2>1, <2>2
<1>11. QED
  BY <1>1, <1>3, <1>4, <1>6, <1>7, <1>8, <1>9, <1>10
     DEF Next, Maintenance, DropConnection, Happens

\* Every step keeps the invariant of the cycle.
LEMMA CycleInvStep ==
  ASSUME "drop" \notin Env, CycleInv, [Next]_vars
  PROVE  CycleInv'
<1>0. ASSUME work' \in [Runners -> Work], job' \in Job PROVE ClosingInv'
  BY <1>0, ClosingInvStep
<1>1. MutexInv' /\ LedgerInv'
  BY MutexStep, StepKeepsLedger, LedgerInvStep DEF CycleInv
<1>2. ASSUME NEW r \in Runners, Begin(r) \/ Raise(r) \/ Kill(r)
      PROVE  CycleInv'
  <2>1. UNCHANGED <<ledgerVars, outcome, job>>
    BY <1>2 DEF Begin, Raise, Kill
  <2>2. work' \in [Runners -> Work]
    <3>1. At(r, "order") => Len(trades) < MaxTrades
      BY DEF CycleInv, RunnerInv, At
    <3>2. \A c \in work[r].closing : Follows(c)
      BY DEF CycleInv, ClosingInv
    <3>3. QED BY <1>2, <3>1, <3>2, WorkTyped DEF CycleInv, LedgerInv, TablesTyped
  <2>3. pc'[r] \in {"legacy", "recordFailed", "dead"}
    BY <1>2 DEF CycleInv, MutexInv, Begin, Raise, Kill, Goto
  <2>4. ASSUME NEW k \in Runners PROVE RunnerInv(k)'
    <3>1. pc'[k] \in {"idle", "legacy", "recordFailed", "dead"}
      BY <1>2, <2>3, OthersIdle DEF CycleInv
    <3>2. QED BY <3>1 DEF RunnerInv
  <2>5. ClosingInv'
    BY <1>0, <2>1, <2>2 DEF CycleInv
  <2>6. QED BY <1>1, <2>1, <2>2, <2>4, <2>5 DEF CycleInv, ledgerVars
<1>3. ASSUME NEW r \in Runners, Cycle(r)
      PROVE  CycleInv'
  <2>1. UNCHANGED <<outcome, job>>
    BY <1>3, RunnerLeavesJob
  <2>2. At(r, "order") => Len(trades) < MaxTrades
    BY DEF CycleInv, RunnerInv, At
  <2>3. work' \in [Runners -> Work]
    <3>1. \A c \in work[r].closing : Follows(c)
      BY DEF CycleInv, ClosingInv
    <3>2. QED BY <1>3, <2>2, <3>1, WorkTyped DEF CycleInv, LedgerInv, TablesTyped
  <2>4. ASSUME NEW k \in Runners PROVE RunnerInv(k)'
    <3>1. CASE k = r
      BY <1>3, <3>1, RunnerInvStep
    <3>2. CASE k # r
      <4>1. pc'[k] = "idle"
        BY <1>3, <3>2, OthersIdle DEF CycleInv
      <4>2. QED BY <4>1 DEF RunnerInv
    <3>3. QED BY <3>1, <3>2
  <2>5. Len(trades') <= MaxTrades
    BY <1>3, RowsBounded
  <2>6. ClosingInv'
    BY <1>0, <2>1, <2>3 DEF CycleInv
  <2>7. QED BY <1>1, <2>1, <2>3, <2>4, <2>5, <2>6 DEF CycleInv
<1>4. CASE Maintenance \/ Finalize \/ HumanClears \/ GoLive
  <2>1. Quiet /\ UNCHANGED <<pc, work>>
    BY <1>4, OthersQuiet
  <2>2. \A k \in Runners : RunnerInv(k)'
    BY <2>1, QuietKeeps
  <2>3. Len(trades') <= MaxTrades
    BY <2>1 DEF Quiet, CycleInv
  <2>4. job' \in Job /\ (job'.at # "idle" => job'.sha \in Deploys)
    <3>1. CASE Maintenance
      BY <3>1, JobTyped
    <3>2. CASE Finalize \/ HumanClears \/ GoLive
      BY <3>2 DEF CycleInv, Finalize, HumanClears, GoLive, cycleVars
    <3>3. QED BY <1>4, <3>1, <3>2
  <2>5. outcome' \in [Markets -> Sides \cup {"none"}]
    BY <1>4 DEF CycleInv, Maintenance, PlanRetirement, CloseMarked, LockMarked, CommitMarked,
                RetireSha,
                RetireMarketTrades, CountForJob, ResyncForJob, JobOnly, Finalize, HumanClears,
                GoLive, cycleVars
  <2>6. ClosingInv'
    BY <1>0, <2>1, <2>4 DEF CycleInv
  <2>7. QED BY <1>1, <2>1, <2>2, <2>3, <2>4, <2>5, <2>6 DEF CycleInv
<1>5. CASE UNCHANGED vars
  <2>1. /\ UNCHANGED <<trades, positions, delisted, mode, pc, work, job, outcome>>
    BY <1>5 DEF vars, ledgerVars, settings, cycleVars
  <2>2. \A k \in Runners : RunnerInv(k)'
    BY <2>1, UnchangedQuiet, QuietKeeps
  <2>3. ClosingInv'
    BY <1>0, <2>1 DEF CycleInv
  <2>4. QED BY <1>1, <2>1, <2>2, <2>3 DEF CycleInv
<1>6. QED
  BY <1>2, <1>3, <1>4, <1>5 DEF Next, DropConnection, Happens

\* The inductive invariant of the cycle.
THEOREM CycleInvariant == ASSUME "drop" \notin Env PROVE Spec => []CycleInv
<1>1. CycleInv /\ [Next]_vars => CycleInv'
  BY CycleInvStep
<1>2. QED
  BY CycleInvInit, <1>1, PTL DEF Spec

\* The trading cycle, interleaved with the maintenance job, implements the
\* abstract ledger: whatever it looked at before an entry (the held check of
\* execute, the mode, the market's own status) still holds when it writes.
THEOREM CycleKeepsLedger == ASSUME "drop" \notin Env PROVE Spec => LedgerKept
<1>1. Init => LedgerInit
  BY DEF Init
<1>2. CycleInv /\ [Next]_vars => [LedgerNext]_ledgerVars
  BY StepKeepsLedger
<1>3. QED
  BY CycleInvariant, <1>1, <1>2, PTL DEF Spec, LedgerKept, LedgerSpec

\* So the open book and the filled trades stay the same book in the running
\* system, and close_position settles the right row.
THEOREM CycleBookMatches == ASSUME "drop" \notin Env PROVE Spec => []BookMatchesTrades
<1>1. CycleInv => BookMatchesTrades
  BY DEF CycleInv, LedgerInv
<1>2. QED
  BY CycleInvariant, <1>1, PTL

\* And every realized PnL is explained by its own row.
THEOREM CycleRealizedExplained == ASSUME "drop" \notin Env PROVE Spec => []RealizedExplained
<1>1. CycleInv => RealizedExplained
  BY DEF CycleInv, LedgerInv
<1>2. QED
  BY CycleInvariant, <1>1, PTL

-----------------------------------------------------------------------------
(***************************************************************************)
(* The kill switches.                                                      *)
(***************************************************************************)

\* A runner between its first look at the switches and the end of its list
\* has seen none, and none has latched since: it latches its own on the way
\* out, and nobody else is inside a cycle.
HaltInv ==
  \A r \in Runners :
    pc[r] \in {"next", "held", "route", "paper", "order", "live"} => halts = {}

\* Every step keeps a trading runner and an active switch apart.
LEMMA HaltInvStep ==
  ASSUME "drop" \notin Env, CycleInv, HaltInv, [Next]_vars
  PROVE  HaltInv'
<1> USE DEF At, Goto
<1>0. MutexInv /\ pc \in [Runners -> Locked \cup {"idle", "dead"}]
  BY DEF CycleInv, MutexInv
<1>1. ASSUME NEW r \in Runners, Begin(r) \/ Cycle(r) \/ Raise(r) \/ Kill(r)
      PROVE  HaltInv'
  <2>1. \A k \in Runners : k # r => pc'[k] = "idle"
    BY <1>0, <1>1, OthersIdle
  <2>2. pc'[r] \in {"next", "held", "route", "paper", "order", "live"} => halts' = {}
    <3>1. CASE ReadHalts(r)
      BY <1>0, <3>1 DEF ReadHalts, HaltRest, haltVars
    <3>2. CASE Refuse(r) \/ Approve(r) \/ CheckHeld(r) \/ Route(r) \/ PaperFill(r)
               \/ LiveOrder(r) \/ LiveResult(r) \/ Finish(r) \/ HaltedMidway(r)
      <4>1. halts' = halts /\ pc[r] \in {"next", "held", "route", "paper", "order", "live"}
        BY <3>2 DEF Refuse, Approve, CheckHeld, Route, PaperFill, LiveOrder, LiveResult, Finish,
                    HaltedMidway, haltVars
      <4>2. QED BY <4>1 DEF HaltInv
    <3>3. CASE Begin(r) \/ MarkLegacy(r) \/ CountGate(r) \/ ResyncGate(r) \/ FetchResults(r)
               \/ SettleOne(r) \/ LockSettled(r) \/ CommitSettled(r) \/ Settled(r)
               \/ SyncBankroll(r) \/ Score(r) \/ CheckSwitches(r)
               \/ Implausible(r) \/ RecordOk(r) \/ RecordFailed(r) \/ CheckErrors(r)
               \/ Unlock(r) \/ ServerRelease(r) \/ Raise(r) \/ Kill(r)
      BY <1>0, <3>3 DEF Begin, MarkLegacy, CountGate, ResyncGate, FetchResults, SettleOne,
                        LockSettled, CommitSettled, Settled,
                        SyncBankroll, Score, CheckSwitches, Implausible, HaltRest, RecordOk,
                        RecordFailed, CheckErrors, Unlock, ServerRelease, Raise, Kill
    <3>4. QED
      BY <1>1, <3>1, <3>2, <3>3 DEF Cycle
  <2>3. QED BY <2>1, <2>2 DEF HaltInv
<1>2. CASE Maintenance \/ Finalize \/ HumanClears \/ GoLive \/ UNCHANGED vars
  <2>1. pc' = pc /\ (halts' = halts \/ halts' = {})
    BY <1>2 DEF Maintenance, PlanRetirement, CloseMarked, LockMarked, CommitMarked, RetireSha,
                RetireMarketTrades, CountForJob,
                ResyncForJob, JobOnly, Finalize, HumanClears, ClearHalts, GoLive, vars, cycleVars,
                haltVars
  <2>2. QED BY <2>1 DEF HaltInv
<1>3. QED
  BY <1>1, <1>2 DEF Next, DropConnection, Happens

\* An entry is a step of a runner that trades.
LEMMA EntryOfRunner ==
  ASSUME CycleInv, [Next]_vars, Entry
  PROVE  \E r \in Runners : PaperFill(r) \/ LiveOrder(r)
<1>0. LedgerTypeOK /\ Len(trades) \in Nat
  BY DEF CycleInv, LedgerInv, LedgerTypeOK
<1>1. ASSUME NEW r \in Runners, Cycle(r)
      PROVE  PaperFill(r) \/ LiveOrder(r)
  BY <1>0, <1>1, RowsAdded DEF Entry, CycleInv
<1>2. CASE Maintenance \/ Finalize \/ HumanClears \/ GoLive
  BY <1>0, <1>2, OthersQuiet DEF Quiet, Entry
<1>3. CASE UNCHANGED vars \/ \E r \in Runners : Begin(r) \/ Raise(r) \/ Kill(r) \/ DropConnection(r)
  <2>1. trades' = trades
    BY <1>3 DEF vars, ledgerVars, Begin, Raise, Kill, DropConnection
  <2>2. QED BY <1>0, <2>1 DEF Entry
<1>4. QED
  BY <1>1, <1>2, <1>3 DEF Next

\* So no switch is active.
LEMMA EntryOnlyUnhalted ==
  ASSUME CycleInv, HaltInv, [Next]_vars, Entry
  PROVE  halts = {}
BY EntryOfRunner DEF PaperFill, LiveOrder, At, HaltInv

\* No trade is entered while any switch is latched (active_halts at the start
\* of execute_qualifying and before every later opportunity).
THEOREM HaltsRefuseEntries == ASSUME "drop" \notin Env PROVE Spec => NoEntryWhileHalted
<1>1. Init => HaltInv
  BY DEF Init, HaltInv
<1>2. CycleInv /\ HaltInv /\ [Next]_vars => HaltInv'
  BY HaltInvStep
<1>3. CycleInv /\ HaltInv /\ [Next]_vars => [Entry => halts = {}]_vars
  BY EntryOnlyUnhalted
<1>4. QED
  BY CycleInvariant, <1>1, <1>2, <1>3, PTL DEF Spec, NoEntryWhileHalted

-----------------------------------------------------------------------------
(***************************************************************************)
(* The funnel and the types.                                               *)
(***************************************************************************)

\* Raising a bucket by n attributes n opportunities more.
LEMMA BumpAttributed ==
  ASSUME NEW f \in Funnel, NEW b \in Buckets, NEW n \in Nat
  PROVE  LET g == [f EXCEPT ![b] = @ + n]
         IN Attributed(g) = Attributed(f) + n /\ g.qualifying = f.qualifying
BY DEF Funnel, Buckets, Attributed

\* The two sides of the balance are numbers.
LEMMA FunnelNumbers ==
  ASSUME NEW f \in Funnel
  PROVE  Attributed(f) \in Nat /\ f.qualifying \in Nat
BY DEF Funnel, Attributed

\* Taking a market off the list makes it one shorter.
LEMMA OneLess ==
  ASSUME NEW S \in SUBSET Markets, NEW m \in S
  PROVE  Cardinality(S \ {m}) \in Nat /\ Cardinality(S) = Cardinality(S \ {m}) + 1
<1>1. IsFiniteSet(S)
  BY FS_Subset, LedgerAssumption
<1>2. Cardinality(S \ {m}) = Cardinality(S) - 1
  BY <1>1, FS_RemoveElement
<1>3. Cardinality(S) \in Nat /\ Cardinality(S \ {m}) \in Nat
  BY TodoIsFinite
<1>4. QED
  BY <1>2, <1>3

\* How many opportunities the funnel has still to account for.
Balanced(w, inHand) == Attributed(w.funnel) + Cardinality(w.todo) + inHand = w.funnel.qualifying

FunnelInv(r) ==
  /\ pc[r] \in {"switches", "gate", "next"} => Balanced(work[r], 0)
  /\ pc[r] \in {"held", "route", "paper", "order", "live"} => Balanced(work[r], 1)
  /\ pc[r] = "recordOk" => Attributed(work[r].funnel) = work[r].funnel.qualifying

\* Halting the rest attributes all that was left (_halt_rest).
LEMMA HaltRestBalances ==
  ASSUME NEW r \in Runners, work \in [Runners -> Work], Balanced(work[r], 0), HaltRest(r)
  PROVE  Attributed(work'[r].funnel) = work'[r].funnel.qualifying
<1>1. PICK f \in Funnel, n \in Nat : f = work[r].funnel /\ n = Cardinality(work[r].todo)
  BY WorkFields, TodoIsFinite
<1>2. work'[r].funnel = [f EXCEPT !["halted"] = @ + n]
  BY <1>1 DEF HaltRest, Keep, Work
<1>3. Attributed(f) + n + 0 = f.qualifying
  BY <1>1 DEF Balanced
<1>4. Attributed(f) \in Nat /\ f.qualifying \in Nat
  BY FunnelNumbers
<1>5. QED
  BY <1>2, <1>3, <1>4, BumpAttributed DEF Buckets

\* Finishing the opportunity in hand attributes one.
LEMMA DoneBalances ==
  ASSUME NEW r \in Runners, work \in [Runners -> Work], Balanced(work[r], 1),
         NEW b \in Buckets, Done(r, b)
  PROVE  Balanced(work'[r], 0)
<1>1. PICK f \in Funnel, n \in Nat : f = work[r].funnel /\ n = Cardinality(work[r].todo)
  BY WorkFields, TodoIsFinite
<1>2. work'[r].funnel = [f EXCEPT ![b] = @ + 1] /\ work'[r].todo = work[r].todo
  BY <1>1 DEF Done, Keep, Work
<1>3. Attributed(f) + n + 1 = f.qualifying
  BY <1>1 DEF Balanced
<1>4. Attributed(f) \in Nat /\ f.qualifying \in Nat
  BY FunnelNumbers
<1>5. /\ Attributed([f EXCEPT ![b] = @ + 1]) = Attributed(f) + 1
      /\ [f EXCEPT ![b] = @ + 1].qualifying = f.qualifying
  BY BumpAttributed
<1>6. QED
  BY <1>1, <1>2, <1>3, <1>4, <1>5 DEF Balanced

\* Every step keeps the funnels balanced.
LEMMA FunnelInvStep ==
  ASSUME CycleInv, NEW r \in Runners, FunnelInv(r), Cycle(r)
  PROVE  FunnelInv(r)'
<1> USE DEF At, Goto
<1>0. /\ work[r] \in Work /\ work \in [Runners -> Work]
      /\ pc \in [Runners -> Locked \cup {"idle", "dead"}]
  BY DEF CycleInv, MutexInv
<1>1. CASE pc'[r] \notin {"switches", "gate", "next", "held", "route", "paper", "order", "live",
                          "recordOk"}
  BY <1>1 DEF FunnelInv
<1>2. CASE MarkLegacy(r) \/ CountGate(r) \/ ResyncGate(r) \/ FetchResults(r) \/ SettleOne(r)
           \/ LockSettled(r) \/ CommitSettled(r)
           \/ Settled(r) \/ SyncBankroll(r) \/ RecordOk(r) \/ RecordFailed(r) \/ CheckErrors(r)
           \/ Unlock(r) \/ ServerRelease(r)
  BY <1>0, <1>1, <1>2 DEF MarkLegacy, CountGate, ResyncGate, FetchResults, SettleOne,
                          LockSettled, CommitSettled, Settled,
                          SyncBankroll, RecordOk, RecordFailed, CheckErrors, Unlock, ServerRelease
<1>3. CASE Score(r)
  <2>1. PICK S \in SUBSET Markets :
          /\ Keep(r, [work[r] EXCEPT !.todo = S,
                                     !.funnel = [EmptyFunnel EXCEPT !.qualifying = Cardinality(S)]])
          /\ pc' = [pc EXCEPT ![r] = IF S = {} THEN "recordOk" ELSE "switches"]
    BY <1>3 DEF Score
  <2>2. PICK n \in Nat : n = Cardinality(S)
    BY TodoIsFinite
  <2>3. /\ work'[r].todo = S
        /\ work'[r].funnel = [EmptyFunnel EXCEPT !.qualifying = n]
    BY <1>0, <2>1, <2>2 DEF Keep, Work
  <2>4. Attributed(work'[r].funnel) = 0 /\ work'[r].funnel.qualifying = n
    BY <2>3 DEF Attributed, EmptyFunnel
  <2>5. S = {} => n = 0
    BY <2>2, FS_EmptySet
  <2>6. pc'[r] = IF S = {} THEN "recordOk" ELSE "switches"
    BY <1>0, <2>1
  <2>7. Balanced(work'[r], 0)
    BY <2>2, <2>3, <2>4 DEF Balanced
  <2>8. QED BY <2>4, <2>5, <2>6, <2>7 DEF FunnelInv
<1>4. CASE CheckSwitches(r)
  BY <1>0, <1>4 DEF CheckSwitches, FunnelInv
<1>5. CASE ReadHalts(r) \/ Implausible(r) \/ HaltedMidway(r)
  <2>1. Balanced(work[r], 0)
    BY <1>5 DEF ReadHalts, Implausible, HaltedMidway, FunnelInv
  <2>2. HaltRest(r) \/ (pc'[r] = "next" /\ work' = work)
    BY <1>0, <1>5 DEF ReadHalts, Implausible, HaltedMidway
  <2>3. CASE HaltRest(r)
    <3>1. pc'[r] = "recordOk"
      BY <1>0, <2>3 DEF HaltRest
    <3>2. QED BY <1>0, <2>1, <2>3, <3>1, HaltRestBalances DEF FunnelInv
  <2>4. CASE pc'[r] = "next" /\ work' = work
    BY <2>1, <2>4 DEF FunnelInv
  <2>5. QED BY <2>2, <2>3, <2>4
<1>6. CASE Refuse(r)
  <2>1. PICK m \in work[r].todo, why \in {"fee_refused", "risk_rejected"} :
          Keep(r, [work[r] EXCEPT !.todo = @ \ {m}, !.funnel[why] = @ + 1])
    BY <1>6 DEF Refuse
  <2>2. PICK f \in Funnel, S \in SUBSET Markets : f = work[r].funnel /\ S = work[r].todo
    BY <1>0, WorkFields
  <2>3. /\ work'[r].funnel = [f EXCEPT ![why] = @ + 1]
        /\ work'[r].todo = S \ {m}
    BY <1>0, <2>1, <2>2 DEF Keep, Work
  <2>4. Attributed(f) + Cardinality(S) + 0 = f.qualifying /\ pc'[r] = "next"
    BY <1>0, <1>6, <2>2 DEF Refuse, FunnelInv, Balanced
  <2>5. /\ Attributed([f EXCEPT ![why] = @ + 1]) = Attributed(f) + 1
        /\ [f EXCEPT ![why] = @ + 1].qualifying = f.qualifying
    BY BumpAttributed DEF Buckets
  <2>6. Cardinality(S \ {m}) \in Nat /\ Cardinality(S) = Cardinality(S \ {m}) + 1
    BY <2>2, OneLess
  <2>7. Attributed(f) \in Nat /\ f.qualifying \in Nat
    BY FunnelNumbers
  <2>8. Balanced(work'[r], 0)
    BY <2>3, <2>4, <2>5, <2>6, <2>7 DEF Balanced
  <2>9. QED BY <2>4, <2>8 DEF FunnelInv
<1>7. CASE Approve(r)
  <2>1. PICK m \in work[r].todo : \E o : Keep(r, [work[r] EXCEPT !.todo = @ \ {m}, !.opp = o])
    BY <1>7 DEF Approve
  <2>2. PICK f \in Funnel, S \in SUBSET Markets : f = work[r].funnel /\ S = work[r].todo
    BY <1>0, WorkFields
  <2>3. work'[r].funnel = f /\ work'[r].todo = S \ {m}
    BY <1>0, <2>1, <2>2 DEF Keep, Work
  <2>4. Attributed(f) + Cardinality(S) + 0 = f.qualifying /\ pc'[r] = "held"
    BY <1>0, <1>7, <2>2 DEF Approve, FunnelInv, Balanced
  <2>5. Cardinality(S \ {m}) \in Nat /\ Cardinality(S) = Cardinality(S \ {m}) + 1
    BY <2>2, OneLess
  <2>6. Attributed(f) \in Nat /\ f.qualifying \in Nat
    BY FunnelNumbers
  <2>7. Balanced(work'[r], 1)
    BY <2>3, <2>4, <2>5, <2>6 DEF Balanced
  <2>8. QED BY <2>4, <2>7 DEF FunnelInv
<1>8. CASE CheckHeld(r) \/ Route(r) \/ PaperFill(r) \/ LiveResult(r)
  <2>1. Balanced(work[r], 1)
    BY <1>8 DEF CheckHeld, Route, PaperFill, LiveResult, FunnelInv
  <2>2. \/ \E b \in Buckets : Done(r, b)
        \/ pc'[r] \in {"route", "paper", "order"} /\ work' = work
    BY <1>0, <1>8 DEF CheckHeld, Route, PaperFill, LiveResult, Buckets
  <2>3. ASSUME NEW b \in Buckets, Done(r, b) PROVE FunnelInv(r)'
    <3>1. pc'[r] = "next"
      BY <1>0, <2>3 DEF Done
    <3>2. Balanced(work'[r], 0)
      BY <1>0, <2>1, <2>3, DoneBalances
    <3>3. QED BY <3>1, <3>2 DEF FunnelInv
  <2>4. CASE pc'[r] \in {"route", "paper", "order"} /\ work' = work
    BY <2>1, <2>4 DEF FunnelInv
  <2>5. QED BY <2>2, <2>3, <2>4
<1>9. CASE LiveOrder(r)
  <2>1. Balanced(work[r], 1) /\ pc'[r] = "live"
    BY <1>0, <1>9 DEF LiveOrder, FunnelInv
  <2>2. work'[r].funnel = work[r].funnel /\ work'[r].todo = work[r].todo
    BY <1>0, <1>9 DEF LiveOrder, Keep, Work
  <2>3. QED BY <2>1, <2>2 DEF FunnelInv, Balanced
<1>10. CASE Finish(r)
  <2>1. PICK f \in Funnel : f = work[r].funnel
    BY <1>0, WorkFields
  <2>2. Attributed(f) + Cardinality({}) + 0 = f.qualifying /\ pc'[r] = "recordOk" /\ work' = work
    BY <1>0, <1>10, <2>1 DEF Finish, FunnelInv, Balanced
  <2>3. Attributed(f) \in Nat /\ Cardinality({}) = 0
    BY FunnelNumbers, FS_EmptySet
  <2>4. QED BY <2>1, <2>2, <2>3 DEF FunnelInv
<1>11. QED
  BY <1>2, <1>3, <1>4, <1>5, <1>6, <1>7, <1>8, <1>9, <1>10 DEF Cycle

\* A cycle that ends normally has attributed each qualifying opportunity to
\* exactly one bucket (ExecutionFunnel in execute_qualifying).
THEOREM FunnelsBalance == ASSUME "drop" \notin Env PROVE Spec => []FunnelBalances
<1> DEFINE FInv == \A r \in Runners : FunnelInv(r)
<1>1. Init => FInv
  BY DEF Init, FunnelInv
<1>2. ASSUME CycleInv, FInv, [Next]_vars PROVE FInv'
  <2>1. ASSUME NEW r \in Runners, Begin(r) \/ Cycle(r) \/ Raise(r) \/ Kill(r)
        PROVE  FInv'
    <3>1. \A k \in Runners : k # r => pc'[k] = "idle"
      BY <1>2, <2>1, OthersIdle DEF CycleInv
    <3>2. FunnelInv(r)'
      <4>1. CASE Cycle(r)
        BY <1>2, <4>1, FunnelInvStep
      <4>2. CASE Begin(r) \/ Raise(r) \/ Kill(r)
        BY <1>2, <4>2 DEF Begin, Raise, Kill, Goto, FunnelInv, CycleInv, MutexInv
      <4>3. QED BY <2>1, <4>1, <4>2
    <3>3. QED BY <3>1, <3>2 DEF FunnelInv
  <2>2. CASE Maintenance \/ Finalize \/ HumanClears \/ GoLive \/ UNCHANGED vars
    <3>1. UNCHANGED <<pc, work>>
      BY <1>2, <2>2, OthersQuiet DEF vars, cycleVars
    <3>2. QED BY <1>2, <3>1 DEF FunnelInv, Balanced
  <2>3. QED
    BY <1>2, <2>1, <2>2 DEF Next, DropConnection, Happens
<1>3. FInv => FunnelBalances
  BY DEF FunnelInv, FunnelBalances, At
<1>4. QED
  BY CycleInvariant, <1>1, <1>2, <1>3, PTL DEF Spec

\* Types of what only the kill switches and the fault bound use.
SwitchTypes ==
  /\ halts \subseteq Switches
  /\ cycleRuns \in Seq([ok : BOOLEAN, equity : Int])
  /\ events \in 0..MaxEvents

\* Cutting a list of records down to the newest keeps it one.
LEMMA NewestKept ==
  ASSUME NEW R, NEW s \in Seq(R), NEW e \in R, NEW n \in 0..(Len(s) + 1)
  PROVE  SubSeq(<<e>> \o s, 1, n) \in Seq(R)
<1>1. <<e>> \in Seq(R) /\ Len(<<e>>) = 1 /\ Len(s) \in Nat
  OBVIOUS
<1>2. <<e>> \o s \in Seq(R) /\ Len(<<e>> \o s) = Len(s) + 1
  BY <1>1, ConcatProperties
<1>3. PICK all \in Seq(R) : all = <<e>> \o s /\ Len(all) = Len(s) + 1
  BY <1>2
<1>4. \A i \in 1..n : all[i] \in R
  BY <1>1, <1>3
<1>5. SubSeq(all, 1, n) \in Seq(R)
  BY <1>1, <1>4, SubSeqProperties
<1>6. QED
  BY <1>3, <1>5

\* Recording a cycle keeps the record typed (record_cycle).
LEMMA RecordCycleTyped ==
  ASSUME cycleRuns \in Seq([ok : BOOLEAN, equity : Int]), NEW ok \in BOOLEAN,
         NEW equity \in Int, RecordCycle(ok, equity)
  PROVE  cycleRuns' \in Seq([ok : BOOLEAN, equity : Int])
<1>0. PICK R : R = [ok : BOOLEAN, equity : Int]
  OBVIOUS
<1>1. PICK e \in R : e = [ok |-> ok, equity |-> equity]
  BY <1>0
<1>2. cycleRuns \in Seq(R) /\ Len(cycleRuns) \in Nat
  BY <1>0
<1>3. PICK n \in 0..(Len(cycleRuns) + 1) : cycleRuns' = SubSeq(<<e>> \o cycleRuns, 1, n)
  BY <1>1, <1>2, KeptAssumption DEF RecordCycle
<1>4. QED
  BY <1>0, <1>2, <1>3, NewestKept

\* Every step keeps the switches, the cycle records and the events typed.
LEMMA SwitchTypesStep ==
  ASSUME CycleInv, SwitchTypes, [Next]_vars
  PROVE  SwitchTypes'
<1> USE DEF SwitchTypes, Happens
<1>0. MaxEvents \in Nat /\ bankroll \in Int
  BY CycleAssumption DEF CycleInv, LedgerInv, LedgerTypeOK
<1>1. ASSUME NEW r \in Runners, CheckSwitches(r) PROVE SwitchTypes'
  <2>1. PICK window \in 0..Len(cycleRuns), stale \in {"stale" \in Env, FALSE} :
          LET found == CycleHalts(Equity, peak, window, stale)
          IN \/ Trip(found) /\ UNCHANGED events
             \/ \E S \in SUBSET found : Trip(S \cup {"switch_error"}) /\ Happens("raise")
    BY <1>1 DEF CheckSwitches
  <2>2. CycleHalts(Equity, peak, window, stale) \subseteq Switches
    BY DEF CycleHalts, Switches
  <2>3. halts' \subseteq Switches
    BY <2>1, <2>2 DEF Trip, Switches
  <2>4. cycleRuns' = cycleRuns /\ (UNCHANGED events \/ (events < MaxEvents /\ events' = events + 1))
    BY <2>1 DEF Trip
  <2>5. QED BY <1>0, <2>3, <2>4
<1>2. ASSUME NEW r \in Runners, Implausible(r) \/ CheckErrors(r) PROVE SwitchTypes'
  <2>1. halts' \subseteq Switches
    BY <1>2 DEF Implausible, CheckErrors, CheckRepeatedErrors, Trip, Switches, haltVars
  <2>2. cycleRuns' = cycleRuns /\ (UNCHANGED events \/ (events < MaxEvents /\ events' = events + 1))
    BY <1>2 DEF Implausible, CheckErrors, CheckRepeatedErrors, Trip, haltVars
  <2>3. QED BY <1>0, <2>1, <2>2
<1>3. ASSUME NEW r \in Runners, RecordOk(r) \/ RecordFailed(r) PROVE SwitchTypes'
  <2>1. PICK ok \in BOOLEAN : Record(r, ok)
    BY <1>3 DEF RecordOk, RecordFailed
  <2>2. halts' = halts /\ (UNCHANGED events \/ (events < MaxEvents /\ events' = events + 1))
    BY <2>1 DEF Record, RecordCycle, haltVars
  <2>3. cycleRuns' = cycleRuns \/ RecordCycle(ok, bankroll)
    BY <2>1 DEF Record, Equity, haltVars
  <2>4. cycleRuns' \in Seq([ok : BOOLEAN, equity : Int])
    BY <1>0, <2>3, RecordCycleTyped
  <2>5. QED BY <1>0, <2>2, <2>4
<1>4. CASE HumanClears
  BY <1>4 DEF HumanClears, ClearHalts, cycleVars
<1>5. CASE UNCHANGED vars
  BY <1>5 DEF vars, haltVars, cycleVars
<1>6. ASSUME NEW r \in Runners,
             Begin(r) \/ MarkLegacy(r) \/ CountGate(r) \/ ResyncGate(r) \/ FetchResults(r)
               \/ SettleOne(r) \/ LockSettled(r) \/ CommitSettled(r) \/ Settled(r)
               \/ SyncBankroll(r) \/ Score(r) \/ ReadHalts(r)
               \/ HaltedMidway(r) \/ Refuse(r) \/ Approve(r) \/ CheckHeld(r) \/ Route(r)
               \/ PaperFill(r) \/ LiveOrder(r) \/ LiveResult(r) \/ Finish(r) \/ Unlock(r)
               \/ ServerRelease(r) \/ Raise(r) \/ Kill(r) \/ DropConnection(r)
      PROVE  SwitchTypes'
  <2>1. UNCHANGED haltVars /\ (UNCHANGED events \/ (events < MaxEvents /\ events' = events + 1))
    BY <1>6 DEF Begin, MarkLegacy, CountGate, ResyncGate, FetchResults, SettleOne, LockSettled,
                CommitSettled, Settled,
                SyncBankroll, Score, ReadHalts, HaltedMidway, HaltRest, Refuse, Approve, CheckHeld,
                Route, Done, PaperFill, LiveOrder, LiveResult, Finish, Unlock, ServerRelease, Raise,
                Kill, DropConnection
  <2>2. QED BY <1>0, <2>1 DEF haltVars
<1>7. CASE Maintenance \/ Finalize \/ GoLive
  <2>1. UNCHANGED haltVars /\ (UNCHANGED events \/ (events < MaxEvents /\ events' = events + 1))
    BY <1>7 DEF Maintenance, PlanRetirement, CloseMarked, LockMarked, CommitMarked, RetireSha,
                RetireMarketTrades, CountForJob,
                ResyncForJob, JobOnly, Finalize, GoLive, cycleVars
  <2>2. QED BY <1>0, <2>1 DEF haltVars
<1>8. QED
  BY <1>1, <1>2, <1>3, <1>4, <1>5, <1>6, <1>7 DEF Next, Cycle

\* Every variable of the cycle holds a value of its domain.
THEOREM CycleTyped == ASSUME "drop" \notin Env PROVE Spec => []CycleTypeOK
<1>1. Init => SwitchTypes
  BY CycleAssumption DEF Init, SwitchTypes
<1>2. CycleInv /\ SwitchTypes /\ [Next]_vars => SwitchTypes'
  BY SwitchTypesStep
<1>3. CycleInv /\ SwitchTypes => CycleTypeOK
  BY DEF CycleInv, LedgerInv, MutexInv, SwitchTypes, CycleTypeOK
<1>4. QED
  BY CycleInvariant, <1>1, <1>2, <1>3, PTL DEF Spec

-----------------------------------------------------------------------------
(***************************************************************************)
(* A halt drains, also when the lock is lost and two runners trade at      *)
(* once: only the shape of the runners' local variables is needed, not     *)
(* that they exclude each other.                                           *)
(***************************************************************************)

\* A runner's local variables as a record, with a list and a funnel in it.
Shape(A, B, C, D, E) ==
  [results : A, count : B, todo : SUBSET Markets, opp : C, trade : D, funnel : Funnel,
   closing : E]
Local(w) == \E A, B, C, D, E : w \in Shape(A, B, C, D, E)

Locals ==
  /\ pc \in [Runners -> Locked \cup {"idle", "dead"}]
  /\ work = [r \in Runners |-> work[r]]
  /\ \A r \in Runners : Local(work[r])

\* Replacing one runner's record by another keeps the shape.
LEMMA LocalKept ==
  ASSUME Locals, NEW r \in Runners, NEW w, Local(w), Keep(r, w)
  PROVE  /\ work' = [k \in Runners |-> work'[k]]
         /\ \A k \in Runners : Local(work'[k])
         /\ work'[r] = w /\ \A k \in Runners : k # r => work'[k] = work[k]
BY DEF Locals, Keep

\* What is in a record of that shape.
LEMMA LocalHas ==
  ASSUME NEW w, Local(w)
  PROVE  w.todo \subseteq Markets /\ w.funnel \in Funnel
BY DEF Local, Shape

\* Changing a field that is neither the list nor the funnel.
LEMMA LocalFields ==
  ASSUME NEW w, Local(w), NEW x, NEW y
  PROVE  Local([w EXCEPT !.results = x]) /\ Local([w EXCEPT !.count = x])
         /\ Local([w EXCEPT !.trade = x]) /\ Local([w EXCEPT !.closing = x])
         /\ Local([w EXCEPT !.results = x, !.closing = y])
<1>1. PICK A, B, C, D, E : w \in Shape(A, B, C, D, E)
  BY DEF Local
<1>2. [w EXCEPT !.results = x] \in Shape({x}, B, C, D, E)
  BY <1>1 DEF Shape
<1>3. [w EXCEPT !.count = x] \in Shape(A, {x}, C, D, E)
  BY <1>1 DEF Shape
<1>4. [w EXCEPT !.trade = x] \in Shape(A, B, C, {x}, E)
  BY <1>1 DEF Shape
<1>5. [w EXCEPT !.closing = x] \in Shape(A, B, C, D, {x})
  BY <1>1 DEF Shape
<1>6. [w EXCEPT !.results = x, !.closing = y] \in Shape({x}, B, C, D, {y})
  BY <1>1 DEF Shape
<1>7. QED
  BY <1>2, <1>3, <1>4, <1>5, <1>6 DEF Local

\* Another list and another funnel.
LEMMA LocalListed ==
  ASSUME NEW w, Local(w), NEW S \in SUBSET Markets, NEW f \in Funnel
  PROVE  Local([w EXCEPT !.todo = S, !.funnel = f])
<1>1. PICK A, B, C, D, E : w \in Shape(A, B, C, D, E)
  BY DEF Local
<1>2. [w EXCEPT !.todo = S, !.funnel = f] \in Shape(A, B, C, D, E)
  BY <1>1 DEF Shape
<1>3. QED
  BY <1>2 DEF Local

\* An opportunity taken off the list.
LEMMA LocalInHand ==
  ASSUME NEW w, Local(w), NEW S \in SUBSET Markets, NEW o
  PROVE  Local([w EXCEPT !.todo = S, !.opp = o])
<1>1. PICK A, B, C, D, E : w \in Shape(A, B, C, D, E)
  BY DEF Local
<1>2. [w EXCEPT !.todo = S, !.opp = o] \in Shape(A, B, {o}, D, E)
  BY <1>1 DEF Shape
<1>3. QED
  BY <1>2 DEF Local

\* An opportunity done with.
LEMMA LocalDone ==
  ASSUME NEW w, Local(w), NEW f \in Funnel
  PROVE  Local([w EXCEPT !.opp = <<>>, !.trade = 0, !.funnel = f])
<1>1. PICK A, B, C, D, E : w \in Shape(A, B, C, D, E)
  BY DEF Local
<1>2. [w EXCEPT !.opp = <<>>, !.trade = 0, !.funnel = f] \in Shape(A, B, {<<>>}, {0}, E)
  BY <1>1 DEF Shape
<1>3. QED
  BY <1>2 DEF Local

\* The funnel is the one it was given.
LEMMA NewFunnel ==
  ASSUME NEW w, Local(w), NEW S, NEW f
  PROVE  /\ [w EXCEPT !.todo = S, !.funnel = f].funnel = f
         /\ [w EXCEPT !.opp = <<>>, !.trade = 0, !.funnel = f].funnel = f
BY DEF Local, Shape

\* Cleared local variables have the shape.
LEMMA NoWorkLocal == Local(NoWork)
<1>1. EmptyFunnel \in Funnel
  BY DEF EmptyFunnel, Funnel
<1>2. NoWork \in Shape({{}}, {0}, {<<>>}, {0}, {{}})
  BY <1>1 DEF NoWork, Shape
<1>3. QED
  BY <1>2 DEF Local
\* A runner's step moves that runner only.
LEMMA PcMoves ==
  ASSUME NEW r \in Runners, Begin(r) \/ Cycle(r) \/ Raise(r) \/ Kill(r) \/ DropConnection(r)
  PROVE  pc' = pc \/ \E to \in Locked \cup {"idle", "dead"} : pc' = [pc EXCEPT ![r] = to]
<1>1. CASE Cycle(r) \/ Raise(r)
  BY <1>1, CycleAdvances DEF Advances, Unlock, ServerRelease, Goto
<1>2. CASE Begin(r) \/ Kill(r) \/ DropConnection(r)
  BY <1>2 DEF Begin, Kill, DropConnection, Goto, Locked, Body
<1>3. QED
  BY <1>1, <1>2

\* A runner's step leaves the local variables alone or replaces its own.
LEMMA WorkMoves ==
  ASSUME Locals, NEW r \in Runners,
         Begin(r) \/ Cycle(r) \/ Raise(r) \/ Kill(r) \/ DropConnection(r)
  PROVE  work' = work \/ \E w : Local(w) /\ Keep(r, w)
<1>0. Local(work[r]) /\ work[r].todo \subseteq Markets /\ work[r].funnel \in Funnel
  BY LocalHas DEF Locals
<1>1. CASE CountGate(r) \/ FetchResults(r) \/ SettleOne(r) \/ LockSettled(r) \/ CommitSettled(r)
           \/ LiveOrder(r) \/ Raise(r)
  <2>1. \/ \E x : Keep(r, [work[r] EXCEPT !.results = x])
        \/ \E x : Keep(r, [work[r] EXCEPT !.count = x])
        \/ \E x : Keep(r, [work[r] EXCEPT !.trade = x])
        \/ \E x : Keep(r, [work[r] EXCEPT !.closing = x])
        \/ \E x, y : Keep(r, [work[r] EXCEPT !.results = x, !.closing = y])
    BY <1>1 DEF CountGate, FetchResults, SettleOne, LockSettled, CommitSettled, LiveOrder, Raise
  <2>2. QED BY <1>0, <2>1, LocalFields
<1>2. CASE Score(r)
  <2>1. PICK S \in SUBSET Markets :
          Keep(r, [work[r] EXCEPT !.todo = S,
                                  !.funnel = [EmptyFunnel EXCEPT !.qualifying = Cardinality(S)]])
    BY <1>2 DEF Score
  <2>2. [EmptyFunnel EXCEPT !.qualifying = Cardinality(S)] \in Funnel
    BY TodoIsFinite DEF EmptyFunnel, Funnel
  <2>3. QED BY <1>0, <2>1, <2>2, LocalListed
<1>3. ASSUME HaltRest(r) PROVE \E w : Local(w) /\ Keep(r, w)
  <2>1. PICK n \in Nat : n = Cardinality(work[r].todo)
    BY <1>0, TodoIsFinite
  <2>2. PICK f \in Funnel : f = work[r].funnel
    BY <1>0
  <2>3. Keep(r, [work[r] EXCEPT !.todo = {}, !.funnel = [f EXCEPT !["halted"] = @ + n]])
    BY <1>3, <2>1, <2>2 DEF HaltRest
  <2>4. [f EXCEPT !["halted"] = @ + n] \in Funnel
    BY FunnelBumped DEF Buckets
  <2>5. QED BY <1>0, <2>3, <2>4, LocalListed
<1>4. CASE ReadHalts(r) \/ Implausible(r) \/ HaltedMidway(r)
  BY <1>3, <1>4 DEF ReadHalts, Implausible, HaltedMidway
<1>5. CASE Refuse(r)
  <2>1. PICK m \in work[r].todo, why \in {"fee_refused", "risk_rejected"} :
          Keep(r, [work[r] EXCEPT !.todo = @ \ {m}, !.funnel[why] = @ + 1])
    BY <1>5 DEF Refuse
  <2>2. PICK f \in Funnel, S \in SUBSET Markets : f = work[r].funnel /\ S = work[r].todo \ {m}
    BY <1>0
  <2>3. Keep(r, [work[r] EXCEPT !.todo = S, !.funnel = [f EXCEPT ![why] = @ + 1]])
    BY <2>1, <2>2
  <2>4. [f EXCEPT ![why] = @ + 1] \in Funnel
    BY FunnelBumped DEF Buckets
  <2>5. QED BY <1>0, <2>3, <2>4, LocalListed
<1>6. CASE Approve(r)
  <2>1. PICK m \in work[r].todo : \E o : Keep(r, [work[r] EXCEPT !.todo = @ \ {m}, !.opp = o])
    BY <1>6 DEF Approve
  <2>2. PICK S \in SUBSET Markets : S = work[r].todo \ {m}
    BY <1>0
  <2>3. \E o : Keep(r, [work[r] EXCEPT !.todo = S, !.opp = o])
    BY <2>1, <2>2
  <2>4. QED BY <1>0, <2>3, LocalInHand
<1>7. CASE CheckHeld(r) \/ Route(r) \/ PaperFill(r) \/ LiveResult(r)
  <2>1. UNCHANGED work \/ \E b \in Buckets : Done(r, b)
    BY <1>7 DEF CheckHeld, Route, PaperFill, LiveResult, Buckets
  <2>2. ASSUME NEW b \in Buckets, Done(r, b) PROVE \E w : Local(w) /\ Keep(r, w)
    <3>1. PICK f \in Funnel : f = work[r].funnel
      BY <1>0
    <3>2. Keep(r, [work[r] EXCEPT !.opp = <<>>, !.trade = 0, !.funnel = [f EXCEPT ![b] = @ + 1]])
      BY <2>2, <3>1 DEF Done
    <3>3. [f EXCEPT ![b] = @ + 1] \in Funnel
      BY FunnelBumped
    <3>4. QED BY <1>0, <3>2, <3>3, LocalDone
  <2>3. QED BY <2>1, <2>2
<1>8. CASE Unlock(r) \/ Kill(r)
  BY <1>8, NoWorkLocal DEF Unlock, Kill
<1>9. CASE MarkLegacy(r) \/ ResyncGate(r) \/ Settled(r) \/ SyncBankroll(r) \/ CheckSwitches(r)
           \/ Finish(r) \/ RecordOk(r) \/ RecordFailed(r) \/ CheckErrors(r) \/ ServerRelease(r)
           \/ Begin(r) \/ DropConnection(r)
  BY <1>9 DEF MarkLegacy, ResyncGate, Settled, SyncBankroll, CheckSwitches, Finish, RecordOk,
              RecordFailed, Record, CheckErrors, ServerRelease, Begin, DropConnection
<1>10. QED
  BY <1>1, <1>2, <1>4, <1>5, <1>6, <1>7, <1>8, <1>9 DEF Cycle

\* Nobody outside a cycle touches the runners.
LEMMA OthersLeaveLocals ==
  ASSUME Maintenance \/ Finalize \/ HumanClears \/ GoLive \/ UNCHANGED vars
  PROVE  UNCHANGED <<pc, work>>
BY DEF Maintenance, PlanRetirement, CloseMarked, LockMarked, CommitMarked, RetireSha,
       RetireMarketTrades, CountForJob,
       ResyncForJob, JobOnly, Finalize, HumanClears, GoLive, vars, cycleVars

\* Every step keeps the shape of the local variables.
LEMMA LocalsStep ==
  ASSUME Locals, [Next]_vars
  PROVE  Locals'
<1>1. ASSUME NEW r \in Runners,
             Begin(r) \/ Cycle(r) \/ Raise(r) \/ Kill(r) \/ DropConnection(r)
      PROVE  Locals'
  <2>1. pc' \in [Runners -> Locked \cup {"idle", "dead"}]
    BY <1>1, PcMoves DEF Locals
  <2>2. CASE work' = work
    BY <2>1, <2>2 DEF Locals
  <2>3. ASSUME NEW w, Local(w), Keep(r, w) PROVE Locals'
    BY <2>1, <2>3, LocalKept DEF Locals
  <2>4. QED BY <1>1, <2>2, <2>3, WorkMoves
<1>2. CASE Maintenance \/ Finalize \/ HumanClears \/ GoLive \/ UNCHANGED vars
  BY <1>2, OthersLeaveLocals DEF Locals
<1>3. QED
  BY <1>1, <1>2 DEF Next
\* Attributing one more opportunity leaves the first one behind.
LEMMA BumpedIsLater ==
  ASSUME NEW f \in Funnel, NEW b \in Buckets
  PROVE  Attributed([f EXCEPT ![b] = @ + 1]) # 0
<1>1. Attributed([f EXCEPT ![b] = @ + 1]) = Attributed(f) + 1 /\ Attributed(f) \in Nat
  BY BumpAttributed, FunnelNumbers
<1>2. QED
  BY <1>1

\* While a switch is active, a runner's own step gives it an opportunity only
\* when it had one: the first of its list, or the one in its hand.
LEMMA HandOnlyEmpties ==
  ASSUME Locals, NEW r \in Runners,
         Begin(r) \/ Cycle(r) \/ Raise(r) \/ Kill(r) \/ DropConnection(r),
         halts # {}, InHand(r)'
  PROVE  InHand(r)
<1> USE DEF At, Goto
<1>0. /\ Local(work[r]) /\ work[r].todo \subseteq Markets /\ work[r].funnel \in Funnel
      /\ pc \in [Runners -> Locked \cup {"idle", "dead"}]
  BY LocalHas DEF Locals
<1>1. CASE ReadHalts(r) \/ Implausible(r) \/ HaltedMidway(r)
  <2>1. pc'[r] = "recordOk"
    BY <1>0, <1>1 DEF ReadHalts, Implausible, HaltedMidway, HaltRest
  <2>2. QED BY <2>1 DEF InHand
<1>2. CASE Refuse(r)
  <2>1. PICK m \in work[r].todo, why \in {"fee_refused", "risk_rejected"} :
          Keep(r, [work[r] EXCEPT !.todo = @ \ {m}, !.funnel[why] = @ + 1])
    BY <1>2 DEF Refuse
  <2>2. PICK f \in Funnel, S \in SUBSET Markets : f = work[r].funnel /\ S = work[r].todo \ {m}
    BY <1>0
  <2>3. Keep(r, [work[r] EXCEPT !.todo = S, !.funnel = [f EXCEPT ![why] = @ + 1]])
    BY <2>1, <2>2
  <2>4. [f EXCEPT ![why] = @ + 1] \in Funnel
    BY FunnelBumped DEF Buckets
  <2>5. work'[r] = [work[r] EXCEPT !.todo = S, !.funnel = [f EXCEPT ![why] = @ + 1]]
    <3>1. PICK n : n = [work[r] EXCEPT !.todo = S, !.funnel = [f EXCEPT ![why] = @ + 1]]
      OBVIOUS
    <3>2. Local(n)
      BY <1>0, <2>4, <3>1, LocalListed
    <3>3. QED BY <2>3, <3>1, <3>2, LocalKept
  <2>6. work'[r].funnel = [f EXCEPT ![why] = @ + 1]
    BY <1>0, <2>5, NewFunnel
  <2>7. Attributed(work'[r].funnel) # 0 /\ pc'[r] = "next"
    BY <1>2, <2>6, BumpedIsLater DEF Refuse, Buckets
  <2>8. QED BY <2>7 DEF InHand, Attributed
<1>3. CASE Approve(r)
  <2>1. PICK m \in work[r].todo : TRUE
    BY <1>3 DEF Approve
  <2>2. Attributed(work[r].funnel) = 0 /\ pc[r] = "next"
    BY <1>3 DEF Approve, MayProceed
  <2>3. QED BY <2>1, <2>2 DEF InHand
<1>4. CASE CheckHeld(r) \/ Route(r) \/ PaperFill(r)
  BY <1>4 DEF CheckHeld, Route, PaperFill, InHand
<1>5. CASE LiveOrder(r)
  BY <1>5 DEF LiveOrder, InHand
<1>6. CASE LiveResult(r)
  <2>1. Done(r, "placed")
    BY <1>6 DEF LiveResult
  <2>2. PICK f \in Funnel : f = work[r].funnel
    BY <1>0
  <2>3. [f EXCEPT !["placed"] = @ + 1] \in Funnel
    BY FunnelBumped DEF Buckets
  <2>4. Keep(r, [work[r] EXCEPT !.opp = <<>>, !.trade = 0,
                                !.funnel = [f EXCEPT !["placed"] = @ + 1]])
    BY <2>1, <2>2 DEF Done
  <2>5. work'[r] = [work[r] EXCEPT !.opp = <<>>, !.trade = 0,
                                   !.funnel = [f EXCEPT !["placed"] = @ + 1]]
    <3>1. PICK n : n = [work[r] EXCEPT !.opp = <<>>, !.trade = 0,
                                       !.funnel = [f EXCEPT !["placed"] = @ + 1]]
      OBVIOUS
    <3>2. Local(n)
      BY <1>0, <2>3, <3>1, LocalDone
    <3>3. QED BY <2>4, <3>1, <3>2, LocalKept
  <2>6. work'[r].funnel = [f EXCEPT !["placed"] = @ + 1]
    BY <1>0, <2>5, NewFunnel
  <2>7. Attributed(work'[r].funnel) # 0 /\ pc'[r] = "next"
    BY <1>0, <2>1, <2>6, BumpedIsLater DEF Done, Buckets
  <2>8. QED BY <2>7 DEF InHand, Attributed
<1>7. CASE Kill(r) \/ DropConnection(r) \/ Begin(r) \/ Raise(r)
  <2>1. (pc' = pc /\ work' = work) \/ pc'[r] \in {"dead", "legacy", "recordFailed"}
    BY <1>0, <1>7 DEF Kill, DropConnection, Begin, Raise
  <2>2. QED BY <2>1 DEF InHand
<1>8. CASE MarkLegacy(r) \/ CountGate(r) \/ ResyncGate(r) \/ FetchResults(r) \/ SettleOne(r)
           \/ LockSettled(r) \/ CommitSettled(r)
           \/ Settled(r) \/ SyncBankroll(r) \/ Score(r) \/ CheckSwitches(r) \/ Finish(r)
           \/ RecordOk(r) \/ RecordFailed(r) \/ CheckErrors(r) \/ Unlock(r) \/ ServerRelease(r)
  <2>1. pc'[r] \notin {"next", "held", "route", "paper", "order"}
    BY <1>0, <1>8 DEF MarkLegacy, CountGate, ResyncGate, FetchResults, SettleOne, LockSettled,
                      CommitSettled, Settled,
                      SyncBankroll, Score, CheckSwitches, Finish, RecordOk, RecordFailed,
                      CheckErrors, Unlock, ServerRelease
  <2>2. QED BY <2>1 DEF InHand
<1>9. QED
  BY <1>1, <1>2, <1>3, <1>4, <1>5, <1>6, <1>7, <1>8 DEF Cycle

\* While any switch is active the runners with an opportunity in hand only get
\* fewer, in every environment, also when the server drops the lock's
\* connection and several runners trade at once (active_halts, read again
\* before every later opportunity).
THEOREM HaltsDrain == Spec => HaltDrains
<1>1. Init => Locals
  BY NoWorkLocal DEF Init, Locals
<1>2. Locals /\ [Next]_vars => Locals'
  BY LocalsStep
<1>3. Locals /\ [Next]_vars
        => [halts # {} /\ halts' # {} => \A r \in Runners : InHand(r)' => InHand(r)]_vars
  <2> SUFFICES ASSUME Locals, [Next]_vars, halts # {}, NEW k \in Runners, InHand(k)'
               PROVE  InHand(k)
    OBVIOUS
  <2>1. ASSUME NEW r \in Runners,
               Begin(r) \/ Cycle(r) \/ Raise(r) \/ Kill(r) \/ DropConnection(r)
        PROVE  InHand(k)
    <3>1. CASE k = r
      BY <2>1, <3>1, HandOnlyEmpties
    <3>2. CASE k # r
      <4>1. pc'[k] = pc[k]
        BY <2>1, <3>2, PcMoves DEF Locals
      <4>2. work'[k] = work[k]
        BY <2>1, <3>2, WorkMoves, LocalKept
      <4>3. QED BY <4>1, <4>2 DEF InHand, At
    <3>3. QED BY <3>1, <3>2
  <2>2. CASE Maintenance \/ Finalize \/ HumanClears \/ GoLive \/ UNCHANGED vars
    BY <2>2, OthersLeaveLocals DEF InHand, At
  <2>3. QED
    BY <2>1, <2>2 DEF Next
<1>4. QED
  BY <1>1, <1>2, <1>3, PTL DEF Spec, HaltDrains
-----------------------------------------------------------------------------
(***************************************************************************)
(* Repeated failures.                                                      *)
(***************************************************************************)

\* What could stop the switch from latching when the third failure is
\* recorded, or unlatch it: the check swallows its exception, the process dies
\* between the record and the check, a person clears, the lock is lost.
SwitchHeeded == Env \cap {"swallow", "kill", "clear", "drop"} = {}

\* While the last cycles all failed the switch is latched, or about to be by
\* the runner that recorded the third.
RepeatInv ==
  LastCyclesFailed => "repeated_errors" \in halts \/ \E r \in Runners : pc[r] = "checkErrors"

\* The cycle just recorded is the newest.
LEMMA NewestFirst ==
  ASSUME SwitchTypes, NEW ok \in BOOLEAN, NEW e, RecordCycle(ok, e)
  PROVE  cycleRuns'[1].ok = ok
<1>1. PICK R : R = [ok : BOOLEAN, equity : Int]
  OBVIOUS
<1>2. cycleRuns \in Seq(R) /\ Len(cycleRuns) \in Nat
  BY <1>1 DEF SwitchTypes
<1>3. PICK new : new = [ok |-> ok, equity |-> e]
  OBVIOUS
<1>4. PICK n \in 1..(Len(cycleRuns) + 1) : cycleRuns' = SubSeq(<<new>> \o cycleRuns, 1, n)
  BY <1>2, <1>3, KeptAssumption DEF RecordCycle
<1>5. SubSeq(<<new>> \o cycleRuns, 1, n)[1] = new
  BY <1>2, <1>4
<1>6. QED
  BY <1>3, <1>4, <1>5

\* Every step keeps it, as long as the switch is heeded.
LEMMA RepeatStep ==
  ASSUME SwitchHeeded, CycleInv, SwitchTypes, RepeatInv, [Next]_vars
  PROVE  RepeatInv'
<1> USE DEF At, Goto
<1>0. /\ MutexInv /\ pc \in [Runners -> Locked \cup {"idle", "dead"}]
      /\ "swallow" \notin Env /\ "kill" \notin Env /\ "clear" \notin Env /\ "drop" \notin Env
  BY DEF CycleInv, MutexInv, SwitchHeeded
<1>1. ASSUME NEW r \in Runners, RecordOk(r) PROVE RepeatInv'
  <2>1. RecordCycle(TRUE, Equity)
    BY <1>0, <1>1 DEF RecordOk, Record, Happens
  <2>2. cycleRuns'[1].ok
    BY <2>1, NewestFirst
  <2>3. 1 \in 1..ErrorCycles
    BY DEF ErrorCycles
  <2>4. QED BY <2>2, <2>3 DEF RepeatInv, LastCyclesFailed
<1>2. ASSUME NEW r \in Runners, RecordFailed(r) PROVE RepeatInv'
  BY <1>0, <1>2 DEF RecordFailed, RepeatInv
<1>3. ASSUME NEW r \in Runners, CheckErrors(r) PROVE RepeatInv'
  <2>1. CheckRepeatedErrors
    BY <1>0, <1>3 DEF CheckErrors, Happens
  <2>2. cycleRuns' = cycleRuns
    BY <2>1 DEF CheckRepeatedErrors, Trip
  <2>3. LastCyclesFailed' = LastCyclesFailed
    BY <2>2 DEF LastCyclesFailed
  <2>4. LastCyclesFailed => "repeated_errors" \in halts'
    BY <2>1 DEF CheckRepeatedErrors, Trip
  <2>5. QED BY <2>3, <2>4 DEF RepeatInv
<1>4. ASSUME NEW r \in Runners,
             \/ Begin(r) \/ MarkLegacy(r) \/ CountGate(r) \/ ResyncGate(r) \/ FetchResults(r)
             \/ SettleOne(r) \/ LockSettled(r) \/ CommitSettled(r) \/ Settled(r)
             \/ SyncBankroll(r) \/ Score(r) \/ CheckSwitches(r)
             \/ ReadHalts(r) \/ Implausible(r) \/ HaltedMidway(r) \/ Refuse(r) \/ Approve(r)
             \/ CheckHeld(r) \/ Route(r) \/ PaperFill(r) \/ LiveOrder(r) \/ LiveResult(r)
             \/ Finish(r) \/ Unlock(r) \/ ServerRelease(r) \/ Raise(r)
      PROVE  RepeatInv'
  <2>1. pc[r] # "checkErrors"
    BY <1>4 DEF Begin, MarkLegacy, CountGate, ResyncGate, FetchResults, SettleOne, LockSettled,
                CommitSettled, Settled,
                SyncBankroll, Score, CheckSwitches, ReadHalts, Implausible, HaltedMidway, Refuse,
                Approve, CheckHeld, Route, PaperFill, LiveOrder, LiveResult, Finish, Unlock,
                ServerRelease, Raise, Body
  <2>2. cycleRuns' = cycleRuns /\ halts \subseteq halts'
    BY <1>4 DEF Begin, MarkLegacy, CountGate, ResyncGate, FetchResults, SettleOne, LockSettled,
                CommitSettled, Settled,
                SyncBankroll, Score, CheckSwitches, ReadHalts, Implausible, HaltedMidway, HaltRest,
                Refuse, Approve, CheckHeld, Route, PaperFill, LiveOrder, LiveResult, Finish, Unlock,
                ServerRelease, Raise, Trip, haltVars
  <2>3. LastCyclesFailed' = LastCyclesFailed
    BY <2>2 DEF LastCyclesFailed
  <2>4. \A k \in Runners : pc[k] = "checkErrors" => pc'[k] = "checkErrors"
    <3>1. pc' = pc \/ \E to \in Locked \cup {"idle", "dead"} : pc' = [pc EXCEPT ![r] = to]
      BY <1>4, PcMoves DEF Cycle
    <3>2. QED BY <1>0, <2>1, <3>1
  <2>5. QED BY <2>2, <2>3, <2>4 DEF RepeatInv
<1>5. CASE Maintenance \/ Finalize \/ GoLive \/ UNCHANGED vars
  <2>1. UNCHANGED <<pc, cycleRuns, halts>>
    BY <1>5 DEF Maintenance, PlanRetirement, CloseMarked, LockMarked, CommitMarked, RetireSha,
                RetireMarketTrades, CountForJob,
                ResyncForJob, JobOnly, Finalize, GoLive, vars, cycleVars, haltVars
  <2>2. QED BY <2>1 DEF RepeatInv, LastCyclesFailed
<1>6. QED
  BY <1>0, <1>1, <1>2, <1>3, <1>4, <1>5 DEF Next, Cycle, Kill, DropConnection, HumanClears, Happens

\* After three recorded failures in a row nothing is entered, in an environment
\* in which the check of the third is neither swallowed nor cut off and nobody
\* clears the switch (check_repeated_errors, called where a failure is recorded).
THEOREM RepeatedFailuresStop ==
  ASSUME SwitchHeeded PROVE Spec => NoEntryAfterThreeFailures
<1>0. "drop" \notin Env
  BY DEF SwitchHeeded
<1>1. Init => HaltInv /\ SwitchTypes
  BY CycleAssumption DEF Init, HaltInv, SwitchTypes
<1>2. Init => RepeatInv
  BY DEF Init, RepeatInv, LastCyclesFailed, ErrorCycles
<1>3. CycleInv /\ HaltInv /\ SwitchTypes /\ RepeatInv /\ [Next]_vars
        => HaltInv' /\ SwitchTypes' /\ RepeatInv'
  BY <1>0, HaltInvStep, SwitchTypesStep, RepeatStep
<1>4. CycleInv /\ HaltInv /\ RepeatInv /\ [Next]_vars => [Entry => ~LastCyclesFailed]_vars
  <2> SUFFICES ASSUME CycleInv, HaltInv, RepeatInv, [Next]_vars, Entry
               PROVE  ~LastCyclesFailed
    OBVIOUS
  <2>1. halts = {}
    BY EntryOnlyUnhalted
  <2>2. PICK r \in Runners : pc[r] \in {"paper", "order"}
    BY EntryOfRunner DEF PaperFill, LiveOrder, At
  <2>3. \A k \in Runners : pc[k] # "checkErrors"
    BY <2>2 DEF CycleInv, MutexInv
  <2>4. QED BY <2>1, <2>3 DEF RepeatInv
<1>5. QED
  BY <1>0, CycleInvariant, <1>1, <1>2, <1>3, <1>4, PTL DEF Spec, NoEntryAfterThreeFailures
-----------------------------------------------------------------------------
(***************************************************************************)
(* The paper gate.                                                         *)
(***************************************************************************)

\* Where the counter a runner has resynced is relied on.
Counted == {"fetch", "settle", "sync", "score", "switches", "gate", "next", "held", "route",
            "paper", "order", "live"}

\* Within a cycle the counter promises no more than the trade table holds.
GateInv(r) ==
  /\ pc[r] = "resync" => work[r].count <= Cardinality(GateRows)
  /\ pc[r] \in Counted => paperCount <= Cardinality(GateRows)
  /\ pc[r] = "order" => GateTarget <= Cardinality(GateRows)

\* Nobody retires trades beside the cycles.
NoRetirement == "retire" \notin Env /\ "drop" \notin Env

\* The rows that count, when every row keeps its standing.
LEMMA GateRowsKept ==
  ASSUME DOMAIN trades' = DOMAIN trades,
         \A t \in DOMAIN trades : /\ trades'[t].paper = trades[t].paper
                                  /\ trades'[t].legacy = trades[t].legacy
  PROVE  GateRows' = GateRows
BY DEF GateRows

\* The rows that count, when a row is added.
LEMMA GateRowsAppended ==
  ASSUME LedgerTypeOK, NEW row \in TradeRow, trades' = Append(trades, row)
  PROVE  /\ ~row.paper => GateRows' = GateRows
         /\ row.paper /\ ~row.legacy => /\ GateRows' = GateRows \cup {Len(trades')}
                                        /\ Len(trades') \notin GateRows
         /\ trades'[Len(trades')] = row
<1>1. /\ DOMAIN trades' = DOMAIN trades \cup {Len(trades')}
      /\ Len(trades') \notin DOMAIN trades
      /\ \A t \in DOMAIN trades : trades'[t] = trades[t]
      /\ trades'[Len(trades')] = row
  BY Appended DEF LedgerTypeOK
<1>2. QED
  BY <1>1 DEF GateRows

\* A row of an approved opportunity, and what it counts for.
LEMMA EntryRow ==
  ASSUME NEW o \in Opportunity, NEW d \in Shas, NEW fee \in Nat
  PROVE  /\ NewTrade(o.market, o.side, o.price, o.qty, TRUE, "filled", fee, d) \in TradeRow
         /\ NewTrade(o.market, o.side, o.price, o.qty, FALSE, "pending", 0, d) \in TradeRow
<1>1. o.market \in Markets /\ o.side \in Sides /\ o.price \in Prices /\ o.qty \in Nat
  BY SizesAreNat DEF Opportunity
<1>2. QED
  BY <1>1 DEF NewTrade, TradeRow, Status

\* What a paper fill adds to the rows that count and to the counter.
LEMMA PaperFillCounts ==
  ASSUME CycleInv, NEW r \in Runners, PaperFill(r)
  PROVE  /\ Cardinality(GateRows)' = Cardinality(GateRows) + 1
         /\ paperCount' = paperCount + 1
         /\ trades'[Len(trades')].paper
<1>0. LedgerTypeOK /\ Len(trades) <= MaxTrades /\ work[r].opp \in Opportunity
  BY DEF CycleInv, LedgerInv, RunnerInv, PaperFill, At
<1>1. PICK o \in Opportunity : o = work[r].opp
  BY <1>0
<1>2. PICK rate \in Rates, d \in Shas :
        RecordPaperFill(o.market, o.side, o.price, o.qty, rate, d)
  BY <1>1 DEF PaperFill
<1>3. PICK fee \in Nat : fee = Fee(o.qty, o.price, rate)
  <2>1. o.qty \in Nat /\ o.price \in 1..99 /\ rate \in Nat
    BY SizesAreNat, LedgerAssumption DEF Opportunity
  <2>2. QED BY <2>1, FeeIsNat
<1>4. PICK row \in TradeRow :
        row = NewTrade(o.market, o.side, o.price, o.qty, TRUE, "filled", fee, d)
  BY EntryRow
<1>5. row.paper /\ ~row.legacy
  BY <1>4 DEF NewTrade
<1>6. trades' = Append(trades, row) /\ paperCount' = paperCount + 1
  BY <1>2, <1>3, <1>4 DEF RecordPaperFill
<1>7. /\ GateRows' = GateRows \cup {Len(trades')} /\ Len(trades') \notin GateRows
      /\ trades'[Len(trades')] = row
  BY <1>0, <1>5, <1>6, GateRowsAppended
<1>8. IsFiniteSet(GateRows)
  BY <1>0, GateRowsFinite
<1>9. Cardinality(GateRows \cup {Len(trades')}) = Cardinality(GateRows) + 1
  BY <1>7, <1>8, FS_AddElement
<1>10. QED
  BY <1>5, <1>6, <1>7, <1>9

\* Every other step of a runner after it has marked legacy trades leaves the
\* rows that count alone.
LEMMA GateRowsStable ==
  ASSUME CycleInv, NEW r \in Runners,
         Begin(r) \/ Cycle(r) \/ Raise(r) \/ Kill(r), ~MarkLegacy(r), ~PaperFill(r)
  PROVE  GateRows' = GateRows
<1>0. LedgerTypeOK /\ work[r] \in Work /\ RunnerInv(r)
  BY DEF CycleInv, LedgerInv
<1>1. CASE CommitSettled(r)
  <2>1. PICK c : c.at = "locked" /\ CommitClose(c) /\ Follows(c)
    BY <1>1, CommitsFollow
  <2>2. LedgerInv
    BY DEF CycleInv
  <2>3. QED BY <2>1, <2>2, CommitQuiet, GateRowsKept
<1>2. CASE LiveResult(r)
  <2>1. PICK t \in Pending : t = work[r].trade
    BY <1>0, <1>2 DEF LiveResult, At, RunnerInv
  <2>2. t \in DOMAIN trades /\ trades[t] \in TradeRow
    BY <1>0, <2>1, RowsTyped DEF Pending
  <2>3. PICK row : /\ trades' = [trades EXCEPT ![t] = row]
                   /\ row.paper = trades[t].paper /\ row.legacy = trades[t].legacy
    <3>1. CASE \E q \in 1..work[r].opp.qty : \E fee \in LiveFees(t, q) : MarkTradeFilled(t, q, fee)
      <4>1. PICK q \in 1..work[r].opp.qty : \E fee \in LiveFees(t, q) : MarkTradeFilled(t, q, fee)
        BY <3>1
      <4>2. PICK fee \in LiveFees(t, q) : MarkTradeFilled(t, q, fee)
        BY <4>1
      <4>3. PICK row : row = FilledRow(trades[t], q, fee)
        OBVIOUS
      <4>4. row.paper = trades[t].paper /\ row.legacy = trades[t].legacy
        BY <2>2, <4>3 DEF FilledRow, TradeRow
      <4>5. QED BY <4>2, <4>3, <4>4 DEF MarkTradeFilled
    <3>2. CASE \E status \in {"cancelled", "error"} : UpdateTradeStatus(t, status)
      <4>1. PICK status \in {"cancelled", "error"} : UpdateTradeStatus(t, status)
        BY <3>2
      <4>2. PICK row : row = [trades[t] EXCEPT !.status = status]
        OBVIOUS
      <4>3. row.paper = trades[t].paper /\ row.legacy = trades[t].legacy
        BY <2>2, <4>2 DEF TradeRow
      <4>4. trades' = [trades EXCEPT ![t] = row]
        BY <4>1, <4>2 DEF UpdateTradeStatus
      <4>5. QED BY <4>3, <4>4
    <3>3. QED BY <1>2, <2>1, <3>1, <3>2 DEF LiveResult
  <2>4. /\ DOMAIN trades' = DOMAIN trades
        /\ \A u \in DOMAIN trades : trades'[u] = IF u = t THEN row ELSE trades[u]
    BY <1>0, <2>2, <2>3 DEF LedgerTypeOK
  <2>5. \A u \in DOMAIN trades : /\ trades'[u].paper = trades[u].paper
                                 /\ trades'[u].legacy = trades[u].legacy
    BY <2>3, <2>4
  <2>6. QED BY <2>4, <2>5, GateRowsKept
<1>3. CASE LiveOrder(r)
  <2>1. PICK o \in Opportunity : o = work[r].opp
    BY <1>0, <1>3 DEF LiveOrder, At, RunnerInv
  <2>2. PICK d \in Shas : CreatePendingTrade(o.market, o.side, o.price, o.qty, d)
    BY <1>3, <2>1 DEF LiveOrder
  <2>3. 0 \in Nat
    OBVIOUS
  <2>4. PICK row \in TradeRow :
          row = NewTrade(o.market, o.side, o.price, o.qty, FALSE, "pending", 0, d)
    BY <2>3, EntryRow
  <2>5. ~row.paper /\ trades' = Append(trades, row)
    BY <2>2, <2>4 DEF NewTrade, CreatePendingTrade
  <2>6. QED BY <1>0, <2>5, GateRowsAppended
<1>4. CASE ResyncGate(r) \/ SyncBankroll(r)
  BY <1>4 DEF ResyncGate, WriteGateCounter, SyncBankroll, SyncLiveBankroll, GateRows
<1>5. CASE CountGate(r) \/ FetchResults(r) \/ SettleOne(r) \/ LockSettled(r) \/ Settled(r)
           \/ Score(r) \/ CheckSwitches(r) \/ ReadHalts(r) \/ Implausible(r) \/ HaltedMidway(r)
           \/ Refuse(r) \/ Approve(r) \/ CheckHeld(r) \/ Route(r) \/ Finish(r) \/ RecordOk(r)
           \/ RecordFailed(r) \/ CheckErrors(r) \/ Unlock(r) \/ ServerRelease(r) \/ Begin(r)
           \/ Raise(r) \/ Kill(r)
  <2>1. trades' = trades
    BY <1>5 DEF CountGate, FetchResults, SettleOne, LockSettled, Settled, Score, CheckSwitches,
                ReadHalts, Implausible,
                HaltedMidway, Refuse, Approve, CheckHeld, Route, Finish, RecordOk, RecordFailed,
                Record, CheckErrors, Unlock, ServerRelease, Begin, Raise, Kill, ledgerVars
  <2>2. QED BY <2>1 DEF GateRows
<1>6. QED
  BY <1>1, <1>2, <1>3, <1>4, <1>5 DEF Cycle
\* A runner's own step keeps what it may promise of the gate.
LEMMA GateInvStep ==
  ASSUME CycleInv, NEW r \in Runners, GateInv(r), Begin(r) \/ Cycle(r) \/ Raise(r) \/ Kill(r)
  PROVE  GateInv(r)'
<1> USE DEF At, Goto
<1>0. /\ work[r] \in Work /\ work \in [Runners -> Work] /\ paperCount \in Nat
      /\ pc \in [Runners -> Locked \cup {"idle", "dead"}]
      /\ GateTarget \in Nat
  BY CycleAssumption DEF CycleInv, MutexInv, LedgerInv, LedgerTypeOK
<1>1. PICK n \in Nat : n = Cardinality(GateRows)
  BY GateRowsFinite, FS_CardinalityType DEF CycleInv, LedgerInv
<1>2. CASE MarkLegacy(r)
  <2>1. pc'[r] = "count"
    BY <1>0, <1>2 DEF MarkLegacy
  <2>2. QED BY <2>1 DEF GateInv, Counted
<1>3. CASE PaperFill(r)
  <2>1. Cardinality(GateRows)' = n + 1 /\ paperCount' = paperCount + 1
    BY <1>1, <1>3, PaperFillCounts
  <2>2. paperCount <= n /\ pc'[r] = "next"
    BY <1>0, <1>1, <1>3 DEF PaperFill, Done, GateInv, Counted
  <2>3. QED BY <1>0, <2>1, <2>2 DEF GateInv
<1>4. ASSUME ~MarkLegacy(r), ~PaperFill(r) PROVE GateInv(r)'
  <2>1. Cardinality(GateRows)' = n
    BY <1>1, <1>4, GateRowsStable
  <2>2. CASE CountGate(r)
    <3>1. work'[r].count = n /\ pc'[r] = "resync"
      BY <1>0, <1>1, <2>2 DEF CountGate, Keep, Work
    <3>2. QED BY <2>1, <3>1 DEF GateInv, Counted
  <2>3. CASE ResyncGate(r)
    <3>1. paperCount' = work[r].count /\ pc'[r] = "fetch" /\ work[r].count <= n
      BY <1>0, <1>1, <2>3 DEF ResyncGate, WriteGateCounter, GateInv
    <3>2. QED BY <2>1, <3>1 DEF GateInv
  <2>4. CASE Route(r)
    <3>1. paperCount' = paperCount /\ paperCount <= n
      BY <1>1, <2>4 DEF Route, GateInv, Counted, ledgerVars, settings
    <3>2. pc'[r] = "order" => GateTarget <= paperCount
      BY <1>0, <2>4 DEF Route, Done
    <3>3. pc'[r] # "resync"
      BY <1>0, <2>4 DEF Route, Done
    <3>4. QED BY <1>0, <2>1, <3>1, <3>2, <3>3 DEF GateInv
  <2>5. CASE pc'[r] \notin Counted \cup {"resync"}
    BY <2>5 DEF GateInv, Counted
  <2>6. CASE FetchResults(r) \/ SettleOne(r) \/ LockSettled(r) \/ CommitSettled(r)
                \/ Settled(r) \/ SyncBankroll(r) \/ Score(r)
             \/ CheckSwitches(r) \/ ReadHalts(r) \/ Implausible(r) \/ HaltedMidway(r) \/ Refuse(r)
             \/ Approve(r) \/ CheckHeld(r) \/ LiveOrder(r) \/ LiveResult(r) \/ Finish(r)
    <3>1. paperCount' = paperCount
      BY <2>6 DEF FetchResults, SettleOne, LockSettled, CommitSettled, CommitClose, Settled,
                  SyncBankroll, SyncLiveBankroll,
                  Score, CheckSwitches, ReadHalts, Implausible, HaltedMidway, Refuse, Approve,
                  CheckHeld, LiveOrder, CreatePendingTrade, LiveResult, MarkTradeFilled,
                  UpdateTradeStatus, Finish, ledgerVars, settings
    <3>2. paperCount <= n
      BY <1>1, <2>6 DEF GateInv, Counted, FetchResults, SettleOne, LockSettled, CommitSettled,
                        Settled, SyncBankroll, Score,
                        CheckSwitches, ReadHalts, Implausible, HaltedMidway, Refuse, Approve,
                        CheckHeld, LiveOrder, LiveResult, Finish
    <3>3. pc'[r] \notin {"resync", "order"}
      BY <1>0, <2>6 DEF FetchResults, SettleOne, LockSettled, CommitSettled, Settled,
                        SyncBankroll, Score, CheckSwitches,
                        ReadHalts, Implausible, HaltedMidway, HaltRest, Refuse, Approve, CheckHeld,
                        Done, LiveOrder, LiveResult, Finish
    <3>4. QED BY <2>1, <3>1, <3>2, <3>3 DEF GateInv
  <2>7. CASE RecordOk(r) \/ RecordFailed(r) \/ CheckErrors(r) \/ Unlock(r) \/ ServerRelease(r)
             \/ Begin(r) \/ Raise(r) \/ Kill(r)
    <3>1. pc'[r] \in {"unlock", "checkErrors", "idle", "legacy", "recordFailed", "dead"}
      BY <1>0, <2>7 DEF RecordOk, RecordFailed, CheckErrors, Unlock, ServerRelease, Begin, Raise,
                        Kill
    <3>2. QED BY <2>5, <3>1 DEF Counted
  <2>8. QED
    BY <1>4, <2>2, <2>3, <2>4, <2>6, <2>7 DEF Cycle
<1>5. QED
  BY <1>2, <1>3, <1>4

\* With no retirement beside the cycles the job never starts.
GateHolds == job.at = "idle" /\ \A r \in Runners : GateInv(r)

\* Every step keeps the counter's promise.
LEMMA GateStep ==
  ASSUME NoRetirement, CycleInv, GateHolds, [Next]_vars
  PROVE  GateHolds'
<1> USE DEF GateHolds
<1>1. ASSUME NEW r \in Runners, Begin(r) \/ Cycle(r) \/ Raise(r) \/ Kill(r)
      PROVE  GateHolds'
  <2>1. \A k \in Runners : k # r => pc'[k] = "idle"
    BY <1>1, OthersIdle DEF CycleInv
  <2>2. \A k \in Runners : k # r => GateInv(k)'
    BY <2>1 DEF GateInv, Counted
  <2>3. GateInv(r)'
    BY <1>1, GateInvStep
  <2>4. job' = job
    BY <1>1 DEF Begin, Raise, Kill, Cycle, MarkLegacy, CountGate, ResyncGate, FetchResults,
                SettleOne, LockSettled, CommitSettled, Settled, SyncBankroll, Score,
                CheckSwitches, ReadHalts, Implausible,
                HaltedMidway, Refuse, Approve, CheckHeld, Route, PaperFill, LiveOrder, LiveResult,
                Finish, RecordOk, RecordFailed, Record, CheckErrors, Unlock, ServerRelease
  <2>5. QED BY <2>2, <2>3, <2>4
<1>2. CASE Maintenance
  <2>1. FALSE
    BY <1>2 DEF Maintenance, PlanRetirement, CloseMarked, LockMarked, CommitMarked, RetireSha,
                RetireMarketTrades, CountForJob, ResyncForJob, JobStep, Happens, NoRetirement, NoJob
  <2>2. QED BY <2>1
<1>3. CASE Finalize \/ HumanClears \/ GoLive \/ UNCHANGED vars
  <2>1. UNCHANGED <<pc, work, job, trades, paperCount>>
    BY <1>3 DEF Finalize, HumanClears, GoLive, SetMode, vars, ledgerVars, settings, cycleVars
  <2>2. QED BY <2>1 DEF GateInv, GateRows
<1>4. QED
  BY <1>1, <1>2, <1>3 DEF Next, DropConnection, Happens, NoRetirement

\* Real money follows the evidence: unless a deploy is retired beside the
\* cycles, a live order is written only while the trade table itself holds
\* GateTarget paper trades that count (resync_gate_counter at the start of each
\* cycle, the gate read in execute).
THEOREM GateFollowed == ASSUME NoRetirement PROVE Spec => LiveOrdersFollowTheGate
<1>0. "drop" \notin Env
  BY DEF NoRetirement
<1>1. Init => GateHolds
  BY DEF Init, NoJob, GateHolds, GateInv, Counted
<1>2. CycleInv /\ GateHolds /\ [Next]_vars => GateHolds'
  BY GateStep
<1>3. CycleInv /\ GateHolds /\ [Next]_vars
        => [Entry /\ ~trades'[Len(trades')].paper => Cardinality(GateRows) >= GateTarget]_vars
  <2> SUFFICES ASSUME CycleInv, GateHolds, [Next]_vars, Entry, ~trades'[Len(trades')].paper
               PROVE  Cardinality(GateRows) >= GateTarget
    OBVIOUS
  <2>1. PICK r \in Runners : PaperFill(r) \/ LiveOrder(r)
    BY EntryOfRunner
  <2>2. LiveOrder(r)
    BY <2>1, PaperFillCounts
  <2>3. GateTarget <= Cardinality(GateRows)
    BY <2>2 DEF LiveOrder, At, GateHolds, GateInv
  <2>4. PICK n \in Nat : n = Cardinality(GateRows)
    BY GateRowsFinite, FS_CardinalityType DEF CycleInv, LedgerInv
  <2>5. QED BY <2>3, <2>4, CycleAssumption
<1>4. QED
  BY <1>0, CycleInvariant, <1>1, <1>2, <1>3, PTL DEF Spec, LiveOrdersFollowTheGate

-----------------------------------------------------------------------------
(***************************************************************************)
(* Paper money.                                                            *)
(***************************************************************************)

\* With no retirement beside the cycles a closing is alone from its first
\* read to its commit.
SerialInv ==
  /\ job.at = "idle"
  /\ \A r \in Runners : \A c \in work[r].closing :
       positions[c.row] = c.pos /\ (c.at = "locked" => c.sum = bankroll + c.pnl)

\* Every step keeps it so.
LEMMA SerialStep ==
  ASSUME NoRetirement, CycleInv, SerialInv, [Next]_vars
  PROVE  SerialInv'
<1> USE DEF SerialInv, At
<1>0. work \in [Runners -> Work] /\ LedgerTypeOK
  BY DEF CycleInv, LedgerInv
<1>1. ASSUME NEW r \in Runners, Begin(r) \/ Cycle(r) \/ Raise(r) \/ Kill(r)
      PROVE  SerialInv'
  <2>1. job' = job
    BY <1>1, RunnerLeavesJob
  <2>2. CASE ~SettleOne(r) /\ ~LockSettled(r) /\ ~CommitSettled(r)
    BY <1>1, <2>1, <2>2, ClosingLeft
  <2>3. CASE SettleOne(r) \/ LockSettled(r) \/ CommitSettled(r)
    <3>1. \A k \in Runners : k # r => work'[k] = work[k] /\ work[k].closing = {}
      <4>1. \A k \in Runners : k # r => pc[k] = "idle"
        BY <2>3, OthersIdle DEF CycleInv, Cycle
      <4>2. QED BY <1>0, <2>3, <4>1 DEF CycleInv, ClosingInv, SettleOne, LockSettled,
                                        CommitSettled, Keep
    <3>2. ASSUME NEW c \in work'[r].closing
          PROVE  positions'[c.row] = c.pos /\ (c.at = "locked" => c.sum = bankroll' + c.pnl)
      <4>1. CASE CommitSettled(r)
        BY <1>0, <4>1 DEF CommitSettled, Keep, Work
      <4>2. CASE SettleOne(r)
        <5>1. PICK m \in work[r].results :
                \/ /\ work[r].closing = {}
                   /\ Keep(r, [work[r] EXCEPT !.results = @ \ {m}])
                \/ \E i \in Open(m) :
                     Keep(r, [work[r] EXCEPT !.results = @ \ {m},
                                             !.closing = {SeeOpen(i, ResolvedAt(m), TRUE)}])
          BY <4>2 DEF SettleOne
        <5>2. PICK i \in Open(m) : c = SeeOpen(i, ResolvedAt(m), TRUE)
          <6>1. PICK R : R = work[r].results \ {m}
            OBVIOUS
          <6>2. ~(work[r].closing = {} /\ Keep(r, [work[r] EXCEPT !.results = R]))
            <7>1. ASSUME work[r].closing = {}, Keep(r, [work[r] EXCEPT !.results = R])
                  PROVE  FALSE
              <8>1. work'[r] = [work[r] EXCEPT !.results = R]
                BY <1>0, <7>1 DEF Keep
              <8>2. work'[r].closing = work[r].closing
                BY <1>0, <8>1 DEF Work
              <8>3. QED BY <7>1, <8>2
            <7>2. QED BY <7>1
          <6>3. PICK i \in Open(m) :
                  Keep(r, [work[r] EXCEPT !.results = R,
                                          !.closing = {SeeOpen(i, ResolvedAt(m), TRUE)}])
            BY <5>1, <6>1, <6>2
          <6>4. work'[r].closing = {SeeOpen(i, ResolvedAt(m), TRUE)}
            BY <1>0, <6>3 DEF Keep, Work
          <6>5. QED BY <6>4
        <5>3. positions' = positions
          BY <4>2 DEF SettleOne, ledgerVars
        <5>4. QED BY <5>2, <5>3 DEF SeeOpen
      <4>3. CASE LockSettled(r)
        <5>1. PICK b \in work[r].closing :
                \E d \in GetsLock(b) : Keep(r, [work[r] EXCEPT !.closing = {d}])
          BY <4>3 DEF LockSettled
        <5>2. PICK d \in GetsLock(b) : Keep(r, [work[r] EXCEPT !.closing = {d}])
          BY <5>1
        <5>3. c = d
          BY <1>0, <5>2 DEF Keep, Work
        <5>4. PICK pnl \in PnLs(b.pos, b.yesExit) : c = LockedClose(b, pnl)
          BY <5>2, <5>3 DEF GetsLock
        <5>5. Follows(b)
          BY DEF CycleInv, ClosingInv
        <5>6. c.row = b.row /\ c.pos = b.pos /\ c.pnl = pnl /\ c.sum = bankroll + pnl
          <6>1. b \in Close
            BY <5>5 DEF Follows
          <6>2. QED BY <5>4, <6>1, LockedFields
        <5>7. positions' = positions /\ bankroll' = bankroll
          BY <4>3 DEF LockSettled, ledgerVars, settings
        <5>8. QED BY <5>6, <5>7
      <4>4. QED BY <2>3, <4>1, <4>2, <4>3
    <3>3. QED BY <2>1, <3>1, <3>2
  <2>4. QED BY <2>2, <2>3
<1>2. CASE Maintenance
  <2>1. FALSE
    BY <1>2 DEF Maintenance, PlanRetirement, CloseMarked, LockMarked, CommitMarked, RetireSha,
                RetireMarketTrades, CountForJob, ResyncForJob, JobStep, Happens, NoRetirement
  <2>2. QED BY <2>1
<1>3. CASE Finalize \/ HumanClears \/ GoLive \/ UNCHANGED vars
  BY <1>3 DEF Finalize, HumanClears, GoLive, SetMode, vars, ledgerVars, settings, cycleVars
<1>4. QED
  BY <1>1, <1>2, <1>3 DEF Next, DropConnection, Happens, NoRetirement

\* In the running system paper money moves by realized PnL alone as long as no
\* two closings overlap: cycles exclude each other, so only a retirement beside
\* one can make the sum that close_position computed a stale one, and the run
\* cycle_close_race shows that it does.
THEOREM CycleBankrollMoves == ASSUME NoRetirement PROVE Spec => BankrollMovesByRealizedPnL
<1>0. "drop" \notin Env
  BY DEF NoRetirement
<1>1. Init => SerialInv
  BY DEF Init, NoJob, NoWork, SerialInv
<1>2. CycleInv /\ SerialInv /\ [Next]_vars => SerialInv'
  BY SerialStep
<1>3. CycleInv /\ SerialInv /\ [Next]_vars
        => [mode = "paper" => bankroll' - bankroll = Realized' - Realized]_ledgerVars
  <2> SUFFICES ASSUME CycleInv, SerialInv, [Next]_vars, mode = "paper"
               PROVE  bankroll' - bankroll = Realized' - Realized
    OBVIOUS
  <2>0. LedgerInv /\ bankroll \in Int
    BY DEF CycleInv, LedgerInv, LedgerTypeOK
  <2>1. CASE [OpenNext]_ledgerVars
    BY <2>0, <2>1, BankrollStep
  <2>2. ASSUME NEW r \in Runners, CommitSettled(r)
        PROVE  bankroll' - bankroll = Realized' - Realized
    <3>1. PICK c \in work[r].closing : c.at = "locked" /\ CommitClose(c) /\ Follows(c)
      BY <2>2, CommitsFollow
    <3>2. positions[c.row] = c.pos /\ c.sum = bankroll + c.pnl
      BY <3>1 DEF SerialInv
    <3>3. /\ c.pos \in PositionRow /\ c.pos.open /\ c.pos.market \in Markets /\ c.pnl \in Int
          /\ c.yesExit \in 0..100 /\ c.finalize \in BOOLEAN /\ c.row \in DOMAIN positions
      BY <3>1 DEF Follows, Close, PositionRow
    <3>4. c.row \in Open(c.pos.market)
      BY <3>2, <3>3 DEF Open
    <3>5. PICK fee \in Nat, exit \in 0..100 :
            Closing(c.row, fee, exit, c.pnl, c.pos.market, c.yesExit, c.finalize)
      BY <2>0, <3>1, <3>4, CommitIs
    <3>6. Realized' - Realized = c.pnl
      BY <2>0, <3>3, <3>4, <3>5, CloseRealizes
    <3>7. bankroll' = bankroll + c.pnl
      BY <2>0, <3>1, <3>2, <3>3 DEF CommitClose
    <3>8. QED BY <2>0, <3>3, <3>6, <3>7
  <2>3. ~CommitMarked
    BY DEF SerialInv, CommitMarked
  <2>4. CASE UNCHANGED ledgerVars
    BY <2>1, <2>4
  <2>5. CASE \E r \in Runners : Begin(r) \/ Raise(r) \/ Kill(r) \/ DropConnection(r)
    BY <2>4, <2>5 DEF Begin, Raise, Kill, DropConnection
  <2>6. QED
    BY <2>1, <2>2, <2>3, <2>4, <2>5, RunnerOpens, OthersOpen DEF Next, vars
<1>4. QED
  BY <1>0, CycleInvariant, <1>1, <1>2, <1>3, PTL DEF Spec, BankrollMovesByRealizedPnL
=============================================================================
