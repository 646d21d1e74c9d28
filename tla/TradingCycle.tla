---------------------------- MODULE TradingCycle ----------------------------
(***************************************************************************)
(* The trading cycle (run_trading.py: run_pipeline, _run_pipeline_locked,  *)
(* execute_qualifying) run by several processes against one database: the  *)
(* session's cycles, a manual dispatch of the trade workflow, and the      *)
(* maintenance job that retires a deploy, which takes no lock.             *)
(*                                                                         *)
(* One action is one database transaction (or one call to the exchange),   *)
(* so any two processes interleave between any two transactions; the one   *)
(* that closes a position takes three, between which others run too.  The  *)
(* stages that write nothing the properties read (ingest, scoring, the     *)
(* digest) are where an exception can be raised and nothing else.          *)
(***************************************************************************)
EXTENDS Ledger, KillSwitches

CONSTANTS
  Runners,     \* processes that can run a cycle
  NoRunner,    \* nobody
  GateTarget,  \* paper_trades_before_live
  StageCap,    \* contracts per live trade at ramp stage 0
  Env,         \* what the environment of this instance does, see EnvKinds
  MaxEvents    \* bound: faults and maintenance jobs in one behaviour

EnvKinds ==
  {"raise",     \* an exception leaves a stage of the cycle
   "nofetch",   \* a market's result cannot be fetched
   "swallow",   \* recording the cycle or the repeated-errors check fails
   "kill",      \* the process dies: 8-minute timeout, host loss
   "drop",      \* the lock's idle connection is closed by the server
   "clear",     \* a person clears the halts
   "stale",     \* price snapshots can be an hour old when trading starts
   "golive",    \* a person sets mode to live
   "retire"}    \* the maintenance job retires a deploy

ASSUME CycleAssumption ==
  /\ NoRunner \notin Runners
  /\ GateTarget \in Nat
  /\ StageCap \in Nat \ {0}
  /\ Env \subseteq EnvKinds
  /\ MaxEvents \in Nat

VARIABLES
  lock,     \* holder of the advisory lock CYCLE_LOCK_KEY
  pc,       \* what each runner does next
  work,     \* each runner's local variables
  outcome,  \* the exchange's result of each market, "none" until final
  job,      \* the maintenance job: its program counter and local variables
  events    \* faults and maintenance jobs so far

cycleVars == <<lock, pc, work, outcome, job, events>>
haltVars  == <<halts, cycleRuns>>
vars      == <<ledgerVars, haltVars, cycleVars>>

-----------------------------------------------------------------------------
\* ExecutionFunnel: where the qualifying opportunities of a cycle went.
Funnel == [qualifying : Nat, halted : Nat, fee_refused : Nat, risk_rejected : Nat,
           nothing : Nat, placed : Nat]
EmptyFunnel == [qualifying |-> 0, halted |-> 0, fee_refused |-> 0,
                risk_rejected |-> 0, nothing |-> 0, placed |-> 0]
Attributed(f) == f.halted + f.fee_refused + f.risk_rejected + f.nothing + f.placed

\* An opportunity that risk approved, and the local variables of a runner.
Opportunity == [market : Markets, side : Sides, price : Prices, qty : Sizes]
Work == [results : SUBSET Markets, count : 0..MaxTrades, todo : SUBSET Markets,
         opp : Opportunity \cup {<<>>}, trade : 0..MaxTrades, funnel : Funnel,
         closing : SUBSET Close]

NoWork == [results |-> {}, count |-> 0, todo |-> {}, opp |-> <<>>,
           trade |-> 0, funnel |-> EmptyFunnel, closing |-> {}]

Goto(r, to) == pc' = [pc EXCEPT ![r] = to]
At(r, from) == pc[r] = from
Keep(r, w)  == work' = [work EXCEPT ![r] = w]

Body == {"legacy", "count", "resync", "fetch", "settle", "sync", "score", "switches",
         "gate", "next", "held", "route", "paper", "order", "live"}
Locked == Body \cup {"recordOk", "recordFailed", "checkErrors", "unlock"}

Happens(kind) ==
  /\ kind \in Env
  /\ events < MaxEvents
  /\ events' = events + 1

\* Equity is bankroll plus unrealized PnL, and the latter is always zero: an
\* open position's current_price is written when it opens and never again.
Equity == bankroll

-----------------------------------------------------------------------------
(***************************************************************************)
(* run_pipeline and the stages before trading.                             *)
(***************************************************************************)

\* Mutant of Begin: the answer of pg_try_advisory_lock is not looked at.
BeginAnyway(r) ==
  /\ At(r, "idle")
  /\ lock' = r
  /\ Goto(r, "legacy")
  /\ UNCHANGED <<ledgerVars, haltVars, work, outcome, job, events>>

\* pg_try_advisory_lock; a runner that does not get it returns at once.
Begin(r) ==
  /\ At(r, "idle")
  /\ lock = NoRunner
  /\ lock' = r
  /\ Goto(r, "legacy")
  /\ UNCHANGED <<ledgerVars, haltVars, work, outcome, job, events>>

MarkLegacy(r) ==
  /\ At(r, "legacy")
  /\ MarkLegacyTrades
  /\ Goto(r, "count")
  /\ UNCHANGED <<haltVars, lock, work, outcome, job, events>>

\* resync_gate_counter: the count in one transaction, the write in another.
CountGate(r) ==
  /\ At(r, "count")
  /\ Keep(r, [work[r] EXCEPT !.count = Cardinality(GateRows)])
  /\ Goto(r, "resync")
  /\ UNCHANGED <<ledgerVars, haltVars, lock, outcome, job, events>>

ResyncGate(r) ==
  /\ At(r, "resync")
  /\ WriteGateCounter(work[r].count)
  /\ Goto(r, "fetch")
  /\ UNCHANGED <<haltVars, lock, work, outcome, job, events>>

\* Mutant of FetchResults: a halted cycle settles nothing.
FetchUnlessHalted(r) ==
  /\ At(r, "fetch")
  /\ LET final == {m \in OpenMarkets : outcome[m] # "none" /\ halts = {}}
     IN Keep(r, [work[r] EXCEPT !.results = final])
  /\ Goto(r, "settle")
  /\ UNCHANGED <<ledgerVars, haltVars, lock, outcome, job, events>>

\* _fetch_results for the markets with an open position.  A failed fetch is
\* skipped and the market waits for the next cycle.
FetchResults(r) ==
  /\ At(r, "fetch")
  /\ LET final == {m \in OpenMarkets : outcome[m] # "none"}
     IN \/ /\ Keep(r, [work[r] EXCEPT !.results = final])
           /\ UNCHANGED events
        \/ /\ \E got \in SUBSET final : got # final /\ Keep(r, [work[r] EXCEPT !.results = got])
           /\ Happens("nofetch")
  /\ Goto(r, "settle")
  /\ UNCHANGED <<ledgerVars, haltVars, lock, outcome, job>>

\* Rows of `positions` that a closing transaction has locked.
LockedRows ==
  {c.row : c \in {d \in job.closing \cup UNION {work[r].closing : r \in Runners} :
                   d.at = "locked"}}

\* What a closing becomes when it gets the lock of its row, once it is free.
GetsLock(c) ==
  {LockedClose(c, pnl) : pnl \in {n \in PnLs(c.pos, c.yesExit) :
                                    c.at = "seen" /\ c.row \notin LockedRows}}

ResolvedAt(m) == IF outcome[m] = "yes" THEN 100 ELSE 0

\* Mutant of SettleOne: a market stays on the list until the list is empty.
SettleAgain(r) ==
  /\ At(r, "settle")
  /\ work[r].closing = {}
  /\ \E m \in work[r].results :
       Keep(r, [work[r] EXCEPT !.closing = {SeeOpen(i, ResolvedAt(m), TRUE) : i \in Open(m)}])
  /\ UNCHANGED <<ledgerVars, haltVars, lock, pc, outcome, job, events>>

\* settle_all closes each fetched market in a transaction of its own, which
\* ends at once when no position is open any more.
SettleOne(r) ==
  /\ At(r, "settle")
  /\ work[r].closing = {}
  /\ \E m \in work[r].results :
       \/ /\ Open(m) = {}
          /\ Keep(r, [work[r] EXCEPT !.results = @ \ {m}])
       \/ \E i \in Open(m) :
            Keep(r, [work[r] EXCEPT !.results = @ \ {m},
                                    !.closing = {SeeOpen(i, ResolvedAt(m), TRUE)}])
  /\ UNCHANGED <<ledgerVars, haltVars, lock, pc, outcome, job, events>>

LockSettled(r) ==
  /\ At(r, "settle")
  /\ \E c \in work[r].closing : \E d \in GetsLock(c) :
       Keep(r, [work[r] EXCEPT !.closing = {d}])
  /\ UNCHANGED <<ledgerVars, haltVars, lock, pc, outcome, job, events>>

CommitSettled(r) ==
  /\ At(r, "settle")
  /\ \E c \in work[r].closing : c.at = "locked" /\ CommitClose(c)
  /\ Keep(r, [work[r] EXCEPT !.closing = {}])
  /\ UNCHANGED <<haltVars, lock, pc, outcome, job, events>>

\* Mutant of Settled: the bankroll is synced in either mode.
SettledThenSync(r) ==
  /\ At(r, "settle")
  /\ work[r].results = {}
  /\ work[r].closing = {}
  /\ Goto(r, "sync")
  /\ UNCHANGED <<ledgerVars, haltVars, lock, work, outcome, job, events>>

\* The bankroll is synced in live mode only, and not when the process runs
\* offline or read the mode before it was flipped.
Settled(r) ==
  /\ At(r, "settle")
  /\ work[r].results = {}
  /\ work[r].closing = {}
  /\ Goto(r, "score") \/ (mode = "live" /\ Goto(r, "sync"))
  /\ UNCHANGED <<ledgerVars, haltVars, lock, work, outcome, job, events>>

SyncBankroll(r) ==
  /\ At(r, "sync")
  /\ \E c \in CashReadings : SyncLiveBankroll(c)
  /\ Goto(r, "score")
  /\ UNCHANGED <<haltVars, lock, work, outcome, job, events>>

\* Mutant of Score: finalized markets are scored too.
ScoreFinalized(r) ==
  /\ At(r, "score")
  /\ \E S \in SUBSET Markets :
       /\ Keep(r, [work[r] EXCEPT !.todo = S,
                                  !.funnel = [EmptyFunnel EXCEPT !.qualifying = Cardinality(S)]])
       /\ Goto(r, IF S = {} THEN "recordOk" ELSE "switches")
  /\ UNCHANGED <<ledgerVars, haltVars, lock, outcome, job, events>>

\* score_all_markets: any set of markets that are not finalized can qualify.
Score(r) ==
  /\ At(r, "score")
  /\ \E S \in SUBSET (Markets \ delisted) :
       /\ Keep(r, [work[r] EXCEPT !.todo = S,
                                  !.funnel = [EmptyFunnel EXCEPT !.qualifying = Cardinality(S)]])
       /\ Goto(r, IF S = {} THEN "recordOk" ELSE "switches")
  /\ UNCHANGED <<ledgerVars, haltVars, lock, outcome, job, events>>

\* check_cycle_halts, whose trips are transactions of their own taken as one
\* step: the others ask only whether any switch is active.  If it raises, part
\* of it may have tripped, and the pipeline latches switch_error on top.
CheckSwitches(r) ==
  /\ At(r, "switches")
  /\ \E window \in 0..Len(cycleRuns), stale \in {"stale" \in Env, FALSE} :
       LET found == CycleHalts(Equity, peak, window, stale)
       IN \/ Trip(found) /\ UNCHANGED events
          \/ \E S \in SUBSET found : Trip(S \cup {"switch_error"}) /\ Happens("raise")
  /\ Goto(r, "gate")
  /\ UNCHANGED <<ledgerVars, lock, work, outcome, job>>

-----------------------------------------------------------------------------
(***************************************************************************)
(* execute_qualifying.                                                     *)
(***************************************************************************)

\* Mutant of HaltRest: the opportunity that tripped is not counted.
HaltAfter(r) ==
  /\ Keep(r, [work[r] EXCEPT !.todo = {},
                             !.funnel.halted = @ + Cardinality(work[r].todo) - 1])
  /\ Goto(r, "recordOk")

\* _halt_rest: the opportunities not yet dealt with.
HaltRest(r) ==
  /\ Keep(r, [work[r] EXCEPT !.todo = {},
                             !.funnel.halted = @ + Cardinality(work[r].todo)])
  /\ Goto(r, "recordOk")

\* Mutant of ReadHalts: left to the reads inside the loop.
ReadHaltsLater(r) ==
  /\ At(r, "gate")
  /\ Goto(r, "next")
  /\ UNCHANGED <<ledgerVars, haltVars, work, lock, outcome, job, events>>

\* active_halts before the first opportunity.
ReadHalts(r) ==
  /\ At(r, "gate")
  /\ IF halts # {} THEN HaltRest(r) ELSE Goto(r, "next") /\ UNCHANGED work
  /\ UNCHANGED <<ledgerVars, haltVars, lock, outcome, job, events>>

\* A model 40 points from the market trips before anything else is asked.
Implausible(r) ==
  /\ At(r, "next")
  /\ work[r].todo # {}
  /\ Trip({"implausible_edge"})
  /\ HaltRest(r)
  /\ UNCHANGED <<ledgerVars, lock, outcome, job, events>>

\* Mutant of MayProceed: the halts are read once, before the first one.
AlwaysProceed(r) == TRUE

\* index > 0: the halts are read again before every later opportunity.
MayProceed(r) == Attributed(work[r].funnel) = 0 \/ halts = {}

HaltedMidway(r) ==
  /\ At(r, "next")
  /\ work[r].todo # {}
  /\ ~MayProceed(r)
  /\ HaltRest(r)
  /\ UNCHANGED <<ledgerVars, haltVars, lock, outcome, job, events>>

\* No fee schedule to vouch for, or the risk manager refuses.
Refuse(r) ==
  /\ At(r, "next")
  /\ MayProceed(r)
  /\ \E m \in work[r].todo, why \in {"fee_refused", "risk_rejected"} :
       Keep(r, [work[r] EXCEPT !.todo = @ \ {m}, !.funnel[why] = @ + 1])
  /\ UNCHANGED <<ledgerVars, haltVars, lock, pc, outcome, job, events>>

\* RiskManager.evaluate approves a size; the ramp lowers it in live mode.
Approve(r) ==
  /\ At(r, "next")
  /\ MayProceed(r)
  /\ Len(trades) < MaxTrades
  /\ \E m \in work[r].todo, s \in Sides, p \in Prices, q \in Quantities :
       LET size == IF mode = "live" /\ StageCap < q THEN StageCap ELSE q
       IN Keep(r, [work[r] EXCEPT !.todo = @ \ {m},
                                  !.opp = [market |-> m, side |-> s, price |-> p, qty |-> size]])
  /\ Goto(r, "held")
  /\ UNCHANGED <<ledgerVars, haltVars, lock, outcome, job, events>>

Done(r, bucket) ==
  /\ Keep(r, [work[r] EXCEPT !.opp = <<>>, !.trade = 0, !.funnel[bucket] = @ + 1])
  /\ Goto(r, "next")

\* Mutant of CheckHeld: only a position on the same side counts as held.
CheckHeldOnSide(r) ==
  /\ At(r, "held")
  /\ IF \E i \in Open(work[r].opp.market) : positions[i].side = work[r].opp.side
     THEN Done(r, "nothing")
     ELSE Goto(r, "route") /\ UNCHANGED work
  /\ UNCHANGED <<ledgerVars, haltVars, lock, outcome, job, events>>

\* TradeEngine.execute: _has_open_position, in a transaction of its own.
CheckHeld(r) ==
  /\ At(r, "held")
  /\ IF Open(work[r].opp.market) # {} THEN Done(r, "nothing")
     ELSE Goto(r, "route") /\ UNCHANGED work
  /\ UNCHANGED <<ledgerVars, haltVars, lock, outcome, job, events>>

\* Mutant of Route: the mode column alone decides.
RouteByMode(r) ==
  /\ At(r, "route")
  /\ \/ Goto(r, IF mode = "paper" THEN "paper" ELSE "order") /\ UNCHANGED work
     \/ Done(r, "nothing")
  /\ UNCHANGED <<ledgerVars, haltVars, lock, outcome, job, events>>

\* Paper or live, from mode and the gate counter; or the price has moved off
\* the evaluated one and the trade is refused.
Route(r) ==
  /\ At(r, "route")
  /\ \/ /\ Goto(r, IF mode = "paper" \/ paperCount < GateTarget THEN "paper" ELSE "order")
        /\ UNCHANGED work
     \/ Done(r, "nothing")
  /\ UNCHANGED <<ledgerVars, haltVars, lock, outcome, job, events>>

PaperFill(r) ==
  /\ At(r, "paper")
  /\ \E rate \in Rates, d \in Shas :
       RecordPaperFill(work[r].opp.market, work[r].opp.side, work[r].opp.price,
                       work[r].opp.qty, rate, d)
  /\ Done(r, "placed")
  /\ UNCHANGED <<haltVars, lock, outcome, job, events>>

\* _execute_live: the pending row, then whatever the exchange made of it.
LiveOrder(r) ==
  /\ At(r, "order")
  /\ \E d \in Shas :
       CreatePendingTrade(work[r].opp.market, work[r].opp.side, work[r].opp.price,
                          work[r].opp.qty, d)
  /\ Keep(r, [work[r] EXCEPT !.trade = Len(trades) + 1])
  /\ Goto(r, "live")
  /\ UNCHANGED <<haltVars, lock, outcome, job, events>>

LiveResult(r) ==
  /\ At(r, "live")
  /\ LET t == work[r].trade
     IN \/ \E q \in 1..work[r].opp.qty : \E fee \in LiveFees(t, q) :
             MarkTradeFilled(t, q, fee)
        \/ \E status \in {"cancelled", "error"} : UpdateTradeStatus(t, status)
  /\ Done(r, "placed")
  /\ UNCHANGED <<haltVars, lock, outcome, job, events>>

Finish(r) ==
  /\ At(r, "next")
  /\ work[r].todo = {}
  /\ Goto(r, "recordOk")
  /\ UNCHANGED <<ledgerVars, haltVars, lock, work, outcome, job, events>>

-----------------------------------------------------------------------------
(***************************************************************************)
(* How a cycle ends.                                                       *)
(***************************************************************************)

\* An exception rolls an open transaction back.
Raise(r) ==
  /\ pc[r] \in Body
  /\ Happens("raise")
  /\ Keep(r, [work[r] EXCEPT !.closing = {}])
  /\ Goto(r, "recordFailed")
  /\ UNCHANGED <<ledgerVars, haltVars, lock, outcome, job>>

\* _record_quietly: failing to write the record changes nothing else.
Record(r, ok) ==
  /\ \/ RecordCycle(ok, Equity) /\ UNCHANGED events
     \/ Happens("swallow") /\ UNCHANGED haltVars
  /\ UNCHANGED <<ledgerVars, lock, work, outcome, job>>

RecordOk(r)     == At(r, "recordOk") /\ Record(r, TRUE) /\ Goto(r, "unlock")
RecordFailed(r) == At(r, "recordFailed") /\ Record(r, FALSE) /\ Goto(r, "checkErrors")

CheckErrors(r) ==
  /\ At(r, "checkErrors")
  /\ \/ CheckRepeatedErrors /\ UNCHANGED events
     \/ Happens("swallow") /\ UNCHANGED haltVars
  /\ Goto(r, "unlock")
  /\ UNCHANGED <<ledgerVars, lock, work, outcome, job>>

\* pg_advisory_unlock on the lock's own connection.
Unlock(r) ==
  /\ At(r, "unlock")
  /\ lock' = IF lock = r THEN NoRunner ELSE lock
  /\ Keep(r, NoWork)
  /\ Goto(r, "idle")
  /\ UNCHANGED <<ledgerVars, haltVars, outcome, job, events>>

\* The process dies; its connection, and with it the lock, goes later.
Kill(r) ==
  /\ pc[r] \in Locked
  /\ Happens("kill")
  /\ Keep(r, NoWork)
  /\ Goto(r, "dead")
  /\ UNCHANGED <<ledgerVars, haltVars, lock, outcome, job>>

ServerRelease(r) ==
  /\ At(r, "dead")
  /\ lock' = IF lock = r THEN NoRunner ELSE lock
  /\ Goto(r, "idle")
  /\ UNCHANGED <<ledgerVars, haltVars, work, outcome, job, events>>

\* The server closes the lock's connection, idle since it took the lock.
DropConnection(r) ==
  /\ lock = r
  /\ pc[r] \in Locked
  /\ Happens("drop")
  /\ lock' = NoRunner
  /\ UNCHANGED <<ledgerVars, haltVars, pc, work, outcome, job>>

Cycle(r) ==
  \/ MarkLegacy(r) \/ CountGate(r) \/ ResyncGate(r)
  \/ FetchResults(r) \/ SettleOne(r) \/ LockSettled(r) \/ CommitSettled(r)
  \/ Settled(r) \/ SyncBankroll(r)
  \/ Score(r) \/ CheckSwitches(r) \/ ReadHalts(r)
  \/ Implausible(r) \/ HaltedMidway(r) \/ Refuse(r) \/ Approve(r)
  \/ CheckHeld(r) \/ Route(r) \/ PaperFill(r) \/ LiveOrder(r) \/ LiveResult(r)
  \/ Finish(r) \/ RecordOk(r) \/ RecordFailed(r) \/ CheckErrors(r) \/ Unlock(r)
  \/ ServerRelease(r)

-----------------------------------------------------------------------------
(***************************************************************************)
(* The maintenance job: plan_retirement and execute_retirement for one     *)
(* deploy, with no lock.                                                   *)
(***************************************************************************)

Job == [at : {"idle", "close", "markets", "count", "resync"}, sha : Shas \cup {NoDeploy},
        markets : SUBSET Markets, marks : SUBSET (Markets \X Marks), count : 0..MaxTrades,
        closing : SUBSET Close]

NoJob == [at |-> "idle", sha |-> NoDeploy, markets |-> {}, marks |-> {}, count |-> 0,
          closing |-> {}]

\* The plan marks each open position of the deploy's markets, or leaves it
\* out when the market has no price.
PlanRetirement ==
  /\ Happens("retire")
  /\ job.at = "idle"
  /\ \E d \in Deploys, priced \in SUBSET Markets, mark \in [Markets -> Marks] :
       LET matched == {trades[t].market : t \in {u \in DOMAIN trades : trades[u].sha = d}}
       IN job' = [NoJob EXCEPT
                    !.at = "close", !.sha = d, !.markets = matched,
                    !.marks = {<<m, mark[m]>> : m \in matched \cap OpenMarkets \cap priced}]
  /\ UNCHANGED <<ledgerVars, haltVars, lock, pc, work, outcome>>

JobStep(from, to) == job.at = from /\ job' = [job EXCEPT !.at = to]
JobOnly == UNCHANGED <<haltVars, lock, pc, work, outcome, events>>

CloseMarked ==
  /\ job.at = "close"
  /\ job.closing = {}
  /\ \E k \in job.marks :
       \/ /\ Open(k[1]) = {}
          /\ job' = [job EXCEPT !.marks = @ \ {k}]
       \/ \E i \in Open(k[1]) :
            job' = [job EXCEPT !.marks = @ \ {k}, !.closing = {SeeOpen(i, k[2], FALSE)}]
  /\ UNCHANGED ledgerVars
  /\ JobOnly

LockMarked ==
  /\ job.at = "close"
  /\ \E c \in job.closing : \E d \in GetsLock(c) : job' = [job EXCEPT !.closing = {d}]
  /\ UNCHANGED ledgerVars
  /\ JobOnly

CommitMarked ==
  /\ job.at = "close"
  /\ \E c \in job.closing : c.at = "locked" /\ CommitClose(c)
  /\ job' = [job EXCEPT !.closing = {}]
  /\ JobOnly

RetireSha ==
  /\ job.marks = {}
  /\ job.closing = {}
  /\ JobStep("close", "markets")
  /\ MarkLegacyBySha(job.sha)
  /\ JobOnly

RetireMarketTrades ==
  /\ JobStep("markets", "count")
  /\ RetireMarkets(job.markets)
  /\ JobOnly

CountForJob ==
  /\ job.at = "count"
  /\ job' = [job EXCEPT !.at = "resync", !.count = Cardinality(GateRows)]
  /\ UNCHANGED ledgerVars
  /\ JobOnly

ResyncForJob ==
  /\ job.at = "resync"
  /\ WriteGateCounter(job.count)
  /\ job' = NoJob
  /\ JobOnly

Maintenance ==
  PlanRetirement \/ CloseMarked \/ LockMarked \/ CommitMarked \/ RetireSha
  \/ RetireMarketTrades \/ CountForJob \/ ResyncForJob

-----------------------------------------------------------------------------
(***************************************************************************)
(* The exchange and the people.                                            *)
(***************************************************************************)

\* Results are only ever fetched for open positions, so a result that comes
\* before the entry is one that comes right after it.
Finalize ==
  /\ \E m \in OpenMarkets, x \in Sides :
       outcome[m] = "none" /\ outcome' = [outcome EXCEPT ![m] = x]
  /\ UNCHANGED <<ledgerVars, haltVars, lock, pc, work, job, events>>

HumanClears ==
  /\ "clear" \in Env
  /\ halts # {}
  /\ ClearHalts
  /\ UNCHANGED <<ledgerVars, cycleVars>>

GoLive ==
  /\ "golive" \in Env
  /\ mode = "paper"
  /\ SetMode("live")
  /\ UNCHANGED <<haltVars, cycleVars>>

Init ==
  /\ LedgerInit
  /\ halts = {}
  /\ cycleRuns = <<>>
  /\ lock = NoRunner
  /\ pc = [r \in Runners |-> "idle"]
  /\ work = [r \in Runners |-> NoWork]
  /\ outcome = [m \in Markets |-> "none"]
  /\ job = NoJob
  /\ events = 0

Next ==
  \/ \E r \in Runners : Begin(r) \/ Cycle(r) \/ Raise(r) \/ Kill(r) \/ DropConnection(r)
  \/ Maintenance
  \/ Finalize
  \/ HumanClears
  \/ GoLive

Spec == Init /\ [][Next]_vars

\* A process that runs keeps running until it ends or is killed, the server
\* notices a dead connection, and the session starts another cycle on every
\* quarter of an hour.  Nothing makes people, events or markets act.
Fairness ==
  /\ \A r \in Runners : WF_vars(Cycle(r))
  /\ WF_vars(\E r \in Runners : Begin(r))

FairSpec == Spec /\ Fairness

-----------------------------------------------------------------------------
(***************************************************************************)
(* What the cycle promises.                                                *)
(***************************************************************************)

\* Every variable holds a value of its domain.
CycleTypeOK ==
  /\ LedgerTypeOK
  /\ halts \subseteq Switches
  /\ cycleRuns \in Seq([ok : BOOLEAN, equity : Int])
  /\ lock \in Runners \cup {NoRunner}
  /\ pc \in [Runners -> Locked \cup {"idle", "dead"}]
  /\ work \in [Runners -> Work]
  /\ outcome \in [Markets -> Sides \cup {"none"}]
  /\ job \in Job
  /\ events \in 0..MaxEvents

\* "One trading cycle at a time, enforced by the database": two processes
\* are never both inside a cycle, whatever fails or dies.
OneCycleAtATime ==
  \A r, q \in Runners : pc[r] \in Locked /\ pc[q] \in Locked => r = q

\* The cycle keeps the ledger's promise: although the held check and the fill
\* are two transactions, and a closing reads long before it writes, every
\* entry happens on a market that is neither held nor finalized at that
\* moment, a position and its trade leave the book together and once, a live
\* order is sent only in live mode, and no other step writes the ledger.
LedgerKept == LedgerSpec

\* A switch that latches while another process is trading lets that process
\* finish the opportunity it has in hand and take up no other: as long as any
\* switch is active, the set of processes with an opportunity in hand only
\* shrinks.  It is the re-read of the halts before every later opportunity
\* that bounds the damage when the lock is lost.
InHand(r) ==
  \/ pc[r] \in {"held", "route", "paper", "order"}
  \/ At(r, "next") /\ work[r].todo # {} /\ Attributed(work[r].funnel) = 0

HaltDrains ==
  [][halts # {} /\ halts' # {} => \A r \in Runners : InHand(r)' => InHand(r)]_vars

Entry == Len(trades') > Len(trades)

\* A latched switch refuses every new trade of every process until a person
\* clears it: no step enters a market while any switch is active, including
\* one that latches in the middle of a cycle.
NoEntryWhileHalted == [][Entry => halts = {}]_vars

\* A cycle that ends normally has attributed each qualifying opportunity to
\* exactly one bucket, also when a halt cuts the list short.
FunnelBalances ==
  \A r \in Runners :
    At(r, "recordOk") => Attributed(work[r].funnel) = work[r].funnel.qualifying

\* Real money follows the evidence: when a live order is written, the trade
\* table itself holds GateTarget paper trades that nobody has retired, not
\* only the counter says so.
LiveOrdersFollowTheGate ==
  [][Entry /\ ~trades'[Len(trades')].paper => Cardinality(GateRows) >= GateTarget]_vars

\* "the last 3 cycles all failed": no trade is entered while the three newest
\* cycle records are failures.  It holds as long as the check after the third
\* record runs to its end: the code makes it only there, swallows its exception
\* and never asks again.  A person who clears the switch lets the next cycle
\* trade, on purpose.
NoEntryAfterThreeFailures == [][Entry => ~LastCyclesFailed]_vars

\* Settlement keeps running whatever is halted: a position whose market has a
\* final result is closed in the end.
SettlesEventually ==
  \A m \in Markets : (outcome[m] # "none" /\ Open(m) # {}) ~> Open(m) = {}

\* A cycle always gives the lock back, whichever stage an exception leaves.
LockComesFree == \A r \in Runners : (lock = r) ~> (lock # r)
=============================================================================
