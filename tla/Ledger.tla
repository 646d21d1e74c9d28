------------------------------- MODULE Ledger -------------------------------
(***************************************************************************)
(* The trading ledger: the rows of `trades`, `positions` and the one row   *)
(* of `trading_settings`, with every database transaction of the trading   *)
(* path that writes them (trading/engine.py, portfolio/tracker.py,         *)
(* legacy_cutoff.py, maintenance/retire_deploy.py).                        *)
(*                                                                         *)
(* The operators of the first part translate the transactions; they have   *)
(* no guard the code does not have, so another module can compose them in  *)
(* the order the program runs them.  The second part, LedgerSpec, is the   *)
(* abstract promise: the same transactions, each one started only in a     *)
(* state in which it is meant to run (no entry on a market already held),  *)
(* and the closing of a position, which takes several steps, as one.       *)
(* TradingCycle shows that the cycle keeps that promise.                   *)
(*                                                                         *)
(* Money is in whole cents (the code rounds to the cent), a table is a     *)
(* sequence of rows in insertion order, and the columns no property reads  *)
(* (model, edge, reasoning, timestamps) are left out.                      *)
(***************************************************************************)
EXTENDS Integers, Sequences, FiniteSets, FiniteSetsExt

CONSTANTS
  Markets,        \* market tickers
  Prices,         \* side prices a fill can be evaluated at, in cents
  Quantities,     \* contract counts risk approves
  Rates,          \* taker fee rates of the series, in ten-thousandths
  Shas,           \* deploy_sha values a run can stamp its trades with
  NoDeploy,       \* the stamp of a run outside the CI job: GITHUB_SHA unset
  Marks,          \* YES prices maintenance can mark a position at
  CashReadings,   \* cash balances the exchange can report, in cents
  StartBankroll,  \* bankroll when the settings row is created, in cents
  MaxTrades       \* bound: rows of the trade table

Sides == {"yes", "no"}
BaseRate == 700                                   \* KALSHI_FEE_RATE = 0.07
Deploys == Shas \ {NoDeploy}

ASSUME LedgerAssumption ==
  /\ IsFiniteSet(Markets)
  /\ Prices \subseteq 1..99
  /\ Quantities \subseteq Nat \ {0}
  /\ Rates \subseteq Nat
  /\ Marks \subseteq 0..100
  /\ CashReadings \subseteq Nat
  /\ StartBankroll \in Nat
  /\ MaxTrades \in Nat

VARIABLES
  trades,      \* table trades
  positions,   \* table positions
  bankroll,    \* trading_settings.bankroll: the equity-at-cost ledger
  peak,        \* trading_settings.peak_bankroll
  paperCount,  \* trading_settings.paper_trade_count: the gate's counter
  mode,        \* trading_settings.mode: no code path writes it
  delisted     \* markets whose local row is finalized: never scored again

settings == <<bankroll, peak, paperCount, mode>>
ledgerVars == <<trades, positions, bankroll, peak, paperCount, mode, delisted>>

Status == {"pending", "filled", "closed", "cancelled", "error"}

TradeRow ==
  [market : Markets, side : Sides, price : Prices, qty : Nat, paper : BOOLEAN,
   status : Status, fee : Nat, exit : 0..100, pnl : Int,
   sha : Shas, legacy : BOOLEAN]

PositionRow ==
  [market : Markets, side : Sides, entry : Prices, qty : Nat, open : BOOLEAN]

Open(m)   == {i \in DOMAIN positions : positions[i].market = m /\ positions[i].open}
Filled(m) == {t \in DOMAIN trades : trades[t].market = m /\ trades[t].status = "filled"}
Latest(S) == {t \in S : \A u \in S : u <= t}
OpenMarkets == {m \in Markets : Open(m) # {}}

\* Rows that count toward the paper gate: gate_count.
GateRows == {t \in DOMAIN trades : trades[t].paper /\ ~trades[t].legacy}

\* Fee in cents: rate * contracts * P * (1 - P), rounded up to the cent.
Fee(q, p, rate) ==
  IF q <= 0 \/ p <= 0 \/ p >= 100 THEN 0
  ELSE (rate * q * p * (100 - p) + 999999) \div 1000000

Costs    == [i \in DOMAIN positions |-> positions[i].entry * positions[i].qty]
OpenCost == SumFunctionOnSet(Costs, {i \in DOMAIN positions : positions[i].open})

-----------------------------------------------------------------------------
(***************************************************************************)
(* The transactions.                                                       *)
(***************************************************************************)

NewTrade(m, s, p, q, isPaper, status, fee, d) ==
  [market |-> m, side |-> s, price |-> p, qty |-> q, paper |-> isPaper,
   status |-> status, fee |-> fee, exit |-> 0, pnl |-> 0,
   sha |-> d, legacy |-> FALSE]

NewPosition(m, s, p, q) == [market |-> m, side |-> s, entry |-> p, qty |-> q, open |-> TRUE]

\* A fill joins the open position on the same market and side, at that
\* position's entry price, or opens a new one.
AddToPosition(m, s, p, q) ==
  \/ \E i \in Open(m) :
       /\ positions[i].side = s
       /\ positions' = [positions EXCEPT ![i].qty = @ + q]
  \/ /\ \A i \in Open(m) : positions[i].side # s
     /\ positions' = Append(positions, NewPosition(m, s, p, q))

\* _execute_paper: the row, the position and the gate counter, one commit.
\* Buying swaps cash for a position of equal cost: the bankroll stays.
RecordPaperFill(m, s, p, q, rate, d) ==
  /\ trades' = Append(trades, NewTrade(m, s, p, q, TRUE, "filled", Fee(q, p, rate), d))
  /\ AddToPosition(m, s, p, q)
  /\ paperCount' = paperCount + 1
  /\ UNCHANGED <<bankroll, peak, mode, delisted>>

\* _create_pending_trade: the row a live order is written ahead as.
CreatePendingTrade(m, s, p, q, d) ==
  /\ trades' = Append(trades, NewTrade(m, s, p, q, FALSE, "pending", 0, d))
  /\ UNCHANGED <<positions, settings, delisted>>

\* _update_trade_status: a live order that filled nothing, or failed.
UpdateTradeStatus(t, status) ==
  /\ trades' = [trades EXCEPT ![t].status = status]
  /\ UNCHANGED <<positions, settings, delisted>>

Pending == {t \in DOMAIN trades : trades[t].status = "pending"}

\* _fetch_entry_fee for a fill of q: what the exchange charged, on contracts
\* that filled after the fill was counted too, or the estimate.
LiveFees(t, q) ==
  {Fee(f, trades[t].price, r) : f \in q..trades[t].qty, r \in Rates \cup {BaseRate}}

FilledRow(row, q, fee) == [row EXCEPT !.status = "filled", !.qty = q, !.fee = fee]

\* _mark_trade_filled: what the live order filled, with its fee.
MarkTradeFilled(t, q, fee) ==
  /\ trades' = [trades EXCEPT ![t] = FilledRow(@, q, fee)]
  /\ AddToPosition(trades[t].market, trades[t].side, trades[t].price, q)
  /\ UNCHANGED <<settings, delisted>>

\* Mutant of ExitOf: the subtraction the wrong way round.
ExitSwapped(pos, yesExit) == IF pos.side = "yes" THEN yesExit ELSE yesExit - 100

\* What a position's side is paid at a YES-scale exit price.
ExitOf(pos, yesExit) == IF pos.side = "yes" THEN yesExit ELSE 100 - yesExit

\* Mutant of ClosedRow: the row keeps the exit on the YES scale.
ClosedRowInYes(row, exit, pnl) ==
  [row EXCEPT !.status = "closed", !.pnl = pnl,
              !.exit = IF row.side = "yes" THEN exit ELSE 100 - exit]

ClosedRow(row, exit, pnl) ==
  [row EXCEPT !.status = "closed", !.exit = exit, !.pnl = pnl]

\* What close_position deducts: the entry fee of the market's latest filled
\* trade (looked up by market alone), or an estimate when there is none.
EntryFees(pos) ==
  LET last == Latest(Filled(pos.market))
  IN IF last = {} THEN {Fee(pos.qty, pos.entry, BaseRate)} ELSE {trades[t].fee : t \in last}

PnLs(pos, yesExit) ==
  {(ExitOf(pos, yesExit) - pos.entry) * pos.qty - fee : fee \in EntryFees(pos)}

\* close_position is one database transaction of three steps.  It reads an
\* open position; its UPDATE of that row goes out with the next query and
\* waits for the row's lock, whether or not the row is still open; and under
\* that lock it reads the trade and the settings, to write at the commit the
\* sum of the bankroll it read and the realized PnL.
Close == [at : {"seen", "locked"}, row : Nat, pos : PositionRow, yesExit : 0..100,
          finalize : BOOLEAN, last : SUBSET Nat, pnl : Int, sum : Int, high : Int]

SeeOpen(i, yesExit, finalize) ==
  [at |-> "seen", row |-> i, pos |-> positions[i], yesExit |-> yesExit,
   finalize |-> finalize, last |-> {}, pnl |-> 0, sum |-> 0, high |-> 0]

LockedClose(c, pnl) ==
  [c EXCEPT !.at = "locked", !.last = Latest(Filled(c.pos.market)), !.pnl = pnl,
            !.sum = bankroll + pnl, !.high = peak]

SettledRows(last, exit, pnl) ==
  [t \in DOMAIN trades |->
     IF t \in last THEN ClosedRow(trades[t], exit, pnl) ELSE trades[t]]

\* A PnL of nothing changes no bankroll, and then none is written.
CommitClose(c) ==
  /\ positions' = [positions EXCEPT ![c.row].open = FALSE]
  /\ trades' = SettledRows(c.last, ExitOf(c.pos, c.yesExit), c.pnl)
  /\ bankroll' = IF c.pnl = 0 THEN bankroll ELSE c.sum
  /\ peak' = IF c.sum > c.high THEN c.sum ELSE peak
  /\ delisted' = IF c.finalize THEN delisted \cup {c.pos.market} ELSE delisted
  /\ UNCHANGED <<paperCount, mode>>

\* The promise of close_position: one open position of the market and its
\* trade leave the book together, the trade with its realized PnL.  What the
\* bankroll becomes when two of them overlap is not promised.
ClosePosition(m, yesExit, finalize) ==
  \E i \in Open(m) : \E pnl \in PnLs(positions[i], yesExit) :
    /\ positions' = [positions EXCEPT ![i].open = FALSE]
    /\ trades' = SettledRows(Latest(Filled(m)), ExitOf(positions[i], yesExit), pnl)
    /\ bankroll' \in Int
    /\ peak' \in Int
    /\ delisted' = IF finalize THEN delisted \cup {m} ELSE delisted
    /\ UNCHANGED <<paperCount, mode>>

\* Every mark of a trade as legacy keeps the row and changes its standing.
LegacyRow(row) == [row EXCEPT !.legacy = TRUE]

Retire(Matches(_)) ==
  /\ trades' = [t \in DOMAIN trades |->
                  IF Matches(trades[t]) THEN LegacyRow(trades[t]) ELSE trades[t]]
  /\ UNCHANGED <<positions, settings, delisted>>

MarkLegacyTrades      == Retire(LAMBDA r : r.sha = NoDeploy)
MarkLegacyBySha(d)    == Retire(LAMBDA r : r.sha = d)
RetireMarkets(S)      == Retire(LAMBDA r : r.market \in S)

\* The write half of resync_gate_counter; n is the count it read before.
WriteGateCounter(n) ==
  /\ paperCount' = n
  /\ UNCHANGED <<trades, positions, bankroll, peak, mode, delisted>>

\* sync_live_bankroll: exchange cash plus the cost of every open position.
SyncLiveBankroll(cash) ==
  LET dollars == cash + OpenCost
  IN /\ bankroll' = dollars
     /\ peak' = IF dollars > peak THEN dollars ELSE peak
     /\ UNCHANGED <<trades, positions, paperCount, mode, delisted>>

\* A person flips the mode column by hand.
SetMode(md) ==
  /\ mode' = md
  /\ UNCHANGED <<trades, positions, bankroll, peak, paperCount, delisted>>

-----------------------------------------------------------------------------
(***************************************************************************)
(* The abstract ledger.                                                    *)
(***************************************************************************)

LedgerInit ==
  /\ trades = <<>>
  /\ positions = <<>>
  /\ bankroll = StartBankroll
  /\ peak = StartBankroll
  /\ paperCount = 0
  /\ mode = "paper"
  /\ delisted = {}

\* The ramp may lower the size risk approved.
Sizes == UNION {1..q : q \in Quantities}

Enterable(m) == m \notin delisted /\ Open(m) = {} /\ Len(trades) < MaxTrades

PaperEntry ==
  \E m \in Markets, s \in Sides, p \in Prices, q \in Sizes, r \in Rates, d \in Shas :
    Enterable(m) /\ RecordPaperFill(m, s, p, q, r, d)

LiveEntry ==
  \E m \in Markets, s \in Sides, p \in Prices, q \in Sizes, d \in Shas :
    /\ mode = "live"
    /\ Enterable(m)
    /\ CreatePendingTrade(m, s, p, q, d)

LiveFilled ==
  \E t \in Pending :
    /\ Open(trades[t].market) = {}
    /\ \E q \in 1..trades[t].qty : \E fee \in LiveFees(t, q) : MarkTradeFilled(t, q, fee)

LiveEnded ==
  \E t \in Pending, status \in {"cancelled", "error"} : UpdateTradeStatus(t, status)

Settle      == \E m \in Markets, x \in {0, 100} : ClosePosition(m, x, TRUE)
CloseAtMark == \E m \in Markets, x \in Marks : ClosePosition(m, x, FALSE)

\* A closing of a position that another process closed first touches the
\* settings and nothing of the book.
CloseAgain ==
  \E m \in Markets :
    /\ Open(m) = {}
    /\ delisted' \in {delisted, delisted \cup {m}}
    /\ bankroll' \in Int
    /\ peak' \in Int
    /\ UNCHANGED <<trades, positions, paperCount, mode>>

RetireTrades ==
  \/ MarkLegacyTrades
  \/ \E d \in Deploys : MarkLegacyBySha(d)
  \/ \E S \in SUBSET Markets : RetireMarkets(S)

\* resync_gate_counter reads and writes in two transactions, so the count it
\* writes may be of an earlier state.
Resync   == \E n \in 0..MaxTrades : WriteGateCounter(n)
Sync     == mode = "live" /\ \E c \in CashReadings : SyncLiveBankroll(c)
FlipMode == \E md \in {"paper", "live"} : SetMode(md)

LedgerNext ==
  \/ PaperEntry
  \/ LiveEntry
  \/ LiveFilled
  \/ LiveEnded
  \/ Settle
  \/ CloseAtMark
  \/ CloseAgain
  \/ RetireTrades
  \/ Resync
  \/ Sync
  \/ FlipMode

LedgerSpec == LedgerInit /\ [][LedgerNext]_ledgerVars

-----------------------------------------------------------------------------
(***************************************************************************)
(* What the ledger promises.                                               *)
(***************************************************************************)

\* Every column holds a value of its domain; in particular no exit price
\* leaves the side-cost scale 0..100 and no fee is negative.
LedgerTypeOK ==
  /\ trades \in Seq(TradeRow)
  /\ positions \in Seq(PositionRow)
  /\ bankroll \in Int
  /\ peak \in Int
  /\ paperCount \in Nat
  /\ mode \in {"paper", "live"}
  /\ delisted \subseteq Markets

\* At most one open position per market (SKIP_HELD_MARKETS): entering a held
\* market again concentrates risk on it.
OneOpenPerMarket == \A m \in Markets : \A i, j \in Open(m) : i = j

\* The open book and the filled trades are the same book: a market has an
\* open position exactly when it has a filled trade, one of each, with the
\* same side, price and size.  close_position finds the trade it settles by
\* market and status alone, so it settles the right row only because of this.
BookMatchesTrades ==
  \A m \in Markets :
    /\ Open(m) = {} <=> Filled(m) = {}
    /\ \A t, u \in Filled(m) : t = u
    /\ \A i \in Open(m), t \in Filled(m) :
         /\ positions[i].side = trades[t].side
         /\ positions[i].entry = trades[t].price
         /\ positions[i].qty = trades[t].qty

\* A closed trade's realized PnL is explained by its own row: exit against
\* entry on its own side, times its own size, net of the fee recorded when
\* it filled.  The position it is computed from may be gone for years.
RealizedExplained ==
  \A t \in DOMAIN trades :
    trades[t].status = "closed" =>
      trades[t].pnl = (trades[t].exit - trades[t].price) * trades[t].qty - trades[t].fee

\* The realized PnL of every closed trade together.
Profits  == [t \in DOMAIN trades |-> trades[t].pnl]
Closed   == {t \in DOMAIN trades : trades[t].status = "closed"}
Realized == SumFunctionOnSet(Profits, Closed)

\* In paper mode the bankroll moves by realized PnL and by nothing else: its
\* change over any step is the change of the realized PnL summed over the
\* closed trades.  Buying does not move it, and the exchange's cash balance
\* never overwrites it.  The sum is computed from a bankroll read before the
\* commit, so it holds as long as one closing runs at a time.
BankrollMovesByRealizedPnL ==
  [][mode = "paper" => bankroll' - bankroll = Realized' - Realized]_ledgerVars
=============================================================================
