---------------------------- MODULE LedgerProofs ----------------------------
(***************************************************************************)
(* Proofs about the ledger: whatever transactions run in whatever order,   *)
(* started as LedgerNext starts them, the open book and the filled trades  *)
(* stay the same book and every realized PnL is explained by its own row.  *)
(***************************************************************************)
EXTENDS Ledger, SumProofs

-----------------------------------------------------------------------------
(***************************************************************************)
(* Rows: what each helper returns.                                         *)
(***************************************************************************)

\* A fee is a whole, non-negative number of cents.
LEMMA FeeIsNat ==
  ASSUME NEW q \in Nat, NEW p \in 1..99, NEW r \in Nat
  PROVE  Fee(q, p, r) \in Nat
<1>1. CASE q <= 0 \/ p <= 0 \/ p >= 100
  BY <1>1 DEF Fee
<1>2. CASE ~(q <= 0 \/ p <= 0 \/ p >= 100)
  <2>1. r * q \in Nat /\ 100 - p \in Nat
    OBVIOUS
  <2>2. r * q * p \in Nat
    BY <2>1
  <2>3. r * q * p * (100 - p) \in Nat
    BY <2>1, <2>2
  <2>4. ASSUME NEW x \in Nat PROVE (x + 999999) \div 1000000 \in Nat
    OBVIOUS
  <2>5. QED
    BY <1>2, <2>3, <2>4 DEF Fee
<1>3. QED
  BY <1>1, <1>2

\* A position's profit is a whole number of cents.
LEMMA PnLIsInt ==
  ASSUME NEW exit \in 0..100, NEW entry \in 1..99, NEW q \in Nat, NEW fee \in Nat
  PROVE  (exit - entry) * q - fee \in Int
OBVIOUS

\* The row written ahead of a live order is a row of the table.
LEMMA PendingRow ==
  ASSUME NEW m \in Markets, NEW s \in Sides, NEW p \in Prices, NEW q \in Nat, NEW d \in Shas
  PROVE  LET row == NewTrade(m, s, p, q, FALSE, "pending", 0, d)
         IN row \in TradeRow /\ row.market = m /\ row.status = "pending"
BY DEF NewTrade, TradeRow, Status

\* A new position is a row of the table.
LEMMA NewPositionRow ==
  ASSUME NEW m \in Markets, NEW s \in Sides, NEW p \in Prices, NEW q \in Nat
  PROVE  LET row == NewPosition(m, s, p, q)
         IN /\ row \in PositionRow
            /\ row.market = m /\ row.side = s /\ row.entry = p /\ row.qty = q /\ row.open
BY DEF NewPosition, PositionRow

\* A row with another status is a row.
LEMMA StatusRow ==
  ASSUME NEW row \in TradeRow, NEW status \in Status
  PROVE  LET new == [row EXCEPT !.status = status]
         IN /\ new \in TradeRow
            /\ new.status = status
            /\ new.market = row.market
BY DEF TradeRow

\* A filled row is a row, still of its market.
LEMMA FilledRowRow ==
  ASSUME NEW row \in TradeRow, NEW q \in Nat, NEW fee \in Nat
  PROVE  LET new == FilledRow(row, q, fee)
         IN /\ new \in TradeRow
            /\ new.status = "filled" /\ new.qty = q /\ new.fee = fee
            /\ new.market = row.market /\ new.side = row.side /\ new.price = row.price
BY DEF FilledRow, TradeRow, Status

\* A closed row is a row, still of its market.
LEMMA ClosedRowRow ==
  ASSUME NEW row \in TradeRow, NEW exit \in 0..100, NEW pnl \in Int
  PROVE  LET new == ClosedRow(row, exit, pnl)
         IN /\ new \in TradeRow
            /\ new.status = "closed" /\ new.exit = exit /\ new.pnl = pnl
            /\ new.market = row.market /\ new.price = row.price
            /\ new.qty = row.qty /\ new.fee = row.fee
BY DEF ClosedRow, TradeRow, Status

\* A row marked as legacy is a row, the same but for its standing.
LEMMA LegacyRowRow ==
  ASSUME NEW row \in TradeRow
  PROVE  LET new == LegacyRow(row)
         IN /\ new \in TradeRow
            /\ new.status = row.status /\ new.exit = row.exit /\ new.pnl = row.pnl
            /\ new.market = row.market /\ new.side = row.side /\ new.price = row.price
            /\ new.qty = row.qty /\ new.fee = row.fee
BY DEF LegacyRow, TradeRow

\* A closed position is a position.
LEMMA ClosedPositionRow ==
  ASSUME NEW pos \in PositionRow
  PROVE  LET new == [pos EXCEPT !.open = FALSE]
         IN new \in PositionRow /\ ~new.open /\ new.market = pos.market
BY DEF PositionRow

\* A position that a fill joins is a position.
LEMMA EnlargedPositionRow ==
  ASSUME NEW pos \in PositionRow, NEW q \in Nat
  PROVE  [pos EXCEPT !.qty = @ + q] \in PositionRow
BY DEF PositionRow

\* Rewriting the rows of a table in place leaves a table of the same length.
LEMMA RowsRewritten ==
  ASSUME NEW S, NEW s \in Seq(S), NEW f \in [DOMAIN s -> S]
  PROVE  f \in Seq(S) /\ DOMAIN f = DOMAIN s /\ Len(f) = Len(s)
OBVIOUS

-----------------------------------------------------------------------------
(***************************************************************************)
(* Type correctness, transaction by transaction.                           *)
(***************************************************************************)

\* A function on the rows of the table whose values are rows is a table.
LEMMA RowsTyped ==
  ASSUME LedgerTypeOK
  PROVE  /\ \A t \in DOMAIN trades : /\ trades[t] \in TradeRow
                                     /\ trades[t].fee \in Nat
                                     /\ trades[t].qty \in Nat
                                     /\ trades[t].price \in Prices
                                     /\ trades[t].side \in Sides
                                     /\ trades[t].market \in Markets
                                     /\ trades[t].status \in Status
         /\ \A i \in DOMAIN positions : positions[i] \in PositionRow
<1>1. \A t \in DOMAIN trades : trades[t] \in TradeRow
  BY DEF LedgerTypeOK
<1>2. \A row \in TradeRow : /\ row.fee \in Nat /\ row.qty \in Nat /\ row.price \in Prices
                             /\ row.side \in Sides /\ row.market \in Markets
                             /\ row.status \in Status
  BY DEF TradeRow
<1>3. \A i \in DOMAIN positions : positions[i] \in PositionRow
  BY DEF LedgerTypeOK
<1>4. QED BY <1>1, <1>2, <1>3

\* A fill leaves the position table typed.
LEMMA AddToPositionTyped ==
  ASSUME LedgerTypeOK,
         NEW m \in Markets, NEW s \in Sides, NEW p \in Prices, NEW q \in Nat,
         AddToPosition(m, s, p, q)
  PROVE  positions' \in Seq(PositionRow)
<1>1. ASSUME NEW i \in Open(m), positions' = [positions EXCEPT ![i].qty = @ + q]
      PROVE  positions' \in Seq(PositionRow)
  <2>1. i \in DOMAIN positions /\ positions[i] \in PositionRow
    BY DEF Open, LedgerTypeOK
  <2>2. [positions[i] EXCEPT !.qty = @ + q] \in PositionRow
    BY <2>1, EnlargedPositionRow
  <2>3. QED
    BY <1>1, <2>1, <2>2 DEF LedgerTypeOK
<1>2. ASSUME positions' = Append(positions, NewPosition(m, s, p, q))
      PROVE  positions' \in Seq(PositionRow)
  BY <1>2, NewPositionRow DEF LedgerTypeOK
<1>3. QED
  BY <1>1, <1>2 DEF AddToPosition

\* What the ramp can lower a size to is at least one contract.
LEMMA SizesAreNat == Sizes \subseteq Nat \ {0}
BY LedgerAssumption DEF Sizes

\* What closing a position can be deducted and yields is whole cents.
LEMMA PnLsAreInts ==
  ASSUME LedgerTypeOK, NEW pos \in PositionRow, NEW x \in 0..100
  PROVE  /\ ExitOf(pos, x) \in 0..100
         /\ EntryFees(pos) \subseteq Nat
         /\ PnLs(pos, x) \subseteq Int
<1>1. pos.entry \in 1..99 /\ pos.qty \in Nat
  BY LedgerAssumption DEF PositionRow
<1>2. ExitOf(pos, x) \in 0..100
  BY DEF ExitOf
<1>3. EntryFees(pos) \subseteq Nat
  <2>1. \A t \in Latest(Filled(pos.market)) : trades[t].fee \in Nat
    <3>1. \A t \in Latest(Filled(pos.market)) : t \in DOMAIN trades
      BY DEF Latest, Filled
    <3>2. QED BY <3>1, RowsTyped
  <2>2. Fee(pos.qty, pos.entry, BaseRate) \in Nat
    <3>1. BaseRate \in Nat
      BY DEF BaseRate
    <3>2. QED BY <1>1, <3>1, FeeIsNat
  <2>3. QED
    BY <2>1, <2>2 DEF EntryFees
<1>4. PnLs(pos, x) \subseteq Int
  BY <1>1, <1>2, <1>3 DEF PnLs
<1>5. QED
  BY <1>2, <1>3, <1>4

\* What ClosePosition does to position i, with its choices named.
Closing(i, fee, exit, pnl, m, x, finalize) ==
  /\ i \in DOMAIN positions /\ positions[i] \in PositionRow
  /\ exit = ExitOf(positions[i], x)
  /\ pnl = (exit - positions[i].entry) * positions[i].qty - fee
  /\ Latest(Filled(m)) # {} => \E t \in Latest(Filled(m)) : fee = trades[t].fee
  /\ positions' = [positions EXCEPT ![i].open = FALSE]
  /\ trades' = SettledRows(Latest(Filled(m)), exit, pnl)
  /\ bankroll' \in Int /\ peak' \in Int
  /\ delisted' = (IF finalize THEN delisted \cup {m} ELSE delisted)
  /\ UNCHANGED <<paperCount, mode>>

\* Closing the position of a market is Closing for some position and fee.
LEMMA ClosePositionEffect ==
  ASSUME LedgerTypeOK, NEW m \in Markets, NEW x \in 0..100, NEW finalize \in BOOLEAN,
         ClosePosition(m, x, finalize)
  PROVE  \E i \in Open(m), fee \in Nat, exit \in 0..100, pnl \in Int :
           Closing(i, fee, exit, pnl, m, x, finalize)
<1> DEFINE Effect(i, pnl) ==
             /\ positions' = [positions EXCEPT ![i].open = FALSE]
             /\ trades' = SettledRows(Latest(Filled(m)), ExitOf(positions[i], x), pnl)
             /\ bankroll' \in Int /\ peak' \in Int
             /\ delisted' = (IF finalize THEN delisted \cup {m} ELSE delisted)
             /\ UNCHANGED <<paperCount, mode>>
<1>1. PICK i \in Open(m) : \E pnl \in PnLs(positions[i], x) : Effect(i, pnl)
  BY DEF ClosePosition
<1> HIDE DEF Effect
<1>2. PICK pnl \in PnLs(positions[i], x) : Effect(i, pnl)
  BY <1>1
<1>3. i \in DOMAIN positions /\ positions[i] \in PositionRow /\ positions[i].market = m
  BY DEF Open, LedgerTypeOK
<1>4. PICK fee \in EntryFees(positions[i]) :
        pnl = (ExitOf(positions[i], x) - positions[i].entry) * positions[i].qty - fee
  BY DEF PnLs
<1>5. fee \in Nat /\ ExitOf(positions[i], x) \in 0..100 /\ pnl \in Int
  BY <1>3, PnLsAreInts
<1>6. Latest(Filled(m)) # {} => \E t \in Latest(Filled(m)) : fee = trades[t].fee
  BY <1>3 DEF EntryFees
<1>7. Closing(i, fee, ExitOf(positions[i], x), pnl, m, x, finalize)
  BY <1>2, <1>3, <1>4, <1>6 DEF Effect, Closing
<1>8. QED
  BY <1>5, <1>7

\* The inductive invariant of the ledger.
LedgerInv ==
  /\ LedgerTypeOK
  /\ OneOpenPerMarket
  /\ BookMatchesTrades
  /\ RealizedExplained

\* Appending a row keeps every row before it where it was.
LEMMA Appended ==
  ASSUME NEW S, NEW s \in Seq(S), NEW e \in S
  PROVE  LET n == Append(s, e)
         IN /\ n \in Seq(S)
            /\ Len(n) = Len(s) + 1 /\ Len(s) \in Nat
            /\ DOMAIN n = DOMAIN s \cup {Len(n)}
            /\ Len(n) \notin DOMAIN s
            /\ \A i \in DOMAIN s : n[i] = s[i]
            /\ n[Len(n)] = e
OBVIOUS

\* An entry on a market that is not held opens a position of its own.
LEMMA AddToFreeMarket ==
  ASSUME NEW m, NEW s, NEW p, NEW q, Open(m) = {}, AddToPosition(m, s, p, q)
  PROVE  positions' = Append(positions, NewPosition(m, s, p, q))
BY DEF AddToPosition

\* Where the open positions are after one is appended.
LEMMA OpenAppended ==
  ASSUME LedgerTypeOK, NEW m \in Markets, NEW s \in Sides, NEW p \in Prices, NEW q \in Nat,
         Open(m) = {}, positions' = Append(positions, NewPosition(m, s, p, q))
  PROVE  /\ positions' \in Seq(PositionRow)
         /\ \A k \in Markets : Open(k)' = IF k = m THEN {Len(positions')} ELSE Open(k)
         /\ \A i \in DOMAIN positions : positions'[i] = positions[i]
         /\ positions'[Len(positions')] = NewPosition(m, s, p, q)
<1> DEFINE row == NewPosition(m, s, p, q)
<1>1. /\ row \in PositionRow /\ row.market = m /\ row.open
  BY NewPositionRow
<1>2. /\ positions' \in Seq(PositionRow)
      /\ DOMAIN positions' = DOMAIN positions \cup {Len(positions')}
      /\ Len(positions') \notin DOMAIN positions
      /\ \A i \in DOMAIN positions : positions'[i] = positions[i]
      /\ positions'[Len(positions')] = row
  BY <1>1, Appended DEF LedgerTypeOK
<1> HIDE DEF row
<1>3. \A k \in Markets : Open(k)' = IF k = m THEN {Len(positions')} ELSE Open(k)
  <2> TAKE k \in Markets
  <2>1. Open(k)' = {i \in DOMAIN positions' : positions'[i].market = k /\ positions'[i].open}
    BY DEF Open
  <2>2. CASE k = m
    BY <1>1, <1>2, <2>1, <2>2 DEF Open
  <2>3. CASE k # m
    BY <1>1, <1>2, <2>1, <2>3 DEF Open
  <2>4. QED BY <2>2, <2>3
<1>4. QED
  BY <1>2, <1>3 DEF row

\* Which trades of a market are filled after a row is appended.
LEMMA FilledAppended ==
  ASSUME LedgerTypeOK, NEW row \in TradeRow, trades' = Append(trades, row)
  PROVE  /\ trades' \in Seq(TradeRow)
         /\ DOMAIN trades' = DOMAIN trades \cup {Len(trades')}
         /\ \A k \in Markets : Filled(k)' = IF k = row.market /\ row.status = "filled"
                                            THEN Filled(k) \cup {Len(trades')} ELSE Filled(k)
         /\ \A t \in DOMAIN trades : trades'[t] = trades[t]
         /\ trades'[Len(trades')] = row
<1>1. /\ trades' \in Seq(TradeRow)
      /\ DOMAIN trades' = DOMAIN trades \cup {Len(trades')}
      /\ Len(trades') \notin DOMAIN trades
      /\ \A t \in DOMAIN trades : trades'[t] = trades[t]
      /\ trades'[Len(trades')] = row
  BY Appended DEF LedgerTypeOK
<1>2. \A k \in Markets : Filled(k)' = IF k = row.market /\ row.status = "filled"
                                      THEN Filled(k) \cup {Len(trades')} ELSE Filled(k)
  <2> TAKE k \in Markets
  <2>1. Filled(k)' = {t \in DOMAIN trades' : trades'[t].market = k /\ trades'[t].status = "filled"}
    BY DEF Filled
  <2>2. QED BY <1>1, <2>1 DEF Filled
<1>3. QED
  BY <1>1, <1>2

\* BookMatchesTrades, for one market.
Matched(k) ==
  /\ Open(k) = {} <=> Filled(k) = {}
  /\ \A t, u \in Filled(k) : t = u
  /\ \A i \in Open(k), t \in Filled(k) :
       /\ positions[i].side = trades[t].side
       /\ positions[i].entry = trades[t].price
       /\ positions[i].qty = trades[t].qty

\* The book matches when it matches on every market.
LEMMA MatchedBook == BookMatchesTrades <=> \A k \in Markets : Matched(k)
BY DEF BookMatchesTrades, Matched

\* The same of the next state.
LEMMA MatchedBookNext ==
  ASSUME \A k \in Markets : Matched(k)'
  PROVE  BookMatchesTrades'
BY DEF BookMatchesTrades, Matched

\* A paper fill on a free market keeps the invariant (_execute_paper).
LEMMA PaperFillInv ==
  ASSUME LedgerInv, NEW m \in Markets, NEW s \in Sides, NEW p \in Prices, NEW q \in Nat,
         NEW r \in Nat, NEW d \in Shas, Open(m) = {}, RecordPaperFill(m, s, p, q, r, d)
  PROVE  LedgerInv'
<1> DEFINE row == NewTrade(m, s, p, q, TRUE, "filled", Fee(q, p, r), d)
           pos == NewPosition(m, s, p, q)
<1> USE DEF LedgerInv
<1>1. /\ row \in TradeRow
      /\ row.market = m /\ row.side = s /\ row.price = p /\ row.qty = q
      /\ row.status = "filled"
  <2>1. Fee(q, p, r) \in Nat
    BY FeeIsNat, LedgerAssumption
  <2>2. PICK fee \in Nat : fee = Fee(q, p, r)
    BY <2>1
  <2>3. row = NewTrade(m, s, p, q, TRUE, "filled", fee, d)
    BY <2>2
  <2> HIDE DEF row
  <2>4. QED BY <2>3 DEF NewTrade, TradeRow, Status
<1>2. pos.market = m /\ pos.side = s /\ pos.entry = p /\ pos.qty = q /\ pos.open
  BY NewPositionRow
<1> HIDE DEF row, pos
<1>3. /\ trades' \in Seq(TradeRow)
      /\ DOMAIN trades' = DOMAIN trades \cup {Len(trades')}
      /\ \A k \in Markets : Filled(k)' = IF k = m THEN Filled(k) \cup {Len(trades')} ELSE Filled(k)
      /\ \A t \in DOMAIN trades : trades'[t] = trades[t]
      /\ trades'[Len(trades')] = row
  <2>1. trades' = Append(trades, row)
    BY DEF RecordPaperFill, row
  <2>2. QED BY <1>1, <2>1, FilledAppended
<1>4. /\ positions' \in Seq(PositionRow)
      /\ \A k \in Markets : Open(k)' = IF k = m THEN {Len(positions')} ELSE Open(k)
      /\ \A i \in DOMAIN positions : positions'[i] = positions[i]
      /\ positions'[Len(positions')] = pos
  <2>1. positions' = Append(positions, pos)
    BY AddToFreeMarket DEF RecordPaperFill, pos
  <2>2. QED BY <2>1, OpenAppended DEF pos
<1>5. LedgerTypeOK'
  <2>1. paperCount' = paperCount + 1 /\ UNCHANGED <<bankroll, peak, mode, delisted>>
    BY DEF RecordPaperFill
  <2>2. trades' \in Seq(TradeRow) /\ positions' \in Seq(PositionRow)
    BY <1>3, <1>4
  <2>3. QED BY <2>1, <2>2 DEF LedgerTypeOK
<1>6. OneOpenPerMarket'
  BY <1>4 DEF OneOpenPerMarket
<1>7. BookMatchesTrades'
  <2>1. Filled(m) = {}
    BY DEF BookMatchesTrades
  <2>2. ASSUME NEW k \in Markets, k # m
        PROVE  /\ Open(k)' = Open(k) /\ Filled(k)' = Filled(k)
               /\ \A i \in Open(k) : positions'[i] = positions[i]
               /\ \A t \in Filled(k) : trades'[t] = trades[t]
    BY <1>3, <1>4, <2>2 DEF Open, Filled
  <2>3. Open(m)' = {Len(positions')} /\ Filled(m)' = {Len(trades')}
    BY <1>3, <1>4, <2>1
  <2>4. ASSUME NEW k \in Markets PROVE Matched(k)'
    <3>1. CASE k = m
      <4>1. Open(k)' = {Len(positions')} /\ Filled(k)' = {Len(trades')}
        BY <2>3, <3>1
      <4>2. /\ positions'[Len(positions')].side = trades'[Len(trades')].side
            /\ positions'[Len(positions')].entry = trades'[Len(trades')].price
            /\ positions'[Len(positions')].qty = trades'[Len(trades')].qty
        <5>1. positions'[Len(positions')] = pos
          BY <1>4
        <5>2. trades'[Len(trades')] = row
          BY <1>3
        <5>3. QED BY <1>1, <1>2, <5>1, <5>2
      <4>3. QED BY <4>1, <4>2 DEF Matched
    <3>2. CASE k # m
      BY <2>2, <3>2, MatchedBook DEF Matched
    <3>3. QED BY <3>1, <3>2
  <2>5. QED BY <2>4, MatchedBookNext
<1>8. RealizedExplained'
  BY <1>1, <1>3 DEF RealizedExplained
<1>9. QED
  BY <1>5, <1>6, <1>7, <1>8

\* Writing the pending row keeps the invariant (_create_pending_trade).
LEMMA PendingInv ==
  ASSUME LedgerInv, NEW m \in Markets, NEW s \in Sides, NEW p \in Prices, NEW q \in Nat,
         NEW d \in Shas, CreatePendingTrade(m, s, p, q, d)
  PROVE  LedgerInv'
<1> DEFINE row == NewTrade(m, s, p, q, FALSE, "pending", 0, d)
<1> USE DEF LedgerInv
<1>1. row \in TradeRow /\ row.status = "pending"
  BY PendingRow
<1> HIDE DEF row
<1>2. /\ trades' \in Seq(TradeRow)
      /\ DOMAIN trades' = DOMAIN trades \cup {Len(trades')}
      /\ \A k \in Markets : Filled(k)' = Filled(k)
      /\ \A t \in DOMAIN trades : trades'[t] = trades[t]
      /\ trades'[Len(trades')] = row
  <2>1. trades' = Append(trades, row)
    BY DEF CreatePendingTrade, row
  <2>2. QED BY <1>1, <2>1, FilledAppended
<1>3. /\ positions' = positions
      /\ \A k \in Markets : Open(k)' = Open(k)
  BY DEF CreatePendingTrade, Open
<1>4. LedgerTypeOK'
  BY <1>2 DEF LedgerTypeOK, CreatePendingTrade, settings
<1>5. OneOpenPerMarket'
  BY <1>3 DEF OneOpenPerMarket
<1>6. BookMatchesTrades'
  <2>1. \A k \in Markets : \A t \in Filled(k) : trades'[t] = trades[t]
    BY <1>2 DEF Filled
  <2>2. ASSUME NEW k \in Markets PROVE Matched(k)'
    <3>1. Matched(k) /\ Open(k)' = Open(k) /\ Filled(k)' = Filled(k)
      BY <1>2, <1>3, MatchedBook
    <3>2. QED BY <1>3, <2>1, <3>1 DEF Matched
  <2>3. QED BY <2>2, MatchedBookNext
<1>7. RealizedExplained'
  BY <1>1, <1>2 DEF RealizedExplained
<1>8. QED
  BY <1>4, <1>5, <1>6, <1>7

\* One trade row replaced, everything else as it was.
LEMMA OneRowReplaced ==
  ASSUME LedgerTypeOK, NEW t \in DOMAIN trades, NEW row \in TradeRow,
         trades' = [trades EXCEPT ![t] = row]
  PROVE  /\ trades' \in Seq(TradeRow)
         /\ DOMAIN trades' = DOMAIN trades
         /\ trades'[t] = row
         /\ \A u \in DOMAIN trades : u # t => trades'[u] = trades[u]
BY DEF LedgerTypeOK

\* One position row replaced, everything else as it was.
LEMMA OnePositionReplaced ==
  ASSUME LedgerTypeOK, NEW i \in DOMAIN positions, NEW pos \in PositionRow,
         positions' = [positions EXCEPT ![i] = pos]
  PROVE  /\ positions' \in Seq(PositionRow)
         /\ DOMAIN positions' = DOMAIN positions
         /\ positions'[i] = pos
         /\ \A j \in DOMAIN positions : j # i => positions'[j] = positions[j]
BY DEF LedgerTypeOK

\* Ending a pending row unfilled keeps the invariant (_update_trade_status).
LEMMA StatusInv ==
  ASSUME LedgerInv, NEW t \in Pending, NEW status \in {"cancelled", "error"},
         UpdateTradeStatus(t, status)
  PROVE  LedgerInv'
<1> DEFINE row == [trades[t] EXCEPT !.status = status]
<1> USE DEF LedgerInv
<1>1. t \in DOMAIN trades /\ trades[t] \in TradeRow /\ trades[t].status = "pending"
  BY RowsTyped DEF Pending
<1>2. row \in TradeRow /\ row.status = status
  <2>1. status \in Status
    BY DEF Status
  <2>2. QED BY <1>1, <2>1, StatusRow
<1>3. trades' = [trades EXCEPT ![t] = row]
  BY DEF UpdateTradeStatus
<1> HIDE DEF row
<1>4. /\ trades' \in Seq(TradeRow)
      /\ DOMAIN trades' = DOMAIN trades
      /\ trades'[t] = row
      /\ \A u \in DOMAIN trades : u # t => trades'[u] = trades[u]
  BY <1>1, <1>2, <1>3, OneRowReplaced
<1>5. \A k \in Markets : Filled(k)' = Filled(k) /\ t \notin Filled(k)
  BY <1>1, <1>2, <1>4 DEF Filled
<1>6. /\ positions' = positions
      /\ \A k \in Markets : Open(k)' = Open(k)
  BY DEF UpdateTradeStatus, Open
<1>7. LedgerTypeOK'
  BY <1>4 DEF LedgerTypeOK, UpdateTradeStatus, settings
<1>8. OneOpenPerMarket'
  BY <1>6 DEF OneOpenPerMarket
<1>9. BookMatchesTrades'
  <2>1. \A k \in Markets : \A u \in Filled(k) : trades'[u] = trades[u]
    BY <1>4, <1>5 DEF Filled
  <2>2. ASSUME NEW k \in Markets PROVE Matched(k)'
    BY <1>5, <1>6, <2>1, MatchedBook DEF Matched
  <2>3. QED BY <2>2, MatchedBookNext
<1>10. RealizedExplained'
  BY <1>2, <1>4 DEF RealizedExplained
<1>11. QED
  BY <1>7, <1>8, <1>9, <1>10

\* Filling a pending row keeps the invariant (_mark_trade_filled).
LEMMA FilledInv ==
  ASSUME LedgerInv, NEW t \in Pending, NEW q \in Nat, NEW fee \in Nat,
         Open(trades[t].market) = {}, MarkTradeFilled(t, q, fee)
  PROVE  LedgerInv'
<1> USE DEF LedgerInv
<1>1. /\ t \in DOMAIN trades /\ trades[t] \in TradeRow /\ trades[t].status = "pending"
      /\ trades[t].market \in Markets /\ trades[t].side \in Sides /\ trades[t].price \in Prices
  BY RowsTyped DEF Pending
<1>a. PICK m \in Markets, s \in Sides, p \in Prices :
        m = trades[t].market /\ s = trades[t].side /\ p = trades[t].price
  BY <1>1
<1>b. PICK row \in TradeRow :
        /\ row = FilledRow(trades[t], q, fee)
        /\ row.status = "filled" /\ row.qty = q
        /\ row.market = m /\ row.side = s /\ row.price = p
  BY <1>1, <1>a, FilledRowRow
<1> DEFINE pos == NewPosition(m, s, p, q)
<1>3. pos.market = m /\ pos.side = s /\ pos.entry = p /\ pos.qty = q /\ pos.open
  BY NewPositionRow
<1>4. trades' = [trades EXCEPT ![t] = row]
  BY <1>b DEF MarkTradeFilled
<1>5. positions' = Append(positions, pos)
  BY <1>a, AddToFreeMarket DEF MarkTradeFilled
<1>6. /\ positions' \in Seq(PositionRow)
      /\ \A k \in Markets : Open(k)' = IF k = m THEN {Len(positions')} ELSE Open(k)
      /\ \A i \in DOMAIN positions : positions'[i] = positions[i]
      /\ positions'[Len(positions')] = pos
  BY <1>a, <1>5, OpenAppended
<1> HIDE DEF pos
<1>7. /\ trades' \in Seq(TradeRow)
      /\ DOMAIN trades' = DOMAIN trades
      /\ trades'[t] = row
      /\ \A u \in DOMAIN trades : u # t => trades'[u] = trades[u]
  BY <1>1, <1>4, OneRowReplaced
<1>8. \A k \in Markets : Filled(k)' = IF k = m THEN Filled(k) \cup {t} ELSE Filled(k)
  BY <1>1, <1>a, <1>b, <1>7 DEF Filled
<1>9. LedgerTypeOK'
  BY <1>6, <1>7 DEF LedgerTypeOK, MarkTradeFilled, settings
<1>10. OneOpenPerMarket'
  BY <1>6 DEF OneOpenPerMarket
<1>11. BookMatchesTrades'
  <2>1. Filled(m) = {}
    BY <1>a DEF BookMatchesTrades
  <2>2. ASSUME NEW k \in Markets, k # m
        PROVE  /\ Open(k)' = Open(k) /\ Filled(k)' = Filled(k)
               /\ \A i \in Open(k) : positions'[i] = positions[i]
               /\ \A u \in Filled(k) : trades'[u] = trades[u]
    <3>1. t \notin Filled(k)
      BY <1>1 DEF Filled
    <3>2. QED
      BY <1>6, <1>7, <1>8, <2>2, <3>1 DEF Open, Filled
  <2>4. Open(m)' = {Len(positions')} /\ Filled(m)' = {t}
    BY <1>6, <1>8, <2>1
  <2>5. ASSUME NEW k \in Markets PROVE Matched(k)'
    <3>1. CASE k = m
      <4>1. Open(k)' = {Len(positions')} /\ Filled(k)' = {t}
        BY <2>4, <3>1
      <4>2. /\ positions'[Len(positions')].side = trades'[t].side
            /\ positions'[Len(positions')].entry = trades'[t].price
            /\ positions'[Len(positions')].qty = trades'[t].qty
        <5>1. positions'[Len(positions')] = pos
          BY <1>6
        <5>2. trades'[t] = row
          BY <1>7
        <5>3. QED BY <1>b, <1>3, <5>1, <5>2
      <4>3. QED BY <4>1, <4>2 DEF Matched
    <3>2. CASE k # m
      BY <2>2, <3>2, MatchedBook DEF Matched
    <3>3. QED BY <3>1, <3>2
  <2>6. QED BY <2>5, MatchedBookNext
<1>12. RealizedExplained'
  BY <1>b, <1>7 DEF RealizedExplained
<1>13. QED
  BY <1>9, <1>10, <1>11, <1>12

\* Closing the position of a market keeps the invariant (close_position).
LEMMA ClosePositionInv ==
  ASSUME LedgerInv, NEW m \in Markets, NEW x \in 0..100, NEW finalize \in BOOLEAN,
         ClosePosition(m, x, finalize)
  PROVE  LedgerInv'
<1> USE DEF LedgerInv
<1>1. PICK i \in Open(m), fee \in Nat, exit \in 0..100, pnl \in Int :
        Closing(i, fee, exit, pnl, m, x, finalize)
  BY ClosePositionEffect
<1>4. /\ i \in DOMAIN positions /\ positions[i] \in PositionRow
      /\ positions' = [positions EXCEPT ![i].open = FALSE]
      /\ bankroll' \in Int /\ peak' \in Int
      /\ delisted' = (IF finalize THEN delisted \cup {m} ELSE delisted)
      /\ UNCHANGED <<paperCount, mode>>
      /\ pnl = (exit - positions[i].entry) * positions[i].qty - fee
  BY <1>1 DEF Closing
\* The one filled trade of the market is the one that closes.
<1>5. PICK c \in Filled(m) : Filled(m) = {c}
  BY DEF BookMatchesTrades
<1>6. c \in DOMAIN trades /\ trades[c] \in TradeRow /\ trades[c].market = m
      /\ trades[c].status = "filled" /\ c \in Int
  BY <1>5, RowsTyped DEF Filled, LedgerTypeOK
<1>7. Latest(Filled(m)) = {c}
  BY <1>5, <1>6 DEF Latest
<1>8. fee = trades[c].fee
  BY <1>1, <1>7 DEF Closing
<1>9. trades' = [t \in DOMAIN trades |->
                   IF t = c THEN ClosedRow(trades[t], exit, pnl) ELSE trades[t]]
  BY <1>1, <1>7 DEF Closing, SettledRows
<1>10. PICK row \in TradeRow :
         /\ row = ClosedRow(trades[c], exit, pnl)
         /\ row.status = "closed" /\ row.exit = exit /\ row.pnl = pnl
         /\ row.market = m /\ row.price = trades[c].price
         /\ row.qty = trades[c].qty /\ row.fee = trades[c].fee
  <2>1. PICK old \in TradeRow : old = trades[c]
    BY <1>6
  <2>2. ClosedRow(old, exit, pnl) \in TradeRow
    BY ClosedRowRow
  <2>3. PICK row \in TradeRow : row = ClosedRow(old, exit, pnl)
    BY <2>2
  <2>4. /\ row.status = "closed" /\ row.exit = exit /\ row.pnl = pnl
        /\ row.market = old.market /\ row.price = old.price
        /\ row.qty = old.qty /\ row.fee = old.fee
    BY <2>3 DEF ClosedRow, TradeRow
  <2>5. QED
    BY <1>6, <2>1, <2>3, <2>4
<1>11. /\ DOMAIN trades' = DOMAIN trades
       /\ trades'[c] = row
       /\ \A t \in DOMAIN trades : t # c => trades'[t] = trades[t]
       /\ trades' \in Seq(TradeRow)
  <2>1. /\ DOMAIN trades' = DOMAIN trades
        /\ trades'[c] = row
        /\ \A t \in DOMAIN trades : t # c => trades'[t] = trades[t]
    BY <1>6, <1>9, <1>10
  <2>2. trades' \in [DOMAIN trades -> TradeRow]
    BY <1>9, <2>1, RowsTyped
  <2>3. QED
    BY <2>1, <2>2, RowsRewritten DEF LedgerTypeOK
<1>12. PICK pos \in PositionRow :
         /\ pos = [positions[i] EXCEPT !.open = FALSE]
         /\ ~pos.open /\ pos.market = positions[i].market
  BY <1>4, ClosedPositionRow
<1>13. /\ positions' \in Seq(PositionRow)
       /\ DOMAIN positions' = DOMAIN positions
       /\ positions'[i] = pos
       /\ \A j \in DOMAIN positions : j # i => positions'[j] = positions[j]
  <2>1. positions' = [positions EXCEPT ![i] = pos]
    BY <1>4, <1>12
  <2>2. QED BY <1>4, <2>1, OnePositionReplaced
<1>14. \A k \in Markets : Open(k)' = IF k = m THEN {} ELSE Open(k)
  <2> TAKE k \in Markets
  <2>1. positions[i].market = m
    BY DEF Open
  <2>2. Open(k)' = {j \in DOMAIN positions' : positions'[j].market = k /\ positions'[j].open}
    BY DEF Open
  <2>3. CASE k = m
    <3>1. \A j \in Open(m) : j = i
      BY DEF OneOpenPerMarket
    <3>2. QED BY <1>12, <1>13, <2>2, <2>3, <3>1 DEF Open
  <2>4. CASE k # m
    BY <1>12, <1>13, <2>1, <2>2, <2>4 DEF Open
  <2>5. QED BY <2>3, <2>4
<1>15. \A k \in Markets : Filled(k)' = IF k = m THEN {} ELSE Filled(k)
  <2> TAKE k \in Markets
  <2>1. Filled(k)' = {t \in DOMAIN trades' : trades'[t].market = k /\ trades'[t].status = "filled"}
    BY DEF Filled
  <2>2. CASE k = m
    BY <1>5, <1>10, <1>11, <2>1, <2>2 DEF Filled
  <2>3. CASE k # m
    BY <1>6, <1>10, <1>11, <2>1, <2>3 DEF Filled
  <2>4. QED BY <2>2, <2>3
<1>16. LedgerTypeOK'
  <2>1. bankroll' \in Int /\ peak' \in Int /\ delisted' \subseteq Markets
    BY <1>4 DEF LedgerTypeOK
  <2>2. paperCount' \in Nat /\ mode' \in {"paper", "live"}
    BY <1>4 DEF LedgerTypeOK
  <2>3. trades' \in Seq(TradeRow) /\ positions' \in Seq(PositionRow)
    BY <1>11, <1>13
  <2>4. QED BY <2>1, <2>2, <2>3 DEF LedgerTypeOK
<1>17. OneOpenPerMarket'
  <2>1. \A k \in Markets : \A j, l \in Open(k)' : j = l
    BY <1>14 DEF OneOpenPerMarket
  <2>2. QED BY <2>1 DEF OneOpenPerMarket
<1>18. BookMatchesTrades'
  <2>1. ASSUME NEW k \in Markets PROVE Matched(k)'
    <3>1. CASE k = m
      BY <1>14, <1>15, <3>1 DEF Matched
    <3>2. CASE k # m
      <4>1. /\ Matched(k)
            /\ Open(k)' = Open(k) /\ Filled(k)' = Filled(k)
            /\ \A j \in Open(k) : positions'[j] = positions[j]
            /\ \A t \in Filled(k) : trades'[t] = trades[t]
        <5>1. i \notin Open(k) /\ c \notin Filled(k)
          BY <1>6, <3>2 DEF Open, Filled
        <5>2. QED
          BY <1>11, <1>13, <1>14, <1>15, <3>2, <5>1, MatchedBook DEF Open, Filled
      <4>2. QED BY <4>1 DEF Matched
    <3>3. QED BY <3>1, <3>2
  <2>2. QED BY <2>1, MatchedBookNext
<1>19. RealizedExplained'
  <2>1. positions[i].entry = trades[c].price /\ positions[i].qty = trades[c].qty
    BY <1>5 DEF BookMatchesTrades
  <2>2. row.pnl = (row.exit - row.price) * row.qty - row.fee
    BY <1>4, <1>8, <1>10, <2>1
  <2>3. ASSUME NEW t \in DOMAIN trades', trades'[t].status = "closed"
        PROVE  trades'[t].pnl = (trades'[t].exit - trades'[t].price) * trades'[t].qty
                                 - trades'[t].fee
    <3>1. CASE t = c
      BY <1>11, <2>2, <3>1
    <3>2. CASE t # c
      BY <1>11, <2>3, <3>2 DEF RealizedExplained
    <3>3. QED BY <3>1, <3>2
  <2>4. QED BY <2>3 DEF RealizedExplained
<1>20. QED
  BY <1>16, <1>17, <1>18, <1>19

\* Marking trades as legacy changes their standing and nothing else.
LEMMA RetireEffect ==
  ASSUME LedgerTypeOK, RetireTrades
  PROVE  /\ trades' \in [DOMAIN trades -> TradeRow]
         /\ \A t \in DOMAIN trades :
              /\ trades'[t].status = trades[t].status /\ trades'[t].exit = trades[t].exit
              /\ trades'[t].pnl = trades[t].pnl /\ trades'[t].market = trades[t].market
              /\ trades'[t].side = trades[t].side /\ trades'[t].price = trades[t].price
              /\ trades'[t].qty = trades[t].qty /\ trades'[t].fee = trades[t].fee
         /\ UNCHANGED <<positions, bankroll, peak, paperCount, mode, delisted>>
<1>1. /\ trades' \in [DOMAIN trades -> TradeRow]
      /\ \A t \in DOMAIN trades : trades'[t] = trades[t] \/ trades'[t] = LegacyRow(trades[t])
  <2>1. \A t \in DOMAIN trades : trades[t] \in TradeRow /\ LegacyRow(trades[t]) \in TradeRow
    BY RowsTyped, LegacyRowRow
  <2>2. CASE MarkLegacyTrades
    BY <2>1, <2>2 DEF MarkLegacyTrades, Retire
  <2>3. ASSUME NEW d \in Deploys, MarkLegacyBySha(d) PROVE <1>1
    BY <2>1, <2>3 DEF MarkLegacyBySha, Retire
  <2>4. ASSUME NEW S \in SUBSET Markets, RetireMarkets(S) PROVE <1>1
    BY <2>1, <2>4 DEF RetireMarkets, Retire
  <2>5. QED
    BY <2>2, <2>3, <2>4 DEF RetireTrades
<1>2. UNCHANGED <<positions, bankroll, peak, paperCount, mode, delisted>>
  BY DEF RetireTrades, MarkLegacyTrades, MarkLegacyBySha, RetireMarkets, Retire, settings
<1>3. QED
  BY <1>1, <1>2, RowsTyped, LegacyRowRow

\* Marking trades as legacy keeps the invariant.
LEMMA RetireInv ==
  ASSUME LedgerInv, RetireTrades
  PROVE  LedgerInv'
<1> USE DEF LedgerInv
<1>1. trades' \in [DOMAIN trades -> TradeRow]
  BY RetireEffect
<1>2. UNCHANGED <<positions, bankroll, peak, paperCount, mode, delisted>>
  BY RetireEffect
<1>3. /\ DOMAIN trades' = DOMAIN trades
      /\ \A t \in DOMAIN trades :
           /\ trades'[t].status = trades[t].status /\ trades'[t].exit = trades[t].exit
           /\ trades'[t].pnl = trades[t].pnl /\ trades'[t].market = trades[t].market
           /\ trades'[t].side = trades[t].side /\ trades'[t].price = trades[t].price
           /\ trades'[t].qty = trades[t].qty /\ trades'[t].fee = trades[t].fee
  BY <1>1, RetireEffect
<1>4. trades' \in Seq(TradeRow)
  BY <1>1, RowsRewritten DEF LedgerTypeOK
<1>5. \A k \in Markets : Open(k)' = Open(k) /\ Filled(k)' = Filled(k)
  BY <1>2, <1>3 DEF Open, Filled
<1>6. LedgerTypeOK'
  BY <1>2, <1>4 DEF LedgerTypeOK
<1>7. OneOpenPerMarket'
  BY <1>5 DEF OneOpenPerMarket
<1>8. BookMatchesTrades'
  <2>1. ASSUME NEW k \in Markets PROVE Matched(k)'
    <3>1. Matched(k) /\ Open(k)' = Open(k) /\ Filled(k)' = Filled(k)
      BY <1>5, MatchedBook
    <3>2. \A t \in Filled(k) : t \in DOMAIN trades
      BY DEF Filled
    <3>3. QED BY <1>2, <1>3, <3>1, <3>2 DEF Matched
  <2>2. QED BY <2>1, MatchedBookNext
<1>9. RealizedExplained'
  BY <1>3 DEF RealizedExplained
<1>10. QED
  BY <1>6, <1>7, <1>8, <1>9

\* A transaction that leaves both tables alone.
LEMMA TablesKeptInv ==
  ASSUME LedgerInv, UNCHANGED <<trades, positions>>, LedgerTypeOK'
  PROVE  LedgerInv'
<1>1. \A k \in Markets : Open(k)' = Open(k) /\ Filled(k)' = Filled(k)
  BY DEF Open, Filled
<1>2. OneOpenPerMarket' /\ RealizedExplained'
  BY <1>1 DEF LedgerInv, OneOpenPerMarket, RealizedExplained
<1>3. BookMatchesTrades'
  BY <1>1 DEF LedgerInv, BookMatchesTrades
<1>4. QED
  BY <1>2, <1>3 DEF LedgerInv

\* The tables are finite.
LEMMA RowsAreFinite ==
  ASSUME LedgerTypeOK
  PROVE  IsFiniteSet(DOMAIN trades) /\ IsFiniteSet(DOMAIN positions)
<1>1. /\ DOMAIN trades = 1..Len(trades) /\ Len(trades) \in Int
      /\ DOMAIN positions = 1..Len(positions) /\ Len(positions) \in Int
  BY DEF LedgerTypeOK
<1>2. QED
  BY <1>1, FS_Interval

\* The fees a live fill can be charged are whole cents.
LEMMA LiveFeesAreNat ==
  ASSUME LedgerTypeOK, NEW t \in DOMAIN trades, NEW q \in Nat
  PROVE  LiveFees(t, q) \subseteq Nat
<1>1. trades[t].price \in 1..99 /\ trades[t].qty \in Nat
  BY RowsTyped, LedgerAssumption
<1>2. Rates \cup {BaseRate} \subseteq Nat
  BY LedgerAssumption DEF BaseRate
<1>3. ASSUME NEW f \in q..trades[t].qty, NEW r \in Rates \cup {BaseRate}
      PROVE  Fee(f, trades[t].price, r) \in Nat
  <2>1. f \in Nat /\ r \in Nat
    BY <1>1, <1>2
  <2>2. QED BY <1>1, <2>1, FeeIsNat
<1>4. QED
  BY <1>3 DEF LiveFees

\* What the open positions cost is a whole number of cents.
LEMMA OpenCostIsInt == ASSUME LedgerTypeOK PROVE OpenCost \in Int
<1> DEFINE S == {i \in DOMAIN positions : positions[i].open}
<1>1. IsFiniteSet(S)
  BY RowsAreFinite, FS_Subset
<1>2. ASSUME NEW i \in S PROVE Costs[i] \in Int
  <2>1. positions[i] \in PositionRow
    BY RowsTyped
  <2>2. positions[i].entry \in Prices /\ positions[i].qty \in Nat
    BY <2>1 DEF PositionRow
  <2>3. Costs[i] = positions[i].entry * positions[i].qty
    BY DEF Costs
  <2>0. \A p \in Prices : p \in Int
    BY LedgerAssumption
  <2>4. positions[i].entry \in Int
    BY <2>2, <2>0
  <2>5. QED BY <2>2, <2>3, <2>4
<1>3. Summed(Costs, S)
  BY <1>2 DEF Summed
<1>4. QED
  BY <1>1, <1>3, SumStep DEF OpenCost

\* Every transaction of the ledger keeps its invariant.
LEMMA LedgerInvStep ==
  ASSUME LedgerInv, [LedgerNext]_ledgerVars
  PROVE  LedgerInv'
<1>0. LedgerTypeOK
  BY DEF LedgerInv
<1>1. CASE PaperEntry
  <2>1. PICK m \in Markets, s \in Sides, p \in Prices, q \in Sizes, r \in Rates, d \in Shas :
          Open(m) = {} /\ RecordPaperFill(m, s, p, q, r, d)
    BY <1>1 DEF PaperEntry, Enterable
  <2>2. q \in Nat /\ r \in Nat
    BY SizesAreNat, LedgerAssumption
  <2>3. QED BY <2>1, <2>2, PaperFillInv
<1>2. CASE LiveEntry
  <2>1. PICK m \in Markets, s \in Sides, p \in Prices, q \in Sizes, d \in Shas :
          CreatePendingTrade(m, s, p, q, d)
    BY <1>2 DEF LiveEntry
  <2>2. q \in Nat
    BY SizesAreNat
  <2>3. QED BY <2>1, <2>2, PendingInv
<1>3. CASE LiveFilled
  <2>1. PICK t \in Pending : Open(trades[t].market) = {} /\
          \E q \in 1..trades[t].qty : \E fee \in LiveFees(t, q) : MarkTradeFilled(t, q, fee)
    BY <1>3 DEF LiveFilled
  <2>2. t \in DOMAIN trades
    BY DEF Pending
  <2>3. PICK q \in 1..trades[t].qty : \E fee \in LiveFees(t, q) : MarkTradeFilled(t, q, fee)
    BY <2>1
  <2>4. q \in Nat
    BY <2>3
  <2>5. LiveFees(t, q) \subseteq Nat
    BY <1>0, <2>2, <2>4, LiveFeesAreNat
  <2>6. PICK fee \in Nat : MarkTradeFilled(t, q, fee)
    BY <2>3, <2>5
  <2>7. QED BY <2>1, <2>4, <2>6, FilledInv
<1>4. CASE LiveEnded
  BY <1>4, StatusInv DEF LiveEnded
<1>5. CASE Settle
  <2>1. PICK m \in Markets, x \in {0, 100} : ClosePosition(m, x, TRUE)
    BY <1>5 DEF Settle
  <2>2. x \in 0..100
    OBVIOUS
  <2>3. QED BY <2>1, <2>2, ClosePositionInv
<1>6. CASE CloseAtMark
  <2>1. PICK m \in Markets, x \in 0..100 : ClosePosition(m, x, FALSE)
    BY <1>6, LedgerAssumption DEF CloseAtMark
  <2>2. QED BY <2>1, ClosePositionInv
<1>7. CASE RetireTrades
  BY <1>7, RetireInv
<1>13. CASE CloseAgain
  <2>1. LedgerTypeOK' /\ UNCHANGED <<trades, positions>>
    BY <1>0, <1>13 DEF CloseAgain, LedgerTypeOK
  <2>2. QED BY <2>1, TablesKeptInv
<1>8. CASE Resync
  <2>1. PICK n \in 0..MaxTrades : WriteGateCounter(n)
    BY <1>8 DEF Resync
  <2>2. LedgerTypeOK' /\ UNCHANGED <<trades, positions>>
    BY <1>0, <2>1, LedgerAssumption DEF WriteGateCounter, LedgerTypeOK
  <2>3. QED BY <2>2, TablesKeptInv
<1>9. CASE Sync
  <2>1. PICK c \in CashReadings : SyncLiveBankroll(c)
    BY <1>9 DEF Sync
  <2>2. PICK dollars \in Int :
          /\ bankroll' = dollars
          /\ peak' = IF dollars > peak THEN dollars ELSE peak
          /\ UNCHANGED <<trades, positions, paperCount, mode, delisted>>
    BY <1>0, <2>1, OpenCostIsInt, LedgerAssumption DEF SyncLiveBankroll
  <2>3. LedgerTypeOK' /\ UNCHANGED <<trades, positions>>
    BY <1>0, <2>2 DEF LedgerTypeOK
  <2>4. QED BY <2>3, TablesKeptInv
<1>10. CASE FlipMode
  <2>1. LedgerTypeOK' /\ UNCHANGED <<trades, positions>>
    BY <1>0, <1>10 DEF FlipMode, SetMode, LedgerTypeOK
  <2>2. QED BY <2>1, TablesKeptInv
<1>11. CASE UNCHANGED ledgerVars
  <2>1. LedgerTypeOK' /\ UNCHANGED <<trades, positions>>
    BY <1>0, <1>11 DEF ledgerVars, LedgerTypeOK
  <2>2. QED BY <2>1, TablesKeptInv
<1>12. QED
  BY <1>1, <1>2, <1>3, <1>4, <1>5, <1>6, <1>7, <1>8, <1>9, <1>10, <1>11, <1>13 DEF LedgerNext

-----------------------------------------------------------------------------
(***************************************************************************)
(* What a transaction leaves alone.  A closing that is under way relies on *)
(* it for its own market.                                                  *)
(***************************************************************************)

\* Outside the markets of S the book and its fees are what they were.
KeptOutside(S) ==
  /\ DOMAIN positions \subseteq DOMAIN positions'
  /\ \A i \in DOMAIN positions : positions[i].market \notin S => positions'[i] = positions[i]
  /\ \A k \in Markets \ S : /\ Open(k)' = Open(k)
                             /\ Filled(k)' = Filled(k)
                             /\ \A t \in Filled(k) : trades'[t].fee = trades[t].fee

\* A step that leaves both tables alone.
LEMMA TablesKept ==
  ASSUME UNCHANGED <<trades, positions>>
  PROVE  KeptOutside({})
BY DEF KeptOutside, Open, Filled

\* Marking trades as legacy.
LEMMA RetireKept ==
  ASSUME LedgerTypeOK, RetireTrades
  PROVE  KeptOutside({})
<1>1. DOMAIN trades' = DOMAIN trades /\ positions' = positions
  BY RetireEffect
<1>2. \A t \in DOMAIN trades : /\ trades'[t].status = trades[t].status
                               /\ trades'[t].market = trades[t].market
                               /\ trades'[t].fee = trades[t].fee
  BY RetireEffect
<1>3. \A k \in Markets : Open(k)' = Open(k) /\ Filled(k)' = Filled(k)
  BY <1>1, <1>2 DEF Open, Filled
<1>4. QED
  BY <1>1, <1>2, <1>3 DEF KeptOutside, Filled

\* The pending row of a live order.
LEMMA PendingKept ==
  ASSUME LedgerTypeOK, NEW m \in Markets, NEW s \in Sides, NEW p \in Prices, NEW q \in Nat,
         NEW d \in Shas, CreatePendingTrade(m, s, p, q, d)
  PROVE  KeptOutside({})
<1>0. /\ NewTrade(m, s, p, q, FALSE, "pending", 0, d) \in TradeRow
      /\ NewTrade(m, s, p, q, FALSE, "pending", 0, d).status = "pending"
  BY PendingRow
<1>1. PICK row \in TradeRow : /\ row = NewTrade(m, s, p, q, FALSE, "pending", 0, d)
                              /\ row.status = "pending"
  BY <1>0
<1>2. trades' = Append(trades, row) /\ positions' = positions
  BY <1>1 DEF CreatePendingTrade
<1>3. /\ \A k \in Markets : Filled(k)' = Filled(k)
      /\ \A t \in DOMAIN trades : trades'[t] = trades[t]
  BY <1>1, <1>2, FilledAppended
<1>4. \A k \in Markets : Open(k)' = Open(k)
  BY <1>2 DEF Open
<1>5. QED
  BY <1>2, <1>3, <1>4 DEF KeptOutside, Filled

\* A paper fill, outside its market.
LEMMA PaperFillKept ==
  ASSUME LedgerTypeOK, NEW m \in Markets, NEW s \in Sides, NEW p \in Prices, NEW q \in Nat,
         NEW r \in Nat, NEW d \in Shas, Open(m) = {}, RecordPaperFill(m, s, p, q, r, d)
  PROVE  KeptOutside({m})
<1>1. PICK fee \in Nat : fee = Fee(q, p, r)
  BY FeeIsNat, LedgerAssumption
<1>0. /\ NewTrade(m, s, p, q, TRUE, "filled", fee, d) \in TradeRow
      /\ NewTrade(m, s, p, q, TRUE, "filled", fee, d).market = m
  BY DEF NewTrade, TradeRow, Status
<1>2. PICK row \in TradeRow :
        row = NewTrade(m, s, p, q, TRUE, "filled", fee, d) /\ row.market = m
  BY <1>0
<1>3. trades' = Append(trades, row) /\ positions' = Append(positions, NewPosition(m, s, p, q))
  BY <1>1, <1>2, AddToFreeMarket DEF RecordPaperFill
<1>4. /\ \A k \in Markets : k # m => Filled(k)' = Filled(k)
      /\ \A t \in DOMAIN trades : trades'[t] = trades[t]
  BY <1>2, <1>3, FilledAppended
<1>5. /\ \A k \in Markets : k # m => Open(k)' = Open(k)
      /\ \A i \in DOMAIN positions : positions'[i] = positions[i]
  BY <1>3, OpenAppended
<1>6. DOMAIN positions \subseteq DOMAIN positions'
  <2>1. NewPosition(m, s, p, q) \in PositionRow
    BY NewPositionRow
  <2>2. QED BY <1>3, <2>1, Appended DEF LedgerTypeOK
<1>7. QED
  BY <1>4, <1>5, <1>6 DEF KeptOutside, Filled

\* A live order that filled nothing.
LEMMA StatusKept ==
  ASSUME LedgerTypeOK, NEW t \in Pending, NEW status \in {"cancelled", "error"},
         UpdateTradeStatus(t, status)
  PROVE  KeptOutside({})
<1>1. t \in DOMAIN trades /\ trades[t] \in TradeRow /\ trades[t].status = "pending"
  BY RowsTyped DEF Pending
<1>2. PICK row \in TradeRow : row = [trades[t] EXCEPT !.status = status] /\ row.status = status
  <2>1. status \in Status
    BY DEF Status
  <2>2. QED BY <1>1, <2>1, StatusRow
<1>3. trades' = [trades EXCEPT ![t] = row] /\ positions' = positions
  BY <1>2 DEF UpdateTradeStatus
<1>4. /\ DOMAIN trades' = DOMAIN trades /\ trades'[t] = row
      /\ \A u \in DOMAIN trades : u # t => trades'[u] = trades[u]
  BY <1>1, <1>3, OneRowReplaced
<1>5. \A k \in Markets : Filled(k)' = Filled(k) /\ t \notin Filled(k) /\ Open(k)' = Open(k)
  BY <1>1, <1>2, <1>3, <1>4 DEF Filled, Open
<1>6. QED
  BY <1>3, <1>4, <1>5 DEF KeptOutside, Filled

\* A live order that filled, outside its market.
LEMMA FilledKept ==
  ASSUME LedgerTypeOK, NEW t \in Pending, NEW q \in Nat, NEW fee \in Nat,
         Open(trades[t].market) = {}, MarkTradeFilled(t, q, fee)
  PROVE  KeptOutside({trades[t].market})
<1>1. /\ t \in DOMAIN trades /\ trades[t] \in TradeRow
      /\ trades[t].market \in Markets /\ trades[t].side \in Sides /\ trades[t].price \in Prices
  BY RowsTyped DEF Pending
<1>2. PICK m \in Markets, s \in Sides, p \in Prices :
        m = trades[t].market /\ s = trades[t].side /\ p = trades[t].price
  BY <1>1
<1>3. PICK row \in TradeRow : row = FilledRow(trades[t], q, fee) /\ row.market = m
  BY <1>1, <1>2, FilledRowRow
<1>4. trades' = [trades EXCEPT ![t] = row] /\ positions' = Append(positions, NewPosition(m, s, p,
q))
  BY <1>2, <1>3, AddToFreeMarket DEF MarkTradeFilled
<1>5. /\ DOMAIN trades' = DOMAIN trades /\ trades'[t] = row
      /\ \A u \in DOMAIN trades : u # t => trades'[u] = trades[u]
  BY <1>1, <1>4, OneRowReplaced
<1>6. \A k \in Markets : k # m => Filled(k)' = Filled(k) /\ t \notin Filled(k)
  BY <1>1, <1>2, <1>3, <1>5 DEF Filled
<1>7. /\ \A k \in Markets : k # m => Open(k)' = Open(k)
      /\ \A i \in DOMAIN positions : positions'[i] = positions[i]
  BY <1>2, <1>4, OpenAppended
<1>8. DOMAIN positions \subseteq DOMAIN positions'
  <2>1. NewPosition(m, s, p, q) \in PositionRow
    BY NewPositionRow
  <2>2. QED BY <1>4, <2>1, Appended DEF LedgerTypeOK
<1>9. QED
  BY <1>2, <1>5, <1>6, <1>7, <1>8 DEF KeptOutside, Filled

\* Closing the position of a market empties it, and touches no other.
LEMMA ClosedAndKept ==
  ASSUME LedgerInv, NEW m \in Markets, NEW x \in 0..100, NEW finalize \in BOOLEAN,
         ClosePosition(m, x, finalize)
  PROVE  /\ KeptOutside({m})
         /\ Open(m)' = {} /\ Filled(m)' = {}
         /\ \A j \in Open(m) : positions'[j] = [positions[j] EXCEPT !.open = FALSE]
<1>0. LedgerTypeOK /\ OneOpenPerMarket /\ BookMatchesTrades
  BY DEF LedgerInv
<1>13. PICK i \in Open(m), fee \in Nat, exit \in 0..100, pnl \in Int :
         Closing(i, fee, exit, pnl, m, x, finalize)
  BY <1>0, ClosePositionEffect
<1>1. i \in DOMAIN positions /\ positions[i] \in PositionRow /\ positions[i].market = m
  BY <1>0, <1>13 DEF Open, Closing
<1>2. PICK pos \in PositionRow :
         /\ pos = [positions[i] EXCEPT !.open = FALSE]
         /\ ~pos.open /\ pos.market = m
  BY <1>1, ClosedPositionRow
<1>3. /\ DOMAIN positions' = DOMAIN positions
      /\ positions'[i] = pos
      /\ \A j \in DOMAIN positions : j # i => positions'[j] = positions[j]
  <2>1. positions' = [positions EXCEPT ![i] = pos]
    BY <1>1, <1>2, <1>13 DEF Closing
  <2>2. QED BY <1>0, <1>1, <2>1, OnePositionReplaced
<1>4. \A k \in Markets : Open(k)' = IF k = m THEN {} ELSE Open(k)
  <2> TAKE k \in Markets
  <2>1. Open(k)' = {j \in DOMAIN positions' : positions'[j].market = k /\ positions'[j].open}
    BY DEF Open
  <2>2. CASE k = m
    <3>1. \A j \in Open(m) : j = i
      BY <1>0 DEF OneOpenPerMarket
    <3>2. QED BY <1>2, <1>3, <2>1, <2>2, <3>1 DEF Open
  <2>3. CASE k # m
    BY <1>1, <1>2, <1>3, <2>1, <2>3 DEF Open
  <2>4. QED BY <2>2, <2>3
<1>5. PICK c \in Filled(m) : Filled(m) = {c}
  BY <1>0 DEF BookMatchesTrades
<1>6. /\ c \in DOMAIN trades /\ trades[c] \in TradeRow /\ trades[c].market = m
      /\ trades[c].status = "filled" /\ c \in Int
  BY <1>0, <1>5, RowsTyped DEF Filled, LedgerTypeOK
<1>7. Latest(Filled(m)) = {c}
  BY <1>5, <1>6 DEF Latest
<1>8. trades' = [t \in DOMAIN trades |->
                   IF t = c THEN ClosedRow(trades[t], exit, pnl) ELSE trades[t]]
  BY <1>7, <1>13 DEF Closing, SettledRows
<1>9. /\ DOMAIN trades' = DOMAIN trades /\ trades'[c].status = "closed"
      /\ \A t \in DOMAIN trades : t # c => trades'[t] = trades[t]
  <2>1. PICK old \in TradeRow : old = trades[c]
    BY <1>6
  <2>2. ClosedRow(old, exit, pnl).status = "closed"
    BY ClosedRowRow
  <2>3. QED BY <1>6, <1>8, <2>1, <2>2
<1>10. \A k \in Markets : Filled(k)' = IF k = m THEN {} ELSE Filled(k)
  <2> TAKE k \in Markets
  <2>1. Filled(k)' = {t \in DOMAIN trades' : trades'[t].market = k /\ trades'[t].status = "filled"}
    BY DEF Filled
  <2>2. CASE k = m
    BY <1>5, <1>9, <2>1, <2>2 DEF Filled
  <2>3. CASE k # m
    BY <1>6, <1>9, <2>1, <2>3 DEF Filled
  <2>4. QED BY <2>2, <2>3
<1>11. \A k \in Markets : k # m => \A t \in Filled(k) : trades'[t].fee = trades[t].fee
  BY <1>6, <1>9 DEF Filled
<1>14. \A j \in Open(m) : positions'[j] = [positions[j] EXCEPT !.open = FALSE]
  BY <1>0, <1>2, <1>3 DEF OneOpenPerMarket
<1>12. QED
  BY <1>1, <1>2, <1>3, <1>4, <1>10, <1>11, <1>14 DEF KeptOutside

-----------------------------------------------------------------------------
(***************************************************************************)
(* The bankroll and the realized PnL.                                      *)
(***************************************************************************)

\* The closed trades are finitely many, and each has a whole PnL.
LEMMA ClosedSummed ==
  ASSUME LedgerTypeOK
  PROVE  /\ IsFiniteSet(Closed)
         /\ Summed(Profits, Closed)
         /\ Realized \in Int
<1>1. IsFiniteSet(Closed)
  BY RowsAreFinite, FS_Subset DEF Closed
<1>2. ASSUME NEW t \in Closed PROVE Profits[t] \in Int
  <2>1. trades[t] \in TradeRow /\ Profits[t] = trades[t].pnl
    BY RowsTyped DEF Closed, Profits
  <2>2. QED BY <2>1 DEF TradeRow
<1>3. Summed(Profits, Closed)
  BY <1>2 DEF Summed
<1>4. QED
  BY <1>1, <1>3, SumStep DEF Realized

\* A step after which the same trades are closed, with the same PnL.
LEMMA RealizedKept ==
  ASSUME LedgerTypeOK, Closed' = Closed, \A t \in Closed : Profits'[t] = Profits[t]
  PROVE  Realized' - Realized = 0
<1>1. Realized' = Realized
  <2>1. PICK u : u = Profits'
    OBVIOUS
  <2>2. SumFunctionOnSet(u, Closed) = SumFunctionOnSet(Profits, Closed)
    BY <2>1, ClosedSummed, SumSame
  <2>3. QED BY <2>1, <2>2 DEF Realized
<1>2. QED
  BY <1>1, ClosedSummed

\* A step that leaves the statuses and the PnL of the rows there were.
LEMMA RowsKeepPnL ==
  ASSUME LedgerTypeOK, DOMAIN trades \subseteq DOMAIN trades',
         \A t \in DOMAIN trades : trades'[t].pnl = trades[t].pnl,
         \A t \in DOMAIN trades : (trades'[t].status = "closed") <=> (trades[t].status = "closed"),
         \A t \in DOMAIN trades' : t \notin DOMAIN trades => trades'[t].status # "closed"
  PROVE  Realized' - Realized = 0
<1>1. Closed' = Closed
  <2>1. Closed' = {t \in DOMAIN trades' : trades'[t].status = "closed"}
    BY DEF Closed
  <2>2. Closed = {t \in DOMAIN trades : trades[t].status = "closed"}
    BY DEF Closed
  <2>3. ASSUME NEW t PROVE t \in Closed' <=> t \in Closed
    BY <2>1, <2>2
  <2>4. QED BY <2>3, Zenon
<1>2. \A t \in Closed : Profits'[t] = Profits[t]
  BY DEF Closed, Profits
<1>3. QED
  BY <1>1, <1>2, RealizedKept

\* A step that closes one trade at some PnL.
LEMMA RealizedMoves ==
  ASSUME LedgerTypeOK, NEW c, c \notin Closed, Closed' = Closed \cup {c},
         NEW pnl \in Int, Profits'[c] = pnl, \A t \in Closed : Profits'[t] = Profits[t]
  PROVE  Realized' - Realized = pnl
<1>1. PICK u : u = Profits'
  OBVIOUS
<1>2. /\ SumFunctionOnSet(Profits, Closed) \in Int
      /\ SumFunctionOnSet(u, Closed \cup {c}) = u[c] + SumFunctionOnSet(Profits, Closed)
  BY <1>1, ClosedSummed, SumGrows
<1>3. Realized' = pnl + Realized /\ Realized \in Int
  BY <1>1, <1>2 DEF Realized
<1>4. QED
  BY <1>3

\* Closing a position moves the realized PnL by that of the row it closes.
LEMMA CloseRealizes ==
  ASSUME LedgerInv, NEW m \in Markets, NEW i \in Open(m), NEW fee \in Nat, NEW exit \in 0..100,
         NEW pnl \in Int, NEW x \in 0..100, NEW finalize \in BOOLEAN,
         Closing(i, fee, exit, pnl, m, x, finalize)
  PROVE  Realized' - Realized = pnl
<1>0. LedgerTypeOK /\ BookMatchesTrades
  BY DEF LedgerInv
<1>2. PICK c \in Filled(m) : Filled(m) = {c}
  BY <1>0 DEF BookMatchesTrades
<1>3. c \in DOMAIN trades /\ trades[c].status = "filled" /\ c \in Int
  BY <1>0, <1>2 DEF Filled, LedgerTypeOK
<1>4. Latest(Filled(m)) = {c}
  BY <1>2, <1>3 DEF Latest
<1>5. trades' = [t \in DOMAIN trades |->
                   IF t = c THEN ClosedRow(trades[t], exit, pnl) ELSE trades[t]]
  BY <1>4 DEF Closing, SettledRows
<1>6. trades'[c].status = "closed" /\ trades'[c].pnl = pnl
  <2>1. trades[c] \in TradeRow /\ trades'[c] = ClosedRow(trades[c], exit, pnl)
    BY <1>0, <1>3, <1>5, RowsTyped
  <2>2. QED BY <2>1 DEF ClosedRow, TradeRow
<1>7. DOMAIN trades' = DOMAIN trades /\ \A t \in DOMAIN trades : t # c => trades'[t] = trades[t]
  BY <1>5
<1>8. c \notin Closed /\ Closed' = Closed \cup {c}
  BY <1>3, <1>6, <1>7 DEF Closed
<1>9. Profits'[c] = pnl /\ \A t \in Closed : Profits'[t] = Profits[t]
  BY <1>3, <1>6, <1>7 DEF Closed, Profits
<1>10. QED
  BY <1>0, <1>8, <1>9, RealizedMoves

\* The transactions that close nothing.
OpenNext ==
  PaperEntry \/ LiveEntry \/ LiveFilled \/ LiveEnded \/ RetireTrades \/ Resync \/ Sync \/ FlipMode

\* In paper mode they move neither the bankroll nor the realized PnL.
LEMMA BankrollStep ==
  ASSUME LedgerInv, [OpenNext]_ledgerVars, mode = "paper"
  PROVE  bankroll' = bankroll /\ Realized' - Realized = 0
<1>0. LedgerTypeOK /\ trades \in Seq(TradeRow) /\ bankroll \in Int
  BY DEF LedgerInv, LedgerTypeOK
<1>3. CASE PaperEntry \/ LiveEntry
  <2>1. PICK row : trades' = Append(trades, row) /\ row.status # "closed"
    <3>1. CASE PaperEntry
      <4>1. PICK m \in Markets, s \in Sides, p \in Prices, q \in Sizes, r \in Rates, d \in Shas :
              RecordPaperFill(m, s, p, q, r, d)
        BY <3>1 DEF PaperEntry
      <4>2. PICK row : row = NewTrade(m, s, p, q, TRUE, "filled", Fee(q, p, r), d)
        OBVIOUS
      <4>3. row.status = "filled"
        BY <4>2 DEF NewTrade
      <4>4. trades' = Append(trades, row)
        BY <4>1, <4>2 DEF RecordPaperFill
      <4>5. row.status # "closed"
        BY <4>3
      <4>6. QED BY <4>4, <4>5
    <3>2. CASE LiveEntry
      <4>1. PICK m \in Markets, s \in Sides, p \in Prices, q \in Sizes, d \in Shas :
              CreatePendingTrade(m, s, p, q, d)
        BY <3>2 DEF LiveEntry
      <4>2. PICK row : row = NewTrade(m, s, p, q, FALSE, "pending", 0, d)
        OBVIOUS
      <4>3. row.status = "pending"
        BY <4>2 DEF NewTrade
      <4>4. trades' = Append(trades, row)
        BY <4>1, <4>2 DEF CreatePendingTrade
      <4>5. row.status # "closed"
        BY <4>3
      <4>6. QED BY <4>4, <4>5
    <3>3. QED BY <1>3, <3>1, <3>2
  <2>2. bankroll' = bankroll
    BY <1>3 DEF PaperEntry, LiveEntry, RecordPaperFill, CreatePendingTrade, settings
  <2>3. /\ DOMAIN trades' = DOMAIN trades \cup {Len(trades) + 1}
        /\ trades'[Len(trades) + 1] = row
        /\ \A t \in DOMAIN trades : trades'[t] = trades[t]
    BY <1>0, <2>1
  <2>4. Realized' - Realized = 0
    BY <1>0, <2>1, <2>3, RowsKeepPnL
  <2>5. QED BY <2>2, <2>4
<1>4. CASE LiveFilled \/ LiveEnded
  <2>1. \E t \in Pending : \E row : /\ trades' = [trades EXCEPT ![t] = row]
                                   /\ row.pnl = trades[t].pnl /\ row.status # "closed"
    <3>1. CASE LiveFilled
      <4>0. PICK t \in Pending : \E q, fee : MarkTradeFilled(t, q, fee)
        BY <3>1 DEF LiveFilled
      <4>1. PICK q, fee : MarkTradeFilled(t, q, fee)
        BY <4>0
      <4>2. trades[t] \in TradeRow /\ t \in DOMAIN trades
        BY <1>0 DEF Pending
      <4>3. /\ trades' = [trades EXCEPT ![t] = FilledRow(trades[t], q, fee)]
            /\ FilledRow(trades[t], q, fee).pnl = trades[t].pnl
            /\ FilledRow(trades[t], q, fee).status = "filled"
        BY <4>1, <4>2 DEF MarkTradeFilled, FilledRow, TradeRow
      <4>4. QED BY <4>3
    <3>2. CASE LiveEnded
      <4>1. PICK t \in Pending, status \in {"cancelled", "error"} : UpdateTradeStatus(t, status)
        BY <3>2 DEF LiveEnded
      <4>2. trades[t] \in TradeRow /\ t \in DOMAIN trades
        BY <1>0 DEF Pending
      <4>3. PICK row : row = [trades[t] EXCEPT !.status = status]
        OBVIOUS
      <4>4. row.pnl = trades[t].pnl /\ row.status = status
        BY <4>2, <4>3 DEF TradeRow
      <4>5. trades' = [trades EXCEPT ![t] = row]
        BY <4>1, <4>2, <4>3 DEF UpdateTradeStatus
      <4>6. QED BY <4>4, <4>5
    <3>3. QED BY <1>4, <3>1, <3>2
  <2>2. PICK t \in Pending, row \in {trades'[u] : u \in DOMAIN trades} :
          trades' = [trades EXCEPT ![t] = row] /\ row.pnl = trades[t].pnl /\ row.status # "closed"
    <3>1. PICK t \in Pending : \E row : /\ trades' = [trades EXCEPT ![t] = row]
                                      /\ row.pnl = trades[t].pnl /\ row.status # "closed"
      BY <2>1
    <3>2. t \in DOMAIN trades
      BY DEF Pending
    <3>3. QED BY <3>1, <3>2
  <2>3. bankroll' = bankroll
    BY <1>4 DEF LiveFilled, LiveEnded, MarkTradeFilled, UpdateTradeStatus, settings
  <2>4. t \in DOMAIN trades /\ trades[t].status # "closed"
    BY DEF Pending
  <2>5. Realized' - Realized = 0
    BY <1>0, <2>2, <2>4, RowsKeepPnL
  <2>6. QED BY <2>3, <2>5
<1>5. CASE RetireTrades
  <2>1. bankroll' = bankroll /\ DOMAIN trades' = DOMAIN trades
        /\ \A t \in DOMAIN trades : trades'[t].pnl = trades[t].pnl
                                   /\ trades'[t].status = trades[t].status
    BY <1>0, <1>5, RetireEffect
  <2>2. QED BY <1>0, <2>1, RowsKeepPnL
<1>6. CASE Resync \/ FlipMode \/ UNCHANGED ledgerVars
  <2>1. bankroll' = bankroll /\ trades' = trades
    BY <1>6 DEF Resync, WriteGateCounter, FlipMode, SetMode, ledgerVars, settings
  <2>2. QED BY <1>0, <2>1, RowsKeepPnL
<1>7. ~Sync
  BY DEF Sync
<1>8. QED
  BY <1>3, <1>4, <1>5, <1>6, <1>7 DEF OpenNext

\* The empty ledger satisfies the invariant.
LEMMA LedgerInvInit == LedgerInit => LedgerInv
<1> SUFFICES ASSUME LedgerInit PROVE LedgerInv
  OBVIOUS
<1>1. \A k \in Markets : Open(k) = {} /\ Filled(k) = {}
  BY DEF LedgerInit, Open, Filled
<1>2. LedgerTypeOK
  BY LedgerAssumption DEF LedgerInit, LedgerTypeOK
<1>3. OneOpenPerMarket /\ BookMatchesTrades
  BY <1>1 DEF OneOpenPerMarket, BookMatchesTrades
<1>4. RealizedExplained
  BY DEF LedgerInit, RealizedExplained
<1>5. QED
  BY <1>2, <1>3, <1>4 DEF LedgerInv

\* The inductive invariant of the ledger: typed tables, one open position per
\* market, a matching book and explained PnL hold whatever transactions run.
THEOREM LedgerInvariant == LedgerSpec => []LedgerInv
<1>1. LedgerInv /\ [LedgerNext]_ledgerVars => LedgerInv'
  BY LedgerInvStep
<1>2. QED
  BY LedgerInvInit, <1>1, PTL DEF LedgerSpec

\* The open book and the filled trades are the same book in every state of
\* the ledger (close_position's lookup by market alone is therefore safe).
THEOREM LedgerBookMatches == LedgerSpec => []BookMatchesTrades
<1>1. LedgerInv => BookMatchesTrades
  BY DEF LedgerInv
<1>2. QED
  BY LedgerInvariant, <1>1, PTL

\* Every realized PnL is explained by its own row in every state of the
\* ledger (close_position computes it from the position and the fee column).
THEOREM LedgerRealizedExplained == LedgerSpec => []RealizedExplained
<1>1. LedgerInv => RealizedExplained
  BY DEF LedgerInv
<1>2. QED
  BY LedgerInvariant, <1>1, PTL
=============================================================================
