------------------------------- MODULE Markets -------------------------------
(***************************************************************************)
(* The stored market universe: ingest, snapshots, the expiry sweep and the *)
(* purge (ingestion/, maintenance/expire_markets.py, purge_markets.py, and *)
(* what scoring reads of them).  The purge is dispatched by hand in a      *)
(* concurrency group of its own, so it overlaps the cycles.                *)
(*                                                                         *)
(* A tick is a few minutes; a cycle starts at every point of a fixed grid  *)
(* and is over before the next one.  The exchange is external.             *)
(***************************************************************************)
EXTENDS Integers, FiniteSets

CONSTANTS
  Universe,     \* markets of the exchange
  CycleLength,   \* CYCLE_MINUTES
  Heartbeat,    \* SNAPSHOT_HEARTBEAT_MINUTES
  Closes,       \* close times the exchange may publish
  MaxNow,       \* bound: the clock
  MaxChanges    \* bound: what the exchange changes

ASSUME MarketsAssumption ==
  /\ {CycleLength, Heartbeat, MaxNow} \subseteq Nat \ {0}
  /\ Closes \subseteq Nat \ {0} /\ Closes # {}
  /\ MaxChanges \in Nat

VARIABLES
  now,       \* the clock
  excluded,  \* TRADING_EXCLUDED_SERIES: the markets of those series
  exch,      \* what the exchange publishes of each market
  changes,   \* changes so far, against their bound
  row,       \* the Market rows
  snap,      \* the newest PriceSnapshot of each market
  history,   \* markets with an opportunity, trade, position or recorded delta
  exempt,    \* of those, the ones held or scored recently
  cycle,     \* the running cycle: its step, its start and what it fetched
  missed,    \* cycles since a market was fetched and quoted, up to 2
  purge,     \* the dispatched purge: its plan, and the rows written since
  late       \* markets hidden on a plan older than their row

marketsVars ==
  <<now, excluded, exch, changes, row, snap, history, exempt, cycle, missed, purge, late>>

cycleVars == <<row, snap, history, exempt, cycle, missed>>

NoRow  == [status |-> "none", close |-> 0, rules |-> 0, hash |-> <<>>]
NoSnap == [quote |-> "none", at |-> 0]
Idle   == [step |-> "idle", start |-> -1, fetched |-> {}, seen |-> <<>>]
NoPurge == [step |-> "off", delete |-> {}, archive |-> {}, touched |-> {}]

-----------------------------------------------------------------------------
(***************************************************************************)
(* The exchange.                                                           *)
(***************************************************************************)

\* It returns a market until that closes.
Live(m) == now < exch[m].close

\* It trades for the first time, is quoted anew, is reworded, or closes at
\* another time.
ExchangeChanges ==
  /\ changes < MaxChanges
  /\ changes' = changes + 1
  /\ \E m \in Universe : \/ \E q \in {"a", "b"} \ {exch[m].quote} :
                              exch' = [exch EXCEPT ![m].quote = q]
                         \/ exch' = [exch EXCEPT ![m].rules = 1 - @]
                         \/ \E c \in {c \in Closes : c > now} \ {exch[m].close} :
                              exch' = [exch EXCEPT ![m].close = c]
  /\ UNCHANGED <<now, excluded, cycleVars, purge, late>>

-----------------------------------------------------------------------------
(***************************************************************************)
(* A cycle: fetch, sync, snapshots, expiry sweep, scoring.                 *)
(***************************************************************************)

\* The fetch is capped and budgeted: any part of the live markets, without
\* the excluded series.
CycleFetches ==
  /\ cycle.step = "idle"
  /\ now % CycleLength = 0 /\ cycle.start # now
  /\ \E fetched \in SUBSET {m \in Universe \ excluded : Live(m)} :
       cycle' = [step |-> "fetched", start |-> now, fetched |-> fetched, seen |-> exch]
  /\ missed' = [m \in Universe |-> IF missed[m] < 2 THEN missed[m] + 1 ELSE 2]
  /\ UNCHANGED <<now, excluded, exch, changes, row, snap, history, exempt, purge, late>>

\* Mutant of ContentHash: the settlement rules are no part of it.
HashWithoutRules(published) == <<published.close>>

\* _content_hash: every field that ingest writes.
ContentHash(published) == <<published.close, published.rules>>

Stored(published) ==
  [status |-> "open", close |-> published.close, rules |-> published.rules,
   hash |-> ContentHash(published)]

\* sync_markets: one transaction inserts what is new and writes what has
\* another hash than the stored one.
Written(m) == m \in cycle.fetched /\ row[m].hash # ContentHash(cycle.seen[m])

SyncMarkets ==
  /\ cycle.step = "fetched"
  /\ row' = [m \in Universe |-> IF Written(m) THEN Stored(cycle.seen[m]) ELSE row[m]]
  /\ late' = {m \in late : ~Written(m)}
  /\ purge' = IF purge.step = "off" THEN purge
              ELSE [purge EXCEPT !.touched = @ \cup {m \in Universe : Written(m)}]
  /\ cycle' = [cycle EXCEPT !.step = "synced"]
  /\ UNCHANGED <<now, excluded, exch, changes, snap, history, exempt, missed>>

\* record_price_snapshots: a quote is skipped if the market never traded, or
\* if it says what the newest one says and that is not a heartbeat old.
Skipped(m) ==
  \/ cycle.seen[m].quote = "untraded"
  \/ snap[m].quote = cycle.seen[m].quote /\ now - snap[m].at < Heartbeat

RecordSnapshots ==
  /\ cycle.step = "synced"
  /\ snap' = [m \in Universe |->
       IF m \in cycle.fetched /\ ~Skipped(m)
       THEN [quote |-> cycle.seen[m].quote, at |-> now] ELSE snap[m]]
  /\ missed' = [m \in Universe |-> IF m \in cycle.fetched THEN 0 ELSE missed[m]]
  /\ cycle' = [cycle EXCEPT !.step = "quoted"]
  /\ UNCHANGED <<now, excluded, exch, changes, row, history, exempt, purge, late>>

\* expire_closed_markets: past its own close date a row is not open.
ExpireClosed ==
  /\ cycle.step = "quoted"
  /\ row' = [m \in Universe |->
       IF row[m].status = "open" /\ row[m].close < now
       THEN [row[m] EXCEPT !.status = "closed"] ELSE row[m]]
  /\ cycle' = [cycle EXCEPT !.step = "swept"]
  /\ UNCHANGED <<now, excluded, exch, changes, snap, history, exempt, missed, purge, late>>

\* Mutant of MaxSnapshotAge: the literal that was right for shorter cycles.
FixedSnapshotAge == 2 * CycleLength

\* MAX_SNAPSHOT_AGE_MINUTES, derived from the cadence.
MaxSnapshotAge == Heartbeat + 2 * CycleLength

Scorable(m) == /\ row[m].status = "open"
               /\ snap[m] # NoSnap /\ now - snap[m].at <= MaxSnapshotAge

\* Scoring records opportunities, and trades follow; its budget may cut it
\* short.
ScoreMarkets ==
  /\ cycle.step = "swept"
  /\ \E scored \in SUBSET {m \in Universe : Scorable(m)} :
       /\ history' = history \cup scored
       /\ exempt' = exempt \cup scored
  /\ cycle' = [cycle EXCEPT !.step = "idle", !.fetched = {}, !.seen = <<>>]
  /\ UNCHANGED <<now, excluded, exch, changes, row, snap, missed, purge, late>>

\* A cycle fails or is killed between two of its transactions.
CycleDies ==
  /\ cycle.step # "idle"
  /\ cycle' = [cycle EXCEPT !.step = "idle", !.fetched = {}, !.seen = <<>>]
  /\ UNCHANGED <<now, excluded, exch, changes, row, snap, history, exempt, missed, purge, late>>

\* Positions close and opportunities grow old.
ExemptionLapses ==
  /\ \E m \in exempt : exempt' = exempt \ {m}
  /\ UNCHANGED <<now, excluded, exch, changes, row, snap, history, cycle, missed, purge, late>>

-----------------------------------------------------------------------------
(***************************************************************************)
(* The purge: a plan, then batches of it.                                  *)
(***************************************************************************)

\* _dependent_ids: anything worth keeping that names the market.
Referenced(m) == snap[m] # NoSnap \/ m \in history

Candidate(m) ==
  /\ row[m].status \notin {"none", "archived"}
  /\ m \in excluded \/ row[m].close < now
  /\ m \notin exempt

PlanPurge ==
  /\ purge.step = "off"
  /\ LET candidates == {m \in Universe : Candidate(m)}
     IN purge' = [step |-> "delete", touched |-> {},
                  delete |-> {m \in candidates : ~Referenced(m)},
                  archive |-> {m \in candidates : Referenced(m)}]
  /\ UNCHANGED <<now, excluded, exch, changes, cycleVars, late>>

Hidden(m) == late' = IF m \in purge.touched THEN late \cup {m} ELSE late

\* execute_purge looks at the plan only.
DeleteRow ==
  /\ purge.step = "delete"
  /\ \E m \in purge.delete :
       /\ row' = [row EXCEPT ![m] = NoRow]
       /\ purge' = [purge EXCEPT !.delete = @ \ {m}]
       /\ Hidden(m)
  /\ UNCHANGED <<now, excluded, exch, changes, snap, history, exempt, cycle, missed>>

DeletesDone ==
  /\ purge.step = "delete" /\ purge.delete = {}
  /\ purge' = [purge EXCEPT !.step = "archive"]
  /\ UNCHANGED <<now, excluded, exch, changes, cycleVars, late>>

ArchiveRow ==
  /\ purge.step = "archive"
  /\ \E m \in purge.archive :
       /\ row' = [row EXCEPT ![m].status = IF row[m] = NoRow THEN "none" ELSE "archived"]
       /\ purge' = [purge EXCEPT !.archive = @ \ {m}]
       /\ Hidden(m)
  /\ UNCHANGED <<now, excluded, exch, changes, snap, history, exempt, cycle, missed>>

\* It is done, or is killed with its batches half done.
PurgeEnds ==
  /\ purge.step # "off"
  /\ purge' = NoPurge
  /\ UNCHANGED <<now, excluded, exch, changes, cycleVars, late>>

-----------------------------------------------------------------------------
MarketsTick ==
  /\ now < MaxNow
  /\ now % CycleLength = 0 => cycle.start = now
  /\ cycle.step # "idle" => now + 1 < cycle.start + CycleLength
  /\ now' = now + 1
  /\ UNCHANGED <<excluded, exch, changes, cycleVars, purge, late>>

\* Rows of a series that is excluded today may be on disk already.
MarketsInit ==
  /\ now = 0
  /\ excluded \in SUBSET Universe
  /\ exch \in [Universe -> [close : Closes, rules : {0}, quote : {"untraded", "a"}]]
  /\ changes = 0
  /\ row = [m \in Universe |-> IF m \in excluded THEN Stored(exch[m]) ELSE NoRow]
  /\ snap = [m \in Universe |-> NoSnap]
  /\ history \in SUBSET excluded
  /\ exempt = {}
  /\ cycle = Idle
  /\ missed = [m \in Universe |-> 2]
  /\ purge = NoPurge
  /\ late = {}

MarketsNext ==
  \/ ExchangeChanges
  \/ CycleFetches \/ SyncMarkets \/ RecordSnapshots \/ ExpireClosed \/ ScoreMarkets
  \/ CycleDies \/ ExemptionLapses
  \/ PlanPurge \/ DeleteRow \/ DeletesDone \/ ArchiveRow \/ PurgeEnds
  \/ MarketsTick

MarketsSpec == MarketsInit /\ [][MarketsNext]_marketsVars

-----------------------------------------------------------------------------
\* Every variable holds a value of its domain.
MarketsTypeOK ==
  /\ now \in 0..MaxNow
  /\ \A m \in Universe : row[m].status \in {"none", "open", "closed", "archived"}
  /\ \A m \in Universe : snap[m].quote \in {"none", "a", "b"} /\ snap[m].at <= now
  /\ cycle.step \in {"idle", "fetched", "synced", "quoted", "swept"}
  /\ missed \in [Universe -> 0..2]
  /\ purge.step \in {"off", "delete", "archive"}
  /\ exempt \subseteq history /\ late \subseteq Universe

\* "A comparison that skipped `rules` would have kept serving the old text":
\* what the sync has just fetched is what is stored, and a live market is open
\* again however it was closed or archived, unless a purge planned before its
\* row was last written hid it.
StoredAsPublished ==
  cycle.step = "synced" =>
    \A m \in {m \in cycle.fetched \ late : cycle.seen[m].close > now} :
      /\ row[m].rules = cycle.seen[m].rules /\ row[m].close = cycle.seen[m].close
      /\ row[m].status = "open"

\* "Quiet never becomes indistinguishable from gone": when a cycle scores, a
\* market that this cycle or the last one fetched has a snapshot inside the
\* tolerance, through quotes that do not change and cycles that die.
QuietStaysScorable ==
  cycle.step = "swept" =>
    \A m \in Universe : missed[m] <= 1 /\ snap[m] # NoSnap => now - snap[m].at <= MaxSnapshotAge
=============================================================================
