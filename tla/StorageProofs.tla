---------------------------- MODULE StorageProofs ----------------------------
(***************************************************************************)
(* Proofs about what is stored.  The market universe: for every universe,  *)
(* cadence, heartbeat and interleaving with the dispatched purge, what the *)
(* sync fetched is what is stored, and a quiet market that is still        *)
(* fetched stays scorable.  The file it is stored in: for every cap,       *)
(* window and interleaving of writing and maintenance, the tape is cut     *)
(* only while live data is high, and a green verdict bounds the live data. *)
(***************************************************************************)
EXTENDS Markets, Storage, SumProofs

-----------------------------------------------------------------------------
(***************************************************************************)
(* The inductive invariant.                                                *)
(***************************************************************************)

Published == [close : Nat, rules : {0, 1}, quote : {"untraded", "a", "b"}]
Row == [status : {"none", "open", "closed", "archived"}, close : Nat, rules : {0, 1},
        hash : {<<>>} \cup (Nat \X {0, 1})]
SnapRow  == [quote : {"none", "a", "b"}, at : Nat]
Cycle == [step : {"idle", "fetched", "synced", "quoted", "swept"}, start : Int,
          fetched : SUBSET Universe, seen : {<<>>} \cup [Universe -> Published]]
Purge == [step : {"off", "delete", "archive"}, delete : SUBSET Universe,
          archive : SUBSET Universe, touched : SUBSET Universe]

\* Every variable is of its domain, and a running cycle has fetched something
\* that the exchange published, none of it of an excluded series.
MarketsTyped ==
  /\ now \in 0..MaxNow
  /\ excluded \subseteq Universe
  /\ exch \in [Universe -> Published]
  /\ row \in [Universe -> Row]
  /\ snap \in [Universe -> SnapRow]
  /\ history \subseteq Universe /\ exempt \subseteq history
  /\ cycle \in Cycle
  /\ missed \in [Universe -> 0..2]
  /\ purge \in Purge
  /\ late \subseteq Universe
  /\ cycle.step # "idle" =>
       cycle.seen \in [Universe -> Published] /\ cycle.fetched \subseteq Universe \ excluded

\* A row's hash is of its own contents.
RowsHashed ==
  \A m \in Universe :
    \/ row[m] = NoRow
    \/ row[m].status # "none" /\ row[m].hash = <<row[m].close, row[m].rules>>

\* A market is hidden for a reason: its series, its close, or a late purge.
HiddenForAReason ==
  \A m \in Universe :
    row[m].status \in {"closed", "archived"} =>
      m \in excluded \/ m \in late \/ row[m].close < now

\* A plan still holds for the rows that were not written since, and plans one
\* thing for each row.
PlanSound ==
  /\ purge.step = "off" => purge = NoPurge
  /\ purge.delete \cap purge.archive = {}
  /\ \A m \in purge.delete \cup purge.archive :
       m \in excluded \/ m \in purge.touched \/ row[m].close < now

RowsInv == RowsHashed /\ HiddenForAReason /\ PlanSound /\ StoredAsPublished

\* A cycle starts at every point of the grid and is over before the next.
CycleInv ==
  /\ cycle.start = -1 =>
       now = 0 /\ cycle.step = "idle" /\ \A m \in Universe : missed[m] = 2
  /\ cycle.start # -1 =>
       /\ cycle.start \in Nat /\ cycle.start % CycleLength = 0
       /\ cycle.start <= now /\ now <= cycle.start + CycleLength
  /\ cycle.step # "idle" => now < cycle.start + CycleLength

\* A market that ever had a snapshot has traded, as far as anybody knows, and
\* the newest one was not a heartbeat old when the market was last fetched.
SnapsInv ==
  \A m \in Universe :
    /\ snap[m].at <= now
    /\ snap[m] # NoSnap => exch[m].quote # "untraded"
    /\ cycle.step # "idle" =>
         /\ cycle.seen[m].quote # "untraded" => exch[m].quote # "untraded"
         /\ snap[m] # NoSnap => cycle.seen[m].quote # "untraded"
    /\ snap[m] # NoSnap /\ missed[m] = 0 => snap[m].at + Heartbeat > cycle.start
    /\ snap[m] # NoSnap /\ missed[m] = 1 =>
         snap[m].at + Heartbeat + CycleLength > cycle.start

MarketsInv == MarketsTyped /\ RowsInv /\ CycleInv /\ SnapsInv

-----------------------------------------------------------------------------
(***************************************************************************)
(* Rows and hashes.                                                        *)
(***************************************************************************)

\* What is assumed of the constants, one fact at a time.
LEMMA MarketsConstants ==
  /\ CycleLength \in Nat /\ CycleLength > 0
  /\ Heartbeat \in Nat /\ Heartbeat > 0
  /\ MaxNow \in Nat
  /\ Closes \subseteq Nat
BY MarketsAssumption

\* What the sync stores is a row with the hash of its contents.
LEMMA StoredRow ==
  ASSUME NEW p \in Published
  PROVE  /\ Stored(p) \in Row /\ Stored(p).status = "open"
         /\ Stored(p).close = p.close /\ Stored(p).rules = p.rules
         /\ Stored(p).hash = <<p.close, p.rules>>
<1>1. p.close \in Nat /\ p.rules \in {0, 1}
  BY DEF Published
<1>2. <<p.close, p.rules>> \in Nat \X {0, 1}
  BY <1>1
<1>3. QED
  BY <1>1, <1>2 DEF Stored, ContentHash, Row

\* Changing a row's status changes nothing else of it.
LEMMA StatusRow ==
  ASSUME NEW r \in Row, NEW st \in {"none", "open", "closed", "archived"}
  PROVE  LET new == [r EXCEPT !.status = st]
         IN /\ new \in Row /\ new.status = st
            /\ new.close = r.close /\ new.rules = r.rules /\ new.hash = r.hash
BY DEF Row

\* No row has neither a status nor a hash.
LEMMA NoRowIsRow ==
  NoRow \in Row /\ NoRow.status = "none" /\ NoRow.hash = <<>>
BY DEF NoRow, Row

\* Equal hashes are of equal contents.
LEMMA SameHash ==
  ASSUME NEW a, NEW b, NEW c, NEW d
  PROVE  /\ <<a, b>> = <<c, d>> => a = c /\ b = d
         /\ <<>> # <<a, b>>
OBVIOUS

\* The fields of the variables.
LEMMA Fields ==
  ASSUME MarketsTyped
  PROVE  /\ now \in Nat
         /\ \A m \in Universe :
              /\ row[m] \in Row /\ row[m].close \in Nat
              /\ snap[m] \in SnapRow /\ snap[m].at \in Nat
              /\ exch[m] \in Published /\ exch[m].close \in Nat
              /\ missed[m] \in {0, 1, 2}
         /\ cycle.step \in {"idle", "fetched", "synced", "quoted", "swept"}
         /\ cycle.start \in Int /\ cycle.fetched \subseteq Universe
         /\ cycle.step # "idle" =>
              \A m \in Universe : cycle.seen[m] \in Published /\ cycle.seen[m].close \in Nat
         /\ purge.step \in {"off", "delete", "archive"}
         /\ purge.delete \subseteq Universe /\ purge.archive \subseteq Universe
         /\ purge.touched \subseteq Universe
<1>1. now \in Nat
  <2>1. now \in 0..MaxNow
    BY DEF MarketsTyped
  <2>2. QED BY <2>1
<1>2. \A m \in Universe :
        /\ row[m] \in Row /\ snap[m] \in SnapRow /\ exch[m] \in Published
        /\ missed[m] \in {0, 1, 2}
  BY DEF MarketsTyped
<1>3. /\ \A r \in Row : r.close \in Nat
      /\ \A s \in SnapRow : s.at \in Nat
      /\ \A p \in Published : p.close \in Nat
  BY DEF Row, SnapRow, Published
<1>4. cycle \in Cycle /\ purge \in Purge
  BY DEF MarketsTyped
<1>5. cycle.step # "idle" => \A m \in Universe : cycle.seen[m] \in Published
  BY DEF MarketsTyped
<1>6. /\ cycle.step \in {"idle", "fetched", "synced", "quoted", "swept"}
      /\ cycle.start \in Int /\ cycle.fetched \subseteq Universe
  BY <1>4 DEF Cycle
<1>7. /\ purge.step \in {"off", "delete", "archive"}
      /\ purge.delete \subseteq Universe /\ purge.archive \subseteq Universe
      /\ purge.touched \subseteq Universe
  BY <1>4 DEF Purge
<1>8. QED
  BY <1>1, <1>2, <1>3, <1>5, <1>6, <1>7

-----------------------------------------------------------------------------
(***************************************************************************)
(* The cycle and the clock.                                                *)
(***************************************************************************)

\* The next point of the grid is one cycle later.
LEMMA GridOfTimes ==
  ASSUME NEW a \in Nat, NEW d \in Nat, d > 0, (a % d) = 0
  PROVE  ((a + d) % d) = 0
<1>1. PICK q \in Nat : q = a \div d
  OBVIOUS
<1>2. a = d * q
  BY <1>1
<1>3. a + d = d * (q + 1)
  BY <1>2
<1>4. (d * (q + 1)) % d = 0
  OBVIOUS
<1>5. QED
  BY <1>3, <1>4

\* The cycle's record, with its step changed.
LEMMA CycleFields ==
  ASSUME MarketsTyped, NEW st \in {"idle", "fetched", "synced", "quoted", "swept"}
  PROVE  LET new == [cycle EXCEPT !.step = st]
         IN /\ new \in Cycle /\ new.step = st /\ new.start = cycle.start
            /\ new.fetched = cycle.fetched /\ new.seen = cycle.seen
<1>1. cycle \in Cycle
  BY DEF MarketsTyped
<1>2. QED
  BY <1>1 DEF Cycle

\* The cycle's record, put away.
LEMMA CyclePutAway ==
  ASSUME MarketsTyped
  PROVE  LET new == [cycle EXCEPT !.step = "idle", !.fetched = {}, !.seen = <<>>]
         IN new \in Cycle /\ new.step = "idle" /\ new.start = cycle.start
<1>1. cycle \in Cycle
  BY DEF MarketsTyped
<1>2. QED
  BY <1>1 DEF Cycle

\* A cycle's later steps keep its start and what it fetched; it ends idle.
LEMMA Steps ==
  ASSUME MarketsTyped
  PROVE  /\ SyncMarkets =>
              /\ cycle.step = "fetched" /\ cycle'.step = "synced" /\ cycle' \in Cycle
              /\ cycle'.start = cycle.start
              /\ cycle'.fetched = cycle.fetched /\ cycle'.seen = cycle.seen
         /\ RecordSnapshots =>
              /\ cycle.step = "synced" /\ cycle'.step = "quoted" /\ cycle' \in Cycle
              /\ cycle'.start = cycle.start
              /\ cycle'.fetched = cycle.fetched /\ cycle'.seen = cycle.seen
         /\ ExpireClosed =>
              /\ cycle.step = "quoted" /\ cycle'.step = "swept" /\ cycle' \in Cycle
              /\ cycle'.start = cycle.start
              /\ cycle'.fetched = cycle.fetched /\ cycle'.seen = cycle.seen
         /\ ScoreMarkets \/ CycleDies =>
              /\ cycle.step # "idle" /\ cycle'.step = "idle" /\ cycle' \in Cycle
              /\ cycle'.start = cycle.start
<1>1. SyncMarkets => cycle.step = "fetched" /\ cycle' = [cycle EXCEPT !.step = "synced"]
  BY DEF SyncMarkets
<1>2. RecordSnapshots => cycle.step = "synced" /\ cycle' = [cycle EXCEPT !.step = "quoted"]
  BY DEF RecordSnapshots
<1>3. ExpireClosed => cycle.step = "quoted" /\ cycle' = [cycle EXCEPT !.step = "swept"]
  BY DEF ExpireClosed
<1>4. ScoreMarkets \/ CycleDies =>
        /\ cycle.step # "idle"
        /\ cycle' = [cycle EXCEPT !.step = "idle", !.fetched = {}, !.seen = <<>>]
  BY DEF ScoreMarkets, CycleDies
<1>5. \A st \in {"synced", "quoted", "swept"} :
        LET new == [cycle EXCEPT !.step = st]
        IN /\ new \in Cycle /\ new.step = st /\ new.start = cycle.start
           /\ new.fetched = cycle.fetched /\ new.seen = cycle.seen
  BY CycleFields
<1>6. QED
  BY <1>1, <1>2, <1>3, <1>4, <1>5, CyclePutAway

\* Fetching starts a cycle now, with what the exchange publishes.
LEMMA Fetched ==
  ASSUME MarketsTyped, CycleFetches
  PROVE  /\ cycle.step = "idle" /\ now \in Nat /\ (now % CycleLength) = 0
         /\ cycle.start # now /\ cycle' \in Cycle
         /\ cycle'.step = "fetched" /\ cycle'.start = now /\ cycle'.seen = exch
         /\ cycle'.fetched \subseteq {m \in Universe \ excluded : Live(m)}
         /\ missed' = [m \in Universe |-> IF missed[m] < 2 THEN missed[m] + 1 ELSE 2]
         /\ UNCHANGED <<now, excluded, exch, changes, row, snap, history, exempt, purge, late>>
<1>1. PICK fetched \in SUBSET {m \in Universe \ excluded : Live(m)} :
        cycle' = [step |-> "fetched", start |-> now, fetched |-> fetched, seen |-> exch]
  BY DEF CycleFetches
<1>2. now \in Nat /\ exch \in [Universe -> Published]
  <2>1. exch \in [Universe -> Published]
    BY DEF MarketsTyped
  <2>2. QED BY <2>1, Fields
<1>3. cycle' \in Cycle
  BY <1>1, <1>2 DEF Cycle
<1>4. QED
  BY <1>1, <1>2, <1>3 DEF CycleFetches

\* A cycle starts at a point of the grid and is over before the next one.
LEMMA CycleStep ==
  ASSUME MarketsTyped, CycleInv, [MarketsNext]_marketsVars
  PROVE  CycleInv'
<1> USE DEF CycleInv
<1>1. now \in Nat /\ cycle.start \in Int
  BY Fields
<1>2. CASE CycleFetches
  <2>1. cycle.step = "idle" /\ (now % CycleLength) = 0 /\ cycle'.start = now /\ now' = now
    BY <1>2, Fetched
  <2>2. QED
    BY <1>1, <2>1, MarketsConstants
<1>3. CASE SyncMarkets \/ RecordSnapshots \/ ExpireClosed \/ ScoreMarkets \/ CycleDies
  <2>1. cycle.step # "idle" /\ now' = now
    BY <1>3 DEF SyncMarkets, RecordSnapshots, ExpireClosed, ScoreMarkets, CycleDies
  <2>2. cycle'.start = cycle.start
    BY <1>3, Steps
  <2>3. QED
    BY <1>1, <2>1, <2>2
<1>4. CASE MarketsTick
  <2>1. /\ now' = now + 1 /\ cycle' = cycle /\ missed' = missed
        /\ ((now % CycleLength) = 0 => cycle.start = now)
        /\ (cycle.step # "idle" => now + 1 < cycle.start + CycleLength)
    BY <1>4 DEF MarketsTick, cycleVars
  <2>2. cycle.start # -1
    <3>1. (0 % CycleLength) = 0
      BY MarketsConstants
    <3>2. QED BY <2>1, <3>1
  <2>3. cycle.start \in Nat /\ (cycle.start % CycleLength) = 0
        /\ cycle.start <= now /\ now <= cycle.start + CycleLength
    BY <2>2
  <2>4. now # cycle.start + CycleLength
    <3>1. SUFFICES ASSUME now = cycle.start + CycleLength PROVE FALSE
      OBVIOUS
    <3>2. (now % CycleLength) = 0
      BY <2>3, <3>1, MarketsConstants, GridOfTimes
    <3>3. QED BY <2>1, <2>3, <3>1, <3>2, MarketsConstants
  <2>5. QED
    BY <1>1, <2>1, <2>2, <2>3, <2>4, MarketsConstants
<1>5. CASE ExchangeChanges \/ ExemptionLapses \/ PlanPurge \/ DeleteRow \/ DeletesDone
           \/ ArchiveRow \/ PurgeEnds \/ UNCHANGED marketsVars
  <2>1. now' = now /\ cycle' = cycle /\ missed' = missed
    BY <1>5 DEF ExchangeChanges, ExemptionLapses, PlanPurge, DeleteRow, DeletesDone,
                ArchiveRow, PurgeEnds, cycleVars, marketsVars
  <2>2. QED
    BY <2>1
<1>6. QED
  BY <1>2, <1>3, <1>4, <1>5 DEF MarketsNext

-----------------------------------------------------------------------------
(***************************************************************************)
(* Types.                                                                  *)
(***************************************************************************)

\* What the sync does.
LEMMA Synced ==
  ASSUME MarketsTyped, SyncMarkets
  PROVE  /\ cycle.step = "fetched" /\ row' \in [Universe -> Row]
         /\ \A m \in Universe :
              /\ Written(m) =>
                   /\ row'[m] \in Row /\ row'[m].status = "open"
                   /\ row'[m].close = cycle.seen[m].close
                   /\ row'[m].rules = cycle.seen[m].rules
                   /\ row'[m].hash = <<row'[m].close, row'[m].rules>>
              /\ ~Written(m) => row'[m] = row[m]
         /\ late' = {m \in late : ~Written(m)}
         /\ purge' \in Purge /\ purge'.step = purge.step
         /\ purge'.delete = purge.delete /\ purge'.archive = purge.archive
         /\ purge.step = "off" => purge' = purge
         /\ purge.step # "off" =>
              purge'.touched = purge.touched \cup {m \in Universe : Written(m)}
         /\ UNCHANGED <<now, excluded, exch, snap, history, exempt, missed>>
<1>1. /\ cycle.step = "fetched"
      /\ row' = [m \in Universe |-> IF Written(m) THEN Stored(cycle.seen[m]) ELSE row[m]]
      /\ late' = {m \in late : ~Written(m)}
      /\ purge' = IF purge.step = "off" THEN purge
                  ELSE [purge EXCEPT !.touched = @ \cup {m \in Universe : Written(m)}]
      /\ UNCHANGED <<now, excluded, exch, snap, history, exempt, missed>>
  BY DEF SyncMarkets
<1>2. \A m \in Universe :
        /\ Written(m) =>
             /\ row'[m] \in Row /\ row'[m].status = "open"
             /\ row'[m].close = cycle.seen[m].close
             /\ row'[m].rules = cycle.seen[m].rules
             /\ row'[m].hash = <<row'[m].close, row'[m].rules>>
        /\ ~Written(m) => row'[m] = row[m] /\ row'[m] \in Row
  <2>1. TAKE m \in Universe
  <2>2. CASE Written(m)
    <3>1. row'[m] = Stored(cycle.seen[m]) /\ cycle.seen[m] \in Published
      BY <1>1, <2>2, Fields
    <3>2. QED BY <2>2, <3>1, StoredRow
  <2>3. CASE ~Written(m)
    BY <1>1, <2>3, Fields
  <2>4. QED BY <2>2, <2>3
<1>3. row' \in [Universe -> Row]
  <2>1. \A m \in Universe : row'[m] \in Row
    BY <1>2
  <2>2. QED BY <1>1, <2>1
<1>4. /\ purge' \in Purge /\ purge'.step = purge.step
      /\ purge'.delete = purge.delete /\ purge'.archive = purge.archive
      /\ purge.step = "off" => purge' = purge
      /\ purge.step # "off" =>
           purge'.touched = purge.touched \cup {m \in Universe : Written(m)}
  <2>1. purge \in Purge
    BY DEF MarketsTyped
  <2> DEFINE written == {m \in Universe : Written(m)}
  <2>2. written \subseteq Universe
    OBVIOUS
  <2> HIDE DEF written
  <2>3. purge' = IF purge.step = "off" THEN purge
                 ELSE [purge EXCEPT !.touched = purge.touched \cup written]
    BY <1>1 DEF written
  <2>4. /\ purge' \in Purge /\ purge'.step = purge.step
        /\ purge'.delete = purge.delete /\ purge'.archive = purge.archive
        /\ purge.step = "off" => purge' = purge
        /\ purge.step # "off" => purge'.touched = purge.touched \cup written
    BY <2>1, <2>2, <2>3 DEF Purge
  <2>5. QED
    BY <2>4 DEF written
<1>5. QED
  BY <1>1, <1>2, <1>3, <1>4

\* What the sweep does: it closes open rows past their close.
LEMMA Swept ==
  ASSUME MarketsTyped, ExpireClosed
  PROVE  /\ cycle.step = "quoted" /\ row' \in [Universe -> Row]
         /\ \A m \in Universe :
              \/ row'[m] = row[m]
              \/ /\ row[m].status = "open" /\ row[m].close < now
                 /\ row'[m].status = "closed"
                 /\ row'[m].close = row[m].close /\ row'[m].rules = row[m].rules
                 /\ row'[m].hash = row[m].hash
         /\ UNCHANGED <<now, excluded, exch, snap, history, exempt, missed, purge, late>>
<1>1. /\ cycle.step = "quoted"
      /\ row' = [m \in Universe |->
           IF row[m].status = "open" /\ row[m].close < now
           THEN [row[m] EXCEPT !.status = "closed"] ELSE row[m]]
      /\ UNCHANGED <<now, excluded, exch, snap, history, exempt, missed, purge, late>>
  BY DEF ExpireClosed
<1>2. \A m \in Universe :
        LET new == [row[m] EXCEPT !.status = "closed"]
        IN /\ new \in Row /\ new.status = "closed"
           /\ new.close = row[m].close /\ new.rules = row[m].rules /\ new.hash = row[m].hash
  BY Fields, StatusRow
<1>3. \A m \in Universe :
        /\ row'[m] \in Row
        /\ \/ row'[m] = row[m]
           \/ /\ row[m].status = "open" /\ row[m].close < now
              /\ row'[m].status = "closed"
              /\ row'[m].close = row[m].close /\ row'[m].rules = row[m].rules
              /\ row'[m].hash = row[m].hash
  BY <1>1, <1>2, Fields
<1>4. row' \in [Universe -> Row]
  BY <1>1, <1>3
<1>5. QED
  BY <1>1, <1>3, <1>4

\* What a batch of the purge does to one planned row.
LEMMA Purged ==
  ASSUME MarketsTyped, DeleteRow \/ ArchiveRow
  PROVE  \E p \in Universe :
           /\ \/ /\ p \in purge.delete /\ row'[p] = NoRow
                 /\ purge'.delete = purge.delete \ {p} /\ purge'.archive = purge.archive
              \/ /\ p \in purge.archive
                 /\ purge'.delete = purge.delete /\ purge'.archive = purge.archive \ {p}
                 /\ row[p] = NoRow => row'[p] = NoRow
                 /\ row[p] # NoRow =>
                      /\ row'[p].status = "archived"
                      /\ row'[p].close = row[p].close /\ row'[p].rules = row[p].rules
                      /\ row'[p].hash = row[p].hash
           /\ row' \in [Universe -> Row]
           /\ \A m \in Universe \ {p} : row'[m] = row[m]
           /\ purge' \in Purge /\ purge'.step = purge.step /\ purge.step # "off"
           /\ purge'.touched = purge.touched
           /\ late' = IF p \in purge.touched THEN late \cup {p} ELSE late
           /\ UNCHANGED <<now, excluded, exch, snap, history, exempt, cycle, missed>>
<1>1. purge \in Purge /\ row \in [Universe -> Row]
  BY DEF MarketsTyped
<1>2. CASE DeleteRow
  <2>1. PICK p \in purge.delete :
          /\ row' = [row EXCEPT ![p] = NoRow]
          /\ purge' = [purge EXCEPT !.delete = @ \ {p}]
          /\ late' = IF p \in purge.touched THEN late \cup {p} ELSE late
    BY <1>2 DEF DeleteRow, Hidden
  <2>2. purge.step # "off" /\ p \in Universe
        /\ UNCHANGED <<now, excluded, exch, snap, history, exempt, cycle, missed>>
    BY <1>2, Fields DEF DeleteRow
  <2>3. /\ purge' \in Purge /\ purge'.step = purge.step
        /\ purge'.delete = purge.delete \ {p} /\ purge'.archive = purge.archive
        /\ purge'.touched = purge.touched
    BY <1>1, <2>1 DEF Purge
  <2>4. /\ row' \in [Universe -> Row] /\ row'[p] = NoRow
        /\ \A m \in Universe \ {p} : row'[m] = row[m]
    BY <1>1, <2>1, <2>2, NoRowIsRow
  <2>5. QED
    BY <2>1, <2>2, <2>3, <2>4
<1>3. CASE ArchiveRow
  <2>1. PICK p \in purge.archive :
          /\ row' = [row EXCEPT ![p].status = IF row[p] = NoRow THEN "none" ELSE "archived"]
          /\ purge' = [purge EXCEPT !.archive = @ \ {p}]
          /\ late' = IF p \in purge.touched THEN late \cup {p} ELSE late
    BY <1>3 DEF ArchiveRow, Hidden
  <2>2. purge.step # "off" /\ p \in Universe
        /\ UNCHANGED <<now, excluded, exch, snap, history, exempt, cycle, missed>>
    BY <1>3, Fields DEF ArchiveRow
  <2>3. /\ purge' \in Purge /\ purge'.step = purge.step
        /\ purge'.delete = purge.delete /\ purge'.archive = purge.archive \ {p}
        /\ purge'.touched = purge.touched
    BY <1>1, <2>1 DEF Purge
  <2>4. row[p] \in Row
    BY <1>1, <2>2
  <2>5. /\ row' = [row EXCEPT ![p] = row'[p]]
        /\ row'[p] = [row[p] EXCEPT !.status = IF row[p] = NoRow THEN "none" ELSE "archived"]
    BY <1>1, <2>1, <2>2
  <2>6. /\ row'[p] \in Row
        /\ row[p] = NoRow => row'[p] = NoRow
        /\ row[p] # NoRow =>
             /\ row'[p].status = "archived"
             /\ row'[p].close = row[p].close /\ row'[p].rules = row[p].rules
             /\ row'[p].hash = row[p].hash
    <3>1. CASE row[p] = NoRow
      <4>1. row'[p] = [NoRow EXCEPT !.status = "none"]
        BY <2>5, <3>1
      <4>2. [NoRow EXCEPT !.status = "none"] = NoRow
        BY DEF NoRow
      <4>3. QED BY <3>1, <4>1, <4>2, NoRowIsRow
    <3>2. CASE row[p] # NoRow
      <4>1. row'[p] = [row[p] EXCEPT !.status = "archived"]
        BY <2>5, <3>2
      <4>2. LET new == [row[p] EXCEPT !.status = "archived"]
            IN /\ new \in Row /\ new.status = "archived"
               /\ new.close = row[p].close /\ new.rules = row[p].rules
               /\ new.hash = row[p].hash
        BY <2>4, StatusRow
      <4>3. QED BY <3>2, <4>1, <4>2
    <3>3. QED BY <3>1, <3>2
  <2>7. /\ row' \in [Universe -> Row]
        /\ \A m \in Universe \ {p} : row'[m] = row[m]
    BY <1>1, <2>2, <2>5, <2>6
  <2>8. QED
    BY <2>1, <2>2, <2>3, <2>6, <2>7
<1>4. QED
  BY <1>2, <1>3

\* What the exchange changes: nothing of it takes a market's trades back.
LEMMA Exchanged ==
  ASSUME MarketsTyped, ExchangeChanges
  PROVE  /\ exch' \in [Universe -> Published]
         /\ \A m \in Universe : exch[m].quote # "untraded" => exch'[m].quote # "untraded"
         /\ UNCHANGED <<now, excluded, row, snap, history, exempt, cycle, missed, purge, late>>
<1>1. exch \in [Universe -> Published]
  BY DEF MarketsTyped
<1>2. UNCHANGED <<now, excluded, row, snap, history, exempt, cycle, missed, purge, late>>
  BY DEF ExchangeChanges, cycleVars
<1>3. PICK p \in Universe :
        \/ \E q \in {"a", "b"} \ {exch[p].quote} : exch' = [exch EXCEPT ![p].quote = q]
        \/ exch' = [exch EXCEPT ![p].rules = 1 - @]
        \/ \E c \in {c \in Closes : c > now} \ {exch[p].close} :
             exch' = [exch EXCEPT ![p].close = c]
  BY DEF ExchangeChanges
<1>4. exch[p] \in Published
  BY <1>1
<1>5. \E new \in Published :
        /\ exch' = [exch EXCEPT ![p] = new]
        /\ exch[p].quote # "untraded" => new.quote # "untraded"
  <2>1. CASE \E q \in {"a", "b"} \ {exch[p].quote} : exch' = [exch EXCEPT ![p].quote = q]
    <3>1. PICK q \in {"a", "b"} : exch' = [exch EXCEPT ![p].quote = q]
      BY <2>1
    <3>2. LET new == [exch[p] EXCEPT !.quote = q]
          IN new \in Published /\ new.quote # "untraded"
      BY <1>4 DEF Published
    <3>3. exch' = [exch EXCEPT ![p] = [exch[p] EXCEPT !.quote = q]]
      BY <1>1, <3>1
    <3>4. QED BY <3>2, <3>3
  <2>2. CASE exch' = [exch EXCEPT ![p].rules = 1 - @]
    <3>1. LET new == [exch[p] EXCEPT !.rules = 1 - exch[p].rules]
          IN new \in Published /\ new.quote = exch[p].quote
      <4>1. 1 - exch[p].rules \in {0, 1}
        <5>1. exch[p].rules \in {0, 1}
          BY <1>4 DEF Published
        <5>2. QED BY <5>1
      <4>2. QED BY <1>4, <4>1 DEF Published
    <3>2. exch' = [exch EXCEPT ![p] = [exch[p] EXCEPT !.rules = 1 - exch[p].rules]]
      BY <1>1, <2>2
    <3>3. QED BY <3>1, <3>2
  <2>3. CASE \E c \in {c \in Closes : c > now} \ {exch[p].close} :
               exch' = [exch EXCEPT ![p].close = c]
    <3>1. PICK c \in Nat : exch' = [exch EXCEPT ![p].close = c]
      BY <2>3, MarketsConstants
    <3>2. LET new == [exch[p] EXCEPT !.close = c]
          IN new \in Published /\ new.quote = exch[p].quote
      BY <1>4 DEF Published
    <3>3. exch' = [exch EXCEPT ![p] = [exch[p] EXCEPT !.close = c]]
      BY <1>1, <3>1
    <3>4. QED BY <3>2, <3>3
  <2>4. QED BY <1>3, <2>1, <2>2, <2>3
<1>6. QED
  BY <1>1, <1>2, <1>5

\* What recording the snapshots does.
LEMMA Recorded ==
  ASSUME MarketsTyped, RecordSnapshots
  PROVE  /\ cycle.step = "synced" /\ snap' \in [Universe -> SnapRow]
         /\ \A m \in Universe :
              /\ m \in cycle.fetched /\ ~Skipped(m) =>
                   snap'[m].quote = cycle.seen[m].quote /\ snap'[m].at = now
              /\ ~(m \in cycle.fetched /\ ~Skipped(m)) => snap'[m] = snap[m]
              /\ m \in cycle.fetched => missed'[m] = 0
              /\ m \notin cycle.fetched => missed'[m] = missed[m]
         /\ missed' \in [Universe -> 0..2]
         /\ UNCHANGED <<now, excluded, exch, row, history, exempt, purge, late>>
<1>1. /\ cycle.step = "synced"
      /\ snap' = [m \in Universe |->
           IF m \in cycle.fetched /\ ~Skipped(m)
           THEN [quote |-> cycle.seen[m].quote, at |-> now] ELSE snap[m]]
      /\ missed' = [m \in Universe |-> IF m \in cycle.fetched THEN 0 ELSE missed[m]]
      /\ UNCHANGED <<now, excluded, exch, row, history, exempt, purge, late>>
  BY DEF RecordSnapshots
<1>2. \A m \in Universe :
        ~Skipped(m) => [quote |-> cycle.seen[m].quote, at |-> now] \in SnapRow
  <2>1. TAKE m \in Universe
  <2>2. HAVE ~Skipped(m)
  <2>3. cycle.seen[m].quote \in {"untraded", "a", "b"}
    BY <1>1, Fields DEF Published
  <2>4. cycle.seen[m].quote # "untraded"
    BY <2>2 DEF Skipped
  <2>5. QED BY <2>3, <2>4, Fields DEF SnapRow
<1>3. \A m \in Universe :
        /\ snap'[m] \in SnapRow
        /\ m \in cycle.fetched /\ ~Skipped(m) =>
             snap'[m].quote = cycle.seen[m].quote /\ snap'[m].at = now
        /\ ~(m \in cycle.fetched /\ ~Skipped(m)) => snap'[m] = snap[m]
  BY <1>1, <1>2, Fields
<1>4. missed' \in [Universe -> 0..2]
  BY <1>1, Fields
<1>5. QED
  BY <1>1, <1>3, <1>4

\* What planning a purge does.
LEMMA Planned ==
  ASSUME MarketsTyped, PlanPurge
  PROVE  /\ purge' \in Purge /\ purge'.step = "delete" /\ purge'.touched = {}
         /\ purge'.delete = {m \in Universe : Candidate(m) /\ ~Referenced(m)}
         /\ purge'.archive = {m \in Universe : Candidate(m) /\ Referenced(m)}
         /\ UNCHANGED <<now, excluded, exch, row, snap, history, exempt, cycle, missed, late>>
<1>1. PICK d \in SUBSET Universe :
        d = {m \in {m \in Universe : Candidate(m)} : ~Referenced(m)}
  OBVIOUS
<1>2. PICK a \in SUBSET Universe :
        a = {m \in {m \in Universe : Candidate(m)} : Referenced(m)}
  OBVIOUS
<1>4. purge' = [step |-> "delete", touched |-> {}, delete |-> d, archive |-> a]
  BY <1>1, <1>2 DEF PlanPurge
<1>5. /\ purge' \in Purge /\ purge'.step = "delete" /\ purge'.touched = {}
      /\ purge'.delete = d /\ purge'.archive = a
  BY <1>4 DEF Purge
<1>6. UNCHANGED <<now, excluded, exch, row, snap, history, exempt, cycle, missed, late>>
  BY DEF PlanPurge, cycleVars
<1>7. d = {m \in Universe : Candidate(m) /\ ~Referenced(m)}
  BY <1>1
<1>8. a = {m \in Universe : Candidate(m) /\ Referenced(m)}
  BY <1>2
<1>9. QED
  BY <1>5, <1>6, <1>7, <1>8

\* What the purge's bookkeeping steps do.
LEMMA PurgeMoves ==
  ASSUME MarketsTyped, DeletesDone \/ PurgeEnds
  PROVE  /\ purge' \in Purge
         /\ \/ purge' = NoPurge /\ purge'.step = "off"
            \/ /\ purge'.step = "archive"
               /\ purge'.delete = purge.delete /\ purge'.archive = purge.archive
               /\ purge'.touched = purge.touched
         /\ UNCHANGED <<now, excluded, exch, row, snap, history, exempt, cycle, missed, late>>
<1>1. purge \in Purge
  BY DEF MarketsTyped
<1>2. UNCHANGED <<now, excluded, exch, row, snap, history, exempt, cycle, missed, late>>
  BY DEF DeletesDone, PurgeEnds, cycleVars
<1>3. CASE DeletesDone
  <2>1. purge' = [purge EXCEPT !.step = "archive"]
    BY <1>3 DEF DeletesDone
  <2>2. QED BY <1>1, <1>2, <2>1 DEF Purge
<1>4. CASE PurgeEnds
  <2>1. purge' = NoPurge
    BY <1>4 DEF PurgeEnds
  <2>2. NoPurge \in Purge /\ NoPurge.step = "off"
    BY DEF Purge, NoPurge
  <2>3. QED BY <1>2, <2>1, <2>2
<1>5. QED
  BY <1>3, <1>4

\* Every variable keeps to its domain.
LEMMA TypedStep ==
  ASSUME MarketsTyped, [MarketsNext]_marketsVars
  PROVE  MarketsTyped'
<1>1. /\ now \in 0..MaxNow /\ excluded \subseteq Universe
      /\ exch \in [Universe -> Published] /\ row \in [Universe -> Row]
      /\ snap \in [Universe -> SnapRow] /\ history \subseteq Universe /\ exempt \subseteq history
      /\ cycle \in Cycle /\ missed \in [Universe -> 0..2] /\ purge \in Purge
      /\ late \subseteq Universe
      /\ cycle.step # "idle" =>
           cycle.seen \in [Universe -> Published] /\ cycle.fetched \subseteq Universe \ excluded
  BY DEF MarketsTyped
<1>2. CASE ExchangeChanges
  BY <1>1, <1>2, Exchanged DEF MarketsTyped
<1>3. CASE CycleFetches
  <2>1. missed' \in [Universe -> 0..2]
    <3>1. missed' = [m \in Universe |-> IF missed[m] < 2 THEN missed[m] + 1 ELSE 2]
      BY <1>3, Fetched
    <3>2. \A m \in Universe : (IF missed[m] < 2 THEN missed[m] + 1 ELSE 2) \in 0..2
      BY Fields
    <3>3. QED BY <3>1, <3>2
  <2>2. cycle'.fetched \subseteq Universe \ excluded
    BY <1>3, Fetched
  <2>3. /\ cycle' \in Cycle /\ cycle'.seen = exch
        /\ UNCHANGED <<now, excluded, exch, row, snap, history, exempt, purge, late>>
    BY <1>3, Fetched
  <2>4. QED
    BY <1>1, <2>1, <2>2, <2>3 DEF MarketsTyped
<1>4. CASE SyncMarkets
  <2>1. /\ row' \in [Universe -> Row] /\ late' \subseteq late /\ purge' \in Purge
        /\ UNCHANGED <<now, excluded, exch, snap, history, exempt, missed>>
    BY <1>4, Synced
  <2>2. cycle.step # "idle" /\ cycle' \in Cycle
        /\ cycle'.fetched = cycle.fetched /\ cycle'.seen = cycle.seen
    BY <1>4, Steps
  <2>3. QED
    BY <1>1, <2>1, <2>2 DEF MarketsTyped
<1>5. CASE RecordSnapshots
  <2>1. /\ snap' \in [Universe -> SnapRow] /\ missed' \in [Universe -> 0..2]
        /\ UNCHANGED <<now, excluded, exch, row, history, exempt, purge, late>>
    BY <1>5, Recorded
  <2>2. cycle.step # "idle" /\ cycle' \in Cycle
        /\ cycle'.fetched = cycle.fetched /\ cycle'.seen = cycle.seen
    BY <1>5, Steps
  <2>3. QED
    BY <1>1, <2>1, <2>2 DEF MarketsTyped
<1>6. CASE ExpireClosed
  <2>1. /\ row' \in [Universe -> Row]
        /\ UNCHANGED <<now, excluded, exch, snap, history, exempt, missed, purge, late>>
    BY <1>6, Swept
  <2>2. cycle.step # "idle" /\ cycle' \in Cycle
        /\ cycle'.fetched = cycle.fetched /\ cycle'.seen = cycle.seen
    BY <1>6, Steps
  <2>3. QED
    BY <1>1, <2>1, <2>2 DEF MarketsTyped
<1>7. CASE ScoreMarkets \/ CycleDies
  <2>1. cycle' \in Cycle /\ cycle'.step = "idle"
    BY <1>7, Steps
  <2>2. /\ UNCHANGED <<now, excluded, exch, row, snap, missed, purge, late>>
        /\ \E scored \in SUBSET Universe :
             history' = history \cup scored /\ exempt' = exempt \cup scored
    <3>1. CASE ScoreMarkets
      BY <3>1 DEF ScoreMarkets
    <3>2. CASE CycleDies
      <4>1. history' = history \cup {} /\ exempt' = exempt \cup {}
        BY <3>2 DEF CycleDies
      <4>2. QED BY <3>2, <4>1 DEF CycleDies
    <3>3. QED BY <1>7, <3>1, <3>2
  <2>3. history' \subseteq Universe /\ exempt' \subseteq history'
    BY <1>1, <2>2
  <2>4. QED
    BY <1>1, <2>1, <2>2, <2>3 DEF MarketsTyped
<1>8. CASE ExemptionLapses
  <2>1. /\ exempt' \subseteq exempt
        /\ UNCHANGED <<now, excluded, exch, row, snap, history, cycle, missed, purge, late>>
    BY <1>8 DEF ExemptionLapses
  <2>2. QED
    BY <1>1, <2>1 DEF MarketsTyped
<1>9. CASE PlanPurge
  BY <1>1, <1>9, Planned DEF MarketsTyped
<1>10. CASE DeleteRow \/ ArchiveRow
  <2>1. /\ row' \in [Universe -> Row] /\ purge' \in Purge
        /\ late' \subseteq Universe
        /\ UNCHANGED <<now, excluded, exch, snap, history, exempt, cycle, missed>>
    BY <1>1, <1>10, Purged
  <2>2. QED
    BY <1>1, <2>1 DEF MarketsTyped
<1>11. CASE DeletesDone \/ PurgeEnds
  <2>1. /\ purge' \in Purge
        /\ UNCHANGED <<now, excluded, exch, row, snap, history, exempt, cycle, missed, late>>
    BY <1>11, PurgeMoves
  <2>2. QED
    BY <1>1, <2>1 DEF MarketsTyped
<1>12. CASE MarketsTick
  <2>1. /\ now < MaxNow /\ now' = now + 1
        /\ UNCHANGED <<excluded, exch, row, snap, history, exempt, cycle, missed, purge, late>>
    BY <1>12 DEF MarketsTick, cycleVars
  <2>2. now' \in 0..MaxNow
    BY <1>1, <2>1, MarketsConstants
  <2>3. QED
    BY <1>1, <2>1, <2>2 DEF MarketsTyped
<1>13. CASE UNCHANGED marketsVars
  BY <1>1, <1>13 DEF MarketsTyped, marketsVars
<1>14. QED
  BY <1>2, <1>3, <1>4, <1>5, <1>6, <1>7, <1>8, <1>9, <1>10, <1>11, <1>12, <1>13
     DEF MarketsNext

-----------------------------------------------------------------------------
(***************************************************************************)
(* Rows.                                                                   *)
(***************************************************************************)

\* A step that writes no row keeps what is said of them: the clock may go on,
\* and no sync has just ended unless it had before.
LEMMA RowsKept ==
  ASSUME MarketsTyped, RowsInv,
         row' = row, late' = late, excluded' = excluded, purge' = purge,
         now' = now \/ now' = now + 1,
         \/ cycle' = cycle
         \/ cycle'.step # "synced"
  PROVE  RowsInv'
<1>1. now \in Nat /\ \A m \in Universe : row[m].close \in Nat
  BY Fields
<1>2. RowsHashed'
  BY DEF RowsInv, RowsHashed
<1>3. \A m \in Universe : row[m].close < now => row'[m].close < now'
  BY <1>1
<1>4. HiddenForAReason'
  BY <1>3 DEF RowsInv, HiddenForAReason
<1>5. PlanSound'
  <2>1. purge.delete \subseteq Universe /\ purge.archive \subseteq Universe
    BY Fields
  <2>2. QED
    BY <1>3, <2>1 DEF RowsInv, PlanSound
<1>6. StoredAsPublished'
  <2>1. SUFFICES ASSUME cycle' = cycle, cycle.step = "synced",
                        NEW m \in cycle.fetched \ late, cycle.seen[m].close > now'
                 PROVE  /\ row[m].rules = cycle.seen[m].rules
                        /\ row[m].close = cycle.seen[m].close /\ row[m].status = "open"
    BY DEF StoredAsPublished
  <2>2. cycle.seen[m].close > now
    <3>1. cycle.seen[m].close \in Nat
      BY <2>1, Fields
    <3>2. QED BY <1>1, <2>1, <3>1
  <2>3. QED
    BY <2>1, <2>2 DEF RowsInv, StoredAsPublished
<1>7. QED
  BY <1>2, <1>4, <1>5, <1>6 DEF RowsInv

\* What the sync leaves alone already says what was fetched, and what it
\* writes is hidden no longer.
LEMMA SyncKeepsRows ==
  ASSUME MarketsTyped, RowsInv, SyncMarkets
  PROVE  RowsInv'
<1>1. /\ RowsHashed /\ HiddenForAReason /\ PlanSound
  BY DEF RowsInv
<1>2. /\ cycle.step = "fetched"
      /\ \A m \in Universe :
           /\ Written(m) =>
                /\ row'[m].status = "open"
                /\ row'[m].close = cycle.seen[m].close
                /\ row'[m].rules = cycle.seen[m].rules
                /\ row'[m].hash = <<row'[m].close, row'[m].rules>>
           /\ ~Written(m) => row'[m] = row[m]
      /\ late' = {m \in late : ~Written(m)}
      /\ purge'.step = purge.step
      /\ purge'.delete = purge.delete /\ purge'.archive = purge.archive
      /\ purge.step = "off" => purge' = purge
      /\ purge.step # "off" =>
           purge'.touched = purge.touched \cup {m \in Universe : Written(m)}
      /\ now' = now /\ excluded' = excluded
  BY Synced
<1>3. cycle'.step = "synced" /\ cycle'.fetched = cycle.fetched /\ cycle'.seen = cycle.seen
  BY Steps
<1>4. RowsHashed'
  <2>1. SUFFICES ASSUME NEW m \in Universe
                 PROVE  \/ row'[m] = NoRow
                        \/ /\ row'[m].status # "none"
                           /\ row'[m].hash = <<row'[m].close, row'[m].rules>>
    BY DEF RowsHashed
  <2>2. CASE Written(m)
    BY <1>2, <2>2
  <2>3. CASE ~Written(m)
    BY <1>1, <1>2, <2>3 DEF RowsHashed
  <2>4. QED BY <2>2, <2>3
<1>5. HiddenForAReason'
  <2>1. SUFFICES ASSUME NEW m \in Universe, row'[m].status \in {"closed", "archived"}
                 PROVE  m \in excluded \/ m \in late' \/ row'[m].close < now
    BY <1>2 DEF HiddenForAReason
  <2>2. ~Written(m) /\ row'[m] = row[m]
    BY <1>2, <2>1
  <2>3. m \in excluded \/ m \in late \/ row[m].close < now
    BY <1>1, <2>1, <2>2 DEF HiddenForAReason
  <2>4. QED BY <1>2, <2>2, <2>3
<1>6. PlanSound'
  <2>1. \A m \in purge.delete \cup purge.archive :
          m \in excluded \/ m \in purge'.touched \/ row'[m].close < now
    <3>1. TAKE m \in purge.delete \cup purge.archive
    <3>2. m \in Universe
      BY Fields
    <3>3. purge.step # "off"
      BY <1>1 DEF PlanSound, NoPurge
    <3>4. m \in excluded \/ m \in purge.touched \/ row[m].close < now
      BY <1>1 DEF PlanSound
    <3>5. QED BY <1>2, <3>2, <3>3, <3>4
  <2>2. QED BY <1>1, <1>2, <2>1 DEF PlanSound
<1>7. StoredAsPublished'
  <2>1. SUFFICES ASSUME NEW m \in cycle.fetched \ late', cycle.seen[m].close > now
                 PROVE  /\ row'[m].rules = cycle.seen[m].rules
                        /\ row'[m].close = cycle.seen[m].close
                        /\ row'[m].status = "open"
    BY <1>2, <1>3 DEF StoredAsPublished
  <2>2. m \in Universe /\ m \notin excluded /\ m \in cycle.fetched
    <3>1. cycle.fetched \subseteq Universe \ excluded
      BY <1>2 DEF MarketsTyped
    <3>2. QED BY <2>1, <3>1
  <2>3. CASE Written(m)
    BY <1>2, <2>2, <2>3
  <2>4. CASE ~Written(m)
    <3>1. row'[m] = row[m]
      BY <1>2, <2>2, <2>4
    <3>2. row[m].hash = <<cycle.seen[m].close, cycle.seen[m].rules>>
      BY <2>2, <2>4 DEF Written, ContentHash
    <3>3. row[m] # NoRow
      <4>1. <<cycle.seen[m].close, cycle.seen[m].rules>> # <<>>
        OBVIOUS
      <4>2. QED BY <3>2, <4>1, NoRowIsRow
    <3>4. row[m].status # "none" /\ row[m].hash = <<row[m].close, row[m].rules>>
      BY <1>1, <2>2, <3>3 DEF RowsHashed
    <3>5. row[m].close = cycle.seen[m].close /\ row[m].rules = cycle.seen[m].rules
      BY <3>2, <3>4, SameHash
    <3>6. m \notin late
      BY <1>2, <2>1, <2>4
    <3>7. ~(row[m].close < now)
      <4>1. row[m].close \in Nat /\ now \in Nat
        BY <2>2, Fields
      <4>2. QED BY <2>1, <3>5, <4>1
    <3>8. row[m].status \notin {"closed", "archived"}
      BY <1>1, <2>2, <3>6, <3>7 DEF HiddenForAReason
    <3>9. row[m].status \in {"none", "open", "closed", "archived"}
      BY <2>2, Fields DEF Row
    <3>10. QED BY <3>1, <3>4, <3>5, <3>8, <3>9
  <2>5. QED BY <2>3, <2>4
<1>8. QED
  BY <1>4, <1>5, <1>6, <1>7 DEF RowsInv

\* The sweep closes what is past its close.
LEMMA SweepKeepsRows ==
  ASSUME MarketsTyped, RowsInv, ExpireClosed
  PROVE  RowsInv'
<1>1. /\ RowsHashed /\ HiddenForAReason /\ PlanSound
  BY DEF RowsInv
<1>2. /\ \A m \in Universe :
           \/ row'[m] = row[m]
           \/ /\ row[m].status = "open" /\ row[m].close < now
              /\ row'[m].status = "closed"
              /\ row'[m].close = row[m].close /\ row'[m].rules = row[m].rules
              /\ row'[m].hash = row[m].hash
      /\ UNCHANGED <<now, excluded, purge, late>>
  BY Swept
<1>3. RowsHashed'
  <2>1. SUFFICES ASSUME NEW m \in Universe
                 PROVE  \/ row'[m] = NoRow
                        \/ /\ row'[m].status # "none"
                           /\ row'[m].hash = <<row'[m].close, row'[m].rules>>
    BY DEF RowsHashed
  <2>2. QED BY <1>1, <1>2, NoRowIsRow DEF RowsHashed
<1>4. HiddenForAReason'
  <2>1. SUFFICES ASSUME NEW m \in Universe, row'[m].status \in {"closed", "archived"}
                 PROVE  m \in excluded \/ m \in late \/ row'[m].close < now
    BY <1>2 DEF HiddenForAReason
  <2>2. QED BY <1>1, <1>2, <2>1 DEF HiddenForAReason
<1>5. PlanSound'
  <2>1. \A m \in purge.delete \cup purge.archive :
          m \in excluded \/ m \in purge.touched \/ row'[m].close < now
    <3>1. TAKE m \in purge.delete \cup purge.archive
    <3>2. m \in Universe
      BY Fields
    <3>3. QED BY <1>1, <1>2, <3>2 DEF PlanSound
  <2>2. QED BY <1>1, <1>2, <2>1 DEF PlanSound
<1>6. StoredAsPublished'
  <2>1. cycle'.step = "swept"
    BY Steps
  <2>2. QED BY <2>1 DEF StoredAsPublished
<1>7. QED
  BY <1>3, <1>4, <1>5, <1>6 DEF RowsInv

\* The plan that is made now is sound.
LEMMA PlanKeepsRows ==
  ASSUME MarketsTyped, RowsInv, PlanPurge
  PROVE  RowsInv'
<1>1. /\ RowsHashed /\ HiddenForAReason /\ PlanSound /\ StoredAsPublished
  BY DEF RowsInv
<1>2. /\ purge'.step = "delete" /\ purge'.touched = {}
      /\ purge'.delete = {m \in Universe : Candidate(m) /\ ~Referenced(m)}
      /\ purge'.archive = {m \in Universe : Candidate(m) /\ Referenced(m)}
      /\ UNCHANGED <<now, excluded, row, cycle, late>>
  BY Planned
<1>3. RowsHashed' /\ HiddenForAReason' /\ StoredAsPublished'
  BY <1>1, <1>2 DEF RowsHashed, HiddenForAReason, StoredAsPublished
<1>4. PlanSound'
  <2>1. purge'.delete \cap purge'.archive = {}
    BY <1>2 DEF Referenced
  <2>2. \A m \in purge'.delete \cup purge'.archive : m \in excluded \/ row[m].close < now
    BY <1>2 DEF Candidate
  <2>3. QED BY <1>2, <2>1, <2>2 DEF PlanSound
<1>5. QED
  BY <1>3, <1>4 DEF RowsInv

\* A batch of the purge hides a row that was written since the plan as late.
LEMMA BatchKeepsRows ==
  ASSUME MarketsTyped, RowsInv, DeleteRow \/ ArchiveRow
  PROVE  RowsInv'
<1>1. /\ RowsHashed /\ HiddenForAReason /\ PlanSound /\ StoredAsPublished
  BY DEF RowsInv
<1>2. PICK p \in Universe :
        /\ \/ /\ p \in purge.delete /\ row'[p] = NoRow
              /\ purge'.delete = purge.delete \ {p} /\ purge'.archive = purge.archive
           \/ /\ p \in purge.archive
              /\ purge'.delete = purge.delete /\ purge'.archive = purge.archive \ {p}
              /\ row[p] = NoRow => row'[p] = NoRow
              /\ row[p] # NoRow =>
                   /\ row'[p].status = "archived"
                   /\ row'[p].close = row[p].close /\ row'[p].rules = row[p].rules
                   /\ row'[p].hash = row[p].hash
        /\ \A m \in Universe \ {p} : row'[m] = row[m]
        /\ purge'.step = purge.step /\ purge.step # "off"
        /\ purge'.touched = purge.touched
        /\ late' = IF p \in purge.touched THEN late \cup {p} ELSE late
        /\ UNCHANGED <<now, excluded, cycle>>
  BY Purged
<1>3. p \in excluded \/ p \in late' \/ row[p].close < now
  BY <1>1, <1>2 DEF PlanSound
<1>4. late \subseteq late'
  BY <1>2
<1>5. RowsHashed'
  <2>1. SUFFICES ASSUME NEW m \in Universe
                 PROVE  \/ row'[m] = NoRow
                        \/ /\ row'[m].status # "none"
                           /\ row'[m].hash = <<row'[m].close, row'[m].rules>>
    BY DEF RowsHashed
  <2>2. CASE m = p
    BY <1>1, <1>2, <2>2 DEF RowsHashed
  <2>3. CASE m # p
    BY <1>1, <1>2, <2>3 DEF RowsHashed
  <2>4. QED BY <2>2, <2>3
<1>6. HiddenForAReason'
  <2>1. SUFFICES ASSUME NEW m \in Universe, row'[m].status \in {"closed", "archived"}
                 PROVE  m \in excluded \/ m \in late' \/ row'[m].close < now
    BY <1>2 DEF HiddenForAReason
  <2>2. CASE m = p
    BY <1>2, <1>3, <2>1, <2>2, NoRowIsRow
  <2>3. CASE m # p
    BY <1>1, <1>2, <1>4, <2>1, <2>3 DEF HiddenForAReason
  <2>4. QED BY <2>2, <2>3
<1>7. PlanSound'
  <2>1. /\ purge'.delete \subseteq purge.delete /\ purge'.archive \subseteq purge.archive
        /\ p \notin purge'.delete \cup purge'.archive
    BY <1>1, <1>2 DEF PlanSound
  <2>2. \A m \in purge'.delete \cup purge'.archive :
          m \in excluded \/ m \in purge.touched \/ row'[m].close < now
    <3>1. TAKE m \in purge'.delete \cup purge'.archive
    <3>2. m \in Universe /\ m # p
      BY <2>1, Fields
    <3>3. row'[m] = row[m]
      BY <1>2, <3>2
    <3>4. QED BY <1>1, <2>1, <3>3 DEF PlanSound
  <2>3. purge'.delete \cap purge'.archive = {}
    BY <1>1, <1>2, <2>1 DEF PlanSound
  <2>4. QED BY <1>2, <2>2, <2>3 DEF PlanSound
<1>8. StoredAsPublished'
  <2>1. SUFFICES ASSUME cycle.step = "synced", NEW m \in cycle.fetched \ late',
                        cycle.seen[m].close > now
                 PROVE  /\ row'[m].rules = cycle.seen[m].rules
                        /\ row'[m].close = cycle.seen[m].close
                        /\ row'[m].status = "open"
    BY <1>2 DEF StoredAsPublished
  <2>2. m \in Universe /\ m \notin excluded
    <3>1. cycle.fetched \subseteq Universe \ excluded
      BY <2>1 DEF MarketsTyped
    <3>2. QED BY <2>1, <3>1
  <2>3. /\ row[m].rules = cycle.seen[m].rules /\ row[m].close = cycle.seen[m].close
        /\ row[m].status = "open"
    BY <1>1, <1>4, <2>1 DEF StoredAsPublished
  <2>4. m # p
    <3>1. row[m].close \in Nat /\ now \in Nat
      BY <2>2, Fields
    <3>2. ~(row[m].close < now)
      BY <2>1, <2>3, <3>1
    <3>3. QED BY <1>3, <2>1, <2>2, <3>2
  <2>5. QED BY <1>2, <2>2, <2>3, <2>4
<1>9. QED
  BY <1>5, <1>6, <1>7, <1>8 DEF RowsInv

\* Every step keeps what is said of the rows.
LEMMA RowsStep ==
  ASSUME MarketsTyped, RowsInv, [MarketsNext]_marketsVars
  PROVE  RowsInv'
<1>1. CASE ExchangeChanges \/ ExemptionLapses \/ UNCHANGED marketsVars
  <2>1. UNCHANGED <<now, excluded, row, cycle, purge, late>>
    BY <1>1 DEF ExchangeChanges, ExemptionLapses, marketsVars, cycleVars
  <2>2. QED BY <2>1, RowsKept
<1>2. CASE CycleFetches
  <2>1. cycle'.step # "synced" /\ UNCHANGED <<now, excluded, row, purge, late>>
    BY <1>2, Fetched
  <2>2. QED BY <2>1, RowsKept
<1>3. CASE RecordSnapshots \/ ScoreMarkets \/ CycleDies
  <2>1. cycle'.step # "synced"
    BY <1>3, Steps
  <2>2. UNCHANGED <<now, excluded, row, purge, late>>
    BY <1>3 DEF RecordSnapshots, ScoreMarkets, CycleDies
  <2>3. QED BY <2>1, <2>2, RowsKept
<1>4. CASE MarketsTick
  <2>1. now' = now + 1 /\ UNCHANGED <<excluded, row, cycle, purge, late>>
    BY <1>4 DEF MarketsTick, cycleVars
  <2>2. QED BY <2>1, RowsKept
<1>5. CASE DeletesDone \/ PurgeEnds
  <2>1. /\ UNCHANGED <<now, excluded, row, cycle, late>>
        /\ \/ purge' = NoPurge
           \/ /\ purge'.step = "archive"
              /\ purge'.delete = purge.delete /\ purge'.archive = purge.archive
              /\ purge'.touched = purge.touched
    BY <1>5, PurgeMoves
  <2>2. /\ RowsHashed /\ HiddenForAReason /\ PlanSound /\ StoredAsPublished
    BY DEF RowsInv
  <2>3. RowsHashed' /\ HiddenForAReason' /\ StoredAsPublished'
    BY <2>1, <2>2 DEF RowsHashed, HiddenForAReason, StoredAsPublished
  <2>4. PlanSound'
    <3>1. CASE purge' = NoPurge
      BY <3>1 DEF PlanSound, NoPurge
    <3>2. CASE purge' # NoPurge
      BY <2>1, <2>2, <3>2 DEF PlanSound
    <3>3. QED BY <3>1, <3>2
  <2>5. QED BY <2>3, <2>4 DEF RowsInv
<1>6. QED
  BY <1>1, <1>2, <1>3, <1>4, <1>5, SyncKeepsRows, SweepKeepsRows, PlanKeepsRows,
     BatchKeepsRows DEF MarketsNext

-----------------------------------------------------------------------------
(***************************************************************************)
(* Snapshots.                                                              *)
(***************************************************************************)

\* A step that records no snapshot and starts no cycle keeps what is said of
\* them: the exchange takes no trade back, and the clock may go on.
LEMMA SnapsKept ==
  ASSUME MarketsTyped, SnapsInv,
         snap' = snap, missed' = missed, cycle'.start = cycle.start,
         \A m \in Universe : exch[m].quote # "untraded" => exch'[m].quote # "untraded",
         now' = now \/ now' = now + 1,
         \/ cycle.step # "idle" /\ cycle'.seen = cycle.seen
         \/ cycle' = cycle
         \/ cycle'.step = "idle"
  PROVE  SnapsInv'
<1>1. now \in Nat /\ \A m \in Universe : snap[m].at \in Nat
  BY Fields
<1>2. SUFFICES ASSUME NEW m \in Universe
      PROVE  /\ snap[m].at <= now'
             /\ snap[m] # NoSnap => exch'[m].quote # "untraded"
             /\ cycle'.step # "idle" =>
                  /\ cycle'.seen[m].quote # "untraded" => exch'[m].quote # "untraded"
                  /\ snap[m] # NoSnap => cycle'.seen[m].quote # "untraded"
             /\ snap[m] # NoSnap /\ missed[m] = 0 => snap[m].at + Heartbeat > cycle.start
             /\ snap[m] # NoSnap /\ missed[m] = 1 =>
                  snap[m].at + Heartbeat + CycleLength > cycle.start
  BY DEF SnapsInv
<1>3. snap[m].at <= now'
  BY <1>1 DEF SnapsInv
<1>4. /\ snap[m] # NoSnap => exch'[m].quote # "untraded"
      /\ cycle'.step # "idle" =>
           /\ cycle'.seen[m].quote # "untraded" => exch'[m].quote # "untraded"
           /\ snap[m] # NoSnap => cycle'.seen[m].quote # "untraded"
  BY DEF SnapsInv
<1>5. QED
  BY <1>3, <1>4 DEF SnapsInv

\* A new cycle: what was fresh when the last one started is one cycle older.
LEMMA FetchKeepsSnaps ==
  ASSUME MarketsTyped, CycleInv, SnapsInv, CycleFetches
  PROVE  SnapsInv'
<1>1. /\ now \in Nat /\ cycle.start \in Int
      /\ cycle'.start = now /\ cycle'.seen = exch
      /\ missed' = [m \in Universe |-> IF missed[m] < 2 THEN missed[m] + 1 ELSE 2]
      /\ now' = now /\ exch' = exch /\ snap' = snap
  BY Fetched, Fields
<1>2. SUFFICES ASSUME NEW m \in Universe
      PROVE  /\ snap[m].at <= now
             /\ snap[m] # NoSnap => exch[m].quote # "untraded"
             /\ snap[m] # NoSnap /\ missed'[m] = 0 => snap[m].at + Heartbeat > now
             /\ snap[m] # NoSnap /\ missed'[m] = 1 =>
                  snap[m].at + Heartbeat + CycleLength > now
  BY <1>1 DEF SnapsInv
<1>3. snap[m].at \in Nat /\ missed[m] \in {0, 1, 2}
  BY Fields
<1>4. missed'[m] # 0 /\ (missed'[m] = 1 => missed[m] = 0)
  BY <1>1, <1>3
<1>5. ASSUME snap[m] # NoSnap, missed[m] = 0
      PROVE  snap[m].at + Heartbeat + CycleLength > now
  <2>1. snap[m].at + Heartbeat > cycle.start
    BY <1>5 DEF SnapsInv
  <2>2. cycle.start # -1
    BY <1>5 DEF CycleInv
  <2>3. now <= cycle.start + CycleLength
    BY <2>2 DEF CycleInv
  <2>4. QED BY <1>1, <1>3, <2>1, <2>3, MarketsConstants
<1>6. snap[m].at <= now /\ (snap[m] # NoSnap => exch[m].quote # "untraded")
  BY DEF SnapsInv
<1>7. QED
  BY <1>4, <1>5, <1>6

\* A quote is skipped only if the newest one says the same and is fresh.
LEMMA RecordKeepsSnaps ==
  ASSUME MarketsTyped, CycleInv, SnapsInv, RecordSnapshots
  PROVE  SnapsInv'
<1>1. /\ cycle.step = "synced"
      /\ \A m \in Universe :
           /\ m \in cycle.fetched /\ ~Skipped(m) =>
                snap'[m].quote = cycle.seen[m].quote /\ snap'[m].at = now
           /\ ~(m \in cycle.fetched /\ ~Skipped(m)) => snap'[m] = snap[m]
           /\ m \in cycle.fetched => missed'[m] = 0
           /\ m \notin cycle.fetched => missed'[m] = missed[m]
      /\ now' = now /\ exch' = exch
  BY Recorded
<1>2. cycle'.step = "quoted" /\ cycle'.start = cycle.start /\ cycle'.seen = cycle.seen
  BY Steps
<1>3. now \in Nat /\ cycle.start \in Nat /\ cycle.start <= now
  <2>1. cycle.start # -1
    BY <1>1 DEF CycleInv
  <2>2. QED BY <2>1, Fields DEF CycleInv
<1>4. SUFFICES ASSUME NEW m \in Universe
      PROVE  /\ snap'[m].at <= now
             /\ snap'[m] # NoSnap => exch[m].quote # "untraded"
             /\ cycle.seen[m].quote # "untraded" => exch[m].quote # "untraded"
             /\ snap'[m] # NoSnap => cycle.seen[m].quote # "untraded"
             /\ snap'[m] # NoSnap /\ missed'[m] = 0 =>
                  snap'[m].at + Heartbeat > cycle.start
             /\ snap'[m] # NoSnap /\ missed'[m] = 1 =>
                  snap'[m].at + Heartbeat + CycleLength > cycle.start
  BY <1>1, <1>2 DEF SnapsInv
<1>5. /\ snap[m].at \in Nat /\ snap[m].at <= now
      /\ cycle.seen[m].quote # "untraded" => exch[m].quote # "untraded"
      /\ snap[m] # NoSnap => cycle.seen[m].quote # "untraded"
      /\ snap[m] # NoSnap => exch[m].quote # "untraded"
      /\ snap[m] # NoSnap /\ missed[m] = 0 => snap[m].at + Heartbeat > cycle.start
      /\ snap[m] # NoSnap /\ missed[m] = 1 =>
           snap[m].at + Heartbeat + CycleLength > cycle.start
  BY <1>1, Fields DEF SnapsInv
<1>6. CASE m \in cycle.fetched /\ ~Skipped(m)
  <2>1. snap'[m].at = now /\ missed'[m] = 0
    BY <1>1, <1>6
  <2>2. cycle.seen[m].quote # "untraded"
    BY <1>6 DEF Skipped
  <2>3. QED BY <1>3, <1>5, <2>1, <2>2, MarketsConstants
<1>7. CASE m \in cycle.fetched /\ Skipped(m)
  <2>1. snap'[m] = snap[m] /\ missed'[m] = 0
    BY <1>1, <1>7
  <2>2. snap[m] # NoSnap => now - snap[m].at < Heartbeat
    BY <1>5, <1>7 DEF Skipped
  <2>3. snap[m] # NoSnap => snap[m].at + Heartbeat > cycle.start
    BY <1>3, <1>5, <2>2, MarketsConstants
  <2>4. QED BY <1>5, <2>1, <2>3
<1>8. CASE m \notin cycle.fetched
  <2>1. snap'[m] = snap[m] /\ missed'[m] = missed[m]
    BY <1>1, <1>8
  <2>2. QED BY <1>5, <2>1
<1>9. QED
  BY <1>6, <1>7, <1>8

\* Every step keeps what is said of the snapshots.
LEMMA SnapsStep ==
  ASSUME MarketsTyped, CycleInv, SnapsInv, [MarketsNext]_marketsVars
  PROVE  SnapsInv'
<1>1. CASE ExchangeChanges
  BY <1>1, Exchanged, SnapsKept
<1>2. CASE SyncMarkets \/ ExpireClosed
  <2>1. cycle.step # "idle" /\ cycle'.seen = cycle.seen /\ cycle'.start = cycle.start
    BY <1>2, Steps
  <2>2. UNCHANGED <<now, exch, snap, missed>>
    BY <1>2 DEF SyncMarkets, ExpireClosed
  <2>3. QED BY <2>1, <2>2, SnapsKept
<1>3. CASE ScoreMarkets \/ CycleDies
  <2>1. cycle'.step = "idle" /\ cycle'.start = cycle.start
    BY <1>3, Steps
  <2>2. UNCHANGED <<now, exch, snap, missed>>
    BY <1>3 DEF ScoreMarkets, CycleDies
  <2>3. QED BY <2>1, <2>2, SnapsKept
<1>4. CASE ExemptionLapses \/ PlanPurge \/ DeleteRow \/ DeletesDone \/ ArchiveRow
           \/ PurgeEnds \/ UNCHANGED marketsVars
  <2>1. UNCHANGED <<now, exch, snap, cycle, missed>>
    BY <1>4 DEF ExemptionLapses, PlanPurge, DeleteRow, DeletesDone, ArchiveRow, PurgeEnds,
                cycleVars, marketsVars
  <2>2. QED BY <2>1, SnapsKept
<1>5. CASE MarketsTick
  <2>1. now' = now + 1 /\ UNCHANGED <<exch, snap, cycle, missed>>
    BY <1>5 DEF MarketsTick, cycleVars
  <2>2. QED BY <2>1, SnapsKept
<1>6. QED
  BY <1>1, <1>2, <1>3, <1>4, <1>5, FetchKeepsSnaps, RecordKeepsSnaps DEF MarketsNext

-----------------------------------------------------------------------------
(***************************************************************************)
(* The theorems.                                                           *)
(***************************************************************************)

\* Nothing is running, and only rows of an excluded series are on disk.
LEMMA InvariantHoldsInitially ==
  ASSUME MarketsInit
  PROVE  MarketsInv
<1>1. /\ now = 0 /\ excluded \subseteq Universe
      /\ exch \in [Universe -> [close : Closes, rules : {0}, quote : {"untraded", "a"}]]
      /\ row = [m \in Universe |-> IF m \in excluded THEN Stored(exch[m]) ELSE NoRow]
      /\ snap = [m \in Universe |-> NoSnap]
      /\ history \subseteq excluded /\ exempt = {}
      /\ cycle = Idle /\ missed = [m \in Universe |-> 2] /\ purge = NoPurge /\ late = {}
  BY DEF MarketsInit
<1>2. exch \in [Universe -> Published]
  <2>1. [close : Closes, rules : {0}, quote : {"untraded", "a"}] \subseteq Published
    BY MarketsConstants DEF Published
  <2>2. QED BY <1>1, <2>1
<1>3. \A m \in Universe :
        /\ row[m] \in Row
        /\ row[m] # NoRow =>
             /\ row[m].status = "open" /\ row[m].hash = <<row[m].close, row[m].rules>>
  <2>1. TAKE m \in Universe
  <2>2. CASE m \in excluded
    <3>1. row[m] = Stored(exch[m]) /\ exch[m] \in Published
      BY <1>1, <1>2, <2>2
    <3>2. QED BY <3>1, StoredRow
  <2>3. CASE m \notin excluded
    BY <1>1, <2>3, NoRowIsRow
  <2>4. QED BY <2>2, <2>3
<1>4. Idle \in Cycle /\ Idle.step = "idle" /\ Idle.start = -1
  BY DEF Cycle, Idle
<1>5. /\ NoPurge \in Purge /\ NoPurge.step = "off" /\ NoPurge.delete = {}
      /\ NoPurge.archive = {}
  BY DEF Purge, NoPurge
<1>6. NoSnap \in SnapRow /\ NoSnap.at = 0
  BY DEF SnapRow, NoSnap
<1>7. MarketsTyped
  <2>1. row \in [Universe -> Row]
    BY <1>1, <1>3
  <2>2. now \in 0..MaxNow
    BY <1>1, MarketsConstants
  <2>3. QED BY <1>1, <1>2, <1>4, <1>5, <1>6, <2>1, <2>2 DEF MarketsTyped
<1>8. RowsInv
  <2>1. RowsHashed
    BY <1>3 DEF RowsHashed
  <2>2. HiddenForAReason
    BY <1>3, NoRowIsRow DEF HiddenForAReason
  <2>3. PlanSound
    BY <1>1, <1>5 DEF PlanSound
  <2>4. StoredAsPublished
    BY <1>1, <1>4 DEF StoredAsPublished
  <2>5. QED BY <2>1, <2>2, <2>3, <2>4 DEF RowsInv
<1>9. CycleInv
  BY <1>1, <1>4 DEF CycleInv
<1>10. SnapsInv
  <2>1. cycle.step = "idle" /\ \A m \in Universe : snap[m] = NoSnap
    BY <1>1, <1>4
  <2>2. QED BY <1>1, <1>6, <2>1 DEF SnapsInv
<1>11. QED
  BY <1>7, <1>8, <1>9, <1>10 DEF MarketsInv

\* The inductive invariant holds throughout, whatever the purge overlaps.
THEOREM MarketsInvariant == MarketsSpec => []MarketsInv
<1>1. MarketsInit => MarketsInv
  BY InvariantHoldsInitially
<1>2. MarketsInv /\ [MarketsNext]_marketsVars => MarketsInv'
  BY TypedStep, RowsStep, CycleStep, SnapsStep DEF MarketsInv
<1>3. QED
  BY <1>1, <1>2, PTL DEF MarketsSpec

\* What the sync has just fetched is what is stored, and a market that is live
\* is open again, unless a purge planned before its row was last written hid it.
THEOREM SyncStoresPublished == MarketsSpec => []StoredAsPublished
<1>1. MarketsInv => StoredAsPublished
  BY DEF MarketsInv, RowsInv
<1>2. QED
  BY <1>1, MarketsInvariant, PTL

\* MAX_SNAPSHOT_AGE_MINUTES, derived from the cadence, is enough for every
\* cadence and heartbeat: a quiet market that this cycle or the last fetched
\* is scorable when the cycle scores.
THEOREM QuietMarketsScorable == MarketsSpec => []QuietStaysScorable
<1>1. MarketsInv => QuietStaysScorable
  <2>1. SUFFICES ASSUME MarketsInv, cycle.step = "swept", NEW m \in Universe,
                        missed[m] <= 1, snap[m] # NoSnap
                 PROVE  now - snap[m].at <= MaxSnapshotAge
    BY DEF QuietStaysScorable
  <2>2. /\ now \in Nat /\ snap[m].at \in Nat /\ cycle.start \in Int
        /\ missed[m] \in {0, 1, 2}
    BY <2>1, Fields DEF MarketsInv
  <2>3. now < cycle.start + CycleLength
    BY <2>1 DEF MarketsInv, CycleInv
  <2>4. snap[m].at + Heartbeat + CycleLength > cycle.start
    <3>1. CASE missed[m] = 0
      <4>1. snap[m].at + Heartbeat > cycle.start
        BY <2>1, <3>1 DEF MarketsInv, SnapsInv
      <4>2. QED BY <2>2, <4>1, MarketsConstants
    <3>2. CASE missed[m] = 1
      BY <2>1, <3>2 DEF MarketsInv, SnapsInv
    <3>3. QED BY <2>1, <2>2, <3>1, <3>2
  <2>5. QED
    BY <2>2, <2>3, <2>4, MarketsConstants DEF MaxSnapshotAge
<1>2. QED
  BY <1>1, MarketsInvariant, PTL

\* Every variable of the market universe keeps to its domain.
THEOREM MarketsTypes == MarketsSpec => []MarketsTypeOK
<1>1. MarketsInv => MarketsTypeOK
  <2>1. SUFFICES ASSUME MarketsInv PROVE MarketsTypeOK
    OBVIOUS
  <2>2. MarketsTyped /\ SnapsInv
    BY <2>1 DEF MarketsInv
  <2>3. \A m \in Universe : row[m].status \in {"none", "open", "closed", "archived"}
    BY <2>2, Fields DEF Row
  <2>4. \A m \in Universe : snap[m].quote \in {"none", "a", "b"} /\ snap[m].at <= now
    BY <2>2, Fields DEF SnapRow, SnapsInv
  <2>5. /\ cycle.step \in {"idle", "fetched", "synced", "quoted", "swept"}
        /\ purge.step \in {"off", "delete", "archive"}
    BY <2>2, Fields
  <2>6. QED
    BY <2>2, <2>3, <2>4, <2>5 DEF MarketsTyped, MarketsTypeOK
<1>2. QED
  BY <1>1, MarketsInvariant, PTL

-----------------------------------------------------------------------------
(***************************************************************************)
(* The storage: what the tape weighs.                                      *)
(***************************************************************************)

\* What these days weigh: one for each row, one more for each payload.
WeightOf(tape, S) ==
  Cardinality({a \in S : tape[a] # "none"}) + Cardinality({a \in S : tape[a] = "fat"})

Tapes == [Ages -> {"none", "slim", "fat"}]

\* One more day weighs what it weighs.
LEMMA WeightStep ==
  ASSUME NEW tape \in Tapes, NEW S, IsFiniteSet(S), S \subseteq Ages, NEW a \in S
  PROVE  /\ WeightOf(tape, S) \in Nat
         /\ WeightOf(tape, S) = Weight[tape[a]] + WeightOf(tape, S \ {a})
<1> DEFINE K == {b \in S : tape[b] # "none"}
           F == {b \in S : tape[b] = "fat"}
<1>1. IsFiniteSet(K) /\ IsFiniteSet(F)
  BY FS_Subset
<1>2. {b \in S \ {a} : tape[b] # "none"} = K \ {a} /\ {b \in S \ {a} : tape[b] = "fat"} = F \ {a}
  OBVIOUS
<1>3. Cardinality(K) \in Nat /\ Cardinality(F) \in Nat
  BY <1>1, FS_CardinalityType
<1>4. /\ Cardinality(K \ {a}) = IF a \in K THEN Cardinality(K) - 1 ELSE Cardinality(K)
      /\ Cardinality(F \ {a}) = IF a \in F THEN Cardinality(F) - 1 ELSE Cardinality(F)
  BY <1>1, FS_RemoveElement
<1>5. tape[a] \in {"none", "slim", "fat"}
  BY DEF Tapes
<1>6. Weight[tape[a]] = (IF a \in K THEN 1 ELSE 0) + (IF a \in F THEN 1 ELSE 0)
  BY <1>5 DEF Weight
<1> HIDE DEF K, F
<1>7. Cardinality(K) + Cardinality(F)
        = Weight[tape[a]] + (Cardinality(K \ {a}) + Cardinality(F \ {a}))
  BY <1>3, <1>4, <1>6
<1>8. QED
  BY <1>2, <1>3, <1>7 DEF WeightOf, K, F

\* Summing the weights of the days is counting them.
LEMMA SumIsWeight ==
  ASSUME NEW d, d.tape \in Tapes, NEW S \in SUBSET Ages, IsFiniteSet(S)
  PROVE  SumFunctionOnSet(Weights(d), S) = WeightOf(d.tape, S)
<1> DEFINE G == [T \in SUBSET S |-> WeightOf(d.tape, T)]
<1>1. \A T \in SUBSET S : IsFiniteSet(T) /\ T \subseteq Ages
  BY FS_Subset
<1>2. WeightOf(d.tape, {}) = 0
  <2>1. {b \in {} : d.tape[b] # "none"} = {} /\ {b \in {} : d.tape[b] = "fat"} = {}
    OBVIOUS
  <2>2. QED
    BY <2>1, FS_EmptySet DEF WeightOf
<1>3. \A T \in SUBSET S : \A a \in T : /\ WeightOf(d.tape, T) \in Nat
                                      /\ WeightOf(d.tape, T)
                                           = Weights(d)[a] + WeightOf(d.tape, T \ {a})
  <2> TAKE T \in SUBSET S
  <2> TAKE a \in T
  <2>1. Weights(d)[a] = Weight[d.tape[a]]
    BY <1>1 DEF Weights
  <2>2. QED
    BY <1>1, <2>1, WeightStep
<1>4. \A T \in SUBSET S : G[T] \in Int
  <2> TAKE T \in SUBSET S
  <2>1. T = {} \/ \E a \in T : TRUE
    OBVIOUS
  <2>2. WeightOf(d.tape, T) \in Nat
    <3>1. CASE T = {}
      BY <1>2, <3>1
    <3>2. CASE \E a \in T : TRUE
      BY <1>3, <3>2
    <3>3. QED
      BY <2>1, <3>1, <3>2
  <2>3. QED
    BY <2>2
<1>5. Additive(G, Weights(d), S)
  <2>1. G \in [SUBSET S -> Int] /\ G[{}] = 0
    BY <1>2, <1>4
  <2>2. \A T \in SUBSET S : \A a \in T : G[T] = Weights(d)[a] + G[T \ {a}]
    BY <1>3
  <2> HIDE DEF G
  <2>3. QED
    BY <2>1, <2>2 DEF Additive
<1>6. QED
  BY <1>5, SumIsAdditive

\* The constants of the storage are numbers, and its ages finitely many.
LEMMA StorageConstants ==
  /\ Cap \in Nat /\ Target \in Nat /\ Trigger \in Nat /\ FailLive \in Nat /\ FailLive > 0
  /\ FileAlarm \in Nat /\ FileHard \in Nat /\ Guard \in Nat /\ Keep \in Nat /\ Floor \in Nat
  /\ FullDays \in Nat /\ DayWrites \in Nat /\ StallRounds \in Nat /\ MaxAge \in Nat
  /\ Guard <= Cap /\ Floor <= Keep
  /\ IsFiniteSet(Ages) /\ Ages \subseteq Nat /\ 0 \in Ages
<1>1. MaxAge \in Nat
  BY StorageAssumption
<1>2. IsFiniteSet(0..MaxAge)
  BY <1>1, FS_Interval
<1>3. QED
  BY <1>1, <1>2, StorageAssumption, SMTT(30) DEF Ages

Spaces == [Tables -> Nat]

Disk == [tape : Tapes, rows : [{"prices", "rest"} -> Nat], dead : Spaces, free : Spaces]

\* The weights of a file are numbers.
LEMMA Weighed ==
  ASSUME NEW d, d.tape \in Tapes
  PROVE  /\ TapeWeight(d) = WeightOf(d.tape, Ages) /\ TapeWeight(d) \in Nat
         /\ \A S \in SUBSET Ages :
              SumFunctionOnSet(Weights(d), S) = WeightOf(d.tape, S)
         /\ \A S \in SUBSET Ages : WeightOf(d.tape, S) \in Nat
<1>1. \A S \in SUBSET Ages : IsFiniteSet(S)
  BY FS_Subset, StorageConstants
<1>2. \A S \in SUBSET Ages :
        SumFunctionOnSet(Weights(d), S) = WeightOf(d.tape, S)
  BY <1>1, SumIsWeight
<1>3. \A S \in SUBSET Ages : WeightOf(d.tape, S) \in Nat
  <2> TAKE S \in SUBSET Ages
  <2>1. IsFiniteSet({a \in S : d.tape[a] # "none"}) /\ IsFiniteSet({a \in S : d.tape[a] = "fat"})
    BY <1>1, FS_Subset
  <2>2. QED
    BY <2>1, FS_CardinalityType DEF WeightOf
<1>4. TapeWeight(d) = WeightOf(d.tape, Ages)
  BY <1>2 DEF TapeWeight
<1>5. QED
  BY <1>2, <1>3, <1>4

\* What a tape weighs is a number, and a tape with less on it weighs less.
LEMMA LighterTape ==
  ASSUME NEW t1 \in Tapes, NEW t2 \in Tapes,
         \A a \in Ages : /\ t1[a] # "none" => t2[a] # "none"
                         /\ t1[a] = "fat" => t2[a] = "fat"
  PROVE  /\ WeightOf(t1, Ages) \in Nat /\ WeightOf(t2, Ages) \in Nat
         /\ WeightOf(t1, Ages) <= WeightOf(t2, Ages)
<1> DEFINE Kept(t) == {a \in Ages : t[a] # "none"}
           Fats(t) == {a \in Ages : t[a] = "fat"}
<1>1. \A t : IsFiniteSet(Kept(t)) /\ IsFiniteSet(Fats(t))
  BY StorageConstants, FS_Subset
<1>2. \A t : Cardinality(Kept(t)) \in Nat /\ Cardinality(Fats(t)) \in Nat
  BY <1>1, FS_CardinalityType
<1>3. Kept(t1) \subseteq Kept(t2) /\ Fats(t1) \subseteq Fats(t2)
  OBVIOUS
<1>4. \A t : WeightOf(t, Ages) = Cardinality(Kept(t)) + Cardinality(Fats(t))
  BY DEF WeightOf
<1> HIDE DEF Kept, Fats
<1>5. /\ Cardinality(Kept(t1)) <= Cardinality(Kept(t2))
      /\ Cardinality(Fats(t1)) <= Cardinality(Fats(t2))
  BY <1>1, <1>3, FS_Subset
<1>6. QED
  BY <1>2, <1>4, <1>5

\* A day that is rewritten changes the weight by its own.
LEMMA Reweighed ==
  ASSUME NEW tape \in Tapes, NEW a \in Ages, NEW kind \in {"none", "slim", "fat"}
  PROVE  /\ [tape EXCEPT ![a] = kind] \in Tapes
         /\ WeightOf([tape EXCEPT ![a] = kind], Ages) + Weight[tape[a]]
              = WeightOf(tape, Ages) + Weight[kind]
<1>1. PICK t : t = [tape EXCEPT ![a] = kind]
  OBVIOUS
<1>2. t \in Tapes /\ t[a] = kind /\ \A b \in Ages \ {a} : t[b] = tape[b]
  BY <1>1 DEF Tapes
<1>3. WeightOf(t, Ages \ {a}) = WeightOf(tape, Ages \ {a})
  <2>1. /\ {b \in Ages \ {a} : t[b] # "none"} = {b \in Ages \ {a} : tape[b] # "none"}
        /\ {b \in Ages \ {a} : t[b] = "fat"} = {b \in Ages \ {a} : tape[b] = "fat"}
    BY <1>2
  <2>2. QED
    BY <2>1 DEF WeightOf
<1>4. /\ WeightOf(t, Ages) = Weight[t[a]] + WeightOf(t, Ages \ {a})
      /\ WeightOf(tape, Ages) = Weight[tape[a]] + WeightOf(tape, Ages \ {a})
  BY <1>2, StorageConstants, WeightStep
<1>5. WeightOf(tape, Ages \ {a}) \in Nat
  <2>1. IsFiniteSet(Ages \ {a})
    BY StorageConstants, FS_RemoveElement
  <2>2. /\ IsFiniteSet({b \in Ages \ {a} : tape[b] # "none"})
        /\ IsFiniteSet({b \in Ages \ {a} : tape[b] = "fat"})
    BY <2>1, FS_Subset
  <2>3. QED
    BY <2>2, FS_CardinalityType DEF WeightOf
<1>6. Weight[tape[a]] \in Nat /\ Weight[kind] \in Nat
  <2>1. \A k \in {"none", "slim", "fat"} : Weight[k] \in Nat
    BY DEF Weight
  <2>2. QED
    BY <2>1 DEF Tapes
<1>7. QED
  BY <1>1, <1>2, <1>3, <1>4, <1>5, <1>6

\* A day later the tape weighs no more.
LEMMA AgedWeight ==
  ASSUME NEW tape \in Tapes, NEW aged,
         aged = [a \in Ages |-> IF a = 0 THEN "none" ELSE tape[a - 1]]
  PROVE  /\ aged \in Tapes
         /\ WeightOf(aged, Ages) <= WeightOf(tape, Ages)
<1> DEFINE Rows(t, K) == {a \in Ages : t[a] \in K}
<1>1. \A a \in Ages : a = 0 \/ a - 1 \in Ages
  BY StorageConstants DEF Ages
<1>2. aged \in Tapes
  BY <1>1 DEF Tapes
<1>3. ASSUME NEW K \in SUBSET {"slim", "fat"}
      PROVE  /\ Cardinality(Rows(aged, K)) \in Nat /\ Cardinality(Rows(tape, K)) \in Nat
             /\ Cardinality(Rows(aged, K)) <= Cardinality(Rows(tape, K))
  <2>1. IsFiniteSet(Rows(aged, K)) /\ IsFiniteSet(Rows(tape, K))
    BY FS_Subset, StorageConstants
  <2>2. PICK later : later = Rows(aged, K)
    OBVIOUS
  <2>3. \A a \in later : a \in Nat /\ a - 1 \in Rows(tape, K)
    BY <1>1, <2>2, StorageConstants
  <2>4. [a \in later |-> a - 1] \in Injection(later, Rows(tape, K))
    <3>1. [a \in later |-> a - 1] \in [later -> Rows(tape, K)]
      BY <2>3
    <3>2. \A a, b \in later : [e \in later |-> e - 1][a] = [e \in later |-> e - 1][b] => a = b
      BY <2>3
    <3>3. QED
      BY <3>1, <3>2 DEF Injection, IsInjective
  <2>5. Cardinality(later) <= Cardinality(Rows(tape, K))
    BY <2>1, <2>2, <2>4, FS_Injection
  <2>6. QED
    BY <2>1, <2>2, <2>5, FS_CardinalityType
<1>4. \A t \in Tapes : WeightOf(t, Ages) = Cardinality(Rows(t, {"slim", "fat"}))
                                           + Cardinality(Rows(t, {"fat"}))
  <2> TAKE t \in Tapes
  <2>1. /\ {a \in Ages : t[a] # "none"} = Rows(t, {"slim", "fat"})
        /\ {a \in Ages : t[a] = "fat"} = Rows(t, {"fat"})
    BY DEF Tapes
  <2>2. QED
    BY <2>1 DEF WeightOf
<1> HIDE DEF Rows
<1>5. {"slim", "fat"} \in SUBSET {"slim", "fat"} /\ {"fat"} \in SUBSET {"slim", "fat"}
  OBVIOUS
<1>6. PICK a1 \in Nat, b1 \in Nat, a2 \in Nat, b2 \in Nat :
        /\ a1 = Cardinality(Rows(aged, {"slim", "fat"})) /\ b1 = Cardinality(Rows(aged, {"fat"}))
        /\ a2 = Cardinality(Rows(tape, {"slim", "fat"})) /\ b2 = Cardinality(Rows(tape, {"fat"}))
        /\ a1 <= a2 /\ b1 <= b2
  BY <1>3, <1>5
<1>7. WeightOf(aged, Ages) = a1 + b1 /\ WeightOf(tape, Ages) = a2 + b2
  BY <1>2, <1>4, <1>6
<1>8. QED
  BY <1>2, <1>6, <1>7

\* A space of the tables and its sum, and what changing one of them does to it.
LEMMA Spaced ==
  ASSUME NEW f \in Spaces, NEW t \in Tables, NEW n \in Nat
  PROVE  /\ f["tape"] \in Nat /\ f["prices"] \in Nat /\ f["rest"] \in Nat
         /\ f[t] \in Nat /\ Total(f) \in Nat /\ f[t] <= Total(f)
         /\ [f EXCEPT ![t] = n] \in Spaces /\ [f EXCEPT ![t] = n][t] = n
         /\ Total([f EXCEPT ![t] = n]) = Total(f) - f[t] + n
<1>1. Tables = {"tape", "prices", "rest"}
  BY DEF Tables
<1>2. f["tape"] \in Nat /\ f["prices"] \in Nat /\ f["rest"] \in Nat
  BY <1>1 DEF Spaces
<1>3. PICK g : g = [f EXCEPT ![t] = n]
  OBVIOUS
<1>4. g \in Spaces /\ g[t] = n /\ \A u \in Tables \ {t} : g[u] = f[u]
  BY <1>3 DEF Spaces
<1>5. g["tape"] + g["prices"] + g["rest"] = f["tape"] + f["prices"] + f["rest"] - f[t] + n
  <2>1. CASE t = "tape"
    BY <1>1, <1>2, <1>4, <2>1
  <2>2. CASE t = "prices"
    BY <1>1, <1>2, <1>4, <2>2
  <2>3. CASE t = "rest"
    BY <1>1, <1>2, <1>4, <2>3
  <2>4. QED
    BY <1>1, <2>1, <2>2, <2>3
<1>6. f[t] <= f["tape"] + f["prices"] + f["rest"] /\ f[t] \in Nat
  BY <1>1, <1>2
<1>7. QED
  BY <1>2, <1>3, <1>4, <1>5, <1>6 DEF Total

\* What a file of these parts weighs.
LEMMA FileWeight ==
  ASSUME NEW d \in Disk
  PROVE  /\ d.tape \in Tapes /\ d.dead \in Spaces /\ d.free \in Spaces
         /\ d.rows \in [{"prices", "rest"} -> Nat]
         /\ d.rows["prices"] \in Nat /\ d.rows["rest"] \in Nat
         /\ WeightOf(d.tape, Ages) \in Nat /\ Total(d.dead) \in Nat /\ Total(d.free) \in Nat
         /\ LiveOf(d) = WeightOf(d.tape, Ages) + d.rows["prices"] + d.rows["rest"]
         /\ LiveOf(d) \in Nat
         /\ FileOf(d) = LiveOf(d) + Total(d.dead) + Total(d.free) /\ FileOf(d) \in Nat
<1>1. /\ d.tape \in Tapes /\ d.dead \in Spaces /\ d.free \in Spaces
      /\ d.rows \in [{"prices", "rest"} -> Nat]
  BY DEF Disk
<1>2. d.rows["prices"] \in Nat /\ d.rows["rest"] \in Nat
  BY <1>1
<1>3. TapeWeight(d) \in Nat /\ TapeWeight(d) = WeightOf(d.tape, Ages)
  BY <1>1, Weighed
<1>4. Total(d.dead) \in Nat /\ Total(d.free) \in Nat
  <2>1. "tape" \in Tables /\ 0 \in Nat
    BY DEF Tables
  <2>2. QED
    BY <1>1, <2>1, Spaced
<1>5. LiveOf(d) = WeightOf(d.tape, Ages) + d.rows["prices"] + d.rows["rest"]
  BY <1>3 DEF LiveOf
<1>6. FileOf(d) = LiveOf(d) + Total(d.dead) + Total(d.free)
  BY DEF FileOf
<1>7. QED
  BY <1>1, <1>2, <1>3, <1>4, <1>5, <1>6

\* A write into the space of its table grows neither the free space nor the
\* file.
LEMMA IntoFile ==
  ASSUME NEW d \in Disk, NEW t \in Tables, NEW weight \in Nat
  PROVE  /\ Into(d, t, weight) \in Disk
         /\ Into(d, t, weight).tape = d.tape /\ Into(d, t, weight).rows = d.rows
         /\ Into(d, t, weight).dead = d.dead
         /\ LiveOf(Into(d, t, weight)) = LiveOf(d)
         /\ FileOf(Into(d, t, weight)) <= FileOf(d)
<1>1. d.free[t] \in Nat
  BY FileWeight, Spaced
<1>2. PICK n \in Nat : n = (IF d.free[t] > weight THEN d.free[t] - weight ELSE 0) /\ n <= d.free[t]
  BY <1>1
<1>3. PICK g : g = [d.free EXCEPT ![t] = n]
  OBVIOUS
<1>4. g \in Spaces /\ Total(g) = Total(d.free) - d.free[t] + n /\ Total(g) \in Nat
  <2>1. g \in Spaces /\ Total(g) = Total(d.free) - d.free[t] + n
    BY <1>3, FileWeight, Spaced
  <2>2. QED
    BY <2>1, Spaced
<1>5. PICK i : i = Into(d, t, weight)
  OBVIOUS
<1>6. i = [tape |-> d.tape, rows |-> d.rows, dead |-> d.dead, free |-> g]
  BY <1>2, <1>3, <1>5 DEF Into, Disk
<1>7. i \in Disk /\ i.tape = d.tape /\ i.rows = d.rows /\ i.dead = d.dead /\ i.free = g
  BY <1>4, <1>6, FileWeight DEF Disk
<1>8. LiveOf(i) = LiveOf(d) /\ FileOf(i) = LiveOf(i) + Total(d.dead) + Total(g)
  BY <1>7, FileWeight
<1>9. FileOf(i) <= FileOf(d)
  BY <1>1, <1>2, <1>4, <1>8, FileWeight
<1>10. QED
  BY <1>5, <1>7, <1>8, <1>9

\* Rows that are written where their table has space.
LEMMA WrittenFile ==
  ASSUME NEW d \in Disk
  PROVE  /\ d.tape[0] = "none" =>
              /\ Taped(d) \in Disk /\ LiveOf(Taped(d)) = LiveOf(d) + Weight["fat"]
              /\ Taped(d).tape = [d.tape EXCEPT ![0] = "fat"]
         /\ \A t \in {"prices", "rest"} :
              /\ Inserted(d, t) \in Disk /\ LiveOf(Inserted(d, t)) = LiveOf(d) + 1
              /\ Inserted(d, t).tape = d.tape
         /\ /\ Updated(d) \in Disk /\ LiveOf(Updated(d)) = LiveOf(d)
            /\ Updated(d).tape = d.tape
<1>1. {"tape", "prices", "rest"} \subseteq Tables /\ {1, 2} \subseteq Nat
  BY DEF Tables
<1>2. ASSUME d.tape[0] = "none"
      PROVE  /\ Taped(d) \in Disk /\ LiveOf(Taped(d)) = LiveOf(d) + Weight["fat"]
             /\ Taped(d).tape = [d.tape EXCEPT ![0] = "fat"]
  <2>1. PICK i : i = Into(d, "tape", 2)
    OBVIOUS
  <2>2. i \in Disk /\ i.tape = d.tape /\ i.rows = d.rows /\ LiveOf(i) = LiveOf(d)
    BY <1>1, <2>1, IntoFile
  <2>3. PICK k : k = [i.tape EXCEPT ![0] = "fat"]
    OBVIOUS
  <2>4. /\ k \in Tapes
        /\ WeightOf(k, Ages) + Weight["none"] = WeightOf(d.tape, Ages) + Weight["fat"]
    <3>1. d.tape \in Tapes /\ 0 \in Ages /\ "fat" \in {"none", "slim", "fat"}
      BY FileWeight, StorageConstants
    <3>2. /\ [d.tape EXCEPT ![0] = "fat"] \in Tapes
          /\ WeightOf([d.tape EXCEPT ![0] = "fat"], Ages) + Weight[d.tape[0]]
               = WeightOf(d.tape, Ages) + Weight["fat"]
      BY <3>1, Reweighed
    <3>3. k = [d.tape EXCEPT ![0] = "fat"]
      BY <2>2, <2>3
    <3>4. QED
      BY <1>2, <3>2, <3>3
  <2>5. PICK g : g = Taped(d)
    OBVIOUS
  <2>6. g = [tape |-> k, rows |-> i.rows, dead |-> i.dead, free |-> i.free]
    <3>1. Weight["fat"] = 2
      BY DEF Weight
    <3>2. QED
      BY <2>1, <2>2, <2>3, <2>5, <3>1 DEF Taped, Disk
  <2>7. g \in Disk /\ g.tape = k /\ g.rows = d.rows
    BY <2>2, <2>4, <2>6, FileWeight DEF Disk
  <2>8. Weight["none"] = 0 /\ Weight["fat"] = 2
    BY DEF Weight
  <2>9. LiveOf(g) = LiveOf(d) + 2
    <3>1. /\ LiveOf(g) = WeightOf(k, Ages) + d.rows["prices"] + d.rows["rest"]
          /\ WeightOf(k, Ages) \in Nat
      BY <2>7, FileWeight
    <3>2. QED
      BY <2>4, <2>8, <3>1, FileWeight
  <2>10. QED
    BY <2>2, <2>3, <2>5, <2>7, <2>8, <2>9
<1>3. ASSUME NEW t \in {"prices", "rest"}
      PROVE  /\ Inserted(d, t) \in Disk /\ LiveOf(Inserted(d, t)) = LiveOf(d) + 1
             /\ Inserted(d, t).tape = d.tape
  <2>1. PICK i : i = Into(d, t, 1)
    OBVIOUS
  <2>2. i \in Disk /\ i.tape = d.tape /\ i.rows = d.rows
    BY <1>1, <2>1, IntoFile
  <2>3. PICK r : r = [d.rows EXCEPT ![t] = @ + 1]
    OBVIOUS
  <2>4. /\ r \in [{"prices", "rest"} -> Nat]
        /\ r["prices"] + r["rest"] = d.rows["prices"] + d.rows["rest"] + 1
    <3>1. CASE t = "prices"
      BY <2>3, <3>1, FileWeight
    <3>2. CASE t = "rest"
      BY <2>3, <3>2, FileWeight
    <3>3. QED
      BY <3>1, <3>2
  <2>5. PICK g : g = Inserted(d, t)
    OBVIOUS
  <2>6. g = [tape |-> i.tape, rows |-> r, dead |-> i.dead, free |-> i.free]
    BY <2>1, <2>2, <2>3, <2>5 DEF Inserted, Disk
  <2>7. g \in Disk /\ g.tape = d.tape /\ g.rows = r
    BY <2>2, <2>4, <2>6, FileWeight DEF Disk
  <2>8. LiveOf(g) = LiveOf(d) + 1
    <3>1. LiveOf(g) = WeightOf(d.tape, Ages) + r["prices"] + r["rest"]
      BY <2>7, FileWeight
    <3>2. r["prices"] \in Nat /\ r["rest"] \in Nat
      BY <2>4
    <3>3. QED
      BY <2>4, <3>1, <3>2, FileWeight
  <2>9. QED
    BY <2>5, <2>7, <2>8
<1>4. /\ Updated(d) \in Disk /\ LiveOf(Updated(d)) = LiveOf(d)
      /\ Updated(d).tape = d.tape
  <2>1. PICK i : i = Into(d, "rest", 1)
    OBVIOUS
  <2>2. i \in Disk /\ i.tape = d.tape /\ i.rows = d.rows /\ LiveOf(i) = LiveOf(d)
    BY <1>1, <2>1, IntoFile
  <2>3. PICK n \in Nat : n = i.dead["rest"] + 1
    <3>1. i.dead["rest"] \in Nat
      BY <1>1, <2>2, FileWeight, Spaced
    <3>2. QED
      BY <3>1
  <2>4. PICK x : x = [i.dead EXCEPT !["rest"] = n]
    OBVIOUS
  <2>5. x \in Spaces
    BY <1>1, <2>2, <2>3, <2>4, FileWeight, Spaced
  <2>6. PICK g : g = Updated(d)
    OBVIOUS
  <2>7. g = [tape |-> i.tape, rows |-> i.rows, dead |-> x, free |-> i.free]
    BY <2>1, <2>2, <2>3, <2>4, <2>6 DEF Updated, Disk
  <2>8. g \in Disk /\ g.tape = d.tape /\ g.rows = d.rows
    BY <2>2, <2>5, <2>7, FileWeight DEF Disk
  <2>9. LiveOf(g) = LiveOf(d)
    BY <2>8, FileWeight
  <2>10. QED
    BY <2>6, <2>8, <2>9
<1>5. QED
  BY <1>2, <1>3, <1>4

\* Deleted rows leave their weight dead in the file.
LEMMA PrunedFile ==
  ASSUME NEW d \in Disk, NEW rows \in SUBSET Ages
  PROVE  /\ Pruned(d, rows) \in Disk
         /\ FileOf(Pruned(d, rows)) = FileOf(d) /\ LiveOf(Pruned(d, rows)) <= LiveOf(d)
         /\ \A a \in Ages \ rows : Pruned(d, rows).tape[a] = d.tape[a]
<1> DEFINE Kept(t, S) == {a \in S : t[a] # "none"}
           Fats(t, S) == {a \in S : t[a] = "fat"}
           t == [a \in Ages |-> IF a \in rows THEN "none" ELSE d.tape[a]]
<1>1. d.tape \in Tapes
  BY DEF Disk
<1>2. t \in Tapes
  BY <1>1 DEF Tapes
<1>3. PICK gone \in Nat : gone = WeightOf(d.tape, rows)
  BY <1>1, Weighed
<1>4. /\ Kept(t, Ages) = Kept(d.tape, Ages) \ Kept(d.tape, rows)
      /\ Fats(t, Ages) = Fats(d.tape, Ages) \ Fats(d.tape, rows)
      /\ Kept(d.tape, Ages) \cap Kept(d.tape, rows) = Kept(d.tape, rows)
      /\ Fats(d.tape, Ages) \cap Fats(d.tape, rows) = Fats(d.tape, rows)
  OBVIOUS
<1>5. /\ IsFiniteSet(Kept(d.tape, Ages)) /\ IsFiniteSet(Fats(d.tape, Ages))
      /\ IsFiniteSet(Kept(d.tape, rows)) /\ IsFiniteSet(Fats(d.tape, rows))
      /\ IsFiniteSet(Kept(t, Ages)) /\ IsFiniteSet(Fats(t, Ages))
  <2>1. \A S \in SUBSET Ages : IsFiniteSet(S)
    BY FS_Subset, StorageConstants
  <2>2. QED
    BY <2>1
<1>6. /\ Cardinality(Kept(d.tape, Ages)) \in Nat /\ Cardinality(Fats(d.tape, Ages)) \in Nat
      /\ Cardinality(Kept(d.tape, rows)) \in Nat /\ Cardinality(Fats(d.tape, rows)) \in Nat
      /\ Cardinality(Kept(t, Ages)) \in Nat /\ Cardinality(Fats(t, Ages)) \in Nat
  BY <1>5, FS_CardinalityType
<1> HIDE DEF Kept, Fats
<1>7. /\ Cardinality(Kept(t, Ages)) = Cardinality(Kept(d.tape, Ages)) - Cardinality(Kept(d.tape, rows))
      /\ Cardinality(Fats(t, Ages)) = Cardinality(Fats(d.tape, Ages)) - Cardinality(Fats(d.tape, rows))
  <2>1. \A A, B : IsFiniteSet(A) /\ A \cap B = B
                   => Cardinality(A \ B) = Cardinality(A) - Cardinality(B)
    <3> TAKE A, B
    <3> SUFFICES ASSUME IsFiniteSet(A), A \cap B = B
                 PROVE  Cardinality(A \ B) = Cardinality(A) - Cardinality(B)
      OBVIOUS
    <3>1. QED
      BY FS_Difference
  <2> HIDE DEF t
  <2>2. QED
    BY <1>4, <1>5, <2>1
<1>8. /\ WeightOf(t, Ages) = Cardinality(Kept(t, Ages)) + Cardinality(Fats(t, Ages))
      /\ WeightOf(d.tape, Ages) = Cardinality(Kept(d.tape, Ages)) + Cardinality(Fats(d.tape, Ages))
      /\ gone = Cardinality(Kept(d.tape, rows)) + Cardinality(Fats(d.tape, rows))
  BY <1>3 DEF WeightOf, Kept, Fats
<1>9. WeightOf(t, Ages) = WeightOf(d.tape, Ages) - gone
  BY <1>6, <1>7, <1>8
<1>10. PICK k : k = t
  OBVIOUS
<1>11. \A a \in Ages \ rows : k[a] = d.tape[a]
  BY <1>10
<1>12. SumFunctionOnSet(Weights(d), rows) = gone
  BY <1>1, <1>3, Weighed
<1>13. PICK p : p = Pruned(d, rows)
  OBVIOUS
<1>14. "tape" \in Tables
  BY DEF Tables
<1>15. PICK n \in Nat : n = d.dead["tape"] + gone
  <2>1. d.dead["tape"] \in Nat
    BY <1>14, FileWeight, Spaced
  <2>2. QED
    BY <2>1
<1>16. PICK x : x = [d.dead EXCEPT !["tape"] = n]
  OBVIOUS
<1>17. x \in Spaces /\ Total(x) = Total(d.dead) + gone
  <2>1. x \in Spaces /\ Total(x) = Total(d.dead) - d.dead["tape"] + n
    BY <1>14, <1>16, FileWeight, Spaced
  <2>2. d.dead["tape"] \in Nat
    BY <1>14, FileWeight, Spaced
  <2>3. QED
    BY <1>15, <2>1, <2>2, FileWeight
<1>18. p = [tape |-> k, rows |-> d.rows, dead |-> x, free |-> d.free]
  BY <1>10, <1>12, <1>13, <1>15, <1>16 DEF Pruned, Disk
<1>19. p \in Disk /\ p.tape = k /\ p.rows = d.rows /\ p.dead = x /\ p.free = d.free
  BY <1>2, <1>10, <1>17, <1>18, FileWeight DEF Disk
<1>20. /\ LiveOf(p) = WeightOf(k, Ages) + d.rows["prices"] + d.rows["rest"]
       /\ FileOf(p) = LiveOf(p) + Total(x) + Total(d.free) /\ WeightOf(k, Ages) \in Nat
  BY <1>19, FileWeight
<1>21. LiveOf(p) <= LiveOf(d) /\ FileOf(p) = FileOf(d)
  BY <1>9, <1>10, <1>17, <1>20, FileWeight
<1>22. QED
  BY <1>11, <1>13, <1>19, <1>21

\* Thinned snapshots are dead, and still in the file.
LEMMA ThinnedFile ==
  ASSUME NEW d \in Disk, NEW weight \in Nat, weight <= d.rows["prices"]
  PROVE  /\ Thinned(d, weight) \in Disk /\ Thinned(d, weight).tape = d.tape
         /\ FileOf(Thinned(d, weight)) = FileOf(d) /\ LiveOf(Thinned(d, weight)) <= LiveOf(d)
<1>1. "prices" \in Tables
  BY DEF Tables
<1>2. PICK m \in Nat : m = d.rows["prices"] - weight
  BY FileWeight
<1>3. PICK r : r = [d.rows EXCEPT !["prices"] = m]
  OBVIOUS
<1>4. r \in [{"prices", "rest"} -> Nat] /\ r["prices"] = m /\ r["rest"] = d.rows["rest"]
  BY <1>3, FileWeight
<1>5. PICK n \in Nat : n = d.dead["prices"] + weight
  <2>1. d.dead["prices"] \in Nat
    BY <1>1, FileWeight, Spaced
  <2>2. QED
    BY <2>1
<1>6. PICK x : x = [d.dead EXCEPT !["prices"] = n]
  OBVIOUS
<1>7. x \in Spaces /\ Total(x) = Total(d.dead) + weight
  <2>1. x \in Spaces /\ Total(x) = Total(d.dead) - d.dead["prices"] + n
    BY <1>1, <1>6, FileWeight, Spaced
  <2>2. d.dead["prices"] \in Nat
    BY <1>1, FileWeight, Spaced
  <2>3. QED
    BY <1>5, <2>1, <2>2, FileWeight
<1>8. PICK p : p = Thinned(d, weight)
  OBVIOUS
<1>9. p = [tape |-> d.tape, rows |-> r, dead |-> x, free |-> d.free]
  BY <1>2, <1>3, <1>5, <1>6, <1>8 DEF Thinned, Disk
<1>10. p \in Disk /\ p.tape = d.tape /\ p.rows = r /\ p.dead = x /\ p.free = d.free
  BY <1>4, <1>7, <1>9, FileWeight DEF Disk
<1>11. /\ LiveOf(p) = WeightOf(d.tape, Ages) + m + d.rows["rest"]
       /\ FileOf(p) = LiveOf(p) + Total(x) + Total(d.free)
  BY <1>4, <1>10, FileWeight
<1>12. LiveOf(p) <= LiveOf(d) /\ FileOf(p) = FileOf(d)
  BY <1>2, <1>7, <1>11, FileWeight
<1>13. QED
  BY <1>8, <1>10, <1>12

\* A VACUUM makes dead space reusable, and the file keeps its size.
LEMMA VacuumedFile ==
  ASSUME NEW d \in Disk, NEW tables \in SUBSET Tables
  PROVE  /\ Vacuumed(d, tables) \in Disk /\ Vacuumed(d, tables).tape = d.tape
         /\ FileOf(Vacuumed(d, tables)) = FileOf(d) /\ LiveOf(Vacuumed(d, tables)) = LiveOf(d)
<1>1. PICK f : f = [t \in Tables |-> IF t \in tables THEN d.free[t] + d.dead[t] ELSE d.free[t]]
  OBVIOUS
<1>2. PICK x : x = [t \in Tables |-> IF t \in tables THEN 0 ELSE d.dead[t]]
  OBVIOUS
<1>3. d.free \in Spaces /\ d.dead \in Spaces
  BY FileWeight
<1>4. /\ f \in Spaces /\ x \in Spaces
      /\ \A t \in Tables : f[t] + x[t] = d.free[t] + d.dead[t]
      /\ \A t \in Tables : {f[t], x[t], d.free[t], d.dead[t]} \subseteq Nat
  <2>1. \A t \in Tables : d.free[t] \in Nat /\ d.dead[t] \in Nat
    BY <1>3 DEF Spaces
  <2>2. \A t \in Tables : f[t] \in Nat /\ x[t] \in Nat /\ f[t] + x[t] = d.free[t] + d.dead[t]
    BY <1>1, <1>2, <2>1
  <2>3. QED
    BY <1>1, <1>2, <2>1, <2>2 DEF Spaces
<1>5. Total(f) + Total(x) = Total(d.free) + Total(d.dead) /\ Total(f) \in Nat /\ Total(x) \in Nat
  <2>1. Tables = {"tape", "prices", "rest"}
    BY DEF Tables
  <2>2. /\ f["tape"] + x["tape"] = d.free["tape"] + d.dead["tape"]
        /\ f["prices"] + x["prices"] = d.free["prices"] + d.dead["prices"]
        /\ f["rest"] + x["rest"] = d.free["rest"] + d.dead["rest"]
    BY <1>4, <2>1
  <2>3. \A g \in Spaces : /\ g["tape"] \in Nat /\ g["prices"] \in Nat /\ g["rest"] \in Nat
                          /\ Total(g) = g["tape"] + g["prices"] + g["rest"]
    BY <2>1 DEF Spaces, Total
  <2>4. QED
    BY <1>3, <1>4, <2>2, <2>3
<1>6. PICK v : v = Vacuumed(d, tables)
  OBVIOUS
<1>7. v = [tape |-> d.tape, rows |-> d.rows, dead |-> x, free |-> f]
  BY <1>1, <1>2, <1>6 DEF Vacuumed, Disk
<1>8. v \in Disk /\ v.tape = d.tape /\ v.rows = d.rows /\ v.dead = x /\ v.free = f
  BY <1>4, <1>7, FileWeight DEF Disk
<1>9. LiveOf(v) = LiveOf(d) /\ FileOf(v) = LiveOf(v) + Total(x) + Total(f)
  BY <1>8, FileWeight
<1>10. FileOf(v) = FileOf(d)
  BY <1>5, <1>9, FileWeight
<1>11. QED
  BY <1>6, <1>8, <1>9, <1>10

\* Payloads that are nulled leave less live data and no day without its rows.
LEMMA NulledFile ==
  ASSUME NEW d \in Disk, NEW rows \in SUBSET Ages, \A a \in rows : d.tape[a] = "fat"
  PROVE  /\ Nulled(d, rows) \in Disk /\ LiveOf(Nulled(d, rows)) <= LiveOf(d)
         /\ \A a \in Ages : d.tape[a] # "none" => Nulled(d, rows).tape[a] # "none"
<1>1. "tape" \in Tables
  BY DEF Tables
<1>2. IsFiniteSet(rows)
  BY StorageConstants, FS_Subset
<1>3. PICK c \in Nat : c = Cardinality(rows)
  BY <1>2, FS_CardinalityType
<1>4. Weight["slim"] = 1 /\ Weight["fat"] = 2
  BY DEF Weight
<1>5. PICK i : i = Into(d, "tape", c * 1)
  OBVIOUS
<1>6. i \in Disk /\ i.tape = d.tape /\ i.rows = d.rows
  <2>1. c * 1 \in Nat
    OBVIOUS
  <2>2. QED
    BY <1>1, <1>5, <2>1, IntoFile
<1>7. PICK t : t = [a \in Ages |-> IF a \in rows THEN "slim" ELSE d.tape[a]]
  OBVIOUS
<1>8. /\ t \in Tapes
      /\ \A a \in Ages : /\ d.tape[a] # "none" <=> t[a] # "none"
                         /\ t[a] = "fat" => d.tape[a] = "fat"
  BY <1>7, FileWeight DEF Tapes
<1>9. PICK n \in Nat : n = i.dead["tape"] + c * 2
  <2>1. i.dead["tape"] \in Nat
    BY <1>1, <1>6, FileWeight, Spaced
  <2>2. QED
    BY <2>1
<1>10. PICK x : x = [i.dead EXCEPT !["tape"] = n]
  OBVIOUS
<1>11. x \in Spaces
  BY <1>1, <1>6, <1>10, FileWeight, Spaced
<1>12. PICK g : g = Nulled(d, rows)
  OBVIOUS
<1>13. g = [tape |-> t, rows |-> i.rows, dead |-> x, free |-> i.free]
  BY <1>3, <1>4, <1>5, <1>6, <1>7, <1>9, <1>10, <1>12 DEF Nulled, Disk
<1>14. g \in Disk /\ g.tape = t /\ g.rows = d.rows
  BY <1>6, <1>8, <1>11, <1>13, FileWeight DEF Disk
<1>15. WeightOf(t, Ages) <= WeightOf(d.tape, Ages) /\ WeightOf(t, Ages) \in Nat
  BY <1>8, FileWeight, LighterTape
<1>16. LiveOf(g) <= LiveOf(d)
  BY <1>14, <1>15, FileWeight
<1>17. QED
  BY <1>8, <1>12, <1>14, <1>16

-----------------------------------------------------------------------------
(***************************************************************************)
(* The storage: its invariant.                                             *)
(***************************************************************************)

JobSteps == {"idle", "apply", "compact", "vacuum"} \cup AfterMeasuring

Jobs == [step : JobSteps, failed : BOOLEAN, over : BOOLEAN, days : 0..Keep]

Counts == [verdict : 0..DayWrites, measure : 0..DayWrites]

\* Every variable is of its domain, and the file is within the cap.
StorageTyped ==
  /\ disk \in Disk /\ Fits(disk)
  /\ job \in Jobs
  /\ shrink \in -1..StallRounds
  /\ lastRun \in {"none", "green", "red"}
  /\ since \in Counts /\ since.measure <= since.verdict

\* A job that is not red so far has measured the live data below the fail line,
\* and what it does not know of has been written since.
MeasuredBounds ==
  job.step \in AfterMeasuring /\ ~job.failed /\ ~job.over => LiveOf(disk) < FailLive + since.measure

\* The defence cuts while live data is high, and to no window below the floor.
Cutting ==
  /\ job.step \in {"cut", "recheck"} => Floor <= job.days
  /\ job.step = "cut" => LiveOf(disk) >= Target

\* The inductive invariant.
StorageInv == StorageTyped /\ GreenBoundsLive /\ MeasuredBounds /\ Cutting

\* What CutOnlyWhileHigh says of a step.
DaysKept ==
  \A a \in Ages :
    job.step # "idle" /\ disk.tape[a] # "none" /\ disk'.tape[a] = "none"
      => a > Floor /\ (a > Keep \/ LiveOf(disk) >= Target)

\* The empty file satisfies it.
LEMMA StorageStarts == StorageInit => StorageInv
<1> SUFFICES ASSUME StorageInit PROVE StorageInv
  OBVIOUS
<1>1. /\ disk \in Disk /\ \A a \in Ages : disk.tape[a] = "none"
      /\ disk.rows["prices"] = 0 /\ disk.rows["rest"] = 0
      /\ \A t \in Tables : disk.dead[t] = 0 /\ disk.free[t] = 0
  BY DEF StorageInit, Disk, Tapes, Spaces
<1>2. WeightOf(disk.tape, Ages) = 0
  <2>1. {a \in Ages : disk.tape[a] # "none"} = {} /\ {a \in Ages : disk.tape[a] = "fat"} = {}
    BY <1>1
  <2>2. QED
    BY <2>1, FS_EmptySet DEF WeightOf
<1>3. Total(disk.dead) = 0 /\ Total(disk.free) = 0
  BY <1>1 DEF Total, Tables
<1>4. LiveOf(disk) = 0 /\ FileOf(disk) = 0
  BY <1>1, <1>2, <1>3, FileWeight
<1>5. /\ job.step = "idle" /\ job.days = 0 /\ job \in Jobs
      /\ since \in Counts /\ since.measure = 0 /\ since.verdict = 0
  BY StorageConstants DEF StorageInit, NoJob, Jobs, JobSteps, NotWritten, Counts
<1>6. Fits(disk) /\ shrink \in -1..StallRounds /\ lastRun = "none"
  BY <1>4, StorageConstants DEF Fits, StorageInit
<1>7. QED
  BY <1>1, <1>5, <1>6
     DEF StorageInv, StorageTyped, GreenBoundsLive, MeasuredBounds, Cutting, AfterMeasuring

\* What is proved of a file holds of the one after the step.
LEMMA NextFile ==
  ASSUME NEW d \in Disk, disk' = d, FileOf(d) <= Cap
  PROVE  /\ disk' \in Disk /\ Fits(disk)'
         /\ LiveOf(disk)' = LiveOf(d)
<1>1. Fits(d)
  BY DEF Fits
<1>2. Fits(disk)'
  BY <1>1 DEF Fits
<1>3. QED
  BY <1>2

\* A step of no job that adds no live data keeps the invariant.
LEMMA Maintained ==
  ASSUME StorageInv, NEW d \in Disk, disk' = d, FileOf(d) <= Cap,
         LiveOf(d) <= LiveOf(disk), job.step = "cut" => LiveOf(d) = LiveOf(disk),
         UNCHANGED <<job, lastRun, since>>, shrink' \in -1..StallRounds
  PROVE  StorageInv'
<1>1. disk' \in Disk /\ Fits(disk)' /\ LiveOf(disk)' = LiveOf(d)
  BY NextFile
<1>2. StorageTyped'
  BY <1>1 DEF StorageInv, StorageTyped
<1>3. LiveOf(d) \in Nat /\ LiveOf(disk) \in Nat
  BY FileWeight DEF StorageInv, StorageTyped
<1>4. since.verdict \in Nat /\ since.measure \in Nat /\ FailLive \in Nat
  BY StorageConstants DEF StorageInv, StorageTyped, Counts
<1>5. GreenBoundsLive' /\ MeasuredBounds'
  BY <1>1, <1>3, <1>4 DEF StorageInv, GreenBoundsLive, MeasuredBounds
<1>6. Cutting'
  BY <1>1 DEF StorageInv, Cutting
<1>7. QED
  BY <1>2, <1>5, <1>6 DEF StorageInv

\* What is written is counted, since the last verdict and since the last
\* measurement.
LEMMA WriteKept ==
  ASSUME StorageInv, NEW weight \in Nat, NEW g \in Disk,
         LiveOf(disk) <= LiveOf(g), LiveOf(g) <= LiveOf(disk) + weight,
         \A a \in Ages : disk.tape[a] # "none" => g.tape[a] # "none",
         Write(weight, g)
  PROVE  StorageInv' /\ DaysKept
<1>1. UNCHANGED <<job, shrink, lastRun>> /\ since.verdict + weight <= DayWrites
  BY DEF Write
<1>2. CASE ~Fits(g)
  <2>1. UNCHANGED <<disk, since>>
    BY <1>2 DEF Write
  <2>2. disk \in Disk /\ FileOf(disk) <= Cap
    BY DEF StorageInv, StorageTyped, Fits
  <2>3. disk' = disk /\ shrink' \in -1..StallRounds /\ LiveOf(disk) <= LiveOf(disk)
    BY <1>1, <2>1, <2>2, FileWeight DEF StorageInv, StorageTyped
  <2>4. StorageInv'
    BY <1>1, <2>1, <2>2, <2>3, Maintained
  <2>5. QED
    BY <2>1, <2>4 DEF DaysKept
<1>3. CASE Fits(g)
  <2>1. disk' = g
    BY <1>3 DEF Write
  <2>2. FileOf(g) <= Cap
    BY <1>3 DEF Fits
  <2>3. disk' \in Disk /\ Fits(disk)' /\ LiveOf(disk)' = LiveOf(g)
    BY <2>1, <2>2, NextFile
  <2>4. LiveOf(g) \in Nat /\ LiveOf(disk) \in Nat
    BY FileWeight DEF StorageInv, StorageTyped
  <2>5. PICK v \in Nat, m \in Nat : v = since.verdict /\ m = since.measure /\ m <= v
    BY StorageConstants DEF StorageInv, StorageTyped, Counts
  <2>6. PICK more \in Nat : /\ more = (IF job.step \in AfterMeasuring THEN weight ELSE 0)
                            /\ more <= weight
    OBVIOUS
  <2>7. since' = [verdict |-> v + weight, measure |-> m + more]
    BY <1>3, <2>5, <2>6 DEF Write
  <2>8. /\ since' \in Counts /\ since'.verdict = v + weight /\ since'.measure = m + more
        /\ since'.measure <= since'.verdict
    <3>1. v + weight \in 0..DayWrites /\ m + more \in 0..DayWrites /\ m + more <= v + weight
      BY <1>1, <2>5, <2>6, StorageConstants
    <3>2. QED
      BY <2>7, <3>1 DEF Counts
  <2>9. StorageTyped'
    BY <1>1, <2>3, <2>8 DEF StorageInv, StorageTyped
  <2>10. GreenBoundsLive'
    BY <1>1, <2>3, <2>4, <2>5, <2>8, StorageConstants DEF StorageInv, GreenBoundsLive
  <2>11. MeasuredBounds'
    <3>1. SUFFICES ASSUME (job.step \in AfterMeasuring /\ ~job.failed /\ ~job.over)'
                   PROVE  LiveOf(g) < FailLive + (m + more)
      BY <2>3, <2>8 DEF MeasuredBounds
    <3>2. job.step \in AfterMeasuring /\ LiveOf(disk) < FailLive + m
      BY <1>1, <2>5, <3>1 DEF StorageInv, MeasuredBounds
    <3>3. more = weight
      BY <2>6, <3>2
    <3>4. QED
      BY <2>4, <2>5, <3>2, <3>3, StorageConstants
  <2>12. Cutting'
    BY <1>1, <2>3, <2>4, StorageConstants DEF StorageInv, Cutting
  <2>13. QED
    BY <2>1, <2>9, <2>10, <2>11, <2>12 DEF StorageInv, DaysKept
<1>4. QED
  BY <1>2, <1>3

\* The recorder, the ingest and the updates.
LEMMA WritesKept ==
  ASSUME StorageInv, RecordTape \/ InsertRows \/ UpdateRows
  PROVE  StorageInv' /\ DaysKept
<1>1. disk \in Disk /\ disk.tape \in Tapes /\ LiveOf(disk) \in Nat
  BY FileWeight DEF StorageInv, StorageTyped
<1>2. CASE RecordTape
  <2>1. PICK g : g = Taped(disk)
    OBVIOUS
  <2>2. disk.tape[0] = "none" /\ Write(Weight["fat"], g)
    BY <1>2, <2>1 DEF RecordTape
  <2>3. PICK w \in Nat : w = Weight["fat"]
    BY DEF Weight
  <2>4. g \in Disk /\ LiveOf(g) = LiveOf(disk) + w /\ g.tape = [disk.tape EXCEPT ![0] = "fat"]
    BY <1>1, <2>1, <2>2, <2>3, WrittenFile
  <2>5. \A a \in Ages : disk.tape[a] # "none" => g.tape[a] # "none"
    BY <1>1, <2>4 DEF Tapes
  <2>6. LiveOf(disk) <= LiveOf(g) /\ LiveOf(g) <= LiveOf(disk) + w /\ Write(w, g)
    BY <1>1, <2>2, <2>3, <2>4
  <2>7. QED
    BY <2>4, <2>5, <2>6, WriteKept
<1>3. CASE InsertRows
  <2>1. PICK t \in {"prices", "rest"} : Write(1, Inserted(disk, t))
    BY <1>3 DEF InsertRows
  <2>2. PICK g : g = Inserted(disk, t)
    OBVIOUS
  <2>3. g \in Disk /\ LiveOf(g) = LiveOf(disk) + 1 /\ g.tape = disk.tape
    BY <1>1, <2>1, <2>2, WrittenFile
  <2>4. LiveOf(disk) <= LiveOf(g) /\ LiveOf(g) <= LiveOf(disk) + 1 /\ Write(1, g)
        /\ \A a \in Ages : disk.tape[a] # "none" => g.tape[a] # "none"
    BY <1>1, <2>1, <2>2, <2>3
  <2>5. QED
    BY <2>3, <2>4, WriteKept
<1>4. CASE UpdateRows
  <2>1. PICK g : g = Updated(disk)
    OBVIOUS
  <2>2. g \in Disk /\ LiveOf(g) = LiveOf(disk) /\ g.tape = disk.tape
    BY <1>1, <2>1, WrittenFile
  <2>3. LiveOf(disk) <= LiveOf(g) /\ LiveOf(g) <= LiveOf(disk) + 1 /\ Write(1, g)
        /\ \A a \in Ages : disk.tape[a] # "none" => g.tape[a] # "none"
    BY <1>1, <1>4, <2>1, <2>2 DEF UpdateRows
  <2>4. QED
    BY <2>2, <2>3, WriteKept
<1>5. QED
  BY <1>2, <1>3, <1>4

\* Autovacuum and midnight.
LEMMA TimeKept ==
  ASSUME StorageInv, Autovacuum \/ NewDay
  PROVE  StorageInv' /\ DaysKept
<1>1. disk \in Disk /\ disk.tape \in Tapes /\ FileOf(disk) <= Cap /\ LiveOf(disk) \in Nat
  BY FileWeight DEF StorageInv, StorageTyped, Fits
<1>2. UNCHANGED <<job, lastRun, since>> /\ shrink' \in -1..StallRounds
  BY DEF Autovacuum, NewDay, StorageInv, StorageTyped
<1>3. CASE Autovacuum
  <2>1. PICK t \in Tables : disk' = Vacuumed(disk, {t})
    BY <1>3 DEF Autovacuum
  <2>2. PICK v : v = Vacuumed(disk, {t})
    OBVIOUS
  <2>3. {t} \in SUBSET Tables
    BY <2>1
  <2>4. /\ v \in Disk /\ v.tape = disk.tape
        /\ FileOf(v) = FileOf(disk) /\ LiveOf(v) = LiveOf(disk)
    BY <1>1, <2>2, <2>3, VacuumedFile
  <2>5. StorageInv'
    BY <1>1, <1>2, <2>1, <2>2, <2>4, Maintained
  <2>6. QED
    BY <2>1, <2>2, <2>4, <2>5 DEF DaysKept
<1>4. CASE NewDay
  <2>1. PICK t : t = [a \in Ages |-> IF a = 0 THEN "none" ELSE disk.tape[a - 1]]
    OBVIOUS
  <2>2. t \in Tapes /\ WeightOf(t, Ages) <= WeightOf(disk.tape, Ages)
    BY <1>1, <2>1, AgedWeight
  <2>3. PICK d : d = [disk EXCEPT !.tape = t]
    OBVIOUS
  <2>4. d = [tape |-> t, rows |-> disk.rows, dead |-> disk.dead, free |-> disk.free]
    BY <1>1, <2>3 DEF Disk
  <2>5. /\ d \in Disk /\ d.tape = t /\ d.rows = disk.rows /\ d.dead = disk.dead
        /\ d.free = disk.free
    BY <1>1, <2>2, <2>4, FileWeight DEF Disk
  <2>6. LiveOf(d) <= LiveOf(disk) /\ FileOf(d) <= FileOf(disk)
    BY <1>1, <2>2, <2>5, FileWeight
  <2>7. FileOf(d) <= Cap
    BY <1>1, <2>5, <2>6, FileWeight, StorageConstants
  <2>8. disk' = d /\ job.step = "idle"
    BY <1>4, <2>1, <2>3 DEF NewDay, Quiet
  <2>9. QED
    BY <1>2, <2>5, <2>6, <2>7, <2>8, Maintained DEF DaysKept
<1>5. QED
  BY <1>3, <1>4

\* The job goes to its next step, failed for good once a step has.
LEMMA JobMoves ==
  ASSUME StorageTyped, NEW s \in JobSteps, To(s) \/ Fails(s)
  PROVE  /\ job' \in Jobs /\ job'.step = s /\ job'.days = job.days
         /\ Fails(s) => job'.failed
         /\ ~job'.failed => ~job.failed
         /\ ~job'.over => ~job.over
<1>1. PICK f \in BOOLEAN, o \in BOOLEAN, n \in 0..Keep :
        /\ f = job.failed /\ o = job.over /\ n = job.days
        /\ job = [step |-> job.step, failed |-> f, over |-> o, days |-> n]
  BY DEF StorageTyped, Jobs
<1>2. CASE To(s)
  <2>1. job' = [step |-> s, failed |-> f, over |-> o, days |-> n]
    BY <1>1, <1>2 DEF To
  <2>2. Fails(s) => job'.failed
    <3>1. Fails(s) => job'.failed = TRUE
      BY <1>1 DEF Fails
    <3>2. QED
      BY <3>1
  <2>3. QED
    BY <1>1, <2>1, <2>2 DEF Jobs
<1>3. CASE Fails(s)
  <2>1. job' = [step |-> s, failed |-> TRUE, over |-> o, days |-> n]
    BY <1>1, <1>3 DEF Fails
  <2>2. QED
    BY <1>1, <2>1 DEF Jobs
<1>4. QED
  BY <1>2, <1>3

\* The file is measured: what is written from now on is all that is not known.
LEMMA Remeasured ==
  ASSUME StorageTyped, NEW s \in JobSteps, Measure(s, disk)
  PROVE  /\ job' \in Jobs /\ job'.step = s
         /\ ~job'.over => LiveOf(disk) < FailLive
         /\ ~job'.failed => ~job.failed
         /\ since' \in Counts /\ since'.measure = 0 /\ since'.verdict = since.verdict
<1>1. PICK f \in BOOLEAN, o \in BOOLEAN, n \in 0..Keep :
        /\ f = job.failed /\ n = job.days
        /\ job = [step |-> job.step, failed |-> f, over |-> o, days |-> n]
  BY DEF StorageTyped, Jobs
<1>2. PICK c \in BOOLEAN : c = CapFail(disk)
  BY DEF CapFail
<1>3. ~c => LiveOf(disk) < FailLive
  <2>1. LiveOf(disk) \in Nat
    BY FileWeight DEF StorageTyped
  <2>2. ~CapFail(disk) => ~(LiveOf(disk) >= FailLive)
    BY DEF CapFail
  <2>3. ~(LiveOf(disk) >= FailLive) => LiveOf(disk) < FailLive
    BY <2>1, StorageConstants
  <2>4. QED
    BY <1>2, <2>2, <2>3, Zenon
<1>4. job' = [step |-> s, failed |-> f, over |-> c, days |-> n]
  BY <1>1, <1>2 DEF Measure
<1>5. since' \in Counts /\ since'.measure = 0 /\ since'.verdict = since.verdict
  <2>1. since = [verdict |-> since.verdict, measure |-> since.measure]
        /\ since.verdict \in 0..DayWrites
    BY DEF StorageTyped, Counts
  <2>2. since' = [verdict |-> since.verdict, measure |-> 0] /\ 0 \in 0..DayWrites
    BY <2>1, StorageConstants DEF Measure
  <2>3. QED
    BY <2>1, <2>2 DEF Counts
<1>6. QED
  BY <1>1, <1>3, <1>4, <1>5 DEF Jobs

\* A step of the job that adds no live data keeps the invariant, if what it
\* knows and what it is about to cut are right.
LEMMA JobKept ==
  ASSUME StorageInv, NEW d \in Disk, disk' = d, FileOf(d) <= Cap, LiveOf(d) <= LiveOf(disk),
         UNCHANGED <<shrink, lastRun>>, job' \in Jobs,
         since' \in Counts, since'.verdict = since.verdict, since'.measure <= since.verdict,
         job'.step \in AfterMeasuring /\ ~job'.failed /\ ~job'.over =>
           LiveOf(d) < FailLive + since'.measure,
         job'.step \in {"cut", "recheck"} => Floor <= job'.days,
         job'.step = "cut" => LiveOf(d) >= Target
  PROVE  StorageInv'
<1>1. disk' \in Disk /\ Fits(disk)' /\ LiveOf(disk)' = LiveOf(d)
  BY NextFile
<1>2. LiveOf(d) \in Nat /\ LiveOf(disk) \in Nat
  BY FileWeight DEF StorageInv, StorageTyped
<1>3. StorageTyped'
  BY <1>1 DEF StorageInv, StorageTyped
<1>4. GreenBoundsLive'
  <2>1. since.verdict \in Nat
    BY StorageConstants DEF StorageInv, StorageTyped, Counts
  <2>2. QED
    BY <1>1, <1>2, <2>1, StorageConstants DEF StorageInv, GreenBoundsLive
<1>5. MeasuredBounds'
  BY <1>1 DEF MeasuredBounds
<1>6. Cutting'
  BY <1>1 DEF Cutting
<1>7. QED
  BY <1>3, <1>4, <1>5, <1>6 DEF StorageInv

\* What is so in every state of the storage's runs.
LEMMA InvFacts ==
  ASSUME StorageInv
  PROVE  /\ disk \in Disk /\ disk.tape \in Tapes /\ FileOf(disk) <= Cap
         /\ LiveOf(disk) \in Nat /\ LiveOf(disk) <= LiveOf(disk)
         /\ since \in Counts /\ since.measure <= since.verdict
         /\ since.verdict \in Nat /\ since.measure \in Nat
         /\ job \in Jobs /\ job.days \in Nat
         /\ shrink \in -1..StallRounds
<1>1. disk \in Disk /\ since \in Counts /\ since.measure <= since.verdict /\ FileOf(disk) <= Cap
      /\ job \in Jobs /\ shrink \in -1..StallRounds
  BY DEF StorageInv, StorageTyped, Fits
<1>2. since.verdict \in Nat /\ since.measure \in Nat
  BY <1>1, StorageConstants DEF Counts
<1>3. job.days \in Nat
  BY <1>1, StorageConstants DEF Jobs
<1>4. LiveOf(disk) \in Nat /\ disk.tape \in Tapes
  BY <1>1, FileWeight
<1>5. QED
  BY <1>1, <1>2, <1>3, <1>4

\* The rows the job deletes are of days past their window.
LEMMA ThinnedPruned ==
  ASSUME StorageInv, NEW weight \in ThinWeights, NEW rows \in SUBSET Expired(disk, Keep),
         disk' = Pruned(Thinned(disk, weight), rows)
  PROVE  /\ Pruned(Thinned(disk, weight), rows) \in Disk
         /\ FileOf(Pruned(Thinned(disk, weight), rows)) <= Cap
         /\ LiveOf(Pruned(Thinned(disk, weight), rows)) <= LiveOf(disk)
         /\ DaysKept
<1>1. disk.rows["prices"] \in Nat
  BY InvFacts, FileWeight
<1>2. weight \in Nat /\ weight <= disk.rows["prices"]
  BY <1>1 DEF ThinWeights
<1>3. PICK d : d = Thinned(disk, weight)
  OBVIOUS
<1>4. d \in Disk /\ d.tape = disk.tape /\ FileOf(d) = FileOf(disk) /\ LiveOf(d) <= LiveOf(disk)
  BY <1>2, <1>3, InvFacts, ThinnedFile
<1>5. rows \in SUBSET Ages /\ \A a \in rows : a > Keep
  BY DEF Expired
<1>6. PICK g : g = Pruned(d, rows)
  OBVIOUS
<1>7. /\ g \in Disk /\ FileOf(g) = FileOf(d) /\ LiveOf(g) <= LiveOf(d)
      /\ \A a \in Ages \ rows : g.tape[a] = d.tape[a]
  BY <1>4, <1>5, <1>6, PrunedFile
<1>8. LiveOf(g) <= LiveOf(disk) /\ FileOf(g) <= Cap
  BY <1>4, <1>7, InvFacts, FileWeight
<1>9. DaysKept
  <2>1. SUFFICES ASSUME NEW a \in Ages, disk.tape[a] # "none", disk'.tape[a] = "none"
                 PROVE  a > Floor /\ a > Keep
    BY DEF DaysKept
  <2>2. a \in rows
    BY <1>3, <1>4, <1>6, <1>7, <2>1
  <2>3. QED
    BY <1>5, <2>2, StorageConstants
<1>10. QED
  BY <1>3, <1>6, <1>7, <1>8, <1>9

\* apply_retention, done or dead.
LEMMA ApplyKept ==
  ASSUME StorageInv, RetentionStarts \/ ApplyRetention \/ ApplyDies
  PROVE  StorageInv' /\ DaysKept
<1>1. CASE RetentionStarts
  <2>1. job' = [step |-> "apply", failed |-> FALSE, over |-> FALSE, days |-> 0]
    BY <1>1 DEF RetentionStarts, NoJob
  <2>2. job' \in Jobs /\ job'.step = "apply"
    BY <2>1, StorageConstants DEF Jobs, JobSteps
  <2>3. UNCHANGED <<disk, shrink, lastRun, since>> /\ disk' = disk /\ since' = since
    BY <1>1 DEF RetentionStarts
  <2>4. job'.step \notin AfterMeasuring /\ job'.step \notin {"cut", "recheck"} /\ job'.step # "cut"
    BY <2>2 DEF AfterMeasuring
  <2>5. StorageInv'
    BY <2>2, <2>3, <2>4, InvFacts, JobKept
  <2>6. DaysKept
    BY <1>1 DEF RetentionStarts, DaysKept
  <2>7. QED
    BY <2>5, <2>6
<1>2. CASE ApplyRetention
  <2>1. PICK weight \in ThinWeights : disk' = Pruned(Thinned(disk, weight), Expired(disk, Keep))
    BY <1>2 DEF ApplyRetention
  <2>2. PICK rows : rows = Expired(disk, Keep)
    OBVIOUS
  <2>3. PICK g : g = Pruned(Thinned(disk, weight), rows)
    OBVIOUS
  <2>4. g \in Disk /\ FileOf(g) <= Cap /\ LiveOf(g) <= LiveOf(disk) /\ DaysKept /\ disk' = g
    BY <2>1, <2>2, <2>3, ThinnedPruned
  <2>5. UNCHANGED <<shrink, lastRun, since>> /\ To("compact") /\ "compact" \in JobSteps
    BY <1>2 DEF ApplyRetention, JobSteps
  <2>6. job' \in Jobs /\ job'.step = "compact"
    BY <2>5, JobMoves DEF StorageInv
  <2>7. job'.step \notin AfterMeasuring /\ job'.step \notin {"cut", "recheck"} /\ job'.step # "cut"
    BY <2>6 DEF AfterMeasuring
  <2>8. StorageInv'
    BY <2>4, <2>5, <2>6, <2>7, InvFacts, JobKept
  <2>9. QED
    BY <2>4, <2>8
<1>3. CASE ApplyDies
  <2>1. PICK weight \in ThinWeights, rows \in SUBSET Expired(disk, Keep) :
          disk' = Pruned(Thinned(disk, weight), rows)
    BY <1>3 DEF ApplyDies
  <2>2. PICK g : g = Pruned(Thinned(disk, weight), rows)
    OBVIOUS
  <2>3. g \in Disk /\ FileOf(g) <= Cap /\ DaysKept /\ disk' = g
    BY <2>1, <2>2, ThinnedPruned
  <2>4. disk' \in Disk /\ Fits(disk)'
    BY <2>3, NextFile
  <2>5. /\ job' \in Jobs /\ job'.step = "idle" /\ lastRun' = "red" /\ shrink' = shrink
        /\ since' \in Counts /\ since'.measure = 0 /\ since'.verdict = 0
    BY <1>3, StorageConstants DEF ApplyDies, NoJob, NotWritten, Jobs, JobSteps, Counts
  <2>6. StorageTyped'
    BY <2>4, <2>5 DEF StorageInv, StorageTyped
  <2>7. GreenBoundsLive' /\ MeasuredBounds' /\ Cutting'
    BY <2>5 DEF GreenBoundsLive, MeasuredBounds, Cutting, AfterMeasuring
  <2>8. QED
    BY <2>3, <2>6, <2>7 DEF StorageInv
<1>4. QED
  BY <1>1, <1>2, <1>3

\* The batches of the compaction.
LEMMA CompactKept ==
  ASSUME StorageInv, CompactTape
  PROVE  StorageInv' /\ DaysKept
<1>1. PICK rows \in SUBSET Fat(disk) :
        /\ Fits(Nulled(disk, rows)) /\ disk' = Nulled(disk, rows)
        /\ To("vacuum") \/ Fails("vacuum")
  BY DEF CompactTape
<1>2. rows \in SUBSET Ages /\ \A a \in rows : disk.tape[a] = "fat"
  BY DEF Fat
<1>3. PICK g : g = Nulled(disk, rows)
  OBVIOUS
<1>4. /\ g \in Disk /\ LiveOf(g) <= LiveOf(disk) /\ FileOf(g) <= Cap /\ disk' = g
      /\ \A a \in Ages : disk.tape[a] # "none" => g.tape[a] # "none"
  BY <1>1, <1>2, <1>3, InvFacts, NulledFile DEF Fits
<1>5. UNCHANGED <<shrink, lastRun, since>> /\ "vacuum" \in JobSteps
  BY DEF CompactTape, JobSteps
<1>6. job' \in Jobs /\ job'.step = "vacuum"
  BY <1>1, <1>5, JobMoves DEF StorageInv
<1>7. job'.step \notin AfterMeasuring /\ job'.step \notin {"cut", "recheck"} /\ job'.step # "cut"
  BY <1>6 DEF AfterMeasuring
<1>8. StorageInv'
  BY <1>4, <1>5, <1>6, <1>7, InvFacts, JobKept
<1>9. QED
  BY <1>4, <1>8 DEF DaysKept

\* A vacuum of some tables leaves what is live.
LEMMA VacuumedDisk ==
  ASSUME StorageInv, NEW tables \in SUBSET Tables, disk' = Vacuumed(disk, tables)
  PROVE  /\ Vacuumed(disk, tables) \in Disk /\ FileOf(Vacuumed(disk, tables)) <= Cap
         /\ LiveOf(Vacuumed(disk, tables)) = LiveOf(disk)
         /\ LiveOf(Vacuumed(disk, tables)) <= LiveOf(disk)
         /\ DaysKept
<1>1. PICK v : v = Vacuumed(disk, tables)
  OBVIOUS
<1>2. v \in Disk /\ v.tape = disk.tape /\ FileOf(v) = FileOf(disk) /\ LiveOf(v) = LiveOf(disk)
  BY <1>1, InvFacts, VacuumedFile
<1>3. QED
  BY <1>1, <1>2, InvFacts DEF DaysKept

\* The vacuum, and the measurement after it.
LEMMA VacuumKept ==
  ASSUME StorageInv, Vacuum
  PROVE  StorageInv' /\ DaysKept
<1>1. /\ PrunedTables \in SUBSET Tables /\ {} \in SUBSET Tables /\ {"prices"} \in SUBSET Tables
      /\ "defend" \in JobSteps /\ UNCHANGED <<shrink, lastRun>>
  BY DEF Vacuum, PrunedTables, Tables, JobSteps, AfterMeasuring
<1>2. CASE disk' = Vacuumed(disk, PrunedTables) /\ Measure("defend", disk)
  <2>1. PICK v : v = Vacuumed(disk, PrunedTables)
    OBVIOUS
  <2>2. /\ v \in Disk /\ FileOf(v) <= Cap /\ LiveOf(v) = LiveOf(disk)
        /\ LiveOf(v) <= LiveOf(disk) /\ DaysKept /\ disk' = v
    BY <1>1, <1>2, <2>1, VacuumedDisk
  <2>3. /\ job' \in Jobs /\ job'.step = "defend"
        /\ ~job'.over => LiveOf(disk) < FailLive
        /\ since' \in Counts /\ since'.measure = 0 /\ since'.verdict = since.verdict
    BY <1>1, <1>2, Remeasured DEF StorageInv
  <2>4. ~job'.over => LiveOf(v) < FailLive + since'.measure
    BY <2>2, <2>3, InvFacts, StorageConstants
  <2>5. since'.measure <= since.verdict
    BY <2>3, InvFacts
  <2>6. StorageInv'
    BY <1>1, <2>2, <2>3, <2>4, <2>5, JobKept
  <2>7. QED
    BY <2>2, <2>6
<1>3. CASE Fails("defend") /\ UNCHANGED since
           /\ \E done \in {{}, {"prices"}} : disk' = Vacuumed(disk, done)
  <2>1. PICK tables \in SUBSET Tables : disk' = Vacuumed(disk, tables)
    BY <1>1, <1>3
  <2>2. PICK v : v = Vacuumed(disk, tables)
    OBVIOUS
  <2>3. v \in Disk /\ FileOf(v) <= Cap /\ LiveOf(v) <= LiveOf(disk) /\ DaysKept /\ disk' = v
    BY <2>1, <2>2, VacuumedDisk
  <2>4. job' \in Jobs /\ job'.step = "defend" /\ job'.failed
    BY <1>1, <1>3, JobMoves DEF StorageInv
  <2>5. StorageInv'
    BY <1>1, <1>3, <2>3, <2>4, InvFacts, JobKept
  <2>6. QED
    BY <2>3, <2>5
<1>4. QED
  BY <1>2, <1>3 DEF Vacuum

\* The defence begins.
LEMMA DefendKept ==
  ASSUME StorageInv, DefendCap
  PROVE  StorageInv' /\ DaysKept
<1>1. UNCHANGED <<disk, shrink, lastRun, since>> /\ disk' = disk /\ since' = since
      /\ job.step = "defend"
  BY DEF DefendCap
<1>2. PICK f \in BOOLEAN, o \in BOOLEAN, n \in 0..Keep :
        /\ f = job.failed /\ o = job.over
        /\ job = [step |-> job.step, failed |-> f, over |-> o, days |-> n]
  BY InvFacts DEF Jobs
<1>3. ~f /\ ~o => LiveOf(disk) < FailLive + since.measure
  BY <1>1, <1>2 DEF StorageInv, MeasuredBounds, AfterMeasuring
<1>4. CASE StillHigh /\ Floor < Keep /\ job' = [job EXCEPT !.step = "cut", !.days = Keep - 1]
  <2>1. Keep - 1 \in 0..Keep /\ Floor <= Keep - 1
    BY <1>4, StorageConstants
  <2>2. job' = [step |-> "cut", failed |-> f, over |-> o, days |-> Keep - 1]
    BY <1>2, <1>4
  <2>3. /\ job' \in Jobs /\ job'.step = "cut" /\ Floor <= job'.days
        /\ job'.failed = f /\ job'.over = o
    BY <2>1, <2>2 DEF Jobs, JobSteps, AfterMeasuring
  <2>4. ~job'.failed /\ ~job'.over => LiveOf(disk) < FailLive + since'.measure
    BY <1>1, <1>3, <2>3
  <2>5. LiveOf(disk) >= Target
    BY <1>4 DEF StillHigh
  <2>6. StorageInv'
    BY <1>1, <2>3, <2>4, <2>5, InvFacts, JobKept
  <2>7. QED
    BY <1>1, <2>6 DEF DaysKept
<1>5. CASE job' = [job EXCEPT !.step = "judge"]
  <2>1. job' = [step |-> "judge", failed |-> f, over |-> o, days |-> n]
    BY <1>2, <1>5
  <2>2. job' \in Jobs /\ job'.step = "judge" /\ job'.failed = f /\ job'.over = o
    BY <2>1 DEF Jobs, JobSteps, AfterMeasuring
  <2>3. ~job'.failed /\ ~job'.over => LiveOf(disk) < FailLive + since'.measure
    BY <1>1, <1>3, <2>2
  <2>4. StorageInv'
    BY <1>1, <2>2, <2>3, InvFacts, JobKept
  <2>5. QED
    BY <1>1, <2>4 DEF DaysKept
<1>6. QED
  BY <1>4, <1>5 DEF DefendCap

\* A day of tape goes, or some of its batches.
LEMMA CutKept ==
  ASSUME StorageInv, CutDay
  PROVE  StorageInv' /\ DaysKept
<1>1. PICK rows \in SUBSET Expired(disk, job.days) :
        disk' = Pruned(disk, rows) /\ (To("recheck") \/ Fails("judge"))
  BY DEF CutDay
<1>2. job.step = "cut" /\ UNCHANGED <<shrink, lastRun, since>> /\ since' = since
  BY DEF CutDay
<1>3. Floor <= job.days /\ LiveOf(disk) >= Target
  BY <1>2 DEF StorageInv, Cutting
<1>4. rows \in SUBSET Ages /\ \A a \in rows : a > job.days
  BY DEF Expired
<1>5. PICK g : g = Pruned(disk, rows)
  OBVIOUS
<1>6. /\ g \in Disk /\ FileOf(g) <= Cap /\ LiveOf(g) <= LiveOf(disk) /\ disk' = g
      /\ \A a \in Ages \ rows : g.tape[a] = disk.tape[a]
  BY <1>1, <1>4, <1>5, InvFacts, PrunedFile
<1>7. LiveOf(g) \in Nat
  BY <1>6, FileWeight
<1>8. ~job.failed /\ ~job.over => LiveOf(g) < FailLive + since.measure
  BY <1>2, <1>6, <1>7, InvFacts, StorageConstants DEF StorageInv, MeasuredBounds, AfterMeasuring
<1>9. {"recheck", "judge"} \subseteq JobSteps
  BY DEF JobSteps, AfterMeasuring
<1>10. /\ job' \in Jobs /\ job'.step \in {"recheck", "judge"} /\ job'.days = job.days
       /\ ~job'.failed => ~job.failed
       /\ ~job'.over => ~job.over
  <2>1. StorageTyped
    BY DEF StorageInv
  <2>2. CASE To("recheck")
    BY <1>9, <2>1, <2>2, JobMoves
  <2>3. CASE Fails("judge")
    BY <1>9, <2>1, <2>3, JobMoves
  <2>4. QED
    BY <1>1, <2>2, <2>3
<1>11. ~job'.failed /\ ~job'.over => LiveOf(g) < FailLive + since'.measure
  BY <1>2, <1>8, <1>10
<1>12. StorageInv'
  BY <1>2, <1>3, <1>6, <1>10, <1>11, InvFacts, JobKept
<1>13. DaysKept
  <2>1. SUFFICES ASSUME NEW a \in Ages, disk.tape[a] # "none", disk'.tape[a] = "none"
                 PROVE  a > Floor
    BY <1>3 DEF DaysKept
  <2>2. a > job.days /\ a \in Nat
    BY <1>4, <1>6, <2>1, StorageConstants
  <2>3. QED
    BY <1>3, <2>2, InvFacts, StorageConstants
<1>14. QED
  BY <1>12, <1>13

\* The live data is measured again.
LEMMA RecheckKept ==
  ASSUME StorageInv, Recheck
  PROVE  StorageInv' /\ DaysKept
<1>1. /\ PrunedTables \in SUBSET Tables /\ {} \in SUBSET Tables /\ {"prices"} \in SUBSET Tables
      /\ "judge" \in JobSteps /\ UNCHANGED <<shrink, lastRun>> /\ job.step = "recheck"
  BY DEF Recheck, PrunedTables, Tables, JobSteps, AfterMeasuring
<1>2. PICK tables \in SUBSET Tables : disk' = Vacuumed(disk, tables)
  BY <1>1 DEF Recheck
<1>3. PICK v : v = Vacuumed(disk, tables)
  OBVIOUS
<1>4. /\ v \in Disk /\ FileOf(v) <= Cap /\ LiveOf(v) = LiveOf(disk)
      /\ LiveOf(v) <= LiveOf(disk) /\ DaysKept /\ disk' = v
  BY <1>2, <1>3, VacuumedDisk
<1>5. Floor <= job.days
  BY <1>1 DEF StorageInv, Cutting
<1>6. CASE StillHigh /\ ~AtFloor /\ UNCHANGED since
           /\ job' = [job EXCEPT !.step = "cut", !.days = @ - 1]
  <2>1. PICK f \in BOOLEAN, o \in BOOLEAN, n \in 0..Keep :
          /\ f = job.failed /\ o = job.over /\ n = job.days
          /\ job = [step |-> job.step, failed |-> f, over |-> o, days |-> n]
    BY InvFacts DEF Jobs
  <2>2. ~f /\ ~o => LiveOf(disk) < FailLive + since.measure
    BY <1>1, <2>1 DEF StorageInv, MeasuredBounds, AfterMeasuring
  <2>3. n # Floor
    BY <1>6, <2>1 DEF AtFloor
  <2>4. n - 1 \in 0..Keep /\ Floor <= n - 1
    BY <1>5, <2>1, <2>3, StorageConstants
  <2>5. job' = [step |-> "cut", failed |-> f, over |-> o, days |-> n - 1]
    BY <1>6, <2>1
  <2>6. /\ job' \in Jobs /\ job'.step = "cut" /\ Floor <= job'.days
        /\ job'.failed = f /\ job'.over = o
    BY <2>4, <2>5 DEF Jobs, JobSteps, AfterMeasuring
  <2>7. ~job'.failed /\ ~job'.over => LiveOf(v) < FailLive + since'.measure
    BY <1>4, <1>6, <2>2, <2>6
  <2>8. LiveOf(v) >= Target
    BY <1>4, <1>6 DEF StillHigh
  <2>9. StorageInv'
    BY <1>1, <1>4, <1>6, <2>6, <2>7, <2>8, InvFacts, JobKept
  <2>10. QED
    BY <1>4, <2>9
<1>7. CASE Measure("judge", disk)
  <2>1. /\ job' \in Jobs /\ job'.step = "judge"
        /\ ~job'.over => LiveOf(disk) < FailLive
        /\ since' \in Counts /\ since'.measure = 0 /\ since'.verdict = since.verdict
    BY <1>1, <1>7, Remeasured DEF StorageInv
  <2>2. ~job'.over => LiveOf(v) < FailLive + since'.measure
    BY <1>4, <2>1, InvFacts, StorageConstants
  <2>3. since'.measure <= since.verdict
    BY <2>1, InvFacts
  <2>4. StorageInv'
    BY <1>1, <1>4, <2>1, <2>2, <2>3, JobKept
  <2>5. QED
    BY <1>4, <2>4
<1>8. CASE Fails("judge") /\ UNCHANGED since
  <2>1. job' \in Jobs /\ job'.step = "judge" /\ job'.failed
    BY <1>1, <1>8, JobMoves DEF StorageInv
  <2>2. StorageInv'
    BY <1>1, <1>4, <1>8, <2>1, InvFacts, JobKept
  <2>3. QED
    BY <1>4, <2>2
<1>9. QED
  BY <1>6, <1>7, <1>8 DEF Recheck

\* The verdict: green is given only on what was measured.
LEMMA JudgeKept ==
  ASSUME StorageInv, Judge
  PROVE  StorageInv' /\ DaysKept
<1>1. disk' = disk /\ shrink' = shrink /\ job.step = "judge" /\ job' = NoJob
  BY DEF Judge
<1>2. disk' \in Disk /\ Fits(disk)' /\ LiveOf(disk)' = LiveOf(disk)
  BY <1>1, InvFacts, NextFile
<1>3. job' \in Jobs /\ job'.step = "idle"
  BY <1>1, StorageConstants DEF NoJob, Jobs, JobSteps
<1>4. CASE Red
  <2>1. lastRun' = "red" /\ since' = [verdict |-> 0, measure |-> 0]
    BY <1>4 DEF Judge
  <2>2. since' \in Counts /\ since'.verdict = 0 /\ since'.measure = 0
    BY <2>1, StorageConstants DEF Counts
  <2>3. StorageTyped'
    BY <1>1, <1>2, <1>3, <2>1, <2>2, InvFacts DEF StorageTyped
  <2>4. GreenBoundsLive' /\ MeasuredBounds' /\ Cutting'
    BY <1>3, <2>1 DEF GreenBoundsLive, MeasuredBounds, Cutting, AfterMeasuring
  <2>5. QED
    BY <1>1, <2>3, <2>4 DEF StorageInv, DaysKept
<1>5. CASE ~Red
  <2>1. PICK m \in 0..DayWrites : m = since.measure
    BY InvFacts DEF Counts
  <2>2. lastRun' = "green" /\ since' = [verdict |-> m, measure |-> 0]
    BY <1>5, <2>1 DEF Judge
  <2>3. since' \in Counts /\ since'.verdict = m /\ since'.measure = 0 /\ 0 <= m
    BY <2>1, <2>2, StorageConstants DEF Counts
  <2>4. StorageTyped'
    BY <1>1, <1>2, <1>3, <2>2, <2>3, InvFacts DEF StorageTyped
  <2>5. LiveOf(disk) < FailLive + m
    BY <1>1, <1>5, <2>1 DEF Red, StorageInv, MeasuredBounds, AfterMeasuring
  <2>6. GreenBoundsLive'
    BY <1>2, <2>3, <2>5 DEF GreenBoundsLive
  <2>7. MeasuredBounds' /\ Cutting'
    BY <1>3 DEF MeasuredBounds, Cutting, AfterMeasuring
  <2>8. QED
    BY <1>1, <2>4, <2>6, <2>7 DEF StorageInv, DaysKept
<1>6. QED
  BY <1>4, <1>5

\* A shrink and VACUUM FULL shorten the file and touch no live row.
LEMMA ShorteningKept ==
  ASSUME StorageInv, ShrinkStarts \/ ShrinkRound \/ ShrinkEnds \/ VacuumFull
  PROVE  StorageInv' /\ DaysKept
<1>1. UNCHANGED <<job, lastRun, since>> /\ "tape" \in Tables /\ {"tape"} \in SUBSET Tables
  BY DEF ShrinkStarts, ShrinkRound, ShrinkEnds, VacuumFull, Tables
<1>2. ASSUME NEW d \in Disk, disk' = d, d.tape = disk.tape, FileOf(d) <= Cap,
             LiveOf(d) = LiveOf(disk), shrink' \in -1..StallRounds
      PROVE  StorageInv' /\ DaysKept
  <2>1. LiveOf(d) <= LiveOf(disk)
    BY <1>2, InvFacts
  <2>2. StorageInv'
    BY <1>1, <1>2, <2>1, Maintained
  <2>3. QED
    BY <1>2, <2>2 DEF DaysKept
<1>3. CASE ShrinkStarts
  <2>1. disk' = disk /\ shrink' \in -1..StallRounds
    BY <1>3, StorageConstants DEF ShrinkStarts
  <2>2. QED
    BY <1>2, <2>1, InvFacts
<1>4. CASE ShrinkRound
  <2>1. PICK a \in Ages :
          /\ Guarded(Weight[disk.tape[a]])
          /\ \/ /\ disk' = Vacuumed(Into(disk, "tape", Weight[disk.tape[a]]), {"tape"})
                /\ shrink' = 0
             \/ /\ disk' = Vacuumed([Into(disk, "tape", Weight[disk.tape[a]]) EXCEPT
                                       !.dead["tape"] = @ + Weight[disk.tape[a]]], {"tape"})
                /\ shrink' = shrink + 1
    BY <1>4 DEF ShrinkRound
  <2>2. PICK w \in Nat : w = Weight[disk.tape[a]]
    <3>1. \A k \in {"none", "slim", "fat"} : Weight[k] \in Nat
      BY DEF Weight
    <3>2. QED
      BY <3>1, InvFacts DEF Tapes
  <2>3. FileOf(disk) + w <= Cap
    BY <2>1, <2>2, InvFacts, FileWeight, StorageConstants DEF Guarded
  <2>4. shrink' \in -1..StallRounds
    <3>1. shrink < StallRounds /\ 0 <= shrink
      BY <1>4 DEF ShrinkRound
    <3>2. QED
      BY <2>1, <3>1, InvFacts, StorageConstants
  <2>5. PICK i : i = Into(disk, "tape", w)
    OBVIOUS
  <2>6. /\ i \in Disk /\ i.tape = disk.tape /\ i.rows = disk.rows /\ i.dead = disk.dead
        /\ LiveOf(i) = LiveOf(disk) /\ FileOf(i) <= FileOf(disk)
    BY <1>1, <2>5, InvFacts, IntoFile
  <2>7. PICK n \in Nat : n = i.dead["tape"] + w
    <3>1. i.dead["tape"] \in Nat
      BY <1>1, <2>6, FileWeight, Spaced
    <3>2. QED
      BY <3>1
  <2>8. PICK x : x = [i.dead EXCEPT !["tape"] = n]
    OBVIOUS
  <2>9. x \in Spaces /\ Total(x) = Total(i.dead) - i.dead["tape"] + n
    BY <1>1, <2>6, <2>8, FileWeight, Spaced
  <2>10. i.dead["tape"] \in Nat
    BY <1>1, <2>6, FileWeight, Spaced
  <2>11. PICK g : g = [i EXCEPT !.dead["tape"] = @ + w]
    OBVIOUS
  <2>12. g = [tape |-> i.tape, rows |-> i.rows, dead |-> x, free |-> i.free]
    BY <2>6, <2>7, <2>8, <2>11 DEF Disk
  <2>13. /\ g \in Disk /\ g.tape = disk.tape /\ g.rows = disk.rows /\ g.dead = x
         /\ g.free = i.free
    BY <2>6, <2>9, <2>12, FileWeight DEF Disk
  <2>14. LiveOf(g) = LiveOf(disk)
    BY <2>13, InvFacts, FileWeight
  <2>15. FileOf(g) <= FileOf(disk) + w
    BY <2>6, <2>7, <2>9, <2>10, <2>13, <2>14, InvFacts, FileWeight
  <2>16. FileOf(i) \in Nat /\ FileOf(g) \in Nat /\ FileOf(disk) \in Nat
    BY <2>6, <2>13, InvFacts, FileWeight
  <2>17. FileOf(i) <= Cap /\ FileOf(g) <= Cap
    BY <2>3, <2>6, <2>15, <2>16, StorageConstants
  <2>18. \/ disk' = Vacuumed(i, {"tape"})
         \/ disk' = Vacuumed(g, {"tape"})
    BY <2>1, <2>2, <2>5, <2>11
  <2>19. ASSUME NEW f \in Disk, disk' = Vacuumed(f, {"tape"}), f.tape = disk.tape,
                FileOf(f) <= Cap, LiveOf(f) = LiveOf(disk)
         PROVE  StorageInv' /\ DaysKept
    <3>1. PICK v : v = Vacuumed(f, {"tape"})
      OBVIOUS
    <3>2. v \in Disk /\ v.tape = f.tape /\ FileOf(v) = FileOf(f) /\ LiveOf(v) = LiveOf(f)
      BY <1>1, <3>1, VacuumedFile
    <3>3. disk' = v /\ v.tape = disk.tape /\ FileOf(v) <= Cap /\ LiveOf(v) = LiveOf(disk)
      BY <2>19, <3>1, <3>2
    <3>4. QED
      BY <1>2, <2>4, <3>2, <3>3
  <2>20. QED
    BY <2>6, <2>13, <2>14, <2>17, <2>18, <2>19
<1>5. CASE ShrinkEnds
  <2>1. PICK bloat \in {0, 1} : disk' = Into(disk, "tape", bloat)
    <3>1. disk' \in Reindexed
      BY <1>5 DEF ShrinkEnds
    <3>2. QED
      BY <3>1 DEF Reindexed
  <2>2. PICK d : d = Into(disk, "tape", bloat)
    OBVIOUS
  <2>3. bloat \in Nat
    OBVIOUS
  <2>4. /\ d \in Disk /\ d.tape = disk.tape
        /\ LiveOf(d) = LiveOf(disk) /\ FileOf(d) <= FileOf(disk)
    BY <1>1, <2>2, <2>3, InvFacts, IntoFile
  <2>5. FileOf(d) <= Cap
    BY <2>4, InvFacts, FileWeight, StorageConstants
  <2>6. shrink' \in -1..StallRounds
    BY <1>5, StorageConstants DEF ShrinkEnds
  <2>7. QED
    BY <1>2, <2>1, <2>2, <2>4, <2>5, <2>6
<1>6. CASE VacuumFull
  <2>1. PICK t \in PrunedTables : disk' = [disk EXCEPT !.free[t] = 0, !.dead[t] = 0]
    BY <1>6 DEF VacuumFull
  <2>2. t \in Tables /\ 0 \in Nat
    BY DEF PrunedTables, Tables
  <2>3. disk.free \in Spaces /\ disk.dead \in Spaces
    BY InvFacts, FileWeight
  <2>4. PICK s \in Spaces, r \in Spaces : s = disk.free /\ r = disk.dead
    BY <2>3
  <2>5. PICK f \in Spaces, x \in Spaces :
          /\ f = [disk.free EXCEPT ![t] = 0] /\ x = [disk.dead EXCEPT ![t] = 0]
          /\ Total(f) = Total(disk.free) - disk.free[t]
          /\ Total(x) = Total(disk.dead) - disk.dead[t]
    <3>1. PICK z \in Nat : z = 0
      OBVIOUS
    <3>2. \A h \in Spaces : /\ h[t] \in Nat /\ Total(h) \in Nat /\ [h EXCEPT ![t] = z] \in Spaces
                            /\ Total([h EXCEPT ![t] = z]) = Total(h) - h[t] + z
      BY <2>2, Spaced
    <3>3. \A h \in Spaces : /\ [h EXCEPT ![t] = 0] \in Spaces
                            /\ Total([h EXCEPT ![t] = 0]) = Total(h) - h[t]
      BY <3>1, <3>2
    <3>4. /\ [s EXCEPT ![t] = 0] \in Spaces /\ Total([s EXCEPT ![t] = 0]) = Total(s) - s[t]
          /\ [r EXCEPT ![t] = 0] \in Spaces /\ Total([r EXCEPT ![t] = 0]) = Total(r) - r[t]
      BY <3>3
    <3>5. QED
      BY <2>4, <3>4
  <2>6. disk.free[t] \in Nat /\ disk.dead[t] \in Nat
    BY <2>2, <2>3 DEF Spaces
  <2>7. PICK d : d = [disk EXCEPT !.free[t] = 0, !.dead[t] = 0]
    OBVIOUS
  <2>8. d = [tape |-> disk.tape, rows |-> disk.rows, dead |-> x, free |-> f]
    BY <2>5, <2>7, InvFacts DEF Disk
  <2>9. /\ d \in Disk /\ d.tape = disk.tape /\ d.rows = disk.rows /\ d.dead = x /\ d.free = f
    BY <2>5, <2>8, InvFacts, FileWeight DEF Disk
  <2>10. LiveOf(d) = LiveOf(disk) /\ FileOf(d) = LiveOf(d) + Total(x) + Total(f)
    BY <2>9, InvFacts, FileWeight
  <2>11. FileOf(d) <= Cap
    BY <2>5, <2>6, <2>9, <2>10, InvFacts, FileWeight, StorageConstants
  <2>12. shrink' \in -1..StallRounds
    BY <1>6, InvFacts DEF VacuumFull
  <2>13. QED
    BY <1>2, <2>1, <2>7, <2>9, <2>10, <2>11, <2>12
<1>7. QED
  BY <1>3, <1>4, <1>5, <1>6

\* A stuttering step.
LEMMA StorageStutters ==
  ASSUME StorageInv, UNCHANGED storageVars
  PROVE  StorageInv' /\ DaysKept
<1>1. UNCHANGED <<disk, job, shrink, lastRun, since>>
  BY DEF storageVars
<1>2. disk' = disk /\ shrink' \in -1..StallRounds
  BY <1>1, InvFacts
<1>3. StorageInv'
  BY <1>1, <1>2, InvFacts, Maintained
<1>4. QED
  BY <1>1, <1>3 DEF DaysKept

\* Every step keeps the invariant, and cuts no day it may not.
LEMMA StorageStep ==
  ASSUME StorageInv, [StorageNext]_storageVars
  PROVE  StorageInv' /\ DaysKept
<1>1. CASE RecordTape \/ InsertRows \/ UpdateRows
  BY <1>1, WritesKept
<1>2. CASE Autovacuum \/ NewDay
  BY <1>2, TimeKept
<1>3. CASE RetentionStarts \/ ApplyRetention \/ ApplyDies
  BY <1>3, ApplyKept
<1>4. CASE CompactTape
  BY <1>4, CompactKept
<1>5. CASE Vacuum
  BY <1>5, VacuumKept
<1>6. CASE DefendCap
  BY <1>6, DefendKept
<1>7. CASE CutDay
  BY <1>7, CutKept
<1>8. CASE Recheck
  BY <1>8, RecheckKept
<1>9. CASE Judge
  BY <1>9, JudgeKept
<1>10. CASE ShrinkStarts \/ ShrinkRound \/ ShrinkEnds \/ VacuumFull
  BY <1>10, ShorteningKept
<1>11. CASE UNCHANGED storageVars
  BY <1>11, StorageStutters
<1>12. QED
  BY <1>1, <1>2, <1>3, <1>4, <1>5, <1>6, <1>7, <1>8, <1>9, <1>10, <1>11 DEF StorageNext

\* The invariant of the storage, with what a running job has measured and what
\* it is about to cut, in every state of the jobs and the writers beside them.
THEOREM StorageInvariant == StorageSpec => []StorageInv
<1>1. StorageInit => StorageInv
  BY StorageStarts
<1>2. StorageInv /\ [StorageNext]_storageVars => StorageInv'
  BY StorageStep
<1>3. QED
  BY <1>1, <1>2, PTL DEF StorageSpec

\* A verdict is given on a measurement of some steps earlier, with writes
\* between: after a green one live data is past the fail line by no more than
\* those writes, for every size of the file, every order of writes, vacuums and
\* failing steps.
THEOREM StorageGreenBoundsLive == StorageSpec => []GreenBoundsLive
<1>1. StorageInv => GreenBoundsLive
  BY DEF StorageInv
<1>2. QED
  BY <1>1, StorageInvariant, PTL

\* The defence of the cap deletes no day inside the floor, and none inside the
\* window unless live data is high at that very step, however many times it
\* cuts and whatever is written meanwhile.
THEOREM StorageCutsWhileHigh == StorageSpec => CutOnlyWhileHigh
<1>1. StorageInv /\ [StorageNext]_storageVars => [DaysKept]_storageVars
  BY StorageStep
<1>2. [][DaysKept]_storageVars => CutOnlyWhileHigh
  BY DEF DaysKept, CutOnlyWhileHigh
<1>3. QED
  BY <1>1, <1>2, StorageInvariant, PTL DEF StorageSpec

\* The storage keeps its types, with the file within the provider's cap.
THEOREM StorageTypes == StorageSpec => []StorageTypeOK
<1>1. StorageInv => StorageTypeOK
  <2> SUFFICES ASSUME StorageInv PROVE StorageTypeOK
    OBVIOUS
  <2>1. /\ disk.tape \in Tapes /\ disk.rows \in [{"prices", "rest"} -> Nat]
        /\ disk.dead \in Spaces /\ disk.free \in Spaces
        /\ LiveOf(disk) = WeightOf(disk.tape, Ages) + disk.rows["prices"] + disk.rows["rest"]
        /\ FileOf(disk) = LiveOf(disk) + Total(disk.dead) + Total(disk.free)
        /\ {WeightOf(disk.tape, Ages), disk.rows["prices"], disk.rows["rest"],
            Total(disk.dead), Total(disk.free)} \subseteq Nat
    BY InvFacts, FileWeight
  <2>2. \A n \in {disk.rows["prices"], disk.rows["rest"], Total(disk.dead), Total(disk.free)} :
          n \in 0..Cap
    BY <2>1, InvFacts, StorageConstants
  <2>3. disk.rows \in [{"prices", "rest"} -> 0..Cap]
    BY <2>1, <2>2
  <2>4. ASSUME NEW s \in {disk.dead, disk.free}
        PROVE  s \in [Tables -> 0..Cap]
    <3>1. s \in Spaces /\ Total(s) \in 0..Cap
      BY <2>1, <2>2
    <3>2. \A t \in Tables : s[t] \in Nat /\ s[t] <= Total(s)
      <4>1. 0 \in Nat
        OBVIOUS
      <4>2. QED
        BY <3>1, <4>1, Spaced
    <3>3. QED
      BY <3>1, <3>2, StorageConstants DEF Spaces
  <2>5. {disk.dead, disk.free} \subseteq [Tables -> 0..Cap]
    BY <2>4
  <2>6. QED
    BY <2>1, <2>3, <2>5
       DEF StorageInv, StorageTyped, StorageTypeOK, Tapes, Jobs, JobSteps, Counts
<1>2. QED
  BY <1>1, StorageInvariant, PTL
=============================================================================
