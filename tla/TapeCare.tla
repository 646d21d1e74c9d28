------------------------------ MODULE TapeCare ------------------------------
(***************************************************************************)
(* What maintenance does to the recorded tape while it is being recorded   *)
(* and replayed (maintenance/tape.py, maintenance/retention.py): nulling   *)
(* delta payloads and deleting old rows, a committed batch at a time.      *)
(*                                                                         *)
(* A batch takes rows in no stated order, so a killed pass leaves any part *)
(* of its work undone.                                                     *)
(***************************************************************************)
EXTENDS Recorder, Replay, FiniteSetsExt

CONSTANTS
  BatchRows,    \* BATCH and DELETE_BATCH: rows of one committed statement
  FullPayload,  \* COMPACTION_WINDOW_DAYS, in ticks
  KeepDays,     \* DELTA_RETENTION_DAYS, in ticks
  FloorDays     \* TAPE_FLOOR_DAYS, in ticks

ASSUME CareAssumption ==
  /\ BatchRows \in Nat \ {0}
  /\ {FullPayload, KeepDays, FloorDays} \subseteq Nat
  /\ FullPayload <= FloorDays /\ FloorDays <= KeepDays

Age(row) == now - row.at

\* One batch of the rows at `candidates`: as many as a statement takes.
Batches(candidates) ==
  LET n == Cardinality(candidates)
  IN IF n = 0 THEN {} ELSE kSubset(IF n < BatchRows THEN n ELSE BatchRows, candidates)

Without(rows, gone) ==
  LET kept == {i \in DOMAIN rows : i \notin gone}
      Rank(i) == Cardinality({j \in kept : j <= i})
  IN [n \in 1..Cardinality(kept) |-> rows[CHOOSE i \in kept : Rank(i) = n]]

\* Mutant of Compactable: every row's payload is dropped.
CompactableAny(row) == Age(row) > FullPayload /\ row.payload

\* Trade and snapshot payloads are never nulled, at any age.
Compactable(row) ==
  /\ row.type \notin {"trade", "snapshot"}
  /\ Age(row) > FullPayload
  /\ row.payload

\* compact_tape: one batch.
CompactBatch ==
  /\ \E batch \in Batches({i \in DOMAIN tape : Compactable(tape[i])}) :
       tape' = [i \in DOMAIN tape |->
         IF i \in batch THEN [tape[i] EXCEPT !.payload = FALSE] ELSE tape[i]]
  /\ UNCHANGED <<now, content, feed, prints, rec, gaps, faults>>

\* The windows a row may be older than to be deleted: retention's, or one the
\* cap defense cuts to, a day at a time, never below the floor.
Windows == FloorDays..KeepDays

\* prune_tape: one batch.
PruneBatch ==
  /\ \E days \in Windows :
     \E batch \in Batches({i \in DOMAIN tape : Age(tape[i]) > days}) :
       tape' = Without(tape, batch)
  /\ UNCHANGED <<now, content, feed, prints, rec, gaps, faults>>

CareNext == CompactBatch \/ PruneBatch

-----------------------------------------------------------------------------
Emitted(m) == ReplayRows(tape, LoadRows(tape, m)).states

\* "A silent error costs the meaning of every number computed from it": every
\* book the replay emits is the exchange's book at that row, whatever was
\* lost, repeated, dropped, reconnected, pruned or compacted in between.
ReplaySound ==
  \A m \in Markets : LET s == Emitted(m) IN \A i \in DOMAIN s : s[i][2] = s[i][1].book

Restored == [i \in DOMAIN tape |-> [tape[i] EXCEPT !.payload = TRUE]]

\* "The payload is redundant once outside the replay window": the tape with
\* its nulled payloads replays to what the uncompacted tape replays to.
CompactionTransparent ==
  \A m \in Markets :
    LET Books(s) == [i \in DOMAIN s |-> <<s[i][1].seq, s[i][2]>>]
        whole == ReplayRows(Restored, LoadRows(Restored, m))
        thin  == ReplayRows(tape, LoadRows(tape, m))
    IN /\ Books(thin.states) = Books(whole.states)
       /\ thin.refusals = whole.refusals
=============================================================================
