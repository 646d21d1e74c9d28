------------------------------- MODULE Replay -------------------------------
(***************************************************************************)
(* Rebuilding a market's book from the recorded tape, or refusing to       *)
(* (execution/replay.py), as operators on rows in id order.                *)
(*                                                                         *)
(* A book is the resting size at one price level.  A row carries `book`,   *)
(* the exchange's true level after the message: a snapshot states it in    *)
(* its payload, a delta does not and replay never reads it there.          *)
(***************************************************************************)
EXTENDS Integers, Sequences

NoSid == 0

\* BookReplay: the subscription and sequence number of the last book row
\* applied, whether a snapshot is the base of the level, and the level.
NewReplay == [sid |-> NoSid, seq |-> NoSid, base |-> FALSE, level |-> 0]

Refused == [refused |-> TRUE]
IsRefused(result) == result = Refused

\* Mutant of CheckSequence: a skipped number is ignored.
IgnoreSequence(engine, row) ==
  IF row.sid # engine.sid THEN [NewReplay EXCEPT !.sid = row.sid] ELSE engine

\* A new subscription restarts the numbering and has no base; a number that
\* does not follow the last one is a gap.
CheckSequence(engine, row) ==
  IF row.sid # engine.sid THEN [NewReplay EXCEPT !.sid = row.sid]
  ELSE IF engine.seq # NoSid /\ row.seq # engine.seq + 1 THEN Refused
  ELSE engine

\* A compacted delta is rebuilt from its columns; any other row without its
\* payload is unreadable.
Readable(row) == row.payload \/ row.type = "delta"

ApplyDelta(engine, row) ==
  IF engine.base /\ engine.level + row.change >= 0
  THEN [engine EXCEPT !.level = @ + row.change]
  ELSE Refused

\* BookReplay.apply for a book row.
ApplyRow(engine, row) ==
  LET checked == CheckSequence(engine, row)
      changed == IF IsRefused(checked) \/ ~Readable(row) THEN Refused
                 ELSE IF row.type = "snapshot"
                      THEN [checked EXCEPT !.base = TRUE, !.level = row.book]
                      ELSE ApplyDelta(checked, row)
  IN IF IsRefused(changed) THEN Refused ELSE [changed EXCEPT !.seq = row.seq]

NewRun == [engine |-> NewReplay, states |-> <<>>, applied |-> 0, prints |-> 0, refusals |-> 0]

\* One row of a replay: a refusal ends the reconstructable run and discards
\* its row; the replay resumes with nothing until the next snapshot.  `states`
\* holds what was emitted, each with the row it was emitted for.
ReplayStep(run, row) ==
  IF row.type = "trade" THEN [run EXCEPT !.prints = @ + 1]
  ELSE LET next == ApplyRow(run.engine, row)
       IN IF IsRefused(next)
          THEN [run EXCEPT !.engine = NewReplay, !.refusals = @ + 1]
          ELSE [run EXCEPT !.engine = next, !.applied = @ + 1,
                           !.states = Append(@, <<row, next.level>>)]

\* load_rows: one market's rows, by their place on the tape.
LoadRows(rows, m) == {i \in DOMAIN rows : rows[i].market = m}

\* replay(), in insertion order and never by sequence number, which would sort
\* a gap out of existence.
ReplayRows(rows, source) ==
  LET run[n \in 0..Len(rows)] ==
        IF n = 0 THEN NewRun
        ELSE IF n \in source THEN ReplayStep(run[n - 1], rows[n])
        ELSE run[n - 1]
  IN run[Len(rows)]
=============================================================================
