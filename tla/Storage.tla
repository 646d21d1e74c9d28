------------------------------- MODULE Storage -------------------------------
(***************************************************************************)
(* Keeping the database under the provider's cap (maintenance/retention.py,*)
(* tape.py, prune.py, shrink_tape.py, vacuum_full.py).  The file holds the *)
(* tables; each has live rows, dead ones, and space that only its own new  *)
(* rows take before the file grows.  Postgres and the cap are external: a  *)
(* write that would extend the file past the cap is refused.               *)
(*                                                                         *)
(* Recorder and cycles write at any time, also beside the retention job,   *)
(* which runs several times a day and any step of which can fail.  Weights *)
(* are in coarse units of the cap.                                        *)
(***************************************************************************)
EXTENDS Integers, FiniteSets, FiniteSetsExt

CONSTANTS
  Cap,          \* NEON_CAP_BYTES, in units of weight
  Target,       \* CAP_DEFENSE_TARGET of the cap
  Trigger,      \* CAP_DEFENSE_TRIGGER
  FailLive,     \* CAP_FAIL_FRACTION, of live data
  FileAlarm,    \* FILE_ALARM_FRACTION, of the file
  FileHard,     \* FILE_HARD_FRACTION
  Guard,        \* GUARD_FRACTION
  Keep,         \* DELTA_RETENTION_DAYS
  Floor,        \* TAPE_FLOOR_DAYS
  FullDays,     \* COMPACTION_WINDOW_DAYS
  DayWrites,    \* weight written between what two verdicts measured
  StallRounds,  \* STALL_ROUNDS of a shrink
  MaxAge        \* bound: days of tape on disk before a retention job runs

ASSUME StorageAssumption ==
  /\ {Cap, Target, Trigger, FailLive, FileAlarm, FileHard, Guard} \subseteq Nat \ {0}
  /\ {Keep, Floor, FullDays, DayWrites, StallRounds, MaxAge} \subseteq Nat
  /\ Target <= Trigger /\ Trigger < FailLive /\ FailLive <= Cap
  /\ Guard <= Cap /\ FileHard <= Cap
  /\ Floor <= Keep /\ FullDays <= Floor /\ Keep < MaxAge

VARIABLES
  disk,     \* the file: tape by age, rows of the other tables, and of each
            \* table the dead and the reusable space
  job,      \* the retention job: its step, whether one failed, whether the
            \* cap was failed when last measured, the window it cuts the tape to
  shrink,   \* the stalled rounds of a running shrink_tape, or -1
  lastRun,  \* how the last retention job ended
  since     \* weight written since what the last verdict measured, and since
            \* what the running job last measured

storageVars == <<disk, job, shrink, lastRun, since>>

Tables == {"tape", "prices", "rest"}   \* orderbook_delta_raw, price_snapshots
PrunedTables == {"tape", "prices"}     \* PRUNED_TABLES

Ages   == 0..MaxAge
Weight == [none |-> 0, slim |-> 1, fat |-> 2]   \* without its payloads, or with

Weights(d)    == [a \in Ages |-> Weight[d.tape[a]]]
TapeWeight(d) == SumFunctionOnSet(Weights(d), Ages)
LiveOf(d)     == TapeWeight(d) + d.rows["prices"] + d.rows["rest"]
Total(space)  == space["tape"] + space["prices"] + space["rest"]
FileOf(d)     == LiveOf(d) + Total(d.dead) + Total(d.free)

\* A write takes the reusable space of its own table, then extends the file.
Into(d, t, weight) ==
  [d EXCEPT !.free[t] = IF @ > weight THEN @ - weight ELSE 0]

Fits(d) == FileOf(d) <= Cap

-----------------------------------------------------------------------------
(***************************************************************************)
(* Writing.                                                                *)
(***************************************************************************)
AfterMeasuring == {"defend", "cut", "recheck", "judge"}   \* steps after the measurement

\* What does not fit is refused, and leaves no row.
Write(weight, grown) ==
  /\ since.verdict + weight <= DayWrites
  /\ IF ~Fits(grown) THEN UNCHANGED <<disk, since>>
     ELSE /\ disk' = grown
          /\ since' = [verdict |-> since.verdict + weight,
                       measure |-> since.measure + IF job.step \in AfterMeasuring THEN weight ELSE 0]
  /\ UNCHANGED <<job, shrink, lastRun>>

\* The recorder writes the day's tape.
Taped(d) == [Into(d, "tape", Weight["fat"]) EXCEPT !.tape[0] = "fat"]

RecordTape == disk.tape[0] = "none" /\ Write(Weight["fat"], Taped(disk))

Inserted(d, t) == [Into(d, t, 1) EXCEPT !.rows[t] = @ + 1]

InsertRows == \E t \in {"prices", "rest"} : Write(1, Inserted(disk, t))

\* An update writes a new row and leaves the old one dead.
Updated(d) == [Into(d, "rest", 1) EXCEPT !.dead["rest"] = @ + 1]

UpdateRows == disk.rows["rest"] > 0 /\ Write(1, Updated(disk))

Vacuumed(d, tables) ==
  [d EXCEPT !.free = [t \in Tables |-> IF t \in tables THEN d.free[t] + d.dead[t] ELSE d.free[t]],
            !.dead = [t \in Tables |-> IF t \in tables THEN 0 ELSE d.dead[t]]]

\* "Autovacuum would do this eventually, but only while the compute is awake."
Autovacuum ==
  /\ \E t \in Tables : disk' = Vacuumed(disk, {t})
  /\ UNCHANGED <<job, shrink, lastRun, since>>

Quiet == job.step = "idle" /\ shrink < 0

\* Midnight.
NewDay ==
  /\ Quiet /\ disk.tape[MaxAge] = "none"
  /\ disk' = [disk EXCEPT !.tape = [a \in Ages |-> IF a = 0 THEN "none" ELSE disk.tape[a - 1]]]
  /\ UNCHANGED <<job, shrink, lastRun, since>>

-----------------------------------------------------------------------------
(***************************************************************************)
(* The retention job: prune.main.                                          *)
(***************************************************************************)
NoJob == [step |-> "idle", failed |-> FALSE, over |-> FALSE, days |-> 0]

RetentionStarts ==
  /\ Quiet
  /\ job' = [NoJob EXCEPT !.step = "apply"]
  /\ UNCHANGED <<disk, shrink, lastRun, since>>

\* The rows prune_tape deletes for a window of that many days, and the file
\* with them deleted: their space is dead until a VACUUM.
Expired(d, days) == {a \in Ages : a > days /\ d.tape[a] # "none"}

Pruned(d, rows) ==
  [d EXCEPT !.tape = [a \in Ages |-> IF a \in rows THEN "none" ELSE d.tape[a]],
            !.dead["tape"] = @ + SumFunctionOnSet(Weights(d), rows)]

To(step) == job' = [job EXCEPT !.step = step]

\* A step raises: main goes on to the next one, and the job is red.
Fails(step) == job' = [job EXCEPT !.step = step, !.failed = TRUE]

\* Snapshots past their resolution, deleted in one transaction.
Thinned(d, weight) == [d EXCEPT !.rows["prices"] = @ - weight, !.dead["prices"] = @ + weight]

ThinWeights == 0..disk.rows["prices"]

\* apply_retention: thin the snapshots, delete the tape past its window.
ApplyRetention ==
  /\ job.step = "apply"
  /\ \E weight \in ThinWeights : disk' = Pruned(Thinned(disk, weight), Expired(disk, Keep))
  /\ To("compact")
  /\ UNCHANGED <<shrink, lastRun, since>>

NotWritten == [verdict |-> 0, measure |-> 0]

\* Nothing catches what apply_retention raises: the job dies there, with the
\* batches it had committed.
ApplyDies ==
  /\ job.step = "apply"
  /\ \E weight \in ThinWeights, rows \in SUBSET Expired(disk, Keep) :
       disk' = Pruned(Thinned(disk, weight), rows)
  /\ job' = NoJob
  /\ lastRun' = "red" /\ since' = NotWritten
  /\ UNCHANGED <<shrink>>

Fat(d) == {a \in Ages : a > FullDays /\ d.tape[a] = "fat"}

\* Nulling a payload writes a slim row and leaves the fat one dead.
Nulled(d, rows) ==
  [Into(d, "tape", Cardinality(rows) * Weight["slim"]) EXCEPT
     !.tape = [a \in Ages |-> IF a \in rows THEN "slim" ELSE d.tape[a]],
     !.dead["tape"] = @ + Cardinality(rows) * Weight["fat"]]

\* compact_tape: its limits stop it after any number of batches, and it raises
\* at a batch that finds no room.
CompactTape ==
  /\ job.step = "compact"
  /\ \E rows \in SUBSET Fat(disk) :
       /\ Fits(Nulled(disk, rows))
       /\ disk' = Nulled(disk, rows)
       /\ \/ To("vacuum")
          \/ /\ \E a \in Fat(disk) \ rows : ~Fits(Nulled(disk, rows \cup {a}))
             /\ Fails("vacuum")
  /\ UNCHANGED <<shrink, lastRun, since>>

\* Mutant of CapFail: "Live data is reported, not judged".
JudgedOnFile(d) == FileOf(d) >= FileHard

\* cap_fail: live data at its line, or the file at its own.
CapFail(d) == LiveOf(d) >= FailLive \/ FileOf(d) >= FileHard

\* The file is measured for the verdict.
Measure(step, d) ==
  /\ job' = [job EXCEPT !.step = step, !.over = CapFail(d)]
  /\ since' = [since EXCEPT !.measure = 0]

\* vacuum_pruned_tables: dead space of these two tables becomes reusable; the
\* file keeps its size, and is measured.  It can raise after the first one.
Vacuum ==
  /\ job.step = "vacuum"
  /\ \/ disk' = Vacuumed(disk, PrunedTables) /\ Measure("defend", disk)
     \/ /\ \E done \in {{}, {"prices"}} : disk' = Vacuumed(disk, done)
        /\ Fails("defend") /\ UNCHANGED since
  /\ UNCHANGED <<shrink, lastRun>>

StillHigh == LiveOf(disk) >= Target

\* defend_cap: it cuts the window while live data is high, not when the file
\* is high because of dead pages.
DefendCap ==
  /\ job.step = "defend"
  /\ LET needed == StillHigh /\ (LiveOf(disk) >= Trigger \/ FileOf(disk) >= FileAlarm)
     IN job' = IF needed /\ Floor < Keep THEN [job EXCEPT !.step = "cut", !.days = Keep - 1]
               ELSE [job EXCEPT !.step = "judge"]
  /\ UNCHANGED <<disk, shrink, lastRun, since>>

\* The oldest day goes, or some of its batches and the step raises.
CutDay ==
  /\ job.step = "cut"
  /\ \E rows \in SUBSET Expired(disk, job.days) :
       /\ disk' = Pruned(disk, rows)
       /\ \/ rows = Expired(disk, job.days) /\ To("recheck")
          \/ Fails("judge")
  /\ UNCHANGED <<shrink, lastRun, since>>

\* Mutant of AtFloor: the loop's end, off by one.
PastFloor == job.days < Floor

AtFloor == job.days = Floor

\* Live data is measured again; the next day goes while it is still high.
Recheck ==
  /\ job.step = "recheck"
  /\ \/ /\ disk' = Vacuumed(disk, PrunedTables)
        /\ IF StillHigh /\ ~AtFloor
           THEN job' = [job EXCEPT !.step = "cut", !.days = @ - 1] /\ UNCHANGED since
           ELSE Measure("judge", disk)
     \/ /\ \E done \in {{}, {"prices"}} : disk' = Vacuumed(disk, done)
        /\ Fails("judge") /\ UNCHANGED since
  /\ UNCHANGED <<shrink, lastRun>>

\* Red means the fail line of the cap, or a failed step.
Red == job.over \/ job.failed

Judge ==
  /\ job.step = "judge"
  /\ lastRun' = IF Red THEN "red" ELSE "green"
  /\ since' = [verdict |-> IF Red THEN 0 ELSE since.measure, measure |-> 0]
  /\ job' = NoJob
  /\ UNCHANGED <<disk, shrink>>

-----------------------------------------------------------------------------
(***************************************************************************)
(* The dispatched jobs that shorten the file.  A bound: they run while no  *)
(* retention job does.                                                     *)
(***************************************************************************)

\* shrink starts on a tape the recorder is not writing.
ShrinkStarts ==
  /\ Quiet /\ disk.free["tape"] + disk.dead["tape"] > 0
  /\ shrink' = 0
  /\ UNCHANGED <<disk, job, lastRun, since>>

\* Mutant of Guarded: live data is measured, not the file.
GuardedByLive(weight) == LiveOf(disk) + weight <= Guard

\* guard_refusal: a chunk may not take the database past the guard.
Guarded(weight) == FileOf(disk) + weight <= Guard

\* A round moves a chunk of the tail into the reusable space in front of it,
\* and its VACUUM truncates the tail.  Without the space, it extends the file.
ShrinkRound ==
  /\ 0 <= shrink /\ shrink < StallRounds
  /\ \E a \in Ages : LET weight == Weight[disk.tape[a]] IN
       /\ weight > 0 /\ Guarded(weight)
       /\ IF weight <= disk.free["tape"]
          THEN /\ disk' = Vacuumed(Into(disk, "tape", weight), {"tape"})
               /\ shrink' = 0
          ELSE /\ disk' = Vacuumed([Into(disk, "tape", weight) EXCEPT !.dead["tape"] = @ + weight],
                                   {"tape"})
               /\ shrink' = shrink + 1
  /\ UNCHANGED <<job, lastRun, since>>

\* _reindex: the index is rebuilt beside itself, under the guard, and the file
\* loses its bloat.  A rebuild that fails is dropped.
Reindexed ==
  {Into(disk, "tape", bloat) :
     bloat \in 0..(IF Guarded(1) /\ disk.free["tape"] > 0 THEN 1 ELSE 0)}

\* It stops at the guard, packed, stalled, or after the rounds it was given.
\* An installment leaves the indexes alone.
ShrinkEnds ==
  /\ 0 <= shrink
  /\ shrink' = -1
  /\ disk' \in Reindexed
  /\ UNCHANGED <<job, lastRun, since>>

TableWeight(t) ==
  (IF t = "tape" THEN TapeWeight(disk) ELSE disk.rows[t]) + disk.dead[t] + disk.free[t]

\* VACUUM FULL rewrites a table if a full copy of it fits beside it.
VacuumFull ==
  /\ Quiet
  /\ \E t \in PrunedTables :
       /\ TableWeight(t) < Cap - FileOf(disk)
       /\ disk' = [disk EXCEPT !.free[t] = 0, !.dead[t] = 0]
  /\ UNCHANGED <<job, shrink, lastRun, since>>

StorageInit ==
  /\ disk = [tape |-> [a \in Ages |-> "none"],
             rows |-> [t \in {"prices", "rest"} |-> 0],
             dead |-> [t \in Tables |-> 0], free |-> [t \in Tables |-> 0]]
  /\ job = NoJob
  /\ shrink = -1
  /\ lastRun = "none"
  /\ since = NotWritten

StorageNext ==
  \/ RecordTape \/ InsertRows \/ UpdateRows \/ Autovacuum \/ NewDay
  \/ RetentionStarts \/ ApplyRetention \/ ApplyDies \/ CompactTape
  \/ Vacuum \/ DefendCap \/ CutDay \/ Recheck \/ Judge
  \/ ShrinkStarts \/ ShrinkRound \/ ShrinkEnds \/ VacuumFull

\* The writing, the retention job and what is run by hand.
StorageSpec == StorageInit /\ [][StorageNext]_storageVars

-----------------------------------------------------------------------------
\* Every variable holds a value of its domain, and the file is never past the
\* cap.
StorageTypeOK ==
  /\ disk.tape \in [Ages -> {"none", "slim", "fat"}]
  /\ disk.rows \in [{"prices", "rest"} -> 0..Cap]
  /\ {disk.dead, disk.free} \subseteq [Tables -> 0..Cap]
  /\ Fits(disk)
  /\ job \in [step : {"idle", "apply", "compact", "vacuum"} \cup AfterMeasuring,
              failed : BOOLEAN, over : BOOLEAN, days : 0..Keep]
  /\ shrink \in -1..StallRounds
  /\ lastRun \in {"none", "green", "red"}
  /\ since \in [verdict : 0..DayWrites, measure : 0..DayWrites]

\* "A day is cut only while LIVE data is at or above CAP_DEFENSE_TARGET [...]
\* never below TAPE_FLOOR_DAYS": whatever is written, vacuumed or raises beside
\* the defence and however often it cuts, no day inside the window goes while
\* live data is low, and none inside the floor ever does.
CutOnlyWhileHigh ==
  [][\A a \in Ages :
       job.step # "idle" /\ disk.tape[a] # "none" /\ disk'.tape[a] = "none"
         => a > Floor /\ (a > Keep \/ LiveOf(disk) >= Target)]_storageVars

\* A verdict is given on what was measured before the defence, while others
\* write: after a green one, live data is past the fail line by no more than
\* what was written since that measurement.  So a write that is refused then
\* is refused for dead or unreachable space, unless those writes alone are
\* more than there is between the fail line and the cap.
GreenBoundsLive ==
  lastRun = "green" => LiveOf(disk) < FailLive + since.verdict
=============================================================================
