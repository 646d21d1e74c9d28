-------------------------------- MODULE Reports --------------------------------
(***************************************************************************)
(* What a cycle tells the operator once: the daily digest with its         *)
(* sections (run_trading.py, digest_health.py, models/settings.py) and the *)
(* paper-trade milestones (milestones.py).  Each is sent first and stamped *)
(* in the database after, or the other way round, and the cycle can die    *)
(* between the two.  Telegram is external and its answer is not looked at. *)
(***************************************************************************)
EXTENDS Integers, FiniteSets, FiniteSetsExt

CONSTANTS
  Sections,      \* sections of the digest
  DegradedDays,  \* DEGRADED_DAYS_BEFORE_ALERT
  Milestones,    \* MILESTONES
  Gate,          \* paper_trades_before_live
  MaxDate,       \* bound: days
  MaxDeaths      \* bound: cycles that die

ASSUME ReportsAssumption ==
  /\ {DegradedDays, Gate} \subseteq Nat \ {0} /\ {MaxDate, MaxDeaths} \subseteq Nat
  /\ Milestones \subseteq Nat \ {0}
  /\ IsFiniteSet(Sections)

VARIABLES
  date,       \* the UTC date
  lastBeat,   \* TradingSettings.last_heartbeat_at, as a date
  section,    \* GuardState of each section: transitions and changed_at
  lastTold,   \* TradingSettings.last_milestone_alerted
  paper,      \* TradingSettings.paper_trade_count
  report,     \* the running cycle: its step and its locals
  streak,     \* each section's days unavailable since it last was available,
              \* and the alerts in them
  told,       \* messages about each milestone
  deaths      \* cycles that died, and those that died between telling and noting

reportsVars == <<date, lastBeat, section, lastTold, paper, report, streak, told, deaths>>

Never == -1

NoReport == [step |-> "none", count |-> 0, todo |-> {}, alert |-> "none", telling |-> 0]

-----------------------------------------------------------------------------
(***************************************************************************)
(* The digest.                                                             *)
(***************************************************************************)

\* The settings are read once, before the cycle's own trades.
ReportBegins ==
  /\ report.step = "none"
  /\ report' = [NoReport EXCEPT !.step = "due", !.count = paper]
  /\ UNCHANGED <<date, lastBeat, section, lastTold, paper, streak, told, deaths>>

\* heartbeat_due: once for each UTC date.
DigestDue ==
  /\ report.step = "due"
  /\ report' = IF lastBeat < date THEN [report EXCEPT !.step = "sections", !.todo = Sections]
               ELSE [report EXCEPT !.step = "trade"]
  /\ UNCHANGED <<date, lastBeat, section, lastTold, paper, streak, told, deaths>>

\* Mutant of CountedToday: every digest counts.
NeverCounted(s) == FALSE

\* Days, not cycles: has this date been counted, or seen the section healthy?
CountedToday(s) == section[s].changed = date

\* record_section: a healthy section starts over; an unavailable one counts
\* once a date.  It is committed before its alert.
RecordHealthy(s) ==
  /\ section' = [section EXCEPT ![s] = [days |-> 0, changed |-> date]]
  /\ streak' = [streak EXCEPT ![s] = [days |-> {}, alerts |-> 0]]
  /\ report' = [report EXCEPT !.todo = @ \ {s},
                  !.alert = IF section[s].days >= DegradedDays THEN "recovered" ELSE "none"]

RecordDegraded(s) ==
  LET days == section[s].days + IF CountedToday(s) THEN 0 ELSE 1
      alerted == days = DegradedDays /\ ~CountedToday(s)
  IN /\ section' = IF CountedToday(s) THEN section
                   ELSE [section EXCEPT ![s] = [days |-> days, changed |-> date]]
     /\ streak' = [streak EXCEPT ![s].days = @ \cup {date},
                                 ![s].alerts = @ + IF alerted THEN 1 ELSE 0]
     /\ report' = [report EXCEPT !.todo = @ \ {s},
                     !.alert = IF alerted THEN "degraded" ELSE "none"]

\* A section is built, or raises and degrades to a note; tracking it can raise
\* too, and then nothing is recorded.
BuildSection ==
  /\ report.step = "sections" /\ report.alert = "none"
  /\ \E s \in report.todo :
       \/ RecordHealthy(s)
       \/ RecordDegraded(s)
       \/ report' = [report EXCEPT !.todo = @ \ {s}] /\ UNCHANGED <<section, streak>>
  /\ UNCHANGED <<date, lastBeat, lastTold, paper, told, deaths>>

AlertSection ==
  /\ report.step = "sections" /\ report.alert # "none"
  /\ report' = [report EXCEPT !.alert = "none"]
  /\ UNCHANGED <<date, lastBeat, section, lastTold, paper, streak, told, deaths>>

SendHeartbeat ==
  /\ report.step = "sections" /\ report.alert = "none" /\ report.todo = {}
  /\ report' = [report EXCEPT !.step = "beat"]
  /\ UNCHANGED <<date, lastBeat, section, lastTold, paper, streak, told, deaths>>

\* record_heartbeat, with the date it is by then.
RecordHeartbeat ==
  /\ report.step = "beat"
  /\ lastBeat' = date
  /\ report' = [report EXCEPT !.step = "trade"]
  /\ UNCHANGED <<date, section, lastTold, paper, streak, told, deaths>>

-----------------------------------------------------------------------------
(***************************************************************************)
(* Trading and the milestones.                                             *)
(***************************************************************************)

\* With nothing that qualifies the cycle is over.
NothingQualifies ==
  /\ report.step = "trade"
  /\ report' = NoReport
  /\ UNCHANGED <<date, lastBeat, section, lastTold, paper, streak, told, deaths>>

TradePlaced ==
  /\ report.step = "trade"
  /\ paper' \in paper..(IF paper > Gate THEN paper ELSE paper + 1)
  /\ report' = [report EXCEPT !.step = "milestones"]
  /\ UNCHANGED <<date, lastBeat, section, lastTold, streak, told, deaths>>

\* Mutant of Announced: a milestone is told by the cycle that finds the count
\* on it.
AnnouncedWhenHit(count) ==
  IF count > lastTold /\ count \in Milestones \cup {Gate} THEN count ELSE 0

\* announce_milestones: the gate, else the highest milestone reached since the
\* last one told, else none.
Announced(count) ==
  LET reached == {m \in Milestones : lastTold < m /\ m <= count /\ m < Gate}
  IN IF count >= Gate /\ Gate > lastTold THEN Gate
     ELSE IF reached # {} THEN Max(reached) ELSE 0

\* It is sent, delivered or not, and then noted.
Announce ==
  /\ report.step = "milestones"
  /\ LET m == Announced(report.count)
     IN IF m = 0 THEN report' = NoReport /\ UNCHANGED told
        ELSE /\ told' = [told EXCEPT ![m] = @ + 1]
             /\ report' = [report EXCEPT !.step = "note", !.telling = m]
  /\ UNCHANGED <<date, lastBeat, section, lastTold, paper, streak, deaths>>

NoteMilestone ==
  /\ report.step = "note"
  /\ lastTold' = report.telling
  /\ report' = NoReport
  /\ UNCHANGED <<date, lastBeat, section, paper, streak, told, deaths>>

\* The cycle dies, or its commit fails.
ReportDies ==
  /\ report.step # "none" /\ deaths.all < MaxDeaths
  /\ deaths' = [all |-> deaths.all + 1,
                telling |-> deaths.telling + IF report.step = "note" THEN 1 ELSE 0]
  /\ report' = NoReport
  /\ UNCHANGED <<date, lastBeat, section, lastTold, paper, streak, told>>

-----------------------------------------------------------------------------
\* Retiring the trades of an older deploy takes them out of the count.
CountFalls ==
  /\ report.step = "none" /\ paper > 0
  /\ paper' \in 0..(paper - 1)
  /\ UNCHANGED <<date, lastBeat, section, lastTold, report, streak, told, deaths>>

\* Midnight, which can fall inside a cycle.
DayPasses ==
  /\ date < MaxDate
  /\ date' = date + 1
  /\ UNCHANGED <<lastBeat, section, lastTold, paper, report, streak, told, deaths>>

ReportsInit ==
  /\ date = 0
  /\ lastBeat = Never
  /\ section = [s \in Sections |-> [days |-> 0, changed |-> Never]]
  /\ lastTold = 0
  /\ paper = 0
  /\ report = NoReport
  /\ streak = [s \in Sections |-> [days |-> {}, alerts |-> 0]]
  /\ told = [m \in Milestones \cup {Gate} |-> 0]
  /\ deaths = [all |-> 0, telling |-> 0]

ReportsNext ==
  \/ ReportBegins \/ DigestDue \/ BuildSection \/ AlertSection
  \/ SendHeartbeat \/ RecordHeartbeat
  \/ NothingQualifies \/ TradePlaced \/ Announce \/ NoteMilestone \/ ReportDies
  \/ CountFalls \/ DayPasses

ReportsSpec == ReportsInit /\ [][ReportsNext]_reportsVars

-----------------------------------------------------------------------------
\* Every variable holds a value of its domain.
ReportsTypeOK ==
  /\ date \in 0..MaxDate /\ lastBeat \in Never..date
  /\ section \in [Sections -> [days : Nat, changed : Never..date]]
  /\ lastTold \in Milestones \cup {0, Gate}
  /\ paper \in 0..(Gate + 1)
  /\ report.step \in {"none", "due", "sections", "beat", "trade", "milestones", "note"}
  /\ report.alert \in {"none", "degraded", "recovered"}
  /\ told \in [Milestones \cup {Gate} -> Nat]

\* "Days, not cycles": a section that degrades is escalated once until it
\* recovers, and only after so many different dates, through digests repeated
\* because a cycle died before its stamp.
EscalatedOnceAfterDays ==
  \A s \in Sections :
    /\ streak[s].alerts <= 1
    /\ streak[s].alerts = 1 => Cardinality(streak[s].days) >= DegradedDays

\* A milestone that is reached is not passed over: a cycle that finds it
\* reached and says nothing does so because it, or a later one, was sent, even
\* if the cycles that first found it traded nothing or died at any point, and
\* however the count fell and rose since.
SilenceMeansTold ==
  report.step = "milestones" /\ Announced(report.count) = 0 =>
    \A m \in Milestones \cup {Gate} :
      m <= report.count /\ m <= Gate => \E n \in DOMAIN told : n >= m /\ told[n] > 0

\* The other half: it is told again only for a cycle that died between telling
\* and noting it, once for each such death.  The comment of milestones.py,
\* "announced once each", leaves these out.
ToldAgainOnlyAfterDeath ==
  \A m \in Milestones \cup {Gate} : told[m] <= 1 + deaths.telling
=============================================================================
