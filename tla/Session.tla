------------------------------- MODULE Session -------------------------------
(***************************************************************************)
(* The daily market session (session.py, session_kick.py,                  *)
(* session_watchdog.py): links that hand the window on to one another, the *)
(* triggers that start them, and the watchdog.  GitHub's scheduler, which  *)
(* is external, runs one link at a time and keeps one request waiting.     *)
(*                                                                         *)
(* The clock is in ticks of a few minutes; the loop polls every ten        *)
(* seconds, so it never misses a tick.                                     *)
(***************************************************************************)
EXTENDS Integers, FiniteSets

CONSTANTS
  SessionStart,    \* SESSION_START, in ticks
  SessionEnd,      \* SESSION_END
  LinkTicks,       \* LINK_SECONDS
  CycleTicks,      \* CYCLE_SECONDS
  CycleTimeout,    \* CYCLE_TIMEOUT_SECONDS, as whole ticks a cycle can last
  SegmentTicks,    \* RECORDER_SEGMENT_SECONDS
  KickFrom,        \* KICK_FROM
  KickUntil,       \* KICK_UNTIL
  MaxTriggers,     \* bound: requests by cron or by hand in a day
  MaxKills         \* bound: links killed in a day

ASSUME SessionAssumption ==
  /\ {SessionStart, SessionEnd, KickFrom, KickUntil, MaxTriggers, MaxKills} \subseteq Nat
  /\ {LinkTicks, CycleTicks, SegmentTicks} \subseteq Nat \ {0}
  /\ SessionStart < SessionEnd /\ KickFrom < KickUntil /\ KickUntil < SessionEnd
  /\ CycleTimeout \in 0..(CycleTicks - 1)

VARIABLES
  clock,    \* the time of day
  waiting,  \* is a request for a link queued?
  link,     \* the running link, if any
  ran,      \* cycles started for each point of the grid
  alarms,   \* what was sent to the operator's phone
  spent     \* triggers and kills so far, against their bounds

sessionVars == <<clock, waiting, link, ran, alarms, spent>>

NoLink == [phase |-> "none", started |-> 0, waited |-> FALSE, from |-> 0, runUntil |-> 0,
           chain |-> FALSE, nextCycle |-> 0, cycleStart |-> 0, recorder |-> -1,
           failed |-> FALSE, alerted |-> FALSE]

Later(a, b)   == IF a > b THEN a ELSE b
Sooner(a, b)  == IF a < b THEN a ELSE b

Grid == {g \in SessionStart..(SessionEnd - 1) : (g - SessionStart) % CycleTicks = 0}

\* _next_grid: the first point of the day's grid at or after t, or the one a
\* grid step beyond the last.
NextGrid(t) ==
  IF t <= SessionStart THEN SessionStart
  ELSE SessionStart + CycleTicks * ((t - SessionStart + CycleTicks - 1) \div CycleTicks)

\* session_alive: queued counts.
Alive == waiting \/ link.phase # "none"

-----------------------------------------------------------------------------
(***************************************************************************)
(* Requests for a link.  A newer request replaces one that is waiting.     *)
(***************************************************************************)

\* One of the cron triggers is delivered, at whatever time, or a human
\* dispatches the workflow.
LinkRequested ==
  /\ spent.triggers < MaxTriggers
  /\ spent' = [spent EXCEPT !.triggers = @ + 1]
  /\ waiting' = TRUE
  /\ UNCHANGED <<clock, link, ran, alarms>>

\* session_kick, in a backstop cycle: with no link running or queued, request
\* one.  Its dispatch can fail, and then nothing is said.
Kick ==
  /\ KickFrom <= clock /\ clock < KickUntil
  /\ ~Alive
  /\ waiting' = TRUE
  /\ UNCHANGED <<clock, link, ran, alarms, spent>>

\* session_watchdog: inside the window with no link alive, say so.
Watchdog ==
  /\ SessionStart <= clock /\ clock < SessionEnd
  /\ ~Alive
  /\ alarms' = alarms \cup {"no session"}
  /\ UNCHANGED <<clock, waiting, link, ran, spent>>

\* _dispatch_successor: accepted, or refused or unreachable.
Dispatch(ok) == waiting' = (waiting \/ ok)

-----------------------------------------------------------------------------
(***************************************************************************)
(* One link: run_session.                                                  *)
(***************************************************************************)

\* The job starts when no link runs; it installs before it looks at a clock.
JobStarts ==
  /\ link.phase = "none" /\ waiting
  /\ waiting' = FALSE
  /\ link' = [NoLink EXCEPT !.phase = "setup", !.started = clock]
  /\ UNCHANGED <<clock, ran, alarms, spent>>

HardStop == clock + LinkTicks

\* plan_link says "exit".
LateLinkExits ==
  /\ link.phase = "setup" /\ clock > link.started
  /\ clock >= SessionEnd
  /\ link' = NoLink
  /\ UNCHANGED <<clock, waiting, ran, alarms, spent>>

\* plan_link says "chain_now": this link would die before the window opens.
EarlyLinkHandsOff ==
  /\ link.phase = "setup" /\ clock > link.started
  /\ clock < SessionEnd /\ Later(clock, SessionStart) >= HardStop
  /\ \E ok \in BOOLEAN :
       /\ Dispatch(ok)
       /\ alarms' = IF ok THEN alarms ELSE alarms \cup {"not handed off"}
  /\ link' = NoLink
  /\ UNCHANGED <<clock, ran, spent>>

\* plan_link says "run": sleep to the open if it is early, then loop.
LinkRuns ==
  /\ link.phase = "setup" /\ clock > link.started
  /\ clock < SessionEnd /\ Later(clock, SessionStart) < HardStop
  /\ link' = [link EXCEPT !.phase = "sleep", !.started = clock,
                !.waited = (clock < SessionStart),
                !.runUntil = Sooner(SessionEnd, HardStop),
                !.chain = HardStop < SessionEnd]
  /\ UNCHANGED <<clock, waiting, ran, alarms, spent>>

\* The first point a link aims at.  One that slept to the open wakes past it,
\* if only by a moment, and then the open is behind it; one that came later
\* may read its clock on a point or past it.
FirstPoints == {NextGrid(clock + 1)} \cup (IF link.waited THEN {} ELSE {NextGrid(clock)})

LoopBegins ==
  /\ link.phase = "sleep" /\ clock >= SessionStart
  /\ \E first \in FirstPoints :
       link' = [link EXCEPT !.phase = "loop", !.from = clock, !.nextCycle = first]
  /\ UNCHANGED <<clock, waiting, ran, alarms, spent>>

Looping == link.phase = "loop" /\ clock < link.runUntil

\* A segment of the recorder is started when there is none, unless the link is
\* about to end.
NeedsRecorder == link.recorder <= clock /\ link.runUntil - clock > 1

StartSegment ==
  /\ Looping /\ NeedsRecorder
  /\ link' = [link EXCEPT !.recorder = clock + Sooner(SegmentTicks, link.runUntil - clock)]
  /\ UNCHANGED <<clock, waiting, ran, alarms, spent>>

CycleStarts ==
  /\ Looping /\ ~NeedsRecorder
  /\ clock >= link.nextCycle
  /\ link' = [link EXCEPT !.phase = "cycle", !.cycleStart = clock]
  /\ ran' = [ran EXCEPT ![link.nextCycle] = @ + 1]
  /\ UNCHANGED <<clock, waiting, alarms, spent>>

\* Mutant of AfterCycle: the point whose cycle has just ended is due again.
SamePoint(t) == NextGrid(t)

\* The next point of the fixed grid, at least a second from now.
AfterCycle(t) == NextGrid(t + 1)

\* A cycle ends, or is killed at its timeout.  The first failure of a link is
\* alerted; none stops the session.
CycleEnds ==
  /\ link.phase = "cycle"
  /\ \E ok \in BOOLEAN :
       /\ link' = [link EXCEPT !.phase = "loop", !.nextCycle = AfterCycle(clock),
                     !.failed = @ \/ ~ok, !.alerted = @ \/ ~ok]
       /\ alarms' = IF ok \/ link.alerted THEN alarms ELSE alarms \cup {"cycle failed"}
  /\ UNCHANGED <<clock, waiting, ran, spent>>

\* Mutant of LinkEnds: what the dispatch returned is thrown away.
LinkEndsQuietly ==
  /\ link.phase = "loop" /\ clock >= link.runUntil
  /\ \E ok \in BOOLEAN : Dispatch(ok /\ link.chain)
  /\ link' = NoLink
  /\ UNCHANGED <<clock, ran, alarms, spent>>

\* The loop is over: hand off what is left of the window.
LinkEnds ==
  /\ link.phase = "loop" /\ clock >= link.runUntil
  /\ \E ok \in BOOLEAN :
       /\ Dispatch(ok /\ link.chain)
       /\ alarms' = IF link.chain /\ ~ok THEN alarms \cup {"not handed off"} ELSE alarms
  /\ link' = NoLink
  /\ UNCHANGED <<clock, ran, spent>>

\* The host kills the job, whatever it was doing.  Its workflow may be
\* unable to say so.
LinkKilled ==
  /\ link.phase # "none"
  /\ spent.kills < MaxKills
  /\ spent' = [spent EXCEPT !.kills = @ + 1]
  /\ link' = NoLink
  /\ UNCHANGED <<clock, waiting, ran, alarms>>

\* Time passes once everything due at this tick has begun, and no cycle
\* outlives its timeout.
SessionTick ==
  /\ clock <= SessionEnd
  /\ ~(Looping /\ (NeedsRecorder \/ clock >= link.nextCycle))
  /\ ~(link.phase = "loop" /\ clock >= link.runUntil)
  /\ ~(link.phase = "sleep" /\ clock >= SessionStart)
  /\ link.phase = "cycle" => clock < link.cycleStart + CycleTimeout
  /\ clock' = clock + 1
  /\ UNCHANGED <<waiting, link, ran, alarms, spent>>

SessionInit ==
  /\ clock = 0
  /\ waiting = FALSE
  /\ link = NoLink
  /\ ran = [g \in Grid |-> 0]
  /\ alarms = {}
  /\ spent = [triggers |-> 0, kills |-> 0]

SessionNext ==
  \/ LinkRequested \/ Kick \/ Watchdog
  \/ JobStarts \/ LateLinkExits \/ EarlyLinkHandsOff \/ LinkRuns \/ LoopBegins
  \/ StartSegment \/ CycleStarts \/ CycleEnds \/ LinkEnds \/ LinkKilled
  \/ SessionTick

SessionSpec == SessionInit /\ [][SessionNext]_sessionVars

-----------------------------------------------------------------------------
\* Every variable holds a value of its domain.
SessionTypeOK ==
  /\ clock \in 0..(SessionEnd + 1)
  /\ waiting \in BOOLEAN
  /\ link.phase \in {"none", "setup", "sleep", "loop", "cycle"}
  /\ link.runUntil <= SessionEnd
  /\ ran \in [Grid -> Nat]
  /\ alarms \subseteq {"no session", "not handed off", "cycle failed"}

\* One grid for every link (_next_grid): whatever links are killed, kicked or
\* handed off, no point of it is run twice, and a link misses none of the
\* points after the moment it began to loop, even when every cycle runs to its
\* timeout.  A point between the end of a link and the moment its successor
\* begins to loop is run by neither, and so is the open for a link that slept.
SlotsRunOnce ==
  /\ \A g \in Grid : ran[g] <= 1
  /\ link.phase \in {"loop", "cycle"} =>
       \A g \in Grid : link.from < g /\ g < clock /\ g < link.runUntil => ran[g] = 1

\* A link that ends by itself before the window closes leaves a successor
\* queued, or the operator has been told that none is.
NoSilentHandOff ==
  [][link.phase # "none" /\ link'.phase = "none" /\ spent' = spent /\ clock < SessionEnd =>
       waiting' \/ "not handed off" \in alarms']_<<link, waiting, alarms, spent, clock>>
=============================================================================
