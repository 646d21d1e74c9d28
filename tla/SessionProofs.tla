---------------------------- MODULE SessionProofs ----------------------------
(***************************************************************************)
(* Proofs about the market session: for every window, link length, cycle   *)
(* length and timeout, no point of the day's grid is run twice, no link    *)
(* misses a point after it began to loop, and no link ends in silence.     *)
(***************************************************************************)
EXTENDS Session, TLAPS

-----------------------------------------------------------------------------
(***************************************************************************)
(* The grid.                                                               *)
(***************************************************************************)

\* The constants, as the arithmetic needs them.
LEMMA SessionConstants ==
  /\ SessionStart \in Nat /\ SessionEnd \in Nat
  /\ LinkTicks \in Nat /\ SegmentTicks \in Nat
  /\ CycleTicks \in Nat /\ CycleTicks > 0
  /\ CycleTimeout \in Nat /\ CycleTimeout < CycleTicks
  /\ SessionStart < SessionEnd
BY SessionAssumption

\* Division with a remainder.
LEMMA Division ==
  ASSUME NEW n \in Nat, NEW d \in Nat, d > 0
  PROVE  /\ n \div d \in Nat
         /\ n % d \in 0..(d - 1)
         /\ n = d * (n \div d) + (n % d)
OBVIOUS

\* Multiplication keeps the order.
LEMMA Monotone ==
  ASSUME NEW d \in Nat, NEW a \in Int, NEW b \in Int, a <= b
  PROVE  d * a <= d * b
OBVIOUS

\* A multiple leaves no remainder.
LEMMA NoRemainder ==
  ASSUME NEW d \in Nat, d > 0, NEW k \in Nat
  PROVE  (d * k) % d = 0
OBVIOUS

\* The points of the grid are whole cycles after its start.
Point(k) == SessionStart + CycleTicks * k

\* Every element of the grid is such a point, inside the session.
LEMMA GridIsPoints ==
  ASSUME NEW g \in Grid
  PROVE  /\ g \in Nat /\ SessionStart <= g /\ g < SessionEnd
         /\ \E k \in Nat : g = Point(k)
<1>1. g \in SessionStart..(SessionEnd - 1) /\ (g - SessionStart) % CycleTicks = 0
  BY DEF Grid
<1>2. PICK n \in Nat : n = g - SessionStart
  BY <1>1, SessionConstants
<1>3. n = CycleTicks * (n \div CycleTicks) /\ n \div CycleTicks \in Nat
  BY <1>1, <1>2, SessionConstants, Division
<1>4. g = Point(n \div CycleTicks)
  BY <1>1, <1>2, <1>3, SessionConstants DEF Point
<1>5. QED
  BY <1>1, <1>3, <1>4, SessionConstants

\* Two points of the grid are a cycle apart.
LEMMA PointsApart ==
  ASSUME NEW j \in Nat, NEW k \in Nat, Point(j) < Point(k)
  PROVE  Point(j) + CycleTicks <= Point(k)
<1>1. j < k
  <2>1. CASE k <= j
    <3>1. CycleTicks * k <= CycleTicks * j
      BY <2>1, Monotone, SessionConstants
    <3>2. CycleTicks * k \in Int /\ CycleTicks * j \in Int
      BY SessionConstants
    <3>3. QED BY <3>1, <3>2, SessionConstants DEF Point
  <2>2. QED BY <2>1
<1>2. CycleTicks * (j + 1) <= CycleTicks * k
  BY <1>1, Monotone, SessionConstants
<1>3. CycleTicks * (j + 1) = CycleTicks * j + CycleTicks
  BY SessionConstants
<1>4. CycleTicks * j \in Int /\ CycleTicks * k \in Int
  BY SessionConstants
<1>5. QED
  BY <1>2, <1>3, <1>4, SessionConstants DEF Point

\* A point before the window's end is on the grid.
LEMMA PointInGrid ==
  ASSUME NEW k \in Nat, Point(k) < SessionEnd
  PROVE  Point(k) \in Grid
<1>1. PICK n \in Nat : n = CycleTicks * k
  BY SessionConstants
<1>2. n % CycleTicks = 0
  BY <1>1, SessionConstants, NoRemainder
<1>3. Point(k) = SessionStart + n /\ (SessionStart + n) - SessionStart = n
  BY <1>1, SessionConstants DEF Point
<1>4. QED
  BY <1>2, <1>3, SessionConstants DEF Grid

\* _next_grid: a point of the grid no earlier than t, and nothing between.
LEMMA NextGridIsNext ==
  ASSUME NEW t \in Nat
  PROVE  /\ \E k \in Nat : NextGrid(t) = Point(k)
         /\ NextGrid(t) \in Nat /\ t <= NextGrid(t)
         /\ NextGrid(t) < SessionEnd => NextGrid(t) \in Grid
         /\ \A g \in Grid : t <= g => NextGrid(t) <= g
<1>1. CASE t <= SessionStart
  <2>1. NextGrid(t) = SessionStart /\ Point(0) = SessionStart
    BY <1>1, SessionConstants DEF NextGrid, Point
  <2>2. QED BY <1>1, <2>1, SessionConstants, PointInGrid, GridIsPoints
<1>2. CASE t > SessionStart
  <2> DEFINE n == t - SessionStart + CycleTicks - 1
             q == n \div CycleTicks
             r == n % CycleTicks
  <2>1. n \in Nat
    BY <1>2, SessionConstants
  <2>2. q \in Nat /\ r \in 0..(CycleTicks - 1) /\ n = CycleTicks * q + r
    BY <2>1, SessionConstants, Division
  <2>3. NextGrid(t) = Point(q)
    BY <1>2, SessionConstants DEF NextGrid, Point
  <2>4. PICK p \in Int : p = CycleTicks * q
    BY <2>2, SessionConstants
  <2>5. Point(q) = SessionStart + p /\ n = p + r
    BY <2>2, <2>4 DEF Point
  <2>6. t <= Point(q) /\ Point(q) < t + CycleTicks /\ Point(q) \in Nat
    BY <1>2, <2>2, <2>5, SessionConstants
  <2>7. ASSUME NEW g \in Grid, t <= g PROVE Point(q) <= g
    <3>1. PICK k \in Nat : g = Point(k)
      BY GridIsPoints
    <3>2. g \in Nat
      BY GridIsPoints
    <3>3. CASE g < Point(q)
      <4>1. g + CycleTicks <= Point(q)
        BY <2>2, <3>1, <3>3, PointsApart
      <4>2. QED BY <2>6, <2>7, <3>2, <4>1, SessionConstants
    <3>4. QED BY <2>6, <3>2, <3>3
  <2>8. QED BY <2>2, <2>3, <2>6, <2>7, PointInGrid
<1>3. QED
  BY <1>1, <1>2, SessionConstants

\* After the cycle of a point, no other point is due before its timeout.
LEMMA NothingMeanwhile ==
  ASSUME NEW c \in Grid, NEW g \in Grid, NEW t \in Nat, t <= c + CycleTimeout, g <= t
  PROVE  g <= c
<1>1. PICK j \in Nat, k \in Nat : c = Point(j) /\ g = Point(k)
  BY GridIsPoints
<1>2. c \in Nat /\ g \in Nat
  BY GridIsPoints
<1>3. CASE c < g
  <2>1. c + CycleTicks <= g
    BY <1>1, <1>3, PointsApart
  <2>2. QED BY <1>2, <2>1, SessionConstants
<1>4. QED
  BY <1>2, <1>3

-----------------------------------------------------------------------------
(***************************************************************************)
(* The inductive invariant.                                                *)
(***************************************************************************)

Link ==
  [phase : {"none", "setup", "sleep", "loop", "cycle"}, started : Nat, waited : BOOLEAN, from : Nat,
   runUntil : 0..SessionEnd, chain : BOOLEAN, nextCycle : Nat, cycleStart : Nat,
   recorder : Int, failed : BOOLEAN, alerted : BOOLEAN]

SessionTyped ==
  /\ clock \in 0..(SessionEnd + 1)
  /\ waiting \in BOOLEAN
  /\ link \in Link
  /\ ran \in [Grid -> Nat]
  /\ alarms \subseteq {"no session", "not handed off", "cycle failed"}
  /\ spent \in [triggers : Nat, kills : Nat]

\* No point is run twice and none before its time.
InTime == \A g \in Grid : ran[g] <= 1 /\ (g > clock => ran[g] = 0)

\* A link that is not looping yet will only meet points that no link ran: it
\* waited for the tick after the one at which its predecessor may have run one.
Waits ==
  /\ link.phase = "setup" =>
       link.started <= clock /\ \A g \in Grid : g > link.started => ran[g] = 0
  /\ link.phase = "sleep" =>
       link.started <= clock /\ \A g \in Grid : g >= link.started => ran[g] = 0

\* Between two cycles the next point lies ahead, and of the points after the
\* link began to loop exactly those before it were run.
Loops ==
  link.phase = "loop" =>
    /\ clock <= link.nextCycle
    /\ link.nextCycle < SessionEnd => link.nextCycle \in Grid
    /\ \A g \in Grid : /\ link.nextCycle <= g => ran[g] = 0
                       /\ link.from < g /\ g < link.nextCycle => ran[g] = 1

\* During a cycle the same holds of the point it was started for.
Cycles ==
  link.phase = "cycle" =>
    /\ link.cycleStart \in Grid
    /\ link.cycleStart <= clock /\ clock <= link.cycleStart + CycleTimeout
    /\ \A g \in Grid : /\ link.cycleStart < g => ran[g] = 0
                       /\ link.from < g /\ g <= link.cycleStart => ran[g] = 1

\* A link that will not hand off runs to the end of the window.
LastLink ==
  link.phase \in {"sleep", "loop", "cycle"} /\ ~link.chain => link.runUntil = SessionEnd

SessionInv == SessionTyped /\ InTime /\ Waits /\ Loops /\ Cycles /\ LastLink

-----------------------------------------------------------------------------
(***************************************************************************)
(* The steps.                                                              *)
(***************************************************************************)

\* The clock and the points are natural numbers.
LEMMA Numbers ==
  ASSUME SessionTyped
  PROVE  /\ clock \in Nat /\ \A g \in Grid : g \in Nat /\ ran[g] \in Nat
         /\ link.started \in Nat /\ link.from \in Nat /\ link.nextCycle \in Nat
         /\ link.cycleStart \in Nat /\ link.runUntil \in 0..SessionEnd
<1>1. clock \in Nat
  <2>1. clock \in 0..(SessionEnd + 1)
    BY DEF SessionTyped
  <2>2. QED BY <2>1
<1>2. \A g \in Grid : g \in Nat /\ ran[g] \in Nat
  BY GridIsPoints DEF SessionTyped
<1>3. link \in Link
  BY DEF SessionTyped
<1>4. QED
  BY <1>1, <1>2, <1>3 DEF Link

\* Counting a trigger or a kill.
LEMMA SpentMore ==
  ASSUME NEW s \in [triggers : Nat, kills : Nat]
  PROVE  /\ [s EXCEPT !.triggers = @ + 1] \in [triggers : Nat, kills : Nat]
         /\ [s EXCEPT !.kills = @ + 1] \in [triggers : Nat, kills : Nat]
         /\ [s EXCEPT !.kills = @ + 1] # s
<1>1. s.triggers + 1 \in Nat /\ s.kills + 1 \in Nat /\ s.kills + 1 # s.kills
  OBVIOUS
<1>2. [s EXCEPT !.kills = @ + 1].kills = s.kills + 1
  OBVIOUS
<1>3. QED
  BY <1>1, <1>2

\* No link is one, and relies on nothing.
LEMMA NoLinkIsLink == NoLink \in Link /\ NoLink.phase = "none"
<1>1. 0 \in 0..SessionEnd /\ -1 \in Int
  BY SessionConstants
<1>2. QED
  BY <1>1 DEF NoLink, Link

\* A link that is gone leaves the points as they are.
LEMMA GoneInv ==
  ASSUME SessionInv, link' = NoLink, UNCHANGED <<clock, ran>>, waiting' \in BOOLEAN,
         alarms' \subseteq {"no session", "not handed off", "cycle failed"},
         spent' \in [triggers : Nat, kills : Nat]
  PROVE  SessionInv'
BY NoLinkIsLink DEF SessionInv, SessionTyped, InTime, Waits, Loops, Cycles, LastLink

\* Requests, kicks and alarms touch neither the link nor the points.
LEMMA OutsideInv ==
  ASSUME SessionInv, UNCHANGED <<clock, link, ran>>, waiting' \in BOOLEAN,
         alarms' \subseteq {"no session", "not handed off", "cycle failed"},
         spent' \in [triggers : Nat, kills : Nat]
  PROVE  SessionInv'
BY DEF SessionInv, SessionTyped, InTime, Waits, Loops, Cycles, LastLink

\* The three triggers from outside keep the invariant.
LEMMA TriggersInv ==
  ASSUME SessionInv, LinkRequested \/ Kick \/ Watchdog
  PROVE  SessionInv'
<1>1. UNCHANGED <<clock, link, ran>> /\ waiting' \in BOOLEAN
  BY DEF LinkRequested, Kick, Watchdog, SessionInv, SessionTyped
<1>2. alarms' \subseteq {"no session", "not handed off", "cycle failed"}
  BY DEF LinkRequested, Kick, Watchdog, SessionInv, SessionTyped
<1>3. spent' \in [triggers : Nat, kills : Nat]
  BY SpentMore DEF LinkRequested, Kick, Watchdog, SessionInv, SessionTyped
<1>4. QED
  BY <1>1, <1>2, <1>3, OutsideInv

\* Every way a link ends.
LEMMA EndsInv ==
  ASSUME SessionInv, LateLinkExits \/ EarlyLinkHandsOff \/ LinkEnds \/ LinkKilled
  PROVE  SessionInv'
<1> USE DEF SessionInv, SessionTyped
<1>1. link' = NoLink /\ UNCHANGED <<clock, ran>>
  BY DEF LateLinkExits, EarlyLinkHandsOff, LinkEnds, LinkKilled
<1>2. waiting' \in BOOLEAN
  <2>1. \A ok \in BOOLEAN : Dispatch(ok) => waiting' \in BOOLEAN
    BY DEF Dispatch
  <2>2. \A ok \in BOOLEAN : Dispatch(ok /\ link.chain) => waiting' \in BOOLEAN
    BY DEF Dispatch
  <2>3. QED BY <2>1, <2>2 DEF LateLinkExits, EarlyLinkHandsOff, LinkEnds, LinkKilled
<1>3. alarms' \subseteq {"no session", "not handed off", "cycle failed"}
  BY DEF LateLinkExits, EarlyLinkHandsOff, LinkEnds, LinkKilled
<1>4. spent' \in [triggers : Nat, kills : Nat]
  BY SpentMore DEF LateLinkExits, EarlyLinkHandsOff, LinkEnds, LinkKilled
<1>5. QED
  BY <1>1, <1>2, <1>3, <1>4, GoneInv

\* From the queue to the loop.
LEMMA StartsInv ==
  ASSUME SessionInv, JobStarts \/ LinkRuns \/ LoopBegins
  PROVE  SessionInv'
<1> USE DEF SessionInv
<1>0. UNCHANGED <<clock, ran, alarms, spent>> /\ link \in Link
  BY DEF JobStarts, LinkRuns, LoopBegins, SessionTyped
<1>1. CASE JobStarts
  <2>1. link' \in Link /\ link'.phase = "setup" /\ link'.started = clock
    <3>1. link' = [NoLink EXCEPT !.phase = "setup", !.started = clock]
      BY <1>1 DEF JobStarts
    <3>2. QED BY <3>1, NoLinkIsLink, Numbers DEF Link
  <2>2. waiting' = FALSE
    BY <1>1 DEF JobStarts
  <2>3. SessionTyped'
    BY <1>0, <2>1, <2>2 DEF SessionTyped
  <2>4. Waits'
    BY <1>0, <2>1, Numbers DEF Waits, InTime
  <2>5. InTime' /\ Loops' /\ Cycles' /\ LastLink'
    BY <1>0, <2>1 DEF InTime, Loops, Cycles, LastLink
  <2>6. QED BY <2>3, <2>4, <2>5
<1>2. CASE LinkRuns
  <2>1. /\ link.phase = "setup" /\ clock > link.started /\ clock < SessionEnd
        /\ link' = [link EXCEPT !.phase = "sleep", !.started = clock,
                      !.waited = (clock < SessionStart),
                      !.runUntil = Sooner(SessionEnd, HardStop),
                      !.chain = HardStop < SessionEnd]
        /\ UNCHANGED waiting
    BY <1>2 DEF LinkRuns
  <2>2. PICK until \in 0..SessionEnd, chain \in BOOLEAN :
          /\ until = Sooner(SessionEnd, HardStop)
          /\ chain = (HardStop < SessionEnd)
          /\ ~chain => until = SessionEnd
    <3>1. PICK hard \in Nat : hard = HardStop
      BY Numbers, SessionConstants DEF HardStop
    <3>2. Sooner(SessionEnd, hard) \in 0..SessionEnd
      BY SessionConstants DEF Sooner
    <3>3. ~(hard < SessionEnd) => Sooner(SessionEnd, hard) = SessionEnd
      BY SessionConstants DEF Sooner
    <3>4. CASE hard < SessionEnd
      <4>1. TRUE = (HardStop < SessionEnd)
        BY <3>1, <3>4
      <4>2. QED BY <3>1, <3>2, <4>1
    <3>5. CASE ~(hard < SessionEnd)
      <4>1. FALSE = (HardStop < SessionEnd)
        BY <3>1, <3>5
      <4>2. QED BY <3>1, <3>2, <3>3, <3>5, <4>1
    <3>6. QED BY <3>4, <3>5
  <2>3. /\ link' \in Link /\ link'.phase = "sleep" /\ link'.started = clock
        /\ link'.runUntil = until /\ link'.chain = chain
    <3>1. PICK early \in BOOLEAN :
            link' = [link EXCEPT !.phase = "sleep", !.started = clock, !.waited = early,
                       !.runUntil = until, !.chain = chain]
      <4>1. (clock < SessionStart) \in BOOLEAN
        BY Numbers, SessionConstants
      <4>2. QED BY <2>1, <2>2, <4>1
    <3>2. QED BY <1>0, <3>1, Numbers DEF Link
  <2>4. SessionTyped'
    BY <1>0, <2>1, <2>3 DEF SessionTyped
  <2>5. Waits'
    BY <1>0, <2>1, <2>3, Numbers DEF Waits
  <2>6. LastLink'
    BY <2>2, <2>3 DEF LastLink
  <2>7. InTime' /\ Loops' /\ Cycles'
    BY <1>0, <2>3 DEF InTime, Loops, Cycles
  <2>8. QED BY <2>4, <2>5, <2>6, <2>7
<1>3. CASE LoopBegins
  <2>1. PICK t \in {clock, clock + 1} :
          /\ link.phase = "sleep"
          /\ link' = [link EXCEPT !.phase = "loop", !.from = clock, !.nextCycle = NextGrid(t)]
          /\ UNCHANGED waiting
    BY <1>3 DEF LoopBegins, FirstPoints
  <2>2. PICK first \in Nat :
          /\ first = NextGrid(t) /\ clock <= first
          /\ first < SessionEnd => first \in Grid
          /\ \A g \in Grid : t <= g => first <= g
    <3>1. t \in Nat /\ clock <= t
      BY Numbers
    <3>2. PICK first \in Nat : first = NextGrid(t)
      BY <3>1, NextGridIsNext
    <3>3. /\ t <= first /\ clock <= first
          /\ first < SessionEnd => first \in Grid
          /\ \A g \in Grid : t <= g => first <= g
      BY <3>1, <3>2, NextGridIsNext, Numbers
    <3>4. QED BY <3>2, <3>3
  <2>3. /\ link' \in Link /\ link'.phase = "loop" /\ link'.from = clock
        /\ link'.nextCycle = first
        /\ link'.runUntil = link.runUntil /\ link'.chain = link.chain
    BY <1>0, <2>1, <2>2, Numbers DEF Link
  <2>4. SessionTyped'
    BY <1>0, <2>1, <2>3 DEF SessionTyped
  <2>5. Loops'
    <3>1. ASSUME NEW g \in Grid
          PROVE  /\ first <= g => ran[g] = 0
                 /\ clock < g /\ g < first => ran[g] = 1
      <4>1. g \in Nat /\ link.started \in Nat /\ clock \in Nat /\ link.started <= clock
        BY <2>1, Numbers DEF Waits
      <4>2. first <= g => ran[g] = 0
        BY <2>1, <2>2, <4>1 DEF Waits
      <4>3. ~(clock < g /\ g < first)
        BY <2>1, <2>2, <4>1
      <4>4. QED BY <4>2, <4>3
    <3>2. QED BY <1>0, <2>2, <2>3, <3>1 DEF Loops
  <2>6. LastLink'
    BY <2>1, <2>3 DEF LastLink
  <2>7. InTime' /\ Waits' /\ Cycles'
    BY <1>0, <2>3 DEF InTime, Waits, Cycles
  <2>8. QED BY <2>4, <2>5, <2>6, <2>7
<1>4. QED
  BY <1>1, <1>2, <1>3

\* A recorder's segment concerns no point.
LEMMA SegmentInv ==
  ASSUME SessionInv, StartSegment
  PROVE  SessionInv'
<1> USE DEF SessionInv
<1>1. /\ link \in Link /\ UNCHANGED <<clock, waiting, ran, alarms, spent>>
      /\ link' = [link EXCEPT !.recorder = clock + Sooner(SegmentTicks, link.runUntil - clock)]
  BY DEF StartSegment, SessionTyped
<1>2. PICK end \in Int : end = clock + Sooner(SegmentTicks, link.runUntil - clock)
  BY Numbers, SessionConstants DEF Sooner
<1>3. /\ link' \in Link /\ link'.phase = link.phase /\ link'.started = link.started
      /\ link'.from = link.from /\ link'.nextCycle = link.nextCycle
      /\ link'.cycleStart = link.cycleStart /\ link'.runUntil = link.runUntil
      /\ link'.chain = link.chain
  BY <1>1, <1>2 DEF Link
<1>4. SessionTyped'
  BY <1>1, <1>3 DEF SessionTyped
<1>5. InTime' /\ Waits' /\ Loops' /\ Cycles' /\ LastLink'
  BY <1>1, <1>3 DEF InTime, Waits, Loops, Cycles, LastLink
<1>6. QED
  BY <1>4, <1>5

\* A cycle is started on its point, neither before nor after.
LEMMA CycleStartsInv ==
  ASSUME SessionInv, CycleStarts
  PROVE  SessionInv'
<1> USE DEF SessionInv
<1>1. /\ link \in Link /\ UNCHANGED <<clock, waiting, alarms, spent>>
      /\ link.phase = "loop" /\ clock < link.runUntil /\ clock >= link.nextCycle
      /\ link' = [link EXCEPT !.phase = "cycle", !.cycleStart = clock]
      /\ ran' = [ran EXCEPT ![link.nextCycle] = @ + 1]
  BY DEF CycleStarts, Looping, SessionTyped
<1>2. /\ clock \in Nat /\ link.nextCycle = clock /\ clock \in Grid
      /\ \A g \in Grid : g \in Nat /\ ran[g] \in Nat
  BY <1>1, Numbers, SessionConstants DEF Loops
<1>3. ran[clock] = 0
  BY <1>1, <1>2 DEF Loops
<1>4. /\ ran' \in [Grid -> Nat] /\ ran'[clock] = 1
      /\ \A g \in Grid : g # clock => ran'[g] = ran[g]
  <2>1. ran' = [ran EXCEPT ![clock] = ran[clock] + 1] /\ ran \in [Grid -> Nat]
    BY <1>1, <1>2 DEF SessionTyped
  <2>2. ran' = [ran EXCEPT ![clock] = 1]
    BY <1>3, <2>1
  <2>3. QED BY <1>2, <2>1, <2>2
<1>5. /\ link' \in Link /\ link'.phase = "cycle" /\ link'.cycleStart = clock
      /\ link'.from = link.from /\ link'.runUntil = link.runUntil /\ link'.chain = link.chain
  BY <1>1, <1>2 DEF Link
<1>6. SessionTyped'
  BY <1>1, <1>4, <1>5 DEF SessionTyped
<1>7. InTime'
  BY <1>1, <1>2, <1>4 DEF InTime
<1>8. Cycles'
  <2>1. ASSUME NEW g \in Grid
        PROVE  /\ clock < g => ran'[g] = 0
               /\ link.from < g /\ g <= clock => ran'[g] = 1
    <3>1. CASE g = clock
      BY <1>2, <1>4, <3>1
    <3>2. CASE g # clock
      <4>1. /\ link.nextCycle <= g => ran[g] = 0
            /\ link.from < g /\ g < link.nextCycle => ran[g] = 1
        BY <1>1 DEF Loops
      <4>2. QED BY <1>2, <1>4, <3>2, <4>1
    <3>3. QED BY <3>1, <3>2
  <2>2. clock <= clock + CycleTimeout
    BY <1>2, SessionConstants
  <2>3. QED BY <1>1, <1>2, <1>5, <2>1, <2>2 DEF Cycles
<1>9. Waits' /\ Loops' /\ LastLink'
  BY <1>1, <1>5 DEF Waits, Loops, LastLink
<1>10. QED
  BY <1>6, <1>7, <1>8, <1>9

\* A cycle that ends leaves the next point due, and has missed none.
LEMMA CycleEndsInv ==
  ASSUME SessionInv, CycleEnds
  PROVE  SessionInv'
<1> USE DEF SessionInv
<1>1. PICK ok \in BOOLEAN :
        /\ link' = [link EXCEPT !.phase = "loop", !.nextCycle = AfterCycle(clock),
                      !.failed = @ \/ ~ok, !.alerted = @ \/ ~ok]
        /\ alarms' = IF ok \/ link.alerted THEN alarms ELSE alarms \cup {"cycle failed"}
  BY DEF CycleEnds
<1>2. link \in Link /\ link.phase = "cycle" /\ UNCHANGED <<clock, waiting, ran, spent>>
  BY DEF CycleEnds, SessionTyped
<1>3. PICK next \in Nat :
        /\ next = NextGrid(clock + 1) /\ clock + 1 <= next
        /\ next < SessionEnd => next \in Grid
        /\ \A g \in Grid : clock + 1 <= g => next <= g
  <2>1. clock + 1 \in Nat
    BY Numbers
  <2>2. QED BY <2>1, NextGridIsNext
<1>4. /\ link' \in Link /\ link'.phase = "loop" /\ link'.nextCycle = next
      /\ link'.from = link.from /\ link'.runUntil = link.runUntil /\ link'.chain = link.chain
  <2>1. PICK failed \in BOOLEAN, alerted \in BOOLEAN :
          link' = [link EXCEPT !.phase = "loop", !.nextCycle = next,
                     !.failed = failed, !.alerted = alerted]
    BY <1>1, <1>3 DEF AfterCycle
  <2>2. QED BY <1>2, <2>1 DEF Link
<1>5. alarms' \subseteq {"no session", "not handed off", "cycle failed"}
  BY <1>1 DEF SessionTyped
<1>6. SessionTyped'
  BY <1>2, <1>4, <1>5 DEF SessionTyped
<1>7. Loops'
  <2>1. /\ link.cycleStart \in Grid /\ clock \in Nat /\ link.cycleStart \in Nat
        /\ link.cycleStart <= clock /\ clock <= link.cycleStart + CycleTimeout
    BY <1>2, Numbers DEF Cycles
  <2>2. ASSUME NEW g \in Grid
        PROVE  /\ next <= g => ran[g] = 0
               /\ link.from < g /\ g < next => ran[g] = 1
    <3>1. g \in Nat
      BY Numbers
    <3>2. /\ link.cycleStart < g => ran[g] = 0
          /\ link.from < g /\ g <= link.cycleStart => ran[g] = 1
      BY <1>2 DEF Cycles
    <3>3. CASE next <= g
      BY <1>3, <2>1, <3>1, <3>2, <3>3
    <3>4. CASE g < next
      <4>1. g <= clock
        BY <1>3, <2>1, <3>1, <3>4
      <4>2. g <= link.cycleStart
        BY <2>1, <4>1, NothingMeanwhile
      <4>3. QED BY <3>1, <3>2, <3>4, <4>2, <1>3
    <3>5. QED BY <1>3, <3>1, <3>3, <3>4
  <2>3. clock <= next
    BY <1>3, <2>1
  <2>4. QED BY <1>2, <1>3, <1>4, <2>2, <2>3 DEF Loops
<1>8. InTime' /\ Waits' /\ Cycles' /\ LastLink'
  BY <1>2, <1>4 DEF InTime, Waits, Cycles, LastLink
<1>9. QED
  BY <1>6, <1>7, <1>8

\* The clock passes no point that is due.
LEMMA TickInv ==
  ASSUME SessionInv, SessionTick
  PROVE  SessionInv'
<1> USE DEF SessionInv
<1>1. /\ clock <= SessionEnd /\ clock' = clock + 1
      /\ UNCHANGED <<waiting, link, ran, alarms, spent>>
      /\ clock \in Nat /\ \A g \in Grid : g \in Nat
      /\ link.started \in Nat /\ link.nextCycle \in Nat /\ link.cycleStart \in Nat
  BY Numbers DEF SessionTick
<1>2. SessionTyped'
  <2>1. clock + 1 \in 0..(SessionEnd + 1)
    BY <1>1, SessionConstants
  <2>2. QED BY <1>1, <2>1 DEF SessionTyped
<1>3. InTime'
  BY <1>1 DEF InTime
<1>4. Waits'
  BY <1>1 DEF Waits
<1>5. Loops'
  <2>1. link.phase = "loop" => clock < link.nextCycle
    <3>1. clock < link.runUntil \/ clock >= link.runUntil
      BY <1>1, Numbers
    <3>2. clock < link.nextCycle \/ clock >= link.nextCycle
      BY <1>1
    <3>3. QED BY <3>1, <3>2 DEF SessionTick, Looping
  <2>2. link.phase = "loop" => clock + 1 <= link.nextCycle
    BY <1>1, <2>1
  <2>3. QED BY <1>1, <2>2 DEF Loops
<1>6. Cycles'
  <2>1. link.phase = "cycle" =>
          link.cycleStart <= clock + 1 /\ clock + 1 <= link.cycleStart + CycleTimeout
    BY <1>1, SessionConstants DEF SessionTick, Cycles
  <2>2. QED BY <1>1, <2>1 DEF Cycles
<1>7. LastLink'
  BY <1>1 DEF LastLink
<1>8. QED
  BY <1>2, <1>3, <1>4, <1>5, <1>6, <1>7

-----------------------------------------------------------------------------
\* The session's invariant holds in every state.
THEOREM SessionInvariant == SessionSpec => []SessionInv
<1>1. ASSUME SessionInit PROVE SessionInv
  <2>1. SessionTyped
    <3>1. 0 \in 0..(SessionEnd + 1) /\ [g \in Grid |-> 0] \in [Grid -> Nat]
      BY SessionConstants
    <3>2. [triggers |-> 0, kills |-> 0] \in [triggers : Nat, kills : Nat]
      OBVIOUS
    <3>3. QED BY <1>1, <3>1, <3>2, NoLinkIsLink DEF SessionInit, SessionTyped
  <2>2. InTime /\ Waits /\ Loops /\ Cycles /\ LastLink
    BY <1>1, NoLinkIsLink DEF SessionInit, InTime, Waits, Loops, Cycles, LastLink
  <2>3. QED BY <2>1, <2>2 DEF SessionInv
<1>2. ASSUME SessionInv, [SessionNext]_sessionVars PROVE SessionInv'
  <2>1. CASE UNCHANGED sessionVars
    BY <1>2, <2>1 DEF sessionVars, SessionInv, SessionTyped, InTime, Waits, Loops, Cycles,
                      LastLink
  <2>2. QED BY <1>2, <2>1, TriggersInv, EndsInv, StartsInv, SegmentInv, CycleStartsInv,
               CycleEndsInv, TickInv DEF SessionNext
<1>3. QED
  BY <1>1, <1>2, PTL DEF SessionSpec

\* No point of the grid is run twice, and a looping link misses none of the
\* points after it began, whatever links are killed, kicked or handed off and
\* however long the cycles take (one fixed grid for every link: _next_grid).
\* Points between two links are not covered: the code can skip them.
THEOREM SessionRunsOnce == SessionSpec => []SlotsRunOnce
<1>1. ASSUME SessionInv PROVE SlotsRunOnce
  <2> USE <1>1 DEF SessionInv
  <2>1. \A g \in Grid : ran[g] <= 1
    BY DEF InTime
  <2>2. ASSUME link.phase = "loop", NEW g \in Grid, link.from < g, g < clock
        PROVE  ran[g] = 1
    <3>1. g \in Nat /\ clock \in Nat /\ link.nextCycle \in Nat /\ clock <= link.nextCycle
      BY <2>2, Numbers DEF Loops
    <3>2. g < link.nextCycle
      BY <2>2, <3>1
    <3>3. QED BY <2>2, <3>2 DEF Loops
  <2>3. ASSUME link.phase = "cycle", NEW g \in Grid, link.from < g, g < clock
        PROVE  ran[g] = 1
    <3>1. /\ g \in Nat /\ clock \in Nat /\ link.cycleStart \in Grid
          /\ clock <= link.cycleStart + CycleTimeout /\ g <= clock
      BY <2>3, Numbers DEF Cycles
    <3>2. g <= link.cycleStart
      BY <2>3, <3>1, NothingMeanwhile
    <3>3. QED BY <2>3, <3>2 DEF Cycles
  <2>4. QED BY <2>1, <2>2, <2>3 DEF SlotsRunOnce
<1>2. QED
  BY <1>1, SessionInvariant, PTL

\* Every variable of the session holds a value of its domain.
THEOREM SessionTypes == SessionSpec => []SessionTypeOK
<1>1. ASSUME SessionInv PROVE SessionTypeOK
  <2>1. SessionTyped
    BY <1>1 DEF SessionInv
  <2>2. link.runUntil <= SessionEnd
    BY <2>1, Numbers, SessionConstants
  <2>3. link.phase \in {"none", "setup", "sleep", "loop", "cycle"}
    BY <2>1 DEF SessionTyped, Link
  <2>4. QED BY <2>1, <2>2, <2>3 DEF SessionTyped, SessionTypeOK
<1>2. QED
  BY <1>1, SessionInvariant, PTL

\* A link that ends by itself before the window closes leaves a successor
\* queued or has told the operator that none is (_dispatch_successor): the
\* link that does not chain is the one that runs to the end of the window.
THEOREM SessionNeverSilent == SessionSpec => NoSilentHandOff
<1> DEFINE HandOff == link.phase # "none" /\ link'.phase = "none" /\ spent' = spent
                        /\ clock < SessionEnd => waiting' \/ "not handed off" \in alarms'
<1>1. ASSUME SessionInv, [SessionNext]_sessionVars
      PROVE  [HandOff]_<<link, waiting, alarms, spent, clock>>
  <2> SUFFICES ASSUME link.phase # "none", link'.phase = "none", spent' = spent,
                      clock < SessionEnd
               PROVE  waiting' \/ "not handed off" \in alarms'
    OBVIOUS
  <2>1. link \in Link /\ clock \in Nat
    BY <1>1, Numbers DEF SessionInv, SessionTyped
  <2>2. CASE EarlyLinkHandsOff
    <3>1. PICK ok \in BOOLEAN :
            /\ Dispatch(ok)
            /\ alarms' = IF ok THEN alarms ELSE alarms \cup {"not handed off"}
      BY <2>2 DEF EarlyLinkHandsOff
    <3>2. QED BY <3>1 DEF Dispatch
  <2>3. CASE LinkEnds
    <3>1. PICK ok \in BOOLEAN :
            /\ Dispatch(ok /\ link.chain)
            /\ alarms' = IF link.chain /\ ~ok THEN alarms \cup {"not handed off"} ELSE alarms
      BY <2>3 DEF LinkEnds
    <3>2. link.chain
      <4>1. link.phase = "loop" /\ clock >= link.runUntil /\ link.runUntil \in 0..SessionEnd
        BY <1>1, <2>3, Numbers DEF LinkEnds, SessionInv
      <4>2. link.runUntil # SessionEnd
        BY <2>1, <4>1, SessionConstants
      <4>3. QED BY <1>1, <4>1, <4>2 DEF SessionInv, LastLink
    <3>3. QED BY <3>1, <3>2 DEF Dispatch
  <2>4. CASE LateLinkExits
    <3>1. clock >= SessionEnd
      BY <2>4 DEF LateLinkExits
    <3>2. ~(clock < SessionEnd)
      BY <2>1, <3>1, SessionConstants
    <3>3. QED BY <3>2
  <2>5. CASE LinkKilled
    <3>1. PICK s \in [triggers : Nat, kills : Nat] : s = spent
      BY <1>1 DEF SessionInv, SessionTyped
    <3>2. spent' = [s EXCEPT !.kills = @ + 1]
      BY <2>5, <3>1 DEF LinkKilled
    <3>3. spent' # s
      BY <3>2, SpentMore
    <3>4. QED BY <3>1, <3>3
  <2>6. CASE LinkRequested \/ Kick \/ Watchdog \/ UNCHANGED sessionVars
    BY <2>6 DEF LinkRequested, Kick, Watchdog, sessionVars
  <2>7. CASE JobStarts
    BY <2>7 DEF JobStarts
  <2>8. CASE LinkRuns \/ LoopBegins \/ CycleStarts \/ CycleEnds
    BY <2>1, <2>8 DEF LinkRuns, LoopBegins, CycleStarts, CycleEnds, Link
  <2>9. CASE StartSegment
    BY <2>1, <2>9 DEF StartSegment, Link
  <2>10. CASE SessionTick
    BY <2>10 DEF SessionTick
  <2>11. QED BY <1>1, <2>2, <2>3, <2>4, <2>5, <2>6, <2>7, <2>8, <2>9, <2>10 DEF SessionNext
<1>2. QED
  BY <1>1, SessionInvariant, PTL DEF SessionSpec, NoSilentHandOff
=============================================================================
