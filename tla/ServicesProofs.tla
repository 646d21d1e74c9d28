--------------------------- MODULE ServicesProofs ---------------------------
(***************************************************************************)
(* Proofs about the services around the trading cycle: the operator is     *)
(* told each milestone once and each outage after its days, whatever dies; *)
(* a weather contract is priced on a measured error; a maker order keeps   *)
(* its edge at every price; and a trade pays its fee.  Each is proved of   *)
(* its component alone, for all values of the constants, and then of the   *)
(* services together.                                                      *)
(***************************************************************************)
EXTENDS MCServices, SessionProofs, StorageProofs, SequenceTheorems

-----------------------------------------------------------------------------
(***************************************************************************)
(* The ends of a set of numbers.                                           *)
(***************************************************************************)

\* A set of natural numbers that is bounded has a greatest, which is its Max.
LEMMA Largest ==
  ASSUME NEW S \in SUBSET Nat, S # {}, NEW top \in Nat, \A x \in S : x <= top
  PROVE  Max(S) \in S /\ \A x \in S : x <= Max(S)
<1> DEFINE Below == {d \in Nat : top - d \in S}
<1>1. PICK x \in S : TRUE
  OBVIOUS
<1>2. x \in Nat /\ top - x \in Nat /\ top - (top - x) = x
  OBVIOUS
<1>3. Below # {} /\ Below \in SUBSET Nat
  BY <1>2
<1> HIDE DEF Below
<1>4. PICK d \in Below : \A e \in Below : d <= e
  BY <1>3, Smallest
<1>5. d \in Nat /\ top - d \in S
  BY <1>4 DEF Below
<1>6. \A y \in S : y <= top - d
  <2> TAKE y \in S
  <2>1. top - y \in Nat /\ top - (top - y) = y
    OBVIOUS
  <2>2. top - y \in Below
    BY <2>1 DEF Below
  <2>3. QED
    BY <1>4, <1>5, <2>1, <2>2
<1>7. \E m \in S : \A y \in S : m >= y
  BY <1>5, <1>6
<1>8. Max(S) \in S /\ \A y \in S : Max(S) >= y
  BY <1>7, Zenon DEF Max
<1>9. QED
  BY <1>8

-----------------------------------------------------------------------------
(***************************************************************************)
(* What the operator is told.                                              *)
(***************************************************************************)
Announceable == Milestones \cup {Gate}

ReportSteps == {"none", "due", "sections", "beat", "trade", "milestones", "note"}
Report == [step : ReportSteps, count : Nat, todo : SUBSET Sections,
           alert : {"none", "degraded", "recovered"}, telling : Announceable \cup {0}]

ReportsTyped ==
  /\ date \in 0..MaxDate /\ lastBeat \in Never..date
  /\ section \in [Sections -> [days : Nat, changed : Never..date]]
  /\ lastTold \in Announceable \cup {0}
  /\ paper \in 0..(Gate + 1)
  /\ report \in Report
  /\ streak \in [Sections -> [days : SUBSET Int, alerts : Nat]]
  /\ told \in [Announceable -> Nat]
  /\ deaths \in [all : Nat, telling : Nat]

\* A cycle only tells a milestone above the last one noted.
TellsOnwards == report.step = "note" => report.telling > lastTold

\* Noted, or told and about to be.
Heard(m) == m <= lastTold \/ (report.step = "note" /\ report.telling = m)

\* Each time a milestone was told and not noted, a cycle died in between.
ToldAndDied ==
  \A m \in Announceable : told[m] <= deaths.telling + IF Heard(m) THEN 1 ELSE 0

\* What was noted, or is about to be, was sent.
NotedWasTold ==
  /\ lastTold # 0 => told[lastTold] > 0
  /\ report.step = "note" => told[report.telling] > 0

\* A section's count never exceeds the dates of its outage, all of them counted
\* by the last change, and its one alert came with the last day needed.
StreakCounted(s) ==
  /\ IsFiniteSet(streak[s].days)
  /\ \A d \in streak[s].days : d <= section[s].changed
  /\ section[s].days <= Cardinality(streak[s].days)
  /\ streak[s].alerts = IF section[s].days >= DegradedDays THEN 1 ELSE 0

ReportsInv ==
  /\ ReportsTyped /\ TellsOnwards /\ ToldAndDied /\ NotedWasTold
  /\ \A s \in Sections : StreakCounted(s)

\* The constants of the reports are numbers.
LEMMA ReportsConstants ==
  /\ DegradedDays \in Nat /\ DegradedDays > 0
  /\ Gate \in Nat /\ Gate > 0
  /\ MaxDate \in Nat /\ MaxDeaths \in Nat
  /\ Milestones \subseteq Nat /\ \A m \in Milestones : m > 0
BY ReportsAssumption

\* What is announced is a milestone that is above the last one noted.
LEMMA AnnouncedOnwards ==
  ASSUME NEW count \in Nat, lastTold \in Nat, Announced(count) # 0
  PROVE  Announced(count) \in Announceable /\ Announced(count) > lastTold
<1> DEFINE reached == {m \in Milestones : lastTold < m /\ m <= count /\ m < Gate}
<1>1. CASE count >= Gate /\ Gate > lastTold
  BY <1>1, ReportsConstants DEF Announced, Announceable
<1>2. CASE ~(count >= Gate /\ Gate > lastTold)
  <2>1. reached # {} /\ Announced(count) = Max(reached)
    BY <1>2 DEF Announced
  <2>2. reached \in SUBSET Nat /\ \A m \in reached : m <= count
    BY ReportsConstants
  <2>3. Max(reached) \in reached
    <3> HIDE DEF reached
    <3>1. QED
      BY <2>1, <2>2, Largest
  <2>4. QED
    BY <2>1, <2>3, ReportsConstants DEF Announceable
<1>3. QED
  BY <1>1, <1>2

\* An available section starts over.
LEMMA HealthyCounted ==
  ASSUME ReportsInv, NEW s \in Sections, RecordHealthy(s),
         UNCHANGED <<date, lastBeat, lastTold, paper, told, deaths>>
  PROVE  ReportsInv'
<1>1. /\ section' = [section EXCEPT ![s] = [days |-> 0, changed |-> date]]
      /\ streak' = [streak EXCEPT ![s] = [days |-> {}, alerts |-> 0]]
  BY DEF RecordHealthy
<1>2. PICK a \in {"none", "recovered"} :
        report' = [report EXCEPT !.todo = @ \ {s}, !.alert = a]
  BY DEF RecordHealthy
<1>3. date \in Nat
  BY ReportsConstants DEF ReportsInv, ReportsTyped
<1>4. section' \in [Sections -> [days : Nat, changed : Never..date]]
  BY <1>1, <1>3 DEF ReportsInv, ReportsTyped, Never
<1>5. streak' \in [Sections -> [days : SUBSET Int, alerts : Nat]]
  BY <1>1 DEF ReportsInv, ReportsTyped
<1>6. report' \in Report /\ report'.step = report.step /\ report'.telling = report.telling
  BY <1>2 DEF ReportsInv, ReportsTyped, Report
<1>7. ReportsTyped' /\ TellsOnwards' /\ ToldAndDied' /\ NotedWasTold'
  BY <1>4, <1>5, <1>6 DEF ReportsInv, ReportsTyped, TellsOnwards, ToldAndDied, NotedWasTold, Heard
<1>8. ASSUME NEW r \in Sections PROVE StreakCounted(r)'
  <2>1. CASE r = s
    <3>1. /\ section'[r].days = 0 /\ streak'[r].days = {} /\ streak'[r].alerts = 0
      BY <1>1, <2>1 DEF ReportsInv, ReportsTyped
    <3>2. QED
      BY <3>1, FS_EmptySet, ReportsConstants DEF StreakCounted
  <2>2. CASE r # s
    BY <1>1, <2>2 DEF ReportsInv, ReportsTyped, StreakCounted
  <2>3. QED
    BY <2>1, <2>2
<1>9. QED
  BY <1>7, <1>8 DEF ReportsInv

\* An unavailable one counts the date once, and alerts on the last day needed.
LEMMA DegradedCounted ==
  ASSUME ReportsInv, NEW s \in Sections, RecordDegraded(s),
         UNCHANGED <<date, lastBeat, lastTold, paper, told, deaths>>
  PROVE  ReportsInv'
<1> DEFINE days    == section[s].days + IF CountedToday(s) THEN 0 ELSE 1
           alerted == days = DegradedDays /\ ~CountedToday(s)
<1>1. /\ section' = IF CountedToday(s) THEN section
                    ELSE [section EXCEPT ![s] = [days |-> days, changed |-> date]]
      /\ streak' = [streak EXCEPT ![s].days = @ \cup {date},
                                  ![s].alerts = @ + IF alerted THEN 1 ELSE 0]
  BY DEF RecordDegraded
<1>2. PICK a \in {"none", "degraded"} :
        report' = [report EXCEPT !.todo = @ \ {s}, !.alert = a]
  BY DEF RecordDegraded
<1>3. /\ date \in Nat /\ section[s].days \in Nat
      /\ section[s].changed \in Int /\ section[s].changed <= date
      /\ streak[s].alerts \in Nat /\ streak[s].days \in SUBSET Int
      /\ StreakCounted(s)
  BY ReportsConstants DEF ReportsInv, ReportsTyped, Never
<1>4. PICK n \in Nat : n = section[s].days + IF CountedToday(s) THEN 0 ELSE 1
  BY <1>3
<1>5. PICK b \in Nat : b = streak[s].alerts + IF alerted THEN 1 ELSE 0
  BY <1>3
<1>6. /\ section'[s].days = n /\ section'[s].changed = date
      /\ \A r \in Sections \ {s} : section'[r] = section[r]
      /\ section' \in [Sections -> [days : Nat, changed : Never..date]]
  <2>1. CASE CountedToday(s)
    BY <1>1, <1>3, <1>4, <2>1 DEF ReportsInv, ReportsTyped, CountedToday
  <2>2. CASE ~CountedToday(s)
    <3>1. section' = [section EXCEPT ![s] = [days |-> n, changed |-> date]]
      BY <1>1, <1>4, <2>2
    <3>2. QED
      BY <1>3, <3>1 DEF ReportsInv, ReportsTyped, Never
  <2>3. QED
    BY <2>1, <2>2
<1>7. /\ streak'[s].days = streak[s].days \cup {date} /\ streak'[s].alerts = b
      /\ \A r \in Sections \ {s} : streak'[r] = streak[r]
      /\ streak' \in [Sections -> [days : SUBSET Int, alerts : Nat]]
  <2>1. PICK D \in SUBSET Int : D = streak[s].days \cup {date}
    <3>1. date \in Int
      BY <1>3
    <3>2. streak[s].days \cup {date} \in SUBSET Int
      BY <1>3, <3>1
    <3>3. QED
      BY <3>2, Zenon
  <2>2. streak' = [streak EXCEPT ![s].days = D, ![s].alerts = b]
    BY <1>1, <1>5, <2>1 DEF ReportsInv, ReportsTyped
  <2>3. QED
    BY <2>1, <2>2 DEF ReportsInv, ReportsTyped
<1>8. report' \in Report /\ report'.step = report.step /\ report'.telling = report.telling
  BY <1>2 DEF ReportsInv, ReportsTyped, Report
<1>9. ReportsTyped' /\ TellsOnwards' /\ ToldAndDied' /\ NotedWasTold'
  BY <1>6, <1>7, <1>8 DEF ReportsInv, ReportsTyped, TellsOnwards, ToldAndDied, NotedWasTold, Heard
<1>10. StreakCounted(s)'
  <2>1. /\ IsFiniteSet(streak'[s].days)
        /\ Cardinality(streak'[s].days) =
             IF date \in streak[s].days THEN Cardinality(streak[s].days)
             ELSE Cardinality(streak[s].days) + 1
        /\ Cardinality(streak[s].days) \in Nat
    <3>1. IsFiniteSet(streak[s].days)
      BY <1>3 DEF StreakCounted
    <3> DEFINE D == streak[s].days
    <3>2. /\ IsFiniteSet(D \cup {date})
          /\ Cardinality(D \cup {date}) =
               IF date \in D THEN Cardinality(D) ELSE Cardinality(D) + 1
          /\ Cardinality(D) \in Nat
      <4> HIDE DEF D
      <4>1. IsFiniteSet(D)
        BY <3>1 DEF D
      <4>2. QED
        BY <4>1, FS_AddElement, FS_CardinalityType
    <3>3. streak'[s].days = D \cup {date}
      BY <1>7
    <3>4. QED
      BY <3>2, <3>3, Zenon
  <2>2. \A d \in streak'[s].days : d <= section'[s].changed
    BY <1>3, <1>6, <1>7 DEF StreakCounted
  <2>3. ~CountedToday(s) => date \notin streak[s].days
    BY <1>3 DEF CountedToday, StreakCounted
  <2>4. section'[s].days <= Cardinality(streak'[s].days)
    <3>1. section[s].days <= Cardinality(streak[s].days)
      BY <1>3 DEF StreakCounted
    <3>2. QED
      BY <1>3, <1>4, <1>6, <2>1, <2>3, <3>1
  <2>5. streak'[s].alerts = IF section'[s].days >= DegradedDays THEN 1 ELSE 0
    <3>1. streak[s].alerts = IF section[s].days >= DegradedDays THEN 1 ELSE 0
      BY <1>3 DEF StreakCounted
    <3>2. QED
      BY <1>3, <1>4, <1>5, <1>6, <1>7, <3>1, ReportsConstants
  <2>6. QED
    BY <2>1, <2>2, <2>4, <2>5 DEF StreakCounted
<1>11. ASSUME NEW r \in Sections \ {s} PROVE StreakCounted(r)'
  BY <1>6, <1>7 DEF ReportsInv, StreakCounted
<1>12. QED
  BY <1>9, <1>10, <1>11 DEF ReportsInv

\* A step of the report that leaves the sections and the milestones alone.
LEMMA OnlyTheReport ==
  ASSUME ReportsInv, report' \in Report, TellsOnwards', NotedWasTold',
         \A m \in Announceable : Heard(m) => Heard(m)',
         UNCHANGED <<date, section, lastTold, streak, told, deaths>>,
         lastBeat' \in Never..date, paper' \in 0..(Gate + 1)
  PROVE  ReportsInv'
<1>1. ReportsTyped'
  BY DEF ReportsInv, ReportsTyped
<1>2. ToldAndDied'
  <2> SUFFICES ASSUME NEW m \in Announceable
               PROVE  told'[m] <= deaths'.telling + IF Heard(m)' THEN 1 ELSE 0
    BY DEF ToldAndDied
  <2>1. told[m] <= deaths.telling + IF Heard(m) THEN 1 ELSE 0
    BY DEF ReportsInv, ToldAndDied
  <2>2. told[m] \in Nat /\ deaths.telling \in Nat
    BY DEF ReportsInv, ReportsTyped
  <2>3. QED
    BY <2>1, <2>2
<1>3. \A s \in Sections : StreakCounted(s)'
  BY DEF ReportsInv, StreakCounted
<1>4. QED
  BY <1>1, <1>2, <1>3 DEF ReportsInv

\* The invariant holds at the start.
LEMMA ReportsStart == ReportsInit => ReportsInv
<1> SUFFICES ASSUME ReportsInit PROVE ReportsInv
  OBVIOUS
<1>1. ReportsTyped
  BY ReportsConstants
  DEF ReportsInit, ReportsTyped, Never, NoReport, Report, ReportSteps, Announceable
<1>2. TellsOnwards /\ ToldAndDied /\ NotedWasTold
  BY DEF ReportsInit, TellsOnwards, ToldAndDied, NotedWasTold, Heard, NoReport, Announceable
<1>3. ASSUME NEW s \in Sections PROVE StreakCounted(s)
  <2>1. section[s].days = 0 /\ streak[s].days = {} /\ streak[s].alerts = 0
    BY DEF ReportsInit
  <2>2. QED
    BY <2>1, FS_EmptySet, ReportsConstants DEF StreakCounted
<1>4. QED
  BY <1>1, <1>2, <1>3 DEF ReportsInv

\* A milestone is told: it was not heard of yet, and is now.
LEMMA AnnounceCounted ==
  ASSUME ReportsInv, Announce
  PROVE  ReportsInv'
<1>1. report \in Report /\ report.step = "milestones" /\ report.count \in Nat
      /\ lastTold \in Nat /\ told \in [Announceable -> Nat] /\ deaths.telling \in Nat
  BY ReportsConstants DEF ReportsInv, ReportsTyped, Report, Announce, Announceable
<1>2. CASE Announced(report.count) = 0
  <2>1. report' = NoReport /\ told' = told
    BY <1>2 DEF Announce
  <2>2. report' \in Report /\ report'.step = "none"
    BY <2>1 DEF NoReport, Report, ReportSteps
  <2>3. TellsOnwards' /\ NotedWasTold' /\ \A m \in Announceable : Heard(m) => Heard(m)'
    BY <1>1, <2>1, <2>2 DEF TellsOnwards, NotedWasTold, Heard, Announce, ReportsInv
  <2>4. QED
    BY <2>1, <2>2, <2>3, OnlyTheReport DEF Announce, ReportsInv, ReportsTyped
<1>3. CASE Announced(report.count) # 0
  <2>1. PICK m \in Announceable : m = Announced(report.count) /\ m > lastTold
    BY <1>1, <1>3, AnnouncedOnwards
  <2>2. /\ told' = [told EXCEPT ![m] = @ + 1]
        /\ report' = [report EXCEPT !.step = "note", !.telling = m]
    BY <1>3, <2>1 DEF Announce
  <2>3. told' \in [Announceable -> Nat]
        /\ \A n \in Announceable : told'[n] = IF n = m THEN told[n] + 1 ELSE told[n]
    BY <1>1, <2>2
  <2>4. report' \in Report /\ report'.step = "note" /\ report'.telling = m
    BY <1>1, <2>2 DEF Report, ReportSteps
  <2>5. UNCHANGED <<date, lastBeat, section, lastTold, paper, streak, deaths>>
    BY DEF Announce
  <2>6. ReportsTyped'
    BY <2>3, <2>4, <2>5 DEF ReportsInv, ReportsTyped
  <2>7. TellsOnwards'
    BY <2>1, <2>4, <2>5 DEF TellsOnwards
  <2>8. ToldAndDied'
    <3> SUFFICES ASSUME NEW n \in Announceable
                 PROVE  told'[n] <= deaths'.telling + IF Heard(n)' THEN 1 ELSE 0
      BY DEF ToldAndDied
    <3>1. told[n] \in Nat /\ told[n] <= deaths.telling + IF Heard(n) THEN 1 ELSE 0
      BY <1>1 DEF ReportsInv, ToldAndDied
    <3>2. n \in Nat /\ m \in Nat
      BY ReportsConstants DEF Announceable
    <3>3. CASE n = m
      BY <1>1, <2>1, <2>3, <2>4, <2>5, <3>1, <3>2, <3>3 DEF Heard
    <3>4. CASE n # m
      <4>1. Heard(n)' <=> Heard(n)
        BY <1>1, <2>4, <2>5, <3>4 DEF Heard
      <4>2. QED
        BY <2>3, <2>5, <3>1, <3>4, <4>1
    <3>5. QED
      BY <3>3, <3>4
  <2>9. NotedWasTold'
    <3>1. lastTold # 0 => told[lastTold] > 0 /\ lastTold \in Announceable
      BY DEF ReportsInv, ReportsTyped, NotedWasTold
    <3>2. told[m] \in Nat /\ \A n \in Announceable : told[n] \in Nat
      BY <1>1
    <3>3. told'[m] > 0 /\ (lastTold # 0 => told'[lastTold] > 0)
      BY <2>3, <3>1, <3>2
    <3>4. QED
      BY <2>4, <2>5, <3>3 DEF NotedWasTold
  <2>10. \A s \in Sections : StreakCounted(s)'
    BY <2>5 DEF ReportsInv, StreakCounted
  <2>11. QED
    BY <2>6, <2>7, <2>8, <2>9, <2>10 DEF ReportsInv
<1>4. QED
  BY <1>2, <1>3

\* It is noted: what the cycle told is behind the last one noted.
LEMMA NoteCounted ==
  ASSUME ReportsInv, NoteMilestone
  PROVE  ReportsInv'
<1>1. /\ report.step = "note" /\ report.telling > lastTold
      /\ lastTold' = report.telling /\ report' = NoReport
      /\ UNCHANGED <<date, lastBeat, section, paper, streak, told, deaths>>
  BY DEF NoteMilestone, ReportsInv, TellsOnwards
<1>2. report' \in Report /\ report'.step = "none" /\ report.telling \in Announceable \cup {0}
  BY <1>1 DEF NoReport, Report, ReportSteps, ReportsInv, ReportsTyped
<1>3. /\ lastTold \in Nat /\ lastTold' \in Nat
      /\ told \in [Announceable -> Nat] /\ deaths.telling \in Nat
  <2>1. Announceable \cup {0} \subseteq Nat
    BY ReportsConstants DEF Announceable
  <2>2. lastTold \in Announceable \cup {0}
        /\ told \in [Announceable -> Nat] /\ deaths.telling \in Nat
    BY DEF ReportsInv, ReportsTyped
  <2>3. QED
    BY <1>1, <1>2, <2>1, <2>2
<1>4. ReportsTyped' /\ TellsOnwards' /\ NotedWasTold'
  BY <1>1, <1>2 DEF ReportsInv, ReportsTyped, TellsOnwards, NotedWasTold
<1>5. ToldAndDied'
  <2> SUFFICES ASSUME NEW m \in Announceable
               PROVE  told'[m] <= deaths'.telling + IF Heard(m)' THEN 1 ELSE 0
    BY DEF ToldAndDied
  <2>1. told[m] <= deaths.telling + IF Heard(m) THEN 1 ELSE 0
    BY DEF ReportsInv, ToldAndDied
  <2>2. Heard(m) => Heard(m)'
    <3>1. m \in Nat
      BY ReportsConstants DEF Announceable
    <3>2. QED
      BY <1>1, <1>3, <3>1 DEF Heard
  <2>3. QED
    BY <1>1, <1>3, <2>1, <2>2
<1>6. \A s \in Sections : StreakCounted(s)'
  BY <1>1 DEF ReportsInv, StreakCounted
<1>7. QED
  BY <1>4, <1>5, <1>6 DEF ReportsInv

\* A cycle that dies between telling and noting is counted.
LEMMA DeathCounted ==
  ASSUME ReportsInv, ReportDies
  PROVE  ReportsInv'
<1>1. /\ report' = NoReport
      /\ UNCHANGED <<date, lastBeat, section, lastTold, paper, streak, told>>
  BY DEF ReportDies
<1>2. deaths.telling \in Nat /\ deaths.all \in Nat
  BY DEF ReportsInv, ReportsTyped
<1>3. PICK n \in Nat : n = deaths.telling + IF report.step = "note" THEN 1 ELSE 0
  BY <1>2
<1>4. deaths' = [all |-> deaths.all + 1, telling |-> n]
  BY <1>3 DEF ReportDies
<1>5. report' \in Report /\ report'.step = "none"
  BY <1>1 DEF NoReport, Report, ReportSteps
<1>6. ReportsTyped' /\ TellsOnwards' /\ NotedWasTold'
  BY <1>1, <1>2, <1>4, <1>5 DEF ReportsInv, ReportsTyped, TellsOnwards, NotedWasTold
<1>7. ToldAndDied'
  <2> SUFFICES ASSUME NEW m \in Announceable
               PROVE  told'[m] <= deaths'.telling + IF Heard(m)' THEN 1 ELSE 0
    BY DEF ToldAndDied
  <2>1. told[m] \in Nat /\ told[m] <= deaths.telling + IF Heard(m) THEN 1 ELSE 0
    BY DEF ReportsInv, ReportsTyped, ToldAndDied
  <2>2. Heard(m) => Heard(m)' \/ report.step = "note"
    BY <1>1 DEF Heard
  <2>3. QED
    BY <1>1, <1>2, <1>3, <1>4, <2>1, <2>2
<1>8. \A s \in Sections : StreakCounted(s)'
  BY <1>1 DEF ReportsInv, StreakCounted
<1>9. QED
  BY <1>6, <1>7, <1>8 DEF ReportsInv

\* The day passes: nothing is counted by it.
LEMMA DayCounted ==
  ASSUME ReportsInv, DayPasses
  PROVE  ReportsInv'
<1>1. /\ date' = date + 1 /\ date < MaxDate
      /\ UNCHANGED <<lastBeat, section, lastTold, paper, report, streak, told, deaths>>
  BY DEF DayPasses
<1>2. date \in Nat /\ date' \in 0..MaxDate
  BY <1>1, ReportsConstants DEF ReportsInv, ReportsTyped
<1>3. \A d : d \in Never..date => d \in Never..date'
  BY <1>1, <1>2 DEF Never
<1>4. section' \in [Sections -> [days : Nat, changed : Never..date']]
  <2>1. section \in [Sections -> [days : Nat, changed : Never..date]]
    BY DEF ReportsInv, ReportsTyped
  <2>2. \A s \in Sections : section[s] \in [days : Nat, changed : Never..date']
    <3> TAKE s \in Sections
    <3>1. section[s] \in [days : Nat, changed : Never..date]
      BY <2>1
    <3>2. QED
      BY <1>3, <3>1
  <2>3. QED
    BY <1>1, <2>1, <2>2
<1>5. ReportsTyped'
  BY <1>1, <1>2, <1>3, <1>4 DEF ReportsInv, ReportsTyped
<1>6. TellsOnwards' /\ ToldAndDied' /\ NotedWasTold' /\ \A s \in Sections : StreakCounted(s)'
  BY <1>1 DEF ReportsInv, TellsOnwards, ToldAndDied, NotedWasTold, Heard, StreakCounted
<1>7. QED
  BY <1>5, <1>6 DEF ReportsInv

\* Every step of the reports keeps the invariant.
LEMMA ReportsStep ==
  ASSUME ReportsInv, [ReportsNext]_reportsVars
  PROVE  ReportsInv'
<1> USE DEF ReportsInv, ReportsTyped
<1>1. report \in Report /\ date \in Nat /\ paper \in Nat /\ lastBeat \in Never..date
      /\ paper \in 0..(Gate + 1)
  BY ReportsConstants
<1>2. NoReport \in Report
  BY DEF NoReport, Report, ReportSteps
<1>3. CASE ReportBegins
  <2>1. report' \in Report /\ report'.step = "due" /\ report.step = "none"
    BY <1>1, <1>2, <1>3 DEF ReportBegins, NoReport, Report, ReportSteps
  <2>2. UNCHANGED <<date, lastBeat, section, lastTold, paper, streak, told, deaths>>
    BY <1>3 DEF ReportBegins
  <2>3. QED
    BY <1>1, <2>1, <2>2, OnlyTheReport DEF TellsOnwards, NotedWasTold, Heard
<1>4. CASE DigestDue
  <2>1. report' \in Report /\ report'.step # "note" /\ report.step = "due"
    BY <1>1, <1>4 DEF DigestDue, Report, ReportSteps
  <2>2. UNCHANGED <<date, lastBeat, section, lastTold, paper, streak, told, deaths>>
    BY <1>4 DEF DigestDue
  <2>3. QED
    BY <1>1, <2>1, <2>2, OnlyTheReport DEF TellsOnwards, NotedWasTold, Heard
<1>5. CASE BuildSection
  <2>1. UNCHANGED <<date, lastBeat, lastTold, paper, told, deaths>>
    BY <1>5 DEF BuildSection
  <2>2. PICK s \in Sections :
          \/ RecordHealthy(s)
          \/ RecordDegraded(s)
          \/ report' = [report EXCEPT !.todo = @ \ {s}] /\ UNCHANGED <<section, streak>>
    BY <1>1, <1>5 DEF BuildSection, Report
  <2>3. CASE report' = [report EXCEPT !.todo = @ \ {s}] /\ UNCHANGED <<section, streak>>
    <3>1. report' \in Report /\ report'.step = "sections" /\ report.step = "sections"
      BY <1>1, <1>5, <2>3 DEF Report, BuildSection
    <3>2. QED
      BY <1>1, <2>1, <2>3, <3>1, OnlyTheReport DEF TellsOnwards, NotedWasTold, Heard
  <2>4. QED
    BY <2>1, <2>2, <2>3, HealthyCounted, DegradedCounted
<1>6. CASE AlertSection
  <2>1. report' \in Report /\ report'.step = "sections" /\ report.step = "sections"
    BY <1>1, <1>6 DEF AlertSection, Report
  <2>2. UNCHANGED <<date, lastBeat, section, lastTold, paper, streak, told, deaths>>
    BY <1>6 DEF AlertSection
  <2>3. QED
    BY <1>1, <2>1, <2>2, OnlyTheReport DEF TellsOnwards, NotedWasTold, Heard
<1>7. CASE SendHeartbeat
  <2>1. report' \in Report /\ report'.step = "beat" /\ report.step = "sections"
    BY <1>1, <1>7 DEF SendHeartbeat, Report, ReportSteps
  <2>2. UNCHANGED <<date, lastBeat, section, lastTold, paper, streak, told, deaths>>
    BY <1>7 DEF SendHeartbeat
  <2>3. QED
    BY <1>1, <2>1, <2>2, OnlyTheReport DEF TellsOnwards, NotedWasTold, Heard
<1>8. CASE RecordHeartbeat
  <2>1. report' \in Report /\ report'.step = "trade" /\ report.step = "beat"
    BY <1>1, <1>8 DEF RecordHeartbeat, Report, ReportSteps
  <2>2. UNCHANGED <<date, section, lastTold, paper, streak, told, deaths>> /\ lastBeat' = date
    BY <1>8 DEF RecordHeartbeat
  <2>3. QED
    BY <1>1, <2>1, <2>2, OnlyTheReport DEF TellsOnwards, NotedWasTold, Heard, Never
<1>9. CASE NothingQualifies
  <2>1. report' = NoReport /\ report'.step = "none" /\ report.step = "trade"
    BY <1>9 DEF NothingQualifies, NoReport
  <2>2. UNCHANGED <<date, lastBeat, section, lastTold, paper, streak, told, deaths>>
    BY <1>9 DEF NothingQualifies
  <2>3. QED
    BY <1>1, <1>2, <2>1, <2>2, OnlyTheReport DEF TellsOnwards, NotedWasTold, Heard
<1>10. CASE TradePlaced
  <2>1. report' \in Report /\ report'.step = "milestones" /\ report.step = "trade"
    BY <1>1, <1>10 DEF TradePlaced, Report, ReportSteps
  <2>2. UNCHANGED <<date, lastBeat, section, lastTold, streak, told, deaths>>
    BY <1>10 DEF TradePlaced
  <2>3. paper' \in 0..(Gate + 1)
    BY <1>1, <1>10, ReportsConstants DEF TradePlaced
  <2>4. QED
    BY <1>1, <2>1, <2>2, <2>3, OnlyTheReport DEF TellsOnwards, NotedWasTold, Heard
<1>11. CASE Announce
  BY <1>11, AnnounceCounted
<1>12. CASE NoteMilestone
  BY <1>12, NoteCounted
<1>13. CASE ReportDies
  BY <1>13, DeathCounted
<1>14. CASE CountFalls
  <2>1. paper' \in 0..(Gate + 1)
        /\ UNCHANGED <<date, lastBeat, section, lastTold, report, streak, told, deaths>>
    BY <1>1, <1>14, ReportsConstants DEF CountFalls
  <2>2. QED
    BY <1>1, <2>1, OnlyTheReport DEF TellsOnwards, NotedWasTold, Heard
<1>15. CASE DayPasses
  BY <1>15, DayCounted
<1>16. CASE UNCHANGED reportsVars
  <2>1. UNCHANGED <<date, lastBeat, section, lastTold, paper, report, streak, told, deaths>>
    BY <1>16 DEF reportsVars
  <2>2. QED
    BY <1>1, <2>1, OnlyTheReport DEF TellsOnwards, NotedWasTold, Heard
<1>17. QED
  BY <1>3, <1>4, <1>5, <1>6, <1>7, <1>8, <1>9, <1>10, <1>11, <1>12, <1>13, <1>14, <1>15, <1>16
  DEF ReportsNext

\* The inductive invariant of the reports, through deaths at any point.
THEOREM ReportsInvariant == ReportsSpec => []ReportsInv
<1>1. ReportsInv /\ [ReportsNext]_reportsVars => ReportsInv'
  BY ReportsStep
<1>2. QED
  BY ReportsStart, <1>1, PTL DEF ReportsSpec

\* A cycle is silent about a milestone that is reached only if it, or a later
\* one, was sent, for any milestones and gate and whatever dies.
THEOREM MilestonesNotPassedOver == ReportsSpec => []SilenceMeansTold
<1>1. ReportsInv => SilenceMeansTold
  <2> SUFFICES ASSUME ReportsInv, Announced(report.count) = 0, NEW m \in Announceable,
                      m <= report.count, m <= Gate
               PROVE  \E n \in DOMAIN told : n >= m /\ told[n] > 0
    BY DEF SilenceMeansTold, Announceable
  <2>1. /\ report.count \in Nat /\ lastTold \in Announceable \cup {0}
        /\ DOMAIN told = Announceable
        /\ lastTold # 0 => told[lastTold] > 0
    BY DEF ReportsInv, ReportsTyped, Report, NotedWasTold
  <2>2. m \in Nat /\ m > 0 /\ lastTold \in Nat
    BY <2>1, ReportsConstants DEF Announceable
  <2>3. lastTold >= m
    <3> DEFINE reached == {k \in Milestones : lastTold < k /\ k <= report.count /\ k < Gate}
    <3>1. ~(report.count >= Gate /\ Gate > lastTold)
      BY ReportsConstants DEF Announced
    <3>2. CASE m = Gate
      BY <2>1, <2>2, <3>1, <3>2
    <3>3. CASE m # Gate
      <4>1. m \in Milestones /\ m < Gate
        BY <2>2, <3>3, ReportsConstants DEF Announceable
      <4>2. reached = {}
        <5>1. SUFFICES ASSUME reached # {} PROVE FALSE
          OBVIOUS
        <5>2. Max(reached) = 0
          BY <3>1, <5>1 DEF Announced
        <5>3. reached \in SUBSET Nat /\ \A k \in reached : k <= report.count
          BY ReportsConstants
        <5>4. Max(reached) \in reached
          <6> HIDE DEF reached
          <6>1. QED
            BY <2>1, <5>1, <5>3, Largest
        <5>5. QED
          BY <5>2, <5>4, ReportsConstants
      <4>3. QED
        BY <2>1, <2>2, <4>1, <4>2
    <3>4. QED
      BY <3>2, <3>3
  <2>4. QED
    BY <2>1, <2>2, <2>3
<1>2. QED
  BY ReportsInvariant, <1>1, PTL

\* A milestone is told again only for a cycle that died between telling and
\* noting it, for any milestones and however the count falls and rises.
THEOREM MilestonesToldAgainOnlyAfterDeath == ReportsSpec => []ToldAgainOnlyAfterDeath
<1>1. ReportsInv => ToldAgainOnlyAfterDeath
  <2> SUFFICES ASSUME ReportsInv, NEW m \in Announceable
               PROVE  told[m] <= 1 + deaths.telling
    BY DEF ToldAgainOnlyAfterDeath, Announceable
  <2>1. told[m] \in Nat /\ deaths.telling \in Nat
        /\ told[m] <= deaths.telling + IF Heard(m) THEN 1 ELSE 0
    BY DEF ReportsInv, ReportsTyped, ToldAndDied
  <2>2. QED
    BY <2>1
<1>2. QED
  BY ReportsInvariant, <1>1, PTL

\* An outage is escalated once, and only after so many different dates, for any
\* sections and any number of days.
THEOREM OutagesEscalatedOnce == ReportsSpec => []EscalatedOnceAfterDays
<1>1. ReportsInv => EscalatedOnceAfterDays
  <2> SUFFICES ASSUME ReportsInv, NEW s \in Sections
               PROVE  /\ streak[s].alerts <= 1
                      /\ streak[s].alerts = 1 => Cardinality(streak[s].days) >= DegradedDays
    BY DEF EscalatedOnceAfterDays
  <2>1. StreakCounted(s) /\ section[s].days \in Nat
    BY DEF ReportsInv, ReportsTyped
  <2>2. Cardinality(streak[s].days) \in Nat
    BY <2>1, FS_CardinalityType DEF StreakCounted
  <2>3. QED
    BY <2>1, <2>2, ReportsConstants DEF StreakCounted
<1>2. QED
  BY ReportsInvariant, <1>1, PTL

\* Every variable of the reports holds a value of its domain.
THEOREM ReportsTypes == ReportsSpec => []ReportsTypeOK
<1>1. ReportsInv => ReportsTypeOK
  BY DEF ReportsInv, ReportsTyped, ReportsTypeOK, Report, ReportSteps, Announceable
<1>2. QED
  BY ReportsInvariant, <1>1, PTL

-----------------------------------------------------------------------------
(***************************************************************************)
(* Pricing the weather.                                                    *)
(***************************************************************************)
WeatherSpec == WeatherInit /\ [][WeatherNext]_weatherVars

\* A stored fit, whose scores are told apart only when they promote it.
SoundFit ==
  {f \in [day : Int, scores : Scores, promoted : BOOLEAN] : f.promoted => f.scores = Measured}

\* A fit that the cycle has loaded, or none.
Loaded == {<<>>} \cup {<<f>> : f \in SoundFit}

ScoringState ==
  [step : {"off", "begun", "scoring", "traded"}, start : Nat, rules : SUBSET {"site", "authority"},
   vetoed : BOOLEAN, run : [Targets -> Int], fit : [Leads -> Loaded]]

WeatherTyped ==
  /\ phaseNo \in 0..LastPhase
  /\ rules \in SUBSET {"site", "authority"}
  /\ fits \in [Leads -> SoundFit]
  /\ refit \in [lead : 0..MaxLead, jobs : Nat]
  /\ trades \in [open : Nat, placed : Nat, outcomes : Seq(BOOLEAN)]
  /\ scoring \in ScoringState

\* A run is in the archive only after it was published.
RunsPublished == \A d \in runs : d \in Nat /\ 3 * d + 2 <= phaseNo

\* The run a cycle holds for a target is in the archive and before the target.
RunsHeld ==
  \A target \in Targets :
    scoring.run[target] >= 0 => scoring.run[target] \in runs /\ scoring.run[target] < target

\* A fit is never newer than today, and only placed trades settle.
Bookkept ==
  /\ \A l \in Leads : fits[l].day <= Day
  /\ trades.open <= trades.placed
  /\ Len(trades.outcomes) <= GuardWindow

WeatherInv == WeatherTyped /\ RunsPublished /\ RunsHeld /\ Bookkept /\ PricedOnMeasuredError

\* The constants of the weather are numbers.
LEMMA WeatherConstants ==
  /\ MaxLead \in Nat /\ MaxLead > 0 /\ GuardWindow \in Nat /\ GuardWindow > 0
  /\ Lookback \in Nat /\ MaxFitAge \in Nat /\ LastPhase \in Nat
BY WeatherAssumption

\* The day is the phase's third.
LEMMA DayOfPhase ==
  ASSUME phaseNo \in Nat
  PROVE  /\ Day \in Nat /\ 3 * Day <= phaseNo /\ phaseNo <= 3 * Day + 2
         /\ LocalDay \in Int /\ phaseNo <= 3 * LocalDay + 3
BY DEF Day, LocalDay

\* A time's day is never before that of an earlier time.
LEMMA DaysAdvance ==
  ASSUME NEW a \in Nat, NEW b \in Nat, a <= b
  PROVE  a \div 3 <= b \div 3
OBVIOUS

\* "No number" passes neither bar: what is promoted was measured on enough
\* pairs, clears the skill bar and is within the slope's.
LEMMA PromotedIsMeasured ==
  ASSUME NEW s \in Scores
  PROVE  /\ Promoted(s) \in BOOLEAN
         /\ Promoted(s) => s = Measured
BY DEF Scores, Promoted, Measured

\* So is every fit that is stored.
LEMMA StoredIsSound ==
  ASSUME NEW s \in Scores, phaseNo \in Nat
  PROVE  StoredFit(s) \in SoundFit /\ StoredFit(s).day = Day
<1>1. Day \in Int
  BY DayOfPhase
<1>2. PICK b \in BOOLEAN : b = Promoted(s) /\ (b => s = Measured)
  BY PromotedIsMeasured
<1>3. Rejected \in Scores /\ Measured \in Scores
  BY DEF Rejected, Measured, Scores
<1>4. StoredFit(s) = [day |-> Day, scores |-> IF b THEN s ELSE Rejected, promoted |-> b]
  BY <1>2 DEF StoredFit
<1>5. QED
  BY <1>1, <1>2, <1>3, <1>4 DEF SoundFit

\* A new cycle's caches are empty.
LEMMA NewScoring ==
  /\ NoScoring \in ScoringState
  /\ \A target \in Targets : NoScoring.run[target] < 0
  /\ NoFit \in SoundFit /\ NoFit.day = -1
BY DEF NoScoring, ScoringState, Loaded, Unfetched, SoundFit, NoFit, Measured, Scores

\* A step that prices nothing, publishes no more than the code does and leaves
\* the fits and the trades in order keeps the invariant.
LEMMA OnlyTheWeather ==
  ASSUME WeatherInv, WeatherTyped', RunsPublished', RunsHeld', Bookkept',
         runs \subseteq runs', priced' = priced \/ priced' = NoPrice
  PROVE  WeatherInv'
BY DEF WeatherInv, PricedOnMeasuredError

\* The newest outcomes are a window of truth values.
LEMMA OutcomesKept ==
  ASSUME NEW s \in Seq(BOOLEAN), Len(s) <= GuardWindow, NEW right \in BOOLEAN,
         NEW t, t = IF Len(Append(s, right)) > GuardWindow THEN Tail(Append(s, right))
                    ELSE Append(s, right)
  PROVE  t \in Seq(BOOLEAN) /\ Len(t) <= GuardWindow
<1>1. PICK a \in Seq(BOOLEAN) : a = Append(s, right) /\ Len(a) = Len(s) + 1
  BY AppendProperties
<1>2. Len(s) \in Nat /\ a # <<>>
  BY <1>1, LenProperties, EmptySeq
<1>3. PICK u \in Seq(BOOLEAN) : u = Tail(a) /\ Len(u) = Len(a) - 1
  BY <1>2, HeadTailProperties
<1>4. t = IF Len(a) > GuardWindow THEN Tail(a) ELSE a
  BY <1>1
<1>5. CASE Len(a) > GuardWindow
  <2>1. t = u
    BY <1>3, <1>4, <1>5, Zenon
  <2>2. Len(u) <= GuardWindow
    BY <1>1, <1>2, <1>3, WeatherConstants
  <2>3. QED
    BY <2>1, <2>2, Zenon
<1>6. CASE ~(Len(a) > GuardWindow)
  <2>1. t = a
    BY <1>4, <1>6, Zenon
  <2>2. Len(a) <= GuardWindow
    BY <1>1, <1>2, <1>6, WeatherConstants
  <2>3. QED
    BY <2>1, <2>2, Zenon
<1>7. QED
  BY <1>5, <1>6

\* The invariant holds at the start.
LEMMA WeatherStart == WeatherInit => WeatherInv
<1> SUFFICES ASSUME WeatherInit PROVE WeatherInv
  OBVIOUS
<1>1. WeatherTyped
  BY NewScoring, WeatherConstants DEF WeatherInit, WeatherTyped
<1>2. RunsPublished /\ PricedOnMeasuredError
  BY DEF WeatherInit, RunsPublished, PricedOnMeasuredError
<1>3. RunsHeld
  <2>1. scoring = NoScoring
    BY DEF WeatherInit
  <2>2. \A target \in Targets : ~(scoring.run[target] >= 0)
    BY <2>1 DEF NoScoring, Unfetched
  <2>3. QED
    BY <2>2 DEF RunsHeld
<1>4. Bookkept
  BY NewScoring, WeatherConstants, DayOfPhase DEF WeatherInit, Bookkept
<1>5. QED
  BY <1>1, <1>2, <1>3, <1>4 DEF WeatherInv

\* A refit stores sound fits, stamped with today.
LEMMA RefitSound ==
  ASSUME WeatherInv, RefitStarts \/ RefitLead \/ RefitStops
  PROVE  WeatherInv'
<1>1. UNCHANGED <<phaseNo, runs, rules, trades, guard, scoring, priced>>
  BY DEF RefitStarts, RefitLead, RefitStops
<1>2. /\ phaseNo \in Nat /\ fits \in [Leads -> SoundFit]
      /\ refit \in [lead : 0..MaxLead, jobs : Nat]
      /\ \A l \in Leads : fits[l].day <= Day
  BY WeatherConstants DEF WeatherInv, WeatherTyped, Bookkept
<1>3. Day' = Day
  BY <1>1 DEF Day
<1>4. /\ refit' \in [lead : 0..MaxLead, jobs : Nat]
      /\ fits' \in [Leads -> SoundFit] /\ \A l \in Leads : fits'[l].day <= Day
  <2>1. CASE RefitStarts
    <3>1. PICK n \in {0, 1} : refit' = [lead |-> n, jobs |-> refit.jobs + 1]
      BY <2>1 DEF RefitStarts
    <3>2. QED
      BY <1>2, <2>1, <3>1, WeatherConstants DEF RefitStarts
  <2>2. CASE RefitLead
    <3>1. refit' = [refit EXCEPT !.lead = IF @ = MaxLead THEN 0 ELSE @ + 1]
          /\ refit.lead # 0
      BY <2>2 DEF RefitLead
    <3>2. refit' \in [lead : 0..MaxLead, jobs : Nat] /\ refit.lead \in Leads
      BY <1>2, <3>1, WeatherConstants DEF Leads
    <3>3. CASE fits' = fits
      BY <1>2, <3>2, <3>3
    <3>4. ASSUME NEW s \in Scores, fits' = [fits EXCEPT ![refit.lead] = StoredFit(s)]
          PROVE  fits' \in [Leads -> SoundFit] /\ \A l \in Leads : fits'[l].day <= Day
      <4>1. PICK f \in SoundFit : f = StoredFit(s) /\ f.day = Day
        BY <1>2, StoredIsSound
      <4>2. Day \in Nat
        BY <1>2, DayOfPhase
      <4>3. QED
        BY <1>2, <3>2, <3>4, <4>1, <4>2
    <3>5. QED
      BY <2>2, <3>2, <3>3, <3>4 DEF RefitLead
  <2>3. CASE RefitStops
    BY <1>2, <2>3, WeatherConstants DEF RefitStops
  <2>4. QED
    BY <2>1, <2>2, <2>3
<1>5. WeatherTyped' /\ RunsPublished' /\ RunsHeld' /\ Bookkept'
  BY <1>1, <1>3, <1>4 DEF WeatherInv, WeatherTyped, RunsPublished, RunsHeld, Bookkept, Targets
<1>6. QED
  BY <1>1, <1>5, OnlyTheWeather

\* A cycle begins with empty caches, settles, sees the guard, and ends.
LEMMA CycleSound ==
  ASSUME WeatherInv, CycleBegins \/ SettleTrade \/ SyncGuard \/ PlaceTrade \/ CycleIsOver
  PROVE  WeatherInv'
<1>1. UNCHANGED <<phaseNo, runs, rules, fits, refit>> /\ (priced' = priced \/ priced' = NoPrice)
  BY DEF CycleBegins, SettleTrade, SyncGuard, PlaceTrade, CycleIsOver
<1>2. /\ phaseNo \in Nat /\ scoring \in ScoringState /\ rules \in SUBSET {"site", "authority"}
      /\ trades \in [open : Nat, placed : Nat, outcomes : Seq(BOOLEAN)]
      /\ trades.open <= trades.placed /\ Len(trades.outcomes) <= GuardWindow
  BY WeatherConstants DEF WeatherInv, WeatherTyped, Bookkept
<1>3. /\ scoring' \in ScoringState
      /\ \A target \in Targets : scoring'.run[target] < 0 \/ scoring'.run = scoring.run
  <2>1. CASE CycleBegins
    <3>1. scoring' = [NoScoring EXCEPT !.step = "begun", !.start = phaseNo, !.rules = rules]
      BY <2>1 DEF CycleBegins
    <3>2. scoring' \in ScoringState /\ scoring'.run = NoScoring.run
      BY <1>2, <3>1, NewScoring DEF ScoringState
    <3>3. QED
      BY <3>2, NewScoring
  <2>2. CASE SettleTrade
    BY <1>2, <2>2 DEF SettleTrade
  <2>3. CASE SyncGuard
    <3>1. GuardPaused \in BOOLEAN
      BY Zenon DEF GuardPaused
    <3>2. PICK v \in BOOLEAN : v = GuardPaused
      BY <3>1
    <3>3. scoring' = [scoring EXCEPT !.step = "scoring", !.vetoed = v]
      BY <2>3, <3>2 DEF SyncGuard
    <3>4. QED
      BY <1>2, <3>3 DEF ScoringState
  <2>4. CASE PlaceTrade
    BY <1>2, <2>4 DEF PlaceTrade, ScoringState
  <2>5. CASE CycleIsOver
    BY <2>5, NewScoring DEF CycleIsOver
  <2>6. QED
    BY <2>1, <2>2, <2>3, <2>4, <2>5
<1>4. /\ trades' \in [open : Nat, placed : Nat, outcomes : Seq(BOOLEAN)]
      /\ trades'.open <= trades'.placed /\ Len(trades'.outcomes) <= GuardWindow
  <2>1. CASE trades' = trades
    BY <1>2, <2>1
  <2>2. CASE SettleTrade
    <3>1. PICK right \in BOOLEAN : trades' = Settled(right) /\ trades.open > 0
      BY <2>2 DEF SettleTrade
    <3>2. PICK s \in Seq(BOOLEAN) : s = trades.outcomes /\ Len(s) <= GuardWindow
      BY <1>2
    <3>3. PICK t : t = IF Len(Append(s, right)) > GuardWindow THEN Tail(Append(s, right))
                       ELSE Append(s, right)
      OBVIOUS
    <3>4. t \in Seq(BOOLEAN) /\ Len(t) <= GuardWindow
      BY <3>2, <3>3, OutcomesKept
    <3>5. trades' = [trades EXCEPT !.open = @ - 1, !.outcomes = t]
      BY <3>1, <3>2, <3>3 DEF Settled
    <3>6. PICK n \in Nat : n = trades.open - 1
      BY <1>2, <3>1
    <3>7. /\ trades'.open = n /\ trades'.placed = trades.placed /\ trades'.outcomes = t
          /\ trades' = [trades EXCEPT !.open = n, !.outcomes = t]
      BY <1>2, <3>5, <3>6
    <3>8. trades' \in [open : Nat, placed : Nat, outcomes : Seq(BOOLEAN)]
      BY <1>2, <3>4, <3>7
    <3>9. QED
      BY <1>2, <3>4, <3>6, <3>7, <3>8
  <2>3. CASE PlaceTrade
    <3>1. trades' = [trades EXCEPT !.open = trades.open + 1, !.placed = trades.placed + 1]
      BY <2>3 DEF PlaceTrade
    <3>2. PICK n \in Nat, k \in Nat : n = trades.open + 1 /\ k = trades.placed + 1
      BY <1>2
    <3>3. /\ trades' \in [open : Nat, placed : Nat, outcomes : Seq(BOOLEAN)]
          /\ trades'.open = n /\ trades'.placed = k /\ trades'.outcomes = trades.outcomes
      BY <1>2, <3>1, <3>2
    <3>4. QED
      BY <1>2, <3>2, <3>3
  <2>4. QED
    <3>1. trades' = trades \/ SettleTrade \/ PlaceTrade
      BY DEF CycleBegins, SyncGuard, CycleIsOver
    <3>2. QED
      BY <2>1, <2>2, <2>3, <3>1, Zenon
<1>5. WeatherTyped'
  BY <1>1, <1>3, <1>4 DEF WeatherInv, WeatherTyped, ScoringState, Targets
<1>6. RunsPublished' /\ Bookkept'
  BY <1>1, <1>4 DEF WeatherInv, RunsPublished, Bookkept, Day
<1>7. RunsHeld'
  <2> SUFFICES ASSUME NEW target \in Targets, scoring'.run[target] >= 0
               PROVE  scoring'.run[target] \in runs /\ scoring'.run[target] < target
    BY <1>1 DEF RunsHeld, Targets
  <2>1. scoring'.run[target] \in Int
    BY <1>3 DEF ScoringState
  <2>2. scoring'.run = scoring.run
    BY <1>3, <2>1
  <2>3. QED
    BY <2>2 DEF WeatherInv, RunsHeld
<1>8. QED
  BY <1>1, <1>5, <1>6, <1>7, OnlyTheWeather

\* A cycle fetches only runs that are in the archive and before the target.
LEMMA FetchSound ==
  ASSUME WeatherInv, FetchForecast
  PROVE  WeatherInv'
<1>1. UNCHANGED <<phaseNo, runs, rules, fits, refit, trades, guard, priced>>
  BY DEF FetchForecast
<1>2. PICK target \in Targets :
        \E d \in Eligible(target) \cup {NoRun} : scoring' = [scoring EXCEPT !.run[target] = d]
  BY DEF FetchForecast
<1> PICK d \in Eligible(target) \cup {NoRun} : scoring' = [scoring EXCEPT !.run[target] = d]
  BY <1>2
<1>3. scoring \in ScoringState /\ phaseNo \in Nat
  BY WeatherConstants DEF WeatherInv, WeatherTyped
<1>4. target \in Int
  BY WeatherConstants DEF Targets
<1>5. d \in Int /\ (d >= 0 => d \in runs /\ d < target)
  <2>1. \A r \in runs : r \in Nat
    BY DEF WeatherInv, RunsPublished
  <2>2. QED
    BY <1>2, <1>4, <2>1 DEF Eligible, NoRun
<1>6. /\ scoring' \in ScoringState
      /\ \A other \in Targets :
           scoring'.run[other] = IF other = target THEN d ELSE scoring.run[other]
  BY <1>2, <1>3, <1>5 DEF ScoringState
<1>7. WeatherTyped' /\ RunsPublished' /\ Bookkept'
  BY <1>1, <1>6 DEF WeatherInv, WeatherTyped, RunsPublished, Bookkept, Day, ScoringState, Targets
<1>8. RunsHeld'
  BY <1>1, <1>5, <1>6 DEF WeatherInv, RunsHeld, Targets
<1>9. QED
  BY <1>1, <1>7, <1>8, OnlyTheWeather

\* A price is made from a run before the target's local day, and a fit that is
\* measured, fresh, and of that run's lead.
LEMMA EstimateSound ==
  ASSUME WeatherInv, Estimate
  PROVE  WeatherInv'
<1>1. UNCHANGED <<phaseNo, runs, rules, fits, refit, trades, guard>>
  BY DEF Estimate
<1> DEFINE LeadOf(target) == FitLead(target, scoring.run[target])
           RowOf(target)  == IF scoring.fit[LeadOf(target)] = <<>> THEN fits[LeadOf(target)]
                             ELSE scoring.fit[LeadOf(target)][1]
<1>2. PICK target \in Targets :
        /\ Wanted(target) /\ scoring.run[target] >= 0
        /\ LeadOf(target) <= MaxLead
        /\ scoring' = [scoring EXCEPT !.fit[LeadOf(target)] = <<RowOf(target)>>]
        /\ \E median \in {"none", "near", "far"} :
             priced' = IF Priceable(RowOf(target)) /\ Sane(median)
                       THEN [target |-> target, run |-> scoring.run[target],
                             lead |-> LeadOf(target), fit |-> RowOf(target), at |-> phaseNo]
                       ELSE priced
  BY Zenon DEF Estimate
<1>3. /\ scoring \in ScoringState /\ phaseNo \in Nat /\ fits \in [Leads -> SoundFit]
      /\ target \in Int /\ scoring.run[target] \in Int
  BY WeatherConstants DEF WeatherInv, WeatherTyped, ScoringState, Targets
<1>4. PICK run \in Int : run = scoring.run[target]
  BY <1>3
<1>5. run >= 0 /\ run \in runs /\ run < target /\ 3 * run + 2 <= phaseNo
  BY <1>2, <1>4 DEF WeatherInv, RunsHeld, RunsPublished
<1>6. PICK lead \in Leads : lead = target - run
  BY <1>2, <1>3, <1>4, <1>5, WeatherConstants, SMTT(30) DEF FitLead, Leads
<1>7. PICK cell \in SoundFit :
        cell = IF scoring.fit[lead] = <<>> THEN fits[lead] ELSE scoring.fit[lead][1]
  <2>1. scoring.fit[lead] \in Loaded /\ fits[lead] \in SoundFit
    BY <1>3 DEF ScoringState
  <2>2. CASE scoring.fit[lead] = <<>>
    BY <2>1, <2>2
  <2>3. CASE scoring.fit[lead] # <<>>
    <3>1. PICK f \in SoundFit : scoring.fit[lead] = <<f>>
      BY <2>1, <2>3 DEF Loaded
    <3>2. QED
      BY <2>3, <3>1
  <2>4. QED
    BY <2>2, <2>3
<1>8. scoring' = [scoring EXCEPT !.fit[lead] = <<cell>>]
  BY <1>2, <1>4, <1>6, <1>7 DEF FitLead
<1>9. scoring' \in ScoringState /\ scoring'.run = scoring.run
  <2>1. PICK c \in Loaded : c = <<cell>>
    BY DEF Loaded
  <2>2. scoring' = [scoring EXCEPT !.fit[lead] = c]
    BY <1>8, <2>1
  <2>3. QED
    BY <1>3, <2>2 DEF ScoringState
<1>10. WeatherTyped' /\ RunsPublished' /\ RunsHeld' /\ Bookkept'
  BY <1>1, <1>9
  DEF WeatherInv, WeatherTyped, RunsPublished, RunsHeld, Bookkept, Day, ScoringState, Targets
<1>11. CASE priced' = priced
  BY <1>1, <1>10, <1>11, OnlyTheWeather
<1>12. CASE priced' # priced
  <2>1. Priceable(cell)
        /\ priced' = [target |-> target, run |-> run, lead |-> lead, fit |-> cell, at |-> phaseNo]
    BY <1>2, <1>4, <1>6, <1>7, <1>12 DEF FitLead
  <2>2. cell.promoted /\ Day - cell.day <= MaxFitAge
    BY <2>1 DEF Priceable
  <2>3. cell.scores = Measured
    BY <1>7, <2>2 DEF SoundFit
  <2>4. 3 * target >= phaseNo
    <3>1. target - LocalDay >= 1
      BY <1>2, WeatherConstants DEF Wanted, Leads
    <3>2. LocalDay \in Int /\ phaseNo <= 3 * LocalDay + 3
      BY <1>3, DayOfPhase
    <3>3. QED
      BY <1>3, <3>1, <3>2
  <2>5. PricedOnMeasuredError'
    BY <1>1, <1>5, <1>6, <2>1, <2>2, <2>3, <2>4 DEF PricedOnMeasuredError, Day
  <2>6. QED
    BY <1>10, <2>5 DEF WeatherInv
<1>13. QED
  BY <1>11, <1>12

\* The world publishes, repoints and ages; none of it touches a price made.
LEMMA WorldSound ==
  ASSUME WeatherInv, RunPublished \/ Repointed \/ PhasePasses \/ UNCHANGED weatherVars
  PROVE  WeatherInv'
<1>1. UNCHANGED <<fits, refit, trades, scoring, priced>>
  BY DEF RunPublished, Repointed, PhasePasses, weatherVars
<1>2. /\ phaseNo \in 0..LastPhase /\ LastPhase \in Nat /\ rules \in SUBSET {"site", "authority"}
      /\ \A d \in runs : d \in Nat /\ 3 * d + 2 <= phaseNo
  BY WeatherConstants DEF WeatherInv, WeatherTyped, RunsPublished
<1>3. /\ phaseNo' \in 0..LastPhase /\ phaseNo <= phaseNo'
      /\ rules' \in SUBSET {"site", "authority"}
      /\ runs \subseteq runs' /\ \A d \in runs' : d \in Nat /\ 3 * d + 2 <= phaseNo'
  <2>1. CASE RunPublished
    <3>1. PICK d \in (Day - Lookback)..Day :
            d >= 0 /\ phaseNo >= 3 * d + 2 /\ runs' = runs \cup {d}
      BY <2>1 DEF RunPublished
    <3>2. d \in Nat
      BY <1>2, <3>1, WeatherConstants, DayOfPhase
    <3>3. QED
      BY <1>2, <2>1, <3>1, <3>2 DEF RunPublished
  <2>2. CASE Repointed
    BY <1>2, <2>2 DEF Repointed
  <2>3. CASE PhasePasses
    BY <1>2, <2>3 DEF PhasePasses
  <2>4. CASE UNCHANGED weatherVars
    BY <1>2, <2>4 DEF weatherVars
  <2>5. QED
    BY <2>1, <2>2, <2>3, <2>4
<1>4. WeatherTyped' /\ RunsPublished'
  BY <1>1, <1>3 DEF WeatherInv, WeatherTyped, RunsPublished, ScoringState, Targets
<1>5. RunsHeld'
  BY <1>1, <1>3 DEF WeatherInv, RunsHeld, Targets
<1>6. Bookkept'
  <2>1. Day <= Day' /\ Day \in Nat /\ Day' \in Nat
    <3>1. PICK a \in Nat, b \in Nat : a = phaseNo /\ b = phaseNo' /\ a <= b
      BY <1>2, <1>3
    <3>2. a \div 3 <= b \div 3
      BY <3>1, DaysAdvance, Zenon
    <3> a \div 3 \in Nat /\ b \div 3 \in Nat
      OBVIOUS
    <3>3. Day = a \div 3 /\ Day' = b \div 3
      BY <3>1 DEF Day
    <3>4. QED
      BY <3>2, <3>3
  <2>2. \A l \in Leads : fits[l].day \in Int /\ fits[l].day <= Day
    BY DEF WeatherInv, WeatherTyped, Bookkept, SoundFit
  <2>3. QED
    BY <1>1, <2>1, <2>2 DEF WeatherInv, Bookkept
<1>7. QED
  BY <1>1, <1>3, <1>4, <1>5, <1>6, OnlyTheWeather

\* The inductive invariant of the weather.
THEOREM WeatherInvariant == WeatherSpec => []WeatherInv
<1>1. WeatherInv /\ [WeatherNext]_weatherVars => WeatherInv'
  BY RefitSound, CycleSound, FetchSound, EstimateSound, WorldSound DEF WeatherNext
<1>2. QED
  BY WeatherStart, <1>1, PTL DEF WeatherSpec

\* Every price is for a day that has not begun at the station, from a published
\* run, with the measured error of that run's own lead, within the refit
\* cadence; for any leads, windows and ages, and failures at any point.
THEOREM WeatherPricedOnMeasuredError == WeatherSpec => []PricedOnMeasuredError
<1>1. WeatherInv => PricedOnMeasuredError
  BY DEF WeatherInv
<1>2. QED
  BY WeatherInvariant, <1>1, PTL

\* Every variable of the weather holds a value of its domain.
THEOREM WeatherTypes == WeatherSpec => []WeatherTypeOK
<1>1. ASSUME WeatherInv PROVE WeatherTypeOK
  <2>1. /\ phaseNo \in 0..LastPhase /\ refit.lead \in 0..MaxLead
        /\ scoring.step \in {"off", "begun", "scoring", "traded"}
        /\ trades.open \in 0..trades.placed
        /\ \A l \in Leads : fits[l].scores \in Scores /\ fits[l].day <= Day
    BY <1>1 DEF WeatherInv, WeatherTyped, Bookkept, ScoringState, SoundFit
  <2>2. runs \subseteq 0..Day
    <3>1. phaseNo \in Nat
      BY <2>1, WeatherConstants
    <3>2. QED
      BY <1>1, <3>1, DayOfPhase DEF WeatherInv, RunsPublished
  <2>3. trades.outcomes \in BoundedSeq(BOOLEAN, GuardWindow)
    <3>1. PICK s \in Seq(BOOLEAN) : s = trades.outcomes /\ Len(s) <= GuardWindow
      BY <1>1 DEF WeatherInv, WeatherTyped, Bookkept
    <3>2. Len(s) \in 0..GuardWindow /\ s \in [1..Len(s) -> BOOLEAN]
      BY <3>1, LenProperties, WeatherConstants
    <3>3. s \in UNION {[1..n -> BOOLEAN] : n \in 0..GuardWindow}
      BY <3>2, Zenon
    <3>4. QED
      BY <3>1, <3>3, Zenon DEF BoundedSeq, SeqOf
  <2>4. QED
    BY <2>1, <2>2, <2>3 DEF WeatherTypeOK
<1>2. QED
  BY WeatherInvariant, <1>1, PTL

-----------------------------------------------------------------------------
(***************************************************************************)
(* The price ladder of a maker order.                                      *)
(***************************************************************************)

\* The constants of the ladder are numbers.
LEMMA WalkConstants ==
  /\ StepCents \in Nat /\ StepCents > 0 /\ MaxSteps \in Nat
  /\ RestSeconds \in Nat /\ TimeoutSeconds \in Nat
BY WalkAssumption

\* A plan climbs by its step, within the cap, and each price is reached before
\* the timeout; there are at most MaxSteps + 1 of them.
LEMMA PlanClimbs ==
  ASSUME NEW start \in Int, NEW cap \in Int
  PROVE  /\ DOMAIN BuildPlan(start, cap) \subseteq 1..(MaxSteps + 1)
         /\ \A i \in DOMAIN BuildPlan(start, cap) :
              /\ BuildPlan(start, cap)[i] = start + (i - 1) * StepCents
              /\ BuildPlan(start, cap)[i] <= cap
              /\ (i - 1) * RestSeconds <= TimeoutSeconds
              /\ i > 1 => i - 1 \in DOMAIN BuildPlan(start, cap)
<1> DEFINE Placed(i) == start + i * StepCents <= cap /\ i * RestSeconds <= TimeoutSeconds
           Stops(n)  == /\ \A i \in 0..(n - 1) : Placed(i)
                        /\ n = MaxSteps + 1 \/ ~Placed(n)
           Missing   == {i \in 0..MaxSteps : ~Placed(i)}
           count     == CHOOSE n \in 0..(MaxSteps + 1) : Stops(n)
<1>1. BuildPlan(start, cap) = [i \in 1..count |-> start + (i - 1) * StepCents]
  BY DEF BuildPlan
<1> HIDE DEF Placed
<1>2. \E n \in 0..(MaxSteps + 1) : Stops(n)
  <2>1. CASE Missing = {}
    <3>1. \A i \in 0..((MaxSteps + 1) - 1) : Placed(i)
      BY <2>1, WalkConstants
    <3>2. Stops(MaxSteps + 1) /\ MaxSteps + 1 \in 0..(MaxSteps + 1)
      BY <3>1, WalkConstants
    <3>3. QED
      BY <3>2
  <2>2. CASE Missing # {}
    <3>1. Missing \in SUBSET Nat
      BY WalkConstants
    <3>2. PICK n \in Missing : \A i \in Missing : n <= i
      <4> HIDE DEF Missing
      <4>1. QED
        BY <2>2, <3>1, Smallest
    <3>3. n \in 0..(MaxSteps + 1) /\ n \in 0..MaxSteps /\ ~Placed(n)
      BY <3>2, WalkConstants
    <3>4. \A i \in 0..(n - 1) : Placed(i)
      <4> TAKE i \in 0..(n - 1)
      <4>1. i \in 0..MaxSteps /\ ~(n <= i)
        BY <3>3, WalkConstants
      <4>2. QED
        BY <3>2, <4>1
    <3>5. QED
      BY <3>3, <3>4
  <2>3. QED
    BY <2>1, <2>2
<1>3. count \in 0..(MaxSteps + 1) /\ Stops(count)
  <2> HIDE DEF Stops
  <2>1. QED
    BY <1>2, Zenon
<1> HIDE DEF count
<1>4. count \in Nat /\ count <= MaxSteps + 1 /\ \A i \in 0..(count - 1) : Placed(i)
  BY <1>3, WalkConstants
<1>5. DOMAIN BuildPlan(start, cap) = 1..count
  BY <1>1
<1>6. ASSUME NEW i \in 1..count
      PROVE  /\ BuildPlan(start, cap)[i] = start + (i - 1) * StepCents
             /\ BuildPlan(start, cap)[i] <= cap
             /\ (i - 1) * RestSeconds <= TimeoutSeconds
             /\ i > 1 => i - 1 \in 1..count
  <2>1. i - 1 \in 0..(count - 1) /\ (i > 1 => i - 1 \in 1..count)
    BY <1>4
  <2>2. Placed(i - 1)
    BY <1>4, <2>1
  <2>3. BuildPlan(start, cap)[i] = start + (i - 1) * StepCents
    BY <1>1
  <2>4. QED
    BY <2>1, <2>2, <2>3 DEF Placed
<1>7. QED
  BY <1>4, <1>5, <1>6, WalkConstants

\* A cent that is under the ceiling of its side is still the approved trade: the
\* ceiling is floored, also through the complement of a NO order.
LEMMA CeilingKeepsEdge ==
  ASSUME NEW side \in {"yes", "no"}, NEW belief \in Int, NEW edge \in Int,
         NEW c \in Nat, c >= 1, c <= MaxPrice(side, belief, edge)
  PROVE  IF side = "yes" THEN 10 * c + edge <= belief ELSE 10 * c + edge <= 1000 - belief
<1> DEFINE limit == IF side = "yes" THEN belief - edge ELSE 1000 - (belief + edge)
<1>1. PICK l \in Int : l = limit
  <2>1. limit \in Int
    OBVIOUS
  <2> HIDE DEF limit
  <2>2. QED
    BY <2>1
<1>2. PICK f \in Int : f = l \div 10 /\ 10 * f <= l
  BY <1>1
<1>3. MaxPrice(side, belief, edge) = AtLeast(AtMost(f, 100), 0)
  BY <1>1, <1>2 DEF MaxPrice
<1>4. c <= f
  BY <1>2, <1>3 DEF AtLeast, AtMost
<1>5. 10 * c <= l
  BY <1>2, <1>4
<1>6. QED
  BY <1>1, <1>5

\* "Never chase past the edge", for any book, belief, required edge, step and
\* timeout: every price of a maker order keeps the edge on its side, is below
\* what a taker would pay, and is above the one before.
LEMMA LadderKeepsEdge ==
  ASSUME NEW side \in {"yes", "no"}, NEW bid \in Int, NEW ask \in Int, NEW taker \in Int,
         NEW belief \in Int, NEW edge \in Int,
         NEW plan, plan = ShadowPlan(side, bid, ask, taker, belief, edge),
         NEW i \in DOMAIN plan
  PROVE  /\ IF side = "yes" THEN 10 * plan[i] + edge <= belief
            ELSE 10 * plan[i] + edge <= 1000 - belief
         /\ plan[i] < taker
         /\ i > 1 => plan[i] > plan[i - 1]
<1>1. PICK start \in Int : start = PassiveStart(side, bid, ask, taker) /\ start >= 1
  BY DEF PassiveStart, AtLeast, AtMost
<1>2. PICK top \in Int : top = MaxPrice(side, belief, edge)
  BY DEF MaxPrice, AtLeast, AtMost
<1>3. PICK cap \in Int : cap = AtMost(top, taker - 1) /\ cap <= top /\ cap <= taker - 1
  BY DEF AtMost
<1>4. plan = BuildPlan(start, cap)
  BY <1>1, <1>2, <1>3 DEF ShadowPlan
<1>5. /\ i \in 1..(MaxSteps + 1)
      /\ plan[i] = start + (i - 1) * StepCents /\ plan[i] <= cap
      /\ i > 1 => i - 1 \in DOMAIN plan
  BY <1>4, PlanClimbs
<1>6. i \in Nat /\ i >= 1 /\ StepCents \in Nat /\ StepCents > 0
  BY <1>5, WalkConstants
<1>7. PICK c \in Nat : c = plan[i] /\ c >= 1
  <2>1. (i - 1) * StepCents \in Nat
    BY <1>6
  <2>2. QED
    BY <1>1, <1>5, <2>1
<1>8. c <= top /\ c < taker
  BY <1>3, <1>5, <1>7
<1>9. IF side = "yes" THEN 10 * c + edge <= belief ELSE 10 * c + edge <= 1000 - belief
  BY <1>2, <1>7, <1>8, CeilingKeepsEdge
<1>10. ASSUME i > 1 PROVE plan[i] > plan[i - 1]
  <2>1. plan[i - 1] = start + ((i - 1) - 1) * StepCents
    BY <1>4, <1>5, <1>10, PlanClimbs
  <2>2. (i - 1) * StepCents = ((i - 1) - 1) * StepCents + StepCents
    BY <1>6
  <2>3. ((i - 1) - 1) * StepCents \in Int
    BY <1>6
  <2>4. QED
    BY <1>5, <1>6, <2>1, <2>2, <2>3
<1>11. QED
  BY <1>7, <1>8, <1>9, <1>10

-----------------------------------------------------------------------------
(***************************************************************************)
(* Paper trades and their fees.                                            *)
(***************************************************************************)
Statuses  == {"qualifying", "watching", "rejected"}
Quadratic == {"quadratic", "quadratic_with_maker_fees"}
NoFee     == [NoSchedule EXCEPT !.type = Refused]

\* What a pass can be charging: nothing yet, a refusal, or a published schedule
\* of a kind the formula models.
Charging == {NoSchedule, NoFee} \cup {t \in Tariffs : t.type \in Quadratic}

\* A scored opportunity, valued at its fill and the standard fee.
Valued ==
  {o \in [contract : Contracts, snapshot : {s \in Snapshots : s.last # 0}, p : 0..1000,
          side : Sides, price : 0..100, ev : Int] :
     o.price = FillPrice(o.side, o.snapshot) /\ o.ev = NetEv(o.side, o.snapshot, o.p)}

PassState ==
  [step : {"off", "settling", "scoring", "digest", "swept", "trading"}, start : Nat,
   left : SUBSET Contracts, rows : SUBSET (Contracts \X Statuses), queue : Seq(Valued),
   schedule : Charging]

StoredSchedule == [type |-> seriesFee.type, multiplier |-> seriesFee.multiplier]

\* The tariff of now was published until now, and no other is newer.
TariffInv ==
  /\ tick \in Nat
  /\ tariff \in [current : Tariffs, last : [Tariffs -> Int]]
  /\ tariff.last[tariff.current] = tick
  /\ \A t \in Tariffs : tariff.last[t] <= tick

\* What is stored was published when it was observed, or later.
FeeInv ==
  seriesFee # NoSchedule =>
    /\ seriesFee \in [type : STRING, multiplier : Nat, observed : Int, failing : BOOLEAN]
    /\ StoredSchedule \in Tariffs
    /\ seriesFee.observed <= tariff.last[StoredSchedule]

\* A schedule a pass charges was published within a day of its start.
PassInv ==
  /\ pass \in PassState
  /\ pass.start <= tick
  /\ pass.schedule.type \in Quadratic =>
       pass.schedule \in Tariffs /\ pass.start - tariff.last[pass.schedule] < CacheTicks

\* Nothing is worth more than the bankroll's peak, and every position has a
\* price under a dollar and a day of its own.
BooksInv ==
  /\ account \in [bankroll : Int, peak : Int, closed : [0..(LastTick \div DayTicks) -> Int]]
  /\ account.peak >= account.bankroll
  /\ positions \in [Contracts -> [quantity : Nat, price : 0..99, fee : Nat,
                                  day : 0..(LastTick \div DayTicks)]]
  /\ tick <= LastTick

\* The newest trade: charged as published, and worth more than it costs.
NewestInv ==
  newest # NoTrade =>
    /\ newest.schedule \in Tariffs /\ newest.schedule.type \in Quadratic
    /\ newest.start - tariff.last[newest.schedule] < CacheTicks
    /\ newest.start \in Nat
    /\ newest.quantity * (newest.belief - 10 * newest.price) > 10 * newest.fee

SizingInv == TariffInv /\ FeeInv /\ PassInv /\ BooksInv /\ NewestInv

\* The constants of sizing.
LEMMA SizingConstants ==
  /\ Snapshots \subseteq [last : 0..99, bid : 0..100, ask : 0..100, thin : BOOLEAN,
                          expiry : {"ok", "soon", "far"}]
  /\ Estimates \subseteq [p : 0..1000, confidence : {"high", "middle", "low"}]
  /\ Tariffs \subseteq [type : STRING, multiplier : Nat]
  /\ CacheTicks \in Nat /\ CacheTicks > 0 /\ DayTicks \in Nat /\ DayTicks > 0
  /\ LastTick \in Nat /\ MaxPlaced \in Nat
BY SizingAssumption

\* Rounding up reaches a multiple from above, and the least there is: r is one.
LEMMA RoundedUp ==
  ASSUME NEW n \in Nat, NEW d \in Nat, d > 0, NEW r \in Nat
  PROVE  /\ RoundUp(n, d) \in Nat
         /\ n <= d * RoundUp(n, d)
         /\ n <= d * r => RoundUp(n, d) <= r
<1>1. PICK m \in Nat : m = n + d - 1
  OBVIOUS
<1>2. PICK q \in Nat : q = m \div d /\ d * q <= m /\ m < d * q + d
  <2>1. m \div d \in Nat /\ m = d * (m \div d) + (m % d) /\ m % d \in 0..(d - 1)
    BY <1>1
  <2>2. QED
    BY <2>1
<1>3. RoundUp(n, d) = q
  BY <1>1, <1>2 DEF RoundUp
<1>4. n <= d * q
  BY <1>1, <1>2
<1>5. ASSUME n <= d * r PROVE q <= r
  <2>1. SUFFICES ASSUME q >= r + 1 PROVE FALSE
    BY <1>2
  <2>2. d * q >= d * (r + 1)
    BY <1>2, <2>1
  <2>3. d * (r + 1) = d * r + d
    OBVIOUS
  <2>4. QED
    BY <1>1, <1>2, <1>5, <2>2, <2>3
<1>6. QED
  BY <1>3, <1>4, <1>5

\* Rounding a multiple up never exceeds the multiple of what is rounded up.
LEMMA RoundedTogether ==
  ASSUME NEW x \in Nat, NEW q \in Nat, NEW d \in Nat, d > 0
  PROVE  RoundUp(q * x, d) \in Nat /\ RoundUp(q * x, d) <= q * RoundUp(x, d)
<1>1. PICK r \in Nat : r = RoundUp(x, d) /\ x <= d * r
  BY RoundedUp
<1>2. PICK n \in Nat, k \in Nat : n = q * x /\ k = q * r
  OBVIOUS
<1>3. n <= d * k
  <2>1. q * x <= q * (d * r)
    BY <1>1
  <2>2. q * (d * r) = d * (q * r)
    OBVIOUS
  <2>3. QED
    BY <1>2, <2>1, <2>2
<1>4. RoundUp(n, d) \in Nat /\ RoundUp(n, d) <= k
  BY <1>3, RoundedUp, Zenon
<1>5. QED
  BY <1>1, <1>2, <1>4

\* A whole trade's fee is at most as many fees of one contract: rounding each
\* of them up never costs less.
LEMMA FeeOfTheWhole ==
  ASSUME NEW q \in Nat, q > 0, NEW price \in Int, NEW m \in Nat
  PROVE  /\ ScheduledFee(q, price, m) \in Nat /\ ScheduledFee(1, price, m) \in Nat
         /\ ScheduledFee(q, price, m) <= q * ScheduledFee(1, price, m)
<1>1. CASE price \notin 1..99
  BY <1>1 DEF ScheduledFee
<1>2. CASE price \in 1..99
  <2>1. PICK v \in Nat : v = price * (100 - price)
    BY <1>2
  <2>2. PICK x \in Nat : x = 7 * m * 1 * price * (100 - price) /\ x = 7 * m * v
    BY <1>2, <2>1
  <2>3. 7 * m * q * price * (100 - price) = q * x
    BY <1>2, <2>1, <2>2
  <2>4. PICK d \in Nat : d = 10000 /\ d > 0
    OBVIOUS
  <2>5. ScheduledFee(1, price, m) = RoundUp(x, d)
    BY <1>2, <2>2, <2>4 DEF ScheduledFee
  <2>6. ScheduledFee(q, price, m) = RoundUp(q * x, d)
    BY <1>2, <2>3, <2>4 DEF ScheduledFee
  <2>7. d > 0
    BY <2>4
  <2>8. RoundUp(q * x, d) \in Nat /\ RoundUp(q * x, d) <= q * RoundUp(x, d)
    BY <2>7, RoundedTogether
  <2>9. RoundUp(x, d) \in Nat
    BY <2>7, RoundedUp
  <2>10. QED
    BY <2>5, <2>6, <2>8, <2>9
<1>3. QED
  BY <1>1, <1>2

\* One contract's fee is a number of cents.
LEMMA FeeOfOne ==
  ASSUME NEW price \in Int, NEW m \in Nat
  PROVE  ScheduledFee(1, price, m) \in Nat
<1>1. PICK one \in Nat : one = 1 /\ one > 0
  OBVIOUS
<1>2. QED
  BY <1>1, FeeOfTheWhole

\* So if one contract is worth its fee at a schedule, the whole trade is.
LEMMA WholeTradePays ==
  ASSUME NEW q \in Nat, q > 0, NEW price \in Int, NEW m \in Nat, NEW edge \in Int,
         edge - 10 * ScheduledFee(1, price, m) > 0
  PROVE  q * edge > 10 * ScheduledFee(q, price, m)
<1>1. PICK f \in Nat, w \in Nat :
        f = ScheduledFee(1, price, m) /\ w = ScheduledFee(q, price, m) /\ w <= q * f
  BY FeeOfTheWhole
<1>2. edge >= 10 * f + 1
  BY <1>1
<1>3. q * edge >= q * (10 * f + 1)
  BY <1>2
<1>4. q * (10 * f + 1) = 10 * (q * f) + q /\ q * f \in Nat
  BY <1>1
<1>5. QED
  BY <1>1, <1>3, <1>4

\* A fill price is one of a dollar's.
LEMMA PricesTyped ==
  ASSUME NEW s \in Snapshots, NEW side \in Sides
  PROVE  FillPrice(side, s) \in 0..100
<1>1. s \in [last : 0..99, bid : 0..100, ask : 0..100, thin : BOOLEAN,
             expiry : {"ok", "soon", "far"}]
  BY SizingConstants
<1>2. QED
  BY <1>1 DEF FillPrice, Sides

\* What a side is worth after the standard fee is a number.
LEMMA NetWorth ==
  ASSUME NEW s \in Snapshots, NEW p \in 0..1000, NEW side \in Sides,
         NEW price \in Int, price = FillPrice(side, s)
  PROVE  NetEv(side, s, p) \in Int
<1>1. PICK b \in 0..1000 : b = Belief(side, p)
  BY DEF Belief
<1>2. PICK one \in Nat : one = 1
  OBVIOUS
<1>3. PICK f \in Nat : f = ScheduledFee(1, price, one)
  BY FeeOfOne
<1>4. NetEv(side, s, p) = b - 10 * price - 10 * f
  BY <1>1, <1>2, <1>3 DEF NetEv, Edge
<1>5. QED
  BY <1>1, <1>3, <1>4

\* A scored contract is an opportunity valued as the filter saw it.
LEMMA ScoredIsValued ==
  ASSUME NEW k \in Contracts, NEW s \in Snapshots, s.last # 0, NEW e \in Estimates
  PROVE  OpportunityOf(k, s, e) \in Valued /\ Status(s, e) \in Statuses
<1>1. PICK p \in 0..1000 : p = e.p
  BY SizingConstants
<1>2. PICK side \in Sides : side = BestSide(s, p)
  BY DEF BestSide, Sides
<1>3. FillPrice(side, s) \in 0..100
  BY PricesTyped
<1>4. PICK price \in 0..100 : price = FillPrice(side, s)
  BY <1>3
<1>5. NetEv(side, s, p) \in Int
  <2>1. price \in Int
    OBVIOUS
  <2>2. QED
    BY <1>4, <2>1, NetWorth, SMTT(30)
<1>6. PICK ev \in Int : ev = NetEv(side, s, p)
  BY <1>5
<1>7. OpportunityOf(k, s, e) = [contract |-> k, snapshot |-> s, p |-> p, side |-> side,
                                price |-> price, ev |-> ev]
  BY <1>1, <1>2, <1>4, <1>6 DEF OpportunityOf
<1>8. OpportunityOf(k, s, e) \in Valued
  BY <1>4, <1>6, <1>7 DEF Valued
<1>9. Status(s, e) \in Statuses
  BY DEF Status, Statuses
<1>10. QED
  BY <1>8, <1>9

\* The quantity is a number: no price a trade is sized at is zero.
LEMMA QuantityTyped ==
  ASSUME NEW o \in Valued, NEW equity \in Int
  PROVE  SizedQuantity(o, equity, Miscalibration) \in Int
<1>1. /\ o.snapshot.last \in 1..99 /\ o.side \in Sides /\ o.p \in 0..1000
      /\ Miscalibration \in 0..100
  BY SizingConstants, SizingAssumption DEF Valued
<1>2. PICK price \in 1..99 : price = SizedPrice(o.side, o.snapshot.last)
  BY <1>1 DEF SizedPrice, Truncated, Sides
<1>3. PICK b \in 0..1000 : b = Belief(o.side, o.p)
  <2>1. PICK p \in 0..1000 : p = o.p
    BY <1>1
  <2>2. p \in 0..1000 /\ 1000 - p \in 0..1000
    BY <2>1, SMTT(30)
  <2>3. Belief(o.side, o.p) = p \/ Belief(o.side, o.p) = 1000 - p
    BY <2>1 DEF Belief
  <2>4. Belief(o.side, o.p) \in 0..1000
    BY <2>2, <2>3
  <2>5. QED
    BY <2>4, ZenonT(30)
<1>4. PICK h \in Int : h = Shrinkage(Miscalibration)
  BY <1>1 DEF Shrinkage, Greatest
<1>5. PICK kelly \in Int : kelly = KellyCents(b, price, equity, Miscalibration)
  <2>1. CASE b <= 10 * price
    BY <2>1 DEF KellyCents
  <2>2. CASE ~(b <= 10 * price)
    <3>1. PICK n \in Int : n = equity * (b - 10 * price) * h
      OBVIOUS
    <3>2. PICK d \in Nat : d = 400 * (1000 - 10 * price) /\ d > 0
      OBVIOUS
    <3>3. PICK m \in Int, c \in Nat : m = 2 * n + d /\ c = 2 * d /\ c > 0
      BY <3>2
    <3>4. m \div c \in Int
      BY <3>3
    <3>5. KellyCents(b, price, equity, Miscalibration) = m \div c
      BY <1>4, <2>2, <3>1, <3>2, <3>3 DEF KellyCents, Rounded
    <3>6. QED
      BY <3>4, <3>5
  <2>3. QED
    BY <2>1, <2>2
<1>6. PICK dollars \in Int : dollars = SizedDollars(o, equity, Miscalibration)
  <2>1. PICK k \in Int : k = KellyCents(b, price, equity, Miscalibration)
    BY <1>5
  <2>2. SizedDollars(o, equity, Miscalibration) = Least(100 * k, MaxSingle * equity)
    BY <1>2, <1>3, <2>1 DEF SizedDollars
  <2>3. Least(100 * k, MaxSingle * equity) \in Int
    BY DEF Least, MaxSingle
  <2>4. QED
    BY <2>2, <2>3
<1>7. PICK c \in Nat : c = 100 * price /\ c > 0
  OBVIOUS
<1>8. SizedQuantity(o, equity, Miscalibration) = dollars \div c
  BY <1>2, <1>6, <1>7 DEF SizedQuantity
<1>9. QED
  BY <1>7, <1>8

\* The invariant holds at the start.
LEMMA SizingStart == SizingInit => SizingInv
<1> SUFFICES ASSUME SizingInit PROVE SizingInv
  OBVIOUS
<1>1. TariffInv
  BY SizingConstants DEF SizingInit, TariffInv
<1>2. FeeInv /\ NewestInv
  BY DEF SizingInit, FeeInv, NewestInv
<1>3. NoPass \in PassState /\ NoPass.start = 0 /\ NoPass.schedule.type \notin Quadratic
  <2>1. {} \in SUBSET (Contracts \X Statuses) /\ <<>> \in Seq(Valued)
    BY EmptySeq
  <2>2. QED
    BY <2>1 DEF NoPass, PassState, Charging, NoSchedule, Quadratic
<1>4. PassInv
  BY <1>1, <1>3 DEF SizingInit, PassInv, TariffInv
<1>5. BooksInv
  <2>1. LastTick \div DayTicks \in Nat
    BY SizingConstants
  <2>2. account \in [bankroll : Int, peak : Int, closed : [0..(LastTick \div DayTicks) -> Int]]
        /\ account.peak >= account.bankroll /\ tick <= LastTick
    BY SizingConstants DEF SizingInit
  <2>3. NoPosition \in [quantity : Nat, price : 0..99, fee : Nat, day : 0..(LastTick \div DayTicks)]
    BY <2>1 DEF NoPosition
  <2>4. QED
    BY <2>2, <2>3 DEF BooksInv, SizingInit
<1>6. QED
  BY <1>1, <1>2, <1>4, <1>5 DEF SizingInv

\* Each step of a pass keeps its shape.
LEMMA PassKept ==
  ASSUME SizingInv,
         PassBegins \/ ScoringBegins \/ ScoreContract \/ FlushOpportunities
           \/ TradingBegins \/ SkipOpportunity \/ PassEnds
  PROVE  SizingInv'
<1>1. UNCHANGED <<tick, tariff, seriesFee, account, positions, newest>>
  BY DEF PassBegins, ScoringBegins, ScoreContract, FlushOpportunities, TradingBegins,
         SkipOpportunity, PassEnds
<1>2. /\ pass \in PassState /\ tick \in Nat /\ pass.start <= tick
      /\ pass.rows \in SUBSET (Contracts \X Statuses) /\ pass.queue \in Seq(Valued)
  BY DEF SizingInv, PassInv, TariffInv, PassState
<1>3. NoPass \in PassState /\ NoPass.start = 0 /\ NoPass.schedule = NoSchedule
  <2>1. {} \in SUBSET (Contracts \X Statuses) /\ <<>> \in Seq(Valued)
    BY EmptySeq
  <2>2. QED
    BY <2>1 DEF NoPass, PassState, Charging
<1>4. NoSchedule.type \notin Quadratic
  BY DEF NoSchedule, Quadratic
<1>5. pass' \in PassState /\ pass'.start <= tick
      /\ (pass'.schedule = NoSchedule
            \/ (pass'.schedule = pass.schedule /\ pass'.start = pass.start))
  <2>1. CASE PassBegins
    <3>1. pass' = [NoPass EXCEPT !.step = "settling", !.left = Contracts]
      BY <2>1 DEF PassBegins
    <3>2. PICK new \in PassState : new = NoPass /\ new.schedule = NoSchedule /\ new.start = 0
      BY <1>3
    <3>3. pass' = [new EXCEPT !.step = "settling", !.left = Contracts]
      BY <3>1, <3>2
    <3>4. pass' \in PassState /\ pass'.start = 0
      BY <3>2, <3>3 DEF PassState
    <3>5. pass'.schedule = new.schedule
      BY <3>3 DEF PassState
    <3>6. QED
      BY <1>2, <3>2, <3>4, <3>5
  <2>2. CASE ScoringBegins
    BY <1>2, <2>2 DEF ScoringBegins, PassState
  <2>3. CASE ScoreContract
    <3>1. PICK k \in pass.left, s \in Snapshots :
            \/ pass' = [pass EXCEPT !.left = @ \ {k}]
            \/ \E e \in Estimates :
                 /\ s.last # 0
                 /\ pass' = [pass EXCEPT !.left = @ \ {k}, !.rows = @ \cup {<<k, Status(s, e)>>},
                               !.queue = IF Status(s, e) = "qualifying"
                                         THEN Append(@, OpportunityOf(k, s, e)) ELSE @]
      BY <2>3, Zenon DEF ScoreContract
    <3>2. k \in Contracts /\ pass.left \ {k} \in SUBSET Contracts
      BY <1>2 DEF PassState
    <3>3. PICK left \in SUBSET Contracts : left = pass.left \ {k}
      BY <3>2, Zenon
    <3>4. CASE pass' = [pass EXCEPT !.left = @ \ {k}]
      BY <1>2, <3>3, <3>4 DEF PassState
    <3>5. ASSUME NEW e \in Estimates, s.last # 0,
                 pass' = [pass EXCEPT !.left = @ \ {k}, !.rows = @ \cup {<<k, Status(s, e)>>},
                            !.queue = IF Status(s, e) = "qualifying"
                                      THEN Append(@, OpportunityOf(k, s, e)) ELSE @]
          PROVE  pass' \in PassState /\ pass'.start = pass.start /\ pass'.schedule = pass.schedule
      <4>1. PICK o \in Valued, status \in Statuses : o = OpportunityOf(k, s, e) /\ status = Status(s, e)
        BY <3>2, <3>5, ScoredIsValued
      <4>2. <<k, status>> \in Contracts \X Statuses
        BY <3>2
      <4>3. pass.rows \cup {<<k, status>>} \in SUBSET (Contracts \X Statuses)
            /\ Append(pass.queue, o) \in Seq(Valued)
        BY <1>2, <4>2, AppendProperties
      <4>4. PICK rows \in SUBSET (Contracts \X Statuses), queue \in Seq(Valued) :
              /\ rows = pass.rows \cup {<<k, status>>}
              /\ queue = IF status = "qualifying" THEN Append(pass.queue, o) ELSE pass.queue
        BY <1>2, <4>3
      <4>5. pass' = [pass EXCEPT !.left = left, !.rows = rows, !.queue = queue]
        BY <1>2, <3>3, <3>5, <4>1, <4>4 DEF PassState
      <4>6. QED
        BY <1>2, <4>5 DEF PassState
    <3>6. QED
      BY <1>2, <3>1, <3>4, <3>5 DEF PassState
  <2>4. CASE FlushOpportunities
    BY <1>2, <2>4 DEF FlushOpportunities, PassState
  <2>5. CASE SkipOpportunity
    <3>1. pass' = [pass EXCEPT !.queue = Tail(@)] /\ pass.queue # <<>>
      BY <2>5 DEF SkipOpportunity, Resolved
    <3>2. Tail(pass.queue) \in Seq(Valued)
      BY <1>2, <3>1, HeadTailProperties
    <3>3. QED
      BY <1>2, <3>1, <3>2 DEF PassState
  <2>6. CASE PassEnds
    BY <1>2, <1>3, <2>6 DEF PassEnds
  <2>7. CASE TradingBegins
    <3>1. pass' = [pass EXCEPT !.step = "trading", !.start = tick, !.schedule = NoSchedule]
      BY <2>7 DEF TradingBegins
    <3>2. PICK none \in Charging : none = NoSchedule
      BY DEF Charging
    <3>3. pass' = [pass EXCEPT !.step = "trading", !.start = tick, !.schedule = none]
      BY <3>1, <3>2
    <3>4. pass' \in PassState /\ pass'.start = tick /\ pass'.schedule = none
      BY <1>2, <3>3 DEF PassState
    <3>5. QED
      BY <1>2, <3>2, <3>4
  <2>8. QED
    BY <2>1, <2>2, <2>3, <2>4, <2>5, <2>6, <2>7
<1>6. PassInv'
  BY <1>1, <1>4, <1>5 DEF SizingInv, PassInv
<1>7. QED
  BY <1>1, <1>6 DEF SizingInv, TariffInv, FeeInv, StoredSchedule, BooksInv, NewestInv

\* A position settles: the peak follows the bankroll.
LEMMA SettleKept ==
  ASSUME SizingInv, SettlePosition
  PROVE  SizingInv'
<1> DEFINE Days == 0..(LastTick \div DayTicks)
<1>1. PICK k \in Contracts, paid \in {0, 100} :
        /\ positions' = [positions EXCEPT ![k] = NoPosition]
        /\ account' = [bankroll |-> account.bankroll
                         + (positions[k].quantity * (paid - positions[k].price) - positions[k].fee),
                       peak     |-> Greatest(account.peak, account.bankroll
                         + (positions[k].quantity * (paid - positions[k].price) - positions[k].fee)),
                       closed   |-> [account.closed EXCEPT ![positions[k].day] = @
                         + (positions[k].quantity * (paid - positions[k].price) - positions[k].fee)]]
  BY Zenon DEF SettlePosition
<1>2. UNCHANGED <<tick, tariff, seriesFee, opportunities, pass, newest>>
  BY DEF SettlePosition
<1>3. /\ account \in [bankroll : Int, peak : Int, closed : [Days -> Int]]
      /\ positions \in [Contracts -> [quantity : Nat, price : 0..99, fee : Nat, day : Days]]
      /\ tick <= LastTick
  BY DEF SizingInv, BooksInv
<1>4. PICK pnl \in Int : pnl = positions[k].quantity * (paid - positions[k].price) - positions[k].fee
  <2>1. positions[k].quantity \in Nat /\ positions[k].price \in 0..99 /\ positions[k].fee \in Nat
    BY <1>3
  <2>2. positions[k].quantity * (paid - positions[k].price) - positions[k].fee \in Int
    BY <2>1
  <2>3. QED
    BY <2>2
<1>5. PICK b \in Int : b = account.bankroll + pnl
  BY <1>3
<1>6. PICK top \in Int : top = Greatest(account.peak, b) /\ top >= b
  <2>1. PICK peak \in Int : peak = account.peak
    BY <1>3
  <2>2. Greatest(peak, b) \in Int /\ Greatest(peak, b) >= b
    BY DEF Greatest
  <2>3. QED
    BY <2>1, <2>2
<1>7. [account.closed EXCEPT ![positions[k].day] = @ + pnl] \in [Days -> Int]
  <2>1. PICK c \in [Days -> Int], d \in Days : c = account.closed /\ d = positions[k].day
    BY <1>3
  <2>2. [c EXCEPT ![d] = @ + pnl] \in [Days -> Int]
    OBVIOUS
  <2>3. QED
    BY <2>1, <2>2
<1>8. PICK closed \in [Days -> Int] : closed = [account.closed EXCEPT ![positions[k].day] = @ + pnl]
  BY <1>7
<1>9. account' = [bankroll |-> b, peak |-> top, closed |-> closed]
  BY <1>1, <1>4, <1>5, <1>6, <1>8
<1>10. LastTick \div DayTicks \in Nat
  BY SizingConstants
<1>11. positions' \in [Contracts -> [quantity : Nat, price : 0..99, fee : Nat, day : Days]]
  BY <1>1, <1>3, <1>10 DEF NoPosition
<1>12. BooksInv'
  BY <1>2, <1>3, <1>6, <1>9, <1>11 DEF BooksInv
<1>13. QED
  BY <1>2, <1>12 DEF SizingInv, TariffInv, FeeInv, StoredSchedule, PassInv, NewestInv

\* The exchange changes its tariff, or time passes: what it published last of
\* each only becomes newer.
LEMMA TariffKept ==
  ASSUME SizingInv, TariffChanges \/ SizingTick \/ UNCHANGED sizingVars
  PROVE  SizingInv'
<1>1. UNCHANGED <<seriesFee, account, positions, opportunities, pass, newest>>
  BY DEF TariffChanges, SizingTick, sizingVars
<1>2. /\ tick \in Nat /\ tick <= LastTick /\ LastTick \in Nat
      /\ tariff \in [current : Tariffs, last : [Tariffs -> Int]]
      /\ tariff.last[tariff.current] = tick
      /\ \A t \in Tariffs : tariff.last[t] <= tick
  BY SizingConstants DEF SizingInv, TariffInv, BooksInv
<1>3. /\ TariffInv' /\ tick <= tick' /\ tick' <= LastTick
      /\ \A t \in Tariffs : tariff.last[t] \in Int /\ tariff'.last[t] \in Int
                              /\ tariff.last[t] <= tariff'.last[t]
  <2>1. CASE TariffChanges
    <3>1. PICK t \in Tariffs : tariff' = [current |-> t, last |-> [tariff.last EXCEPT ![t] = tick]]
      BY <2>1 DEF TariffChanges
    <3>2. tick' = tick
      BY <2>1 DEF TariffChanges
    <3>3. PICK l \in [Tariffs -> Int] : l = [tariff.last EXCEPT ![t] = tick]
      BY <1>2
    <3>4. tariff' = [current |-> t, last |-> l]
          /\ \A u \in Tariffs : l[u] = IF u = t THEN tick ELSE tariff.last[u]
      BY <1>2, <3>1, <3>3
    <3>5. QED
      BY <1>2, <3>2, <3>4 DEF TariffInv
  <2>2. CASE SizingTick
    <3>1. PICK t \in Tariffs : t = tariff.current
      BY <1>2
    <3>2. PICK l \in [Tariffs -> Int] : l = [tariff.last EXCEPT ![t] = tick + 1]
      <4>1. PICK c \in [Tariffs -> Int], n \in Int : c = tariff.last /\ n = tick + 1
        BY <1>2
      <4>2. [c EXCEPT ![t] = n] \in [Tariffs -> Int]
        OBVIOUS
      <4>3. QED
        BY <4>1, <4>2
    <3>3. /\ tick' = tick + 1 /\ tick < LastTick
          /\ tariff' = [tariff EXCEPT !.last = l]
      BY <1>2, <2>2, <3>1, <3>2 DEF SizingTick
    <3>4. /\ tariff'.current = t /\ tariff'.last = l
          /\ tariff' \in [current : Tariffs, last : [Tariffs -> Int]]
          /\ \A u \in Tariffs : l[u] = IF u = t THEN tick + 1 ELSE tariff.last[u]
      BY <1>2, <3>1, <3>2, <3>3
    <3>5. QED
      BY <1>2, <3>3, <3>4 DEF TariffInv
  <2>3. CASE UNCHANGED sizingVars
    BY <1>2, <2>3 DEF sizingVars, SizingInv, TariffInv
  <2>4. QED
    BY <2>1, <2>2, <2>3
<1>4. FeeInv'
  <2>1. CASE seriesFee = NoSchedule
    BY <1>1, <2>1 DEF FeeInv
  <2>2. CASE seriesFee # NoSchedule
    <3>1. /\ seriesFee \in [type : STRING, multiplier : Nat, observed : Int, failing : BOOLEAN]
          /\ StoredSchedule \in Tariffs /\ seriesFee.observed <= tariff.last[StoredSchedule]
      BY <2>2 DEF SizingInv, FeeInv
    <3>2. StoredSchedule' = StoredSchedule
      BY <1>1 DEF StoredSchedule
    <3>3. PICK t \in Tariffs : t = StoredSchedule
      BY <3>1
    <3>4. seriesFee.observed \in Int
      BY <3>1
    <3>5. seriesFee.observed <= tariff'.last[t]
      BY <1>3, <3>1, <3>3, <3>4
    <3>6. QED
      BY <1>1, <3>1, <3>2, <3>3, <3>5 DEF FeeInv
  <2>3. QED
    BY <2>1, <2>2
<1>5. PassInv'
  <2>1. pass \in PassState /\ pass.start \in Nat /\ pass.start <= tick
    BY DEF SizingInv, PassInv, PassState
  <2>2. ASSUME pass.schedule.type \in Quadratic
        PROVE  pass.schedule \in Tariffs /\ pass.start - tariff'.last[pass.schedule] < CacheTicks
    <3>1. PICK t \in Tariffs : t = pass.schedule /\ pass.start - tariff.last[t] < CacheTicks
      BY <2>2 DEF SizingInv, PassInv
    <3>2. pass.start - tariff'.last[t] < CacheTicks
      BY <1>3, <2>1, <3>1, SizingConstants
    <3>3. QED
      BY <3>1, <3>2
  <2>3. QED
    BY <1>1, <1>2, <1>3, <2>1, <2>2 DEF PassInv, TariffInv
<1>6. BooksInv'
  BY <1>1, <1>3 DEF SizingInv, BooksInv
<1>7. NewestInv'
  <2> SUFFICES ASSUME newest # NoTrade
               PROVE  newest.start - tariff'.last[newest.schedule] < CacheTicks
    BY <1>1 DEF SizingInv, NewestInv
  <2>1. PICK t \in Tariffs, n \in Nat :
          t = newest.schedule /\ n = newest.start /\ n - tariff.last[t] < CacheTicks
    BY DEF SizingInv, NewestInv
  <2>2. n - tariff'.last[t] < CacheTicks
    BY <1>3, <2>1, SizingConstants
  <2>3. QED
    BY <2>1, <2>2
<1>8. QED
  BY <1>3, <1>4, <1>5, <1>6, <1>7 DEF SizingInv

\* What the fee book answers at a time of the pass: the row it stores was
\* published when it was observed or later, and the schedule it gives out was
\* published within a day, or is a refusal.
LEMMA FeeAnswered ==
  ASSUME SizingInv, NEW at \in Nat, at <= tick, NEW reply,
         reply = Answered(at) \/ reply = Unanswered(at), seriesFee' = reply.row, tariff' = tariff
  PROVE  /\ FeeInv'
         /\ reply.schedule \in Charging
         /\ reply.schedule.type \in Quadratic =>
              reply.schedule \in Tariffs /\ at - tariff.last[reply.schedule] < CacheTicks
<1>1. /\ tick \in Nat /\ tariff.current \in Tariffs /\ tariff.last[tariff.current] = tick
      /\ tariff.last \in [Tariffs -> Int]
  BY DEF SizingInv, TariffInv
<1>2. NoFee \in Charging /\ NoFee.type \notin Quadratic /\ NoFee = [NoSchedule EXCEPT !.type = Refused]
  BY DEF NoFee, NoSchedule, Charging, Quadratic, Refused
<1>3. ASSUME NEW t \in Tariffs
      PROVE  /\ t = [type |-> t.type, multiplier |-> t.multiplier]
             /\ t.type \in STRING /\ t.multiplier \in Nat
             /\ Supported(t) = t \/ Supported(t) = NoFee
             /\ Supported(t) = t => Supported(t) \in Charging
  <2>1. t \in [type : STRING, multiplier : Nat]
    BY SizingConstants
  <2>2. QED
    BY <1>2, <2>1 DEF Supported, Charging, Quadratic
<1>4. CASE reply = Answered(at)
  <2>1. PICK t \in Tariffs : t = tariff.current
    BY <1>1
  <2>2. seriesFee' = [type |-> t.type, multiplier |-> t.multiplier, observed |-> at, failing |-> FALSE]
        /\ reply.schedule = Supported(t)
    BY <1>4, <2>1 DEF Answered, Seen
  <2>3. StoredSchedule' = t
    BY <1>3, <2>2 DEF StoredSchedule
  <2>4. FeeInv'
    <3>1. seriesFee' \in [type : STRING, multiplier : Nat, observed : Int, failing : BOOLEAN]
          /\ seriesFee'.observed = at
      BY <1>3, <2>2
    <3>2. QED
      BY <1>1, <2>1, <2>3, <3>1 DEF FeeInv
  <2>5. CASE Supported(t) = NoFee
    BY <1>2, <2>2, <2>4, <2>5
  <2>6. CASE Supported(t) = t
    <3>1. reply.schedule = t /\ t \in Charging
      BY <1>3, <2>2, <2>6
    <3>2. at - tariff.last[t] < CacheTicks
      BY <1>1, <2>1, SizingConstants
    <3>3. QED
      BY <2>4, <3>1, <3>2
  <2>7. QED
    BY <1>3, <2>5, <2>6
<1>5. CASE reply = Unanswered(at) /\ seriesFee = NoSchedule
  <2>1. seriesFee' = seriesFee /\ reply.schedule = NoFee
    BY <1>2, <1>5 DEF Unanswered, Known
  <2>2. QED
    BY <1>2, <1>5, <2>1 DEF FeeInv
<1>6. CASE reply = Unanswered(at) /\ seriesFee # NoSchedule
  <2>1. /\ seriesFee \in [type : STRING, multiplier : Nat, observed : Int, failing : BOOLEAN]
        /\ StoredSchedule \in Tariffs /\ seriesFee.observed <= tariff.last[StoredSchedule]
    BY <1>6 DEF SizingInv, FeeInv
  <2>2. PICK t \in Tariffs : t = StoredSchedule /\ t = [type |-> seriesFee.type, multiplier |-> seriesFee.multiplier]
    BY <2>1 DEF StoredSchedule
  <2>3. /\ seriesFee' = [seriesFee EXCEPT !.failing = TRUE]
        /\ reply.schedule = IF at - seriesFee.observed >= CacheTicks THEN NoFee ELSE Supported(t)
    BY <1>2, <1>6, <2>2 DEF Unanswered, Known, MarkFailed
  <2>4. FeeInv'
    <3>1. /\ seriesFee' \in [type : STRING, multiplier : Nat, observed : Int, failing : BOOLEAN]
          /\ seriesFee'.type = seriesFee.type /\ seriesFee'.multiplier = seriesFee.multiplier
          /\ seriesFee'.observed = seriesFee.observed
      BY <2>1, <2>3
    <3>2. StoredSchedule' = StoredSchedule
      BY <3>1 DEF StoredSchedule
    <3>3. QED
      BY <2>1, <3>1, <3>2 DEF FeeInv
  <2>5. CASE reply.schedule = NoFee
    BY <1>2, <2>4, <2>5
  <2>6. CASE reply.schedule # NoFee
    <3>1. reply.schedule = Supported(t) /\ at - seriesFee.observed < CacheTicks
      BY <2>1, <2>3, <2>6, SizingConstants
    <3>2. reply.schedule = t /\ t \in Charging
      BY <1>3, <2>6, <3>1
    <3>3. at - tariff.last[t] < CacheTicks
      BY <1>1, <2>1, <2>2, <3>1, SizingConstants
    <3>4. QED
      BY <2>4, <3>2, <3>3
  <2>7. QED
    BY <2>5, <2>6
<1>7. QED
  BY <1>4, <1>5, <1>6

\* The pass asks the fee book.
LEMMA LookUpKept ==
  ASSUME SizingInv, LookUpFee \/ SweepFees
  PROVE  SizingInv'
<1>1. UNCHANGED <<tick, tariff, account, positions, opportunities, newest>>
  BY DEF LookUpFee, SweepFees
<1>2. pass \in PassState /\ pass.start \in Nat /\ pass.start <= tick /\ tick \in Nat
  BY DEF SizingInv, PassInv, TariffInv, PassState
<1>3. CASE LookUpFee
  <2>1. PICK reply \in {Answered(pass.start), Unanswered(pass.start)} :
          seriesFee' = reply.row /\ pass' = [pass EXCEPT !.schedule = reply.schedule]
    BY <1>3 DEF LookUpFee
  <2>2. PICK at \in Nat : at = pass.start /\ at <= tick
    BY <1>2
  <2>3. reply = Answered(at) \/ reply = Unanswered(at)
    BY <2>1, <2>2
  <2>4. /\ FeeInv' /\ reply.schedule \in Charging
        /\ reply.schedule.type \in Quadratic =>
             reply.schedule \in Tariffs /\ at - tariff.last[reply.schedule] < CacheTicks
    BY <1>1, <2>1, <2>2, <2>3, FeeAnswered
  <2>5. PICK c \in Charging : c = reply.schedule
    BY <2>4
  <2>6. pass' \in PassState /\ pass'.schedule = c /\ pass'.start = pass.start
    BY <1>2, <2>1, <2>5 DEF PassState
  <2>7. PassInv'
    BY <1>1, <1>2, <2>2, <2>4, <2>5, <2>6 DEF PassInv
  <2>8. QED
    BY <1>1, <2>4, <2>7 DEF SizingInv, TariffInv, BooksInv, NewestInv
<1>4. CASE SweepFees
  <2>1. PICK reply \in {Answered(tick), Unanswered(tick)} : seriesFee' = reply.row
    BY <1>4 DEF SweepFees
  <2>2. FeeInv'
    <3>1. PICK at \in Nat : at = tick /\ at <= tick
      BY <1>2
    <3>2. reply = Answered(at) \/ reply = Unanswered(at)
      BY <2>1, <3>1
    <3>3. QED
      BY <1>1, <2>1, <3>1, <3>2, FeeAnswered
  <2>3. pass' \in PassState /\ pass'.schedule = pass.schedule /\ pass'.start = pass.start
    BY <1>2, <1>4 DEF SweepFees, PassState
  <2>4. PassInv'
    BY <1>1, <2>3 DEF SizingInv, PassInv
  <2>5. QED
    BY <1>1, <2>2, <2>4 DEF SizingInv, TariffInv, BooksInv, NewestInv
<1>5. QED
  BY <1>3, <1>4

\* A trade that is placed is charged what the pass resolved, by a schedule of a
\* kind the formula models, and the whole of it is worth more than its fee.
LEMMA PlaceKept ==
  ASSUME SizingInv, PlacePaper
  PROVE  SizingInv'
<1> DEFINE o == Head(pass.queue)
           quantity == SizedQuantity(o, Equity, Miscalibration)
<1>1. /\ pass \in PassState /\ pass.queue \in Seq(Valued) /\ pass.queue # <<>>
      /\ pass.start \in Nat /\ pass.schedule # NoSchedule
  BY DEF SizingInv, PassInv, PassState, PlacePaper, Resolved
<1>2. o \in Valued
  BY <1>1, HeadTailProperties
<1>3. UNCHANGED <<tick, tariff, seriesFee, account, opportunities>>
      /\ pass' = [pass EXCEPT !.queue = Tail(@)]
  BY DEF PlacePaper
<1>pass. PassInv'
  <2>1. Tail(pass.queue) \in Seq(Valued)
    BY <1>1, HeadTailProperties
  <2>2. PICK queue \in Seq(Valued) : queue = Tail(pass.queue)
    BY <2>1
  <2>3. pass' = [pass EXCEPT !.queue = queue]
    BY <1>1, <1>3, <2>2
  <2>4. pass' \in PassState /\ pass'.start = pass.start /\ pass'.schedule = pass.schedule
    <3>1. pass \in PassState
      BY <1>1
    <3>2. QED
      BY <2>3, <3>1 DEF PassState
  <2>5. QED
    BY <1>3, <2>4 DEF SizingInv, PassInv
<1>4. Equity \in Int
  BY DEF Equity, SizingInv, BooksInv
<1>5. Tradeable(o)
  BY DEF PlacePaper
<1>6. PICK q \in Nat : q = quantity /\ q > 0
  <2>1. quantity > 0
    BY <1>5 DEF Tradeable, RiskApproves
  <2>2. quantity \in Int
    <3> HIDE DEF o
    <3>1. QED
      BY <1>2, <1>4, QuantityTyped
  <2>3. QED
    BY <2>1, <2>2
<1>7. PICK t \in Tariffs : /\ t = pass.schedule /\ t.type \in Quadratic /\ t.multiplier \in Nat
                           /\ pass.start - tariff.last[t] < CacheTicks
  <2>1. pass.schedule # NoFee
    BY <1>5 DEF Tradeable, NoFee, NoSchedule
  <2>2. PICK t \in Tariffs : t = pass.schedule /\ t.type \in Quadratic
    BY <1>1, <2>1 DEF PassState, Charging
  <2>3. t.multiplier \in Nat
    BY SizingConstants
  <2>4. QED
    BY <2>2, <2>3 DEF SizingInv, PassInv
<1>8. PICK m \in Nat : m = pass.schedule.multiplier
  BY <1>7
<1> HIDE DEF o
<1>9. /\ o.snapshot \in Snapshots /\ o.p \in 0..1000 /\ o.side \in Sides /\ o.price \in 0..100
      /\ o.price = FillPrice(o.side, o.snapshot) /\ o.ev = NetEv(o.side, o.snapshot, o.p)
  BY <1>2 DEF Valued
<1> PICK price \in 0..100 : price = o.price
  BY <1>9
<1> PICK b \in 0..1000 : b = Belief(o.side, o.p)
  <2>1. PICK p \in 0..1000 : p = o.p
    BY <1>9
  <2>2. Belief(o.side, p) \in 0..1000
    BY DEF Belief
  <2>3. QED
    BY <2>1, <2>2, ZenonT(30)
<1>10. PICK f \in Nat, g \in Nat :
         /\ f = ScheduledFee(1, price, m) /\ g = ScheduledFee(1, price, 1)
         /\ o.ev = b - 10 * price - 10 * g
  <2>1. price \in Int
    OBVIOUS
  <2>2. ScheduledFee(1, price, m) \in Nat /\ ScheduledFee(1, price, 1) \in Nat
    <3>1. \A n \in Nat : ScheduledFee(1, price, n) \in Nat
      BY <2>1, FeeOfOne, ZenonT(30)
    <3>2. 1 \in Nat
      OBVIOUS
    <3>3. QED
      BY <3>1, <3>2, ZenonT(30)
  <2>3. o.ev = b - 10 * price - 10 * ScheduledFee(1, price, 1)
    BY <1>9 DEF NetEv, Edge
  <2>4. QED
    BY <2>2, <2>3
<1>11. b - 10 * price - 10 * f > 0
  <2>1. AfterFee(o) > 0
    BY <1>5 DEF Tradeable
  <2>2. CASE m = 1
    BY <1>8, <1>10, <2>1, <2>2 DEF AfterFee
  <2>3. CASE m # 1
    <3>1. AfterFee(o) = o.ev - 10 * (f - g)
      BY <1>8, <1>10, <2>3 DEF AfterFee
    <3>2. QED
      BY <1>10, <2>1, <3>1
  <2>4. QED
    BY <2>2, <2>3
<1>12. price \in 0..99
  BY <1>11
<1>13. PICK fee \in Nat : fee = ScheduledFee(q, price, m) /\ q * (b - 10 * price) > 10 * fee
  <2>1. PICK edge \in Int : edge = b - 10 * price
    OBVIOUS
  <2>2. edge - 10 * ScheduledFee(1, price, m) > 0 /\ price \in Int
    BY <1>10, <1>11, <2>1
  <2>3. ScheduledFee(q, price, m) \in Nat
    BY <1>6, FeeOfTheWhole
  <2>4. q * edge > 10 * ScheduledFee(q, price, m)
    BY <1>6, <2>2, WholeTradePays
  <2>5. QED
    BY <2>1, <2>3, <2>4
<1>14. /\ positions' = [positions EXCEPT ![o.contract] =
                          [quantity |-> q, price |-> price, fee |-> fee, day |-> Today]]
       /\ newest' = [placed |-> newest.placed + 1, start |-> pass.start, schedule |-> pass.schedule,
                     quantity |-> q, price |-> price, fee |-> fee, belief |-> b, equity |-> Equity]
  BY <1>6, <1>8, <1>13 DEF PlacePaper, o
<1>16. BooksInv'
  <2>1. Today \in 0..(LastTick \div DayTicks)
    <3>1. tick \in Nat /\ tick <= LastTick
      BY DEF SizingInv, TariffInv, BooksInv
    <3>2. QED
      BY <3>1, SizingConstants DEF Today
  <2>2. PICK day \in 0..(LastTick \div DayTicks) : day = Today
    BY <2>1
  <2>3. o.contract \in Contracts
    BY <1>2 DEF Valued
  <2>4. positions' \in [Contracts -> [quantity : Nat, price : 0..99, fee : Nat,
                                      day : 0..(LastTick \div DayTicks)]]
    BY <1>12, <1>14, <2>2, <2>3 DEF SizingInv, BooksInv
  <2>5. QED
    BY <1>3, <2>4 DEF SizingInv, BooksInv
<1>17. NewestInv'
  <2>1. /\ newest'.schedule = t /\ newest'.start = pass.start /\ newest'.quantity = q
        /\ newest'.price = price /\ newest'.fee = fee /\ newest'.belief = b
    BY <1>7, <1>14
  <2>2. QED
    BY <1>1, <1>3, <1>7, <1>13, <2>1 DEF NewestInv
<1>18. QED
  BY <1>3, <1>pass, <1>16, <1>17 DEF SizingInv, TariffInv, FeeInv, StoredSchedule

\* The inductive invariant of sizing.
THEOREM SizingInvariant == SizingSpec => []SizingInv
<1>1. SizingInv /\ [SizingNext]_sizingVars => SizingInv'
  BY PassKept, SettleKept, TariffKept, LookUpKept, PlaceKept DEF SizingNext
<1>2. QED
  BY SizingStart, <1>1, PTL DEF SizingSpec

\* "A fee we cannot vouch for is a refusal": every trade is charged by a
\* schedule of a modelled kind, published within a day of its cycle, and is
\* worth more than it costs, its fee rounded up; for any contracts, snapshots,
\* estimates and tariffs.
THEOREM SizingTradesPay == SizingSpec => []TradesPayTheirFee
<1>1. SizingInv => TradesPayTheirFee
  BY DEF SizingInv, NewestInv, TradesPayTheirFee, Quadratic
<1>2. QED
  BY SizingInvariant, <1>1, PTL

\* The opportunity table holds a status of each contract, and the trades placed
\* stay within their bound.
RecordsInv ==
  /\ opportunities \in [Contracts -> {"none"} \cup Statuses]
  /\ newest.placed \in 0..MaxPlaced

\* The rows a pass has scored are of its contracts, so the upsert keeps it.
LEMMA RecordsKept ==
  ASSUME SizingInv, RecordsInv, [SizingNext]_sizingVars
  PROVE  RecordsInv'
<1>1. /\ pass.rows \in SUBSET (Contracts \X Statuses)
      /\ opportunities \in [Contracts -> {"none"} \cup Statuses] /\ newest.placed \in 0..MaxPlaced
  BY DEF SizingInv, PassInv, PassState, RecordsInv
<1>2. CASE FlushOpportunities
  <2>1. ASSUME NEW k \in Contracts
        PROVE  (IF \E entry \in pass.rows : entry[1] = k
                THEN (CHOOSE entry \in pass.rows : entry[1] = k)[2] ELSE opportunities[k])
                 \in {"none"} \cup Statuses
    <3>1. CASE \E entry \in pass.rows : entry[1] = k
      <4>1. PICK scored : scored = CHOOSE entry \in pass.rows : entry[1] = k
        OBVIOUS
      <4>2. scored \in pass.rows
        BY <3>1, <4>1
      <4>3. scored[2] \in Statuses
        BY <1>1, <4>2
      <4>4. QED
        BY <3>1, <4>1, <4>3
    <3>2. CASE ~\E entry \in pass.rows : entry[1] = k
      BY <1>1, <3>2
    <3>3. QED
      BY <3>1, <3>2
  <2>2. opportunities' \in [Contracts -> {"none"} \cup Statuses]
    BY <1>2, <2>1 DEF FlushOpportunities
  <2>3. newest' = newest
    BY <1>2 DEF FlushOpportunities
  <2>4. QED
    BY <1>1, <2>2, <2>3 DEF RecordsInv
<1>3. CASE PlacePaper
  <2>1. newest.placed < MaxPlaced /\ newest'.placed = newest.placed + 1
        /\ opportunities' = opportunities
    BY <1>3 DEF PlacePaper
  <2>2. newest'.placed \in 0..MaxPlaced
    BY <1>1, <2>1, SizingConstants
  <2>3. QED
    BY <1>1, <2>1, <2>2 DEF RecordsInv
<1>4. CASE PassBegins \/ SettlePosition \/ ScoringBegins \/ ScoreContract \/ TradingBegins \/ LookUpFee \/ SweepFees
           \/ SkipOpportunity \/ PassEnds \/ TariffChanges \/ SizingTick \/ UNCHANGED sizingVars
  <2>1. UNCHANGED <<opportunities, newest>>
    BY <1>4 DEF PassBegins, SettlePosition, ScoringBegins, ScoreContract, TradingBegins, LookUpFee, SweepFees,
                SkipOpportunity, PassEnds, TariffChanges, SizingTick, sizingVars
  <2>2. QED
    BY <1>1, <2>1 DEF RecordsInv
<1>5. QED
  BY <1>2, <1>3, <1>4 DEF SizingNext

\* Every variable of sizing holds a value of its domain; in particular the
\* high-water mark is never below the bankroll, and a position's price is one
\* its fee can be computed at.
THEOREM SizingTypes == SizingSpec => []SizingTypeOK
<1>1. SizingInit => RecordsInv
  BY SizingConstants DEF SizingInit, RecordsInv, NoTrade
<1>2. SizingInv /\ RecordsInv /\ [SizingNext]_sizingVars => RecordsInv'
  BY RecordsKept
<1>3. SizingInv /\ RecordsInv => SizingTypeOK
  BY SizingConstants DEF SizingInv, TariffInv, PassInv, PassState, BooksInv, RecordsInv, Statuses,
                         SizingTypeOK
<1>4. QED
  BY SizingInvariant, <1>1, <1>2, <1>3, PTL DEF SizingSpec

-----------------------------------------------------------------------------
(***************************************************************************)
(* The services together: each of them runs as it does alone.              *)
(***************************************************************************)

\* A behaviour of the services is one of each of its parts.
LEMMA EachAlone ==
  ServicesSpec => /\ SessionSpec /\ MarketsSpec /\ StorageSpec /\ ReportsSpec
                  /\ WeatherSpec /\ SizingSpec
<1>1. ServicesInit => /\ SessionInit /\ MarketsInit /\ StorageInit /\ ReportsInit
                      /\ WeatherInit /\ SizingInit
  BY DEF ServicesInit
<1>2. [ServicesNext]_servicesVars =>
        /\ [SessionNext]_sessionVars /\ [MarketsNext]_marketsVars /\ [StorageNext]_storageVars
        /\ [ReportsNext]_reportsVars /\ [WeatherNext]_weatherVars /\ [SizingNext]_sizingVars
  BY DEF ServicesNext, servicesVars
<1>3. QED
  BY <1>1, <1>2, PTL DEF ServicesSpec, SessionSpec, MarketsSpec, StorageSpec, ReportsSpec,
                        WeatherSpec, SizingSpec

\* The types, and what the runs of the services check of each part, for all
\* values of their constants (each part's own theorems, side by side).
THEOREM ServicesKeepTheirPromises ==
  ServicesSpec => /\ [](/\ ServicesTypeOK
                        /\ SlotsRunOnce /\ StoredAsPublished /\ QuietStaysScorable
                        /\ GreenBoundsLive
                        /\ SilenceMeansTold /\ EscalatedOnceAfterDays
                        /\ PricedOnMeasuredError /\ TradesPayTheirFee)
                  /\ NoSilentHandOff /\ CutOnlyWhileHigh
<1>1. SessionTypeOK /\ MarketsTypeOK /\ StorageTypeOK /\ ReportsTypeOK /\ WeatherTypeOK
        /\ SizingTypeOK => ServicesTypeOK
  BY DEF ServicesTypeOK
<1>2. QED
  BY <1>1, EachAlone, SessionTypes, MarketsTypes, StorageTypes, ReportsTypes, WeatherTypes,
     SizingTypes, SessionRunsOnce, SyncStoresPublished, QuietMarketsScorable,
     StorageGreenBoundsLive, StorageCutsWhileHigh, MilestonesNotPassedOver,
     OutagesEscalatedOnce, WeatherPricedOnMeasuredError, SizingTradesPay,
     SessionNeverSilent, PTL

\* What a shadow order is planned from is an offer of the instance.
OfferTyped == offer \in [side : {"yes", "no"}, quote : Quotes, belief : Beliefs, edge : Edges]

\* "Never chase past the edge": every plan of a shadow order keeps the approved
\* edge at each of its prices, never crosses to the taker's, and climbs, for any
\* beliefs, required edges, steps and timeouts.
THEOREM PlansKeepEdge == ServicesSpec => []PlanKeepsEdge
<1>1. ServicesInit => OfferTyped
  BY DEF ServicesInit, OfferTyped
<1>2. OfferTyped /\ [ServicesNext]_servicesVars => OfferTyped'
  BY DEF OfferTyped, ServicesNext, servicesVars
<1>3. ASSUME OfferTyped PROVE PlanKeepsEdge
  <2> DEFINE plan == ShadowPlan(offer.side, offer.quote[1], offer.quote[2],
                                TakerPrice(offer), offer.belief, offer.edge)
  <2>1. /\ offer.side \in {"yes", "no"} /\ offer.belief \in Int /\ offer.edge \in Int
        /\ offer.quote \in Quotes
    BY <1>3, OffersAssumption DEF OfferTyped
  <2>2. offer.quote[1] \in Int /\ offer.quote[2] \in Int
    BY <2>1 DEF Quotes
  <2>3. TakerPrice(offer) \in Int
    BY <2>2 DEF TakerPrice
  <2>4. ASSUME NEW i \in DOMAIN plan
        PROVE  /\ IF offer.side = "yes" THEN 10 * plan[i] + offer.edge <= offer.belief
                  ELSE 10 * plan[i] + offer.edge <= 1000 - offer.belief
               /\ plan[i] < TakerPrice(offer)
               /\ i > 1 => plan[i] > plan[i - 1]
    <3> PICK p : p = plan
      OBVIOUS
    <3> HIDE DEF plan
    <3>1. p = ShadowPlan(offer.side, offer.quote[1], offer.quote[2],
                         TakerPrice(offer), offer.belief, offer.edge) /\ i \in DOMAIN p
      BY DEF plan
    <3>2. QED
      BY <2>1, <2>2, <2>3, <3>1, LadderKeepsEdge
  <2>5. QED
    BY <2>4 DEF PlanKeepsEdge
<1>4. QED
  BY <1>1, <1>2, <1>3, PTL DEF ServicesSpec
=============================================================================
