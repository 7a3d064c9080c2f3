------------------------- MODULE TimeAndCalendar_proofs -------------------------
(***************************************************************************)
(* Theorems about WorldClock and WorkCalendar: that the clock does what    *)
(* WorldKernel!UpdateClock allows, and that the calendar of the code is the*)
(* one WorldKernel assumes.                                                *)
(***************************************************************************)
EXTENDS WorldClock, WorkCalendar, TLAPS

-----------------------------------------------------------------------------
(* The clock *)

(***************************************************************************)
(* The clock obeys the kernel: no wall-clock reading, however late, and no *)
(* control moves world time back, and none moves a world that was not      *)
(* running, also not the control that starts it again.                     *)
(***************************************************************************)
THEOREM ClockObeysKernel ==
  ASSUME NEW c \in Clocks, NEW now \in Int, NEW production \in BOOLEAN,
         NEW status, NEW scale \in Scales
  PROVE  LET synced == AdvanceWorldClock(c, now, production)
             controlled == ApplyWorldClockControl(c, status, scale, now)
         IN \A d \in {synced, controlled} :
              /\ d.time >= c.time
              /\ c.status # "RUNNING" => d.time = c.time
              /\ d.anchor >= c.anchor /\ d.anchor >= now
<1>1. c.scale \in {1, 10, 100} /\ c.time \in Int /\ c.anchor \in Int
  BY DEF Clocks, Scales
<1>2. EffectiveNow(c, now) \in Int /\ EffectiveNow(c, now) >= c.anchor
        /\ EffectiveNow(c, now) >= now
  BY <1>1 DEF EffectiveNow
<1>3. ASSUME NEW k \in {1, 10, 100}
      PROVE  c.time + (EffectiveNow(c, now) - c.anchor) * k >= c.time
  BY <1>1, <1>2
<1> DEFINE synced == AdvanceWorldClock(c, now, production)
           controlled == ApplyWorldClockControl(c, status, scale, now)
           Obeys(d) == /\ d.time >= c.time
                       /\ c.status # "RUNNING" => d.time = c.time
                       /\ d.anchor >= c.anchor /\ d.anchor >= now
<1>5. ASSUME NEW p \in BOOLEAN
      PROVE  Obeys(AdvanceWorldClock(c, now, p))
  <2>1. EffectiveScale(c, p) \in {1, 10, 100}
    BY <1>1 DEF EffectiveScale
  <2>2. CASE c.status = "RUNNING"
    BY <1>1, <1>2, <1>3, <2>1, <2>2 DEF AdvanceWorldClock
  <2>3. CASE c.status # "RUNNING"
    BY <1>1, <1>2, <2>3 DEF AdvanceWorldClock
  <2> QED
    BY <2>2, <2>3
<1>6. /\ controlled.time = AdvanceWorldClock(c, now, FALSE).time
      /\ controlled.anchor = AdvanceWorldClock(c, now, FALSE).anchor
  BY DEF ApplyWorldClockControl
<1>7. Obeys(controlled)
  BY <1>5, <1>6
<1> QED
  BY <1>5, <1>7

(***************************************************************************)
(* Polling does not matter: two synchronisations are as good as one at the *)
(* later of both readings, in whatever order two callers with different    *)
(* wall clocks come, so every millisecond is credited exactly once.        *)
(***************************************************************************)
THEOREM SyncsCompose ==
  ASSUME NEW c \in Clocks, NEW a \in Int, NEW b \in Int, NEW production \in BOOLEAN
  PROVE  AdvanceWorldClock(AdvanceWorldClock(c, a, production), b, production)
           = AdvanceWorldClock(c, IF a > b THEN a ELSE b, production)
<1> DEFINE k == EffectiveScale(c, production)
<1>1. c.scale \in {1, 10, 100} /\ c.time \in Int /\ c.anchor \in Int
  BY DEF Clocks, Scales
<1>2. CASE k = 1
  BY <1>1, <1>2 DEF AdvanceWorldClock, EffectiveNow, EffectiveScale
<1>3. CASE k = 10
  BY <1>1, <1>3 DEF AdvanceWorldClock, EffectiveNow, EffectiveScale
<1>4. CASE k = 100
  BY <1>1, <1>4 DEF AdvanceWorldClock, EffectiveNow, EffectiveScale
<1> QED
  BY <1>1, <1>2, <1>3, <1>4 DEF EffectiveScale

(***************************************************************************)
(* A pause is not counted: after a pause, a resumption and a later         *)
(* synchronisation a world has lived through the time before the pause and *)
(* the time since the resumption, at its scale, and nothing of the pause.  *)
(***************************************************************************)
THEOREM PauseIsNotCounted ==
  ASSUME NEW c \in Clocks, c.status = "RUNNING",
         NEW a \in Int, NEW b \in Int, NEW d \in Int, c.anchor <= a, a <= b, b <= d
  PROVE  LET paused  == ApplyWorldClockControl(c, "PAUSED", c.scale, a)
             resumed == ApplyWorldClockControl(paused, "RUNNING", c.scale, b)
         IN AdvanceWorldClock(resumed, d, FALSE).time
              = AdvanceWorldClock(c, a, FALSE).time + (d - b) * c.scale
<1> DEFINE paused  == ApplyWorldClockControl(c, "PAUSED", c.scale, a)
           resumed == ApplyWorldClockControl(paused, "RUNNING", c.scale, b)
           earned  == AdvanceWorldClock(c, a, FALSE).time
<1>1. c.scale \in Int /\ c.time \in Int /\ c.anchor \in Int
  BY DEF Clocks, Scales
<1>2. paused = [time |-> earned, anchor |-> a, status |-> "PAUSED", scale |-> c.scale]
  BY <1>1 DEF ApplyWorldClockControl, AdvanceWorldClock, EffectiveNow, EffectiveScale
<1>3. resumed = [time |-> earned, anchor |-> b, status |-> "RUNNING", scale |-> c.scale]
  BY <1>1, <1>2 DEF ApplyWorldClockControl, AdvanceWorldClock, EffectiveNow, EffectiveScale
<1> HIDE DEF earned, resumed
<1>4. AdvanceWorldClock(resumed, d, FALSE).time = earned + (d - b) * c.scale
  BY <1>1, <1>3 DEF AdvanceWorldClock, EffectiveNow, EffectiveScale
<1> QED
  BY <1>4 DEF earned, resumed

(***************************************************************************)
(* Driven time comes on top: advanceWorldTimeTo leaves the anchor behind,  *)
(* so the wall-clock time that passed meanwhile is still credited in full  *)
(* by the next synchronisation, and a world both driven and polled goes    *)
(* faster than its scale.                                                  *)
(***************************************************************************)
THEOREM DrivenTimeComesOnTop ==
  ASSUME NEW c \in Clocks, c.status = "RUNNING", NEW now \in Int,
         NEW production \in BOOLEAN, NEW target \in Int
  PROVE  AdvanceWorldClock(AdvancedTo(c, target), now, production).time
           = AdvanceWorldClock(c, now, production).time + (target - c.time)
<1> DEFINE d == AdvancedTo(c, target)
           elapsed == EffectiveNow(c, now) - c.anchor
           credit == elapsed * EffectiveScale(c, production)
<1>1. c.scale \in Int /\ c.time \in Int /\ c.anchor \in Int
  BY DEF Clocks, Scales
<1>2. d.time = target /\ d.anchor = c.anchor /\ d.status = "RUNNING" /\ d.scale = c.scale
  BY DEF AdvancedTo, Clocks
<1>3. AdvanceWorldClock(d, now, production).time = target + credit
  BY <1>2 DEF AdvanceWorldClock, EffectiveNow, EffectiveScale
<1>4. AdvanceWorldClock(c, now, production).time = c.time + credit
  BY DEF AdvanceWorldClock
<1>5. credit \in Int
  BY <1>1 DEF EffectiveNow, EffectiveScale
<1> HIDE DEF d, credit
<1>6. target + credit = (c.time + credit) + (target - c.time)
  BY <1>1, <1>5
<1> QED
  BY <1>3, <1>4, <1>6 DEF d

-----------------------------------------------------------------------------
(* The calendar *)

\* A time lies so far into its day, and its day starts at a multiple of a day.
LEMMA DayOf ==
  ASSUME NEW t \in Nat
  PROVE  /\ t \div Day \in Nat /\ t % Day \in Nat /\ (t % Day) < Day
         /\ t = (t \div Day) * Day + (t % Day)
         /\ DayStart(t) = (t \div Day) * Day
<1>1. t \div Day \in Nat
  BY SMT DEF Day, Hour
<1>2. t % Day \in Nat /\ (t % Day) < Day
  BY SMT DEF Day, Hour
<1>3. t = (t \div Day) * Day + (t % Day)
  BY SMT DEF Day, Hour
<1>4. DayStart(t) = (t \div Day) * Day
  BY SMT DEF DayStart, Day, Hour
<1> QED
  BY <1>1, <1>2, <1>3, <1>4

\* The same for an hour of a given day.
LEMMA HourOf ==
  ASSUME NEW d \in Nat
  PROVE  LET s == d * Day + 9 * Hour IN
         /\ s \in Nat /\ s % Day = 9 * Hour /\ s \div Day = d
         /\ Weekday(s) = (d + 4) % 7
<1>1. (d * Day + 9 * Hour) \div Day = d
  BY SMT DEF Day, Hour
<1>2. (d * Day + 9 * Hour) % Day = 9 * Hour
  BY SMT DEF Day, Hour
<1>3. d * Day + 9 * Hour \in Nat
  BY SMT DEF Day, Hour
<1> QED
  BY SMT, <1>1, <1>2, <1>3 DEF Weekday

\* d is a Monday, ..., or a Friday
Workday(d) == (d + 4) % 7 \notin {0, 6}

\* No three days in a row are free.
LEMMA WorkdayComes ==
  ASSUME NEW d \in Nat
  PROVE  Workday(d) \/ Workday(d + 1) \/ Workday(d + 2)
BY SMT DEF Workday

\* The shift starts are nine o'clock of the workdays.
LEMMA StartFacts ==
  /\ \A d \in Nat : Workday(d) <=> d * Day + 9 * Hour \in WeekdayNines
  /\ \A s \in WeekdayNines : /\ s \in Nat /\ s \div Day \in Nat /\ Workday(s \div Day)
                           /\ s = (s \div Day) * Day + 9 * Hour
<1>1. ASSUME NEW d \in Nat
      PROVE  Workday(d) <=> d * Day + 9 * Hour \in WeekdayNines
  BY SMT, HourOf DEF WeekdayNines, Weekend, Workday
<1>2. ASSUME NEW s \in WeekdayNines
      PROVE  /\ s \in Nat /\ s \div Day \in Nat /\ Workday(s \div Day)
             /\ s = (s \div Day) * Day + 9 * Hour
  BY SMT, DayOf DEF WeekdayNines, Weekend, Weekday, Workday
<1> QED
  BY <1>1, <1>2

\* s is the first shift start that is not before t
First(s, t) == s \in WeekdayNines /\ s >= t /\ \A u \in WeekdayNines : u >= t => s <= u

\* There is only one.
LEMMA FirstIsUnique ==
  ASSUME NEW t, NEW s, NEW u, First(s, t), First(u, t)
  PROVE  s = u
BY SMT DEF First, WeekdayNines

\* The least of a non-empty set of small numbers is in it.
LEMMA LeastDay ==
  ASSUME NEW days \in SUBSET (0 .. 3), days # {}
  PROVE  Min(days) \in days /\ \A n \in days : Min(days) <= n
<1>1. \E m \in days : \A n \in days : m =< n
  <2>1. CASE 0 \in days
    BY <2>1, SMT
  <2>2. CASE 0 \notin days /\ 1 \in days
    BY <2>2, SMT
  <2>3. CASE 0 \notin days /\ 1 \notin days /\ 2 \in days
    BY <2>3, SMT
  <2>4. CASE 0 \notin days /\ 1 \notin days /\ 2 \notin days
    <3>1. PICK m \in days : TRUE
      OBVIOUS
    <3>2. \A n \in days : n = 3
      BY <2>4, SMT
    <3>3. m = 3 /\ \A n \in days : m =< n
      BY <3>2, SMT
    <3> QED
      BY <3>3
  <2> QED
    BY <2>1, <2>2, <2>3, <2>4
<1> QED
  BY <1>1 DEF Min

(***************************************************************************)
(* The search of the boundary wake finds the first weekday nine o'clock    *)
(* that is not before the time it is given, for every time.                *)
(***************************************************************************)
THEOREM BoundaryIsFirst == \A t \in Nat : First(NextWorkBoundary(t), t)
<1> SUFFICES ASSUME NEW t \in Nat PROVE First(NextWorkBoundary(t), t)
  OBVIOUS
<1> DEFINE d == t \div Day
           start(n) == (d + n) * Day + 9 * Hour
           days == {n \in 0 .. 3 : start(n) >= t /\ Workday(d + n)}
<1>1. d \in Nat /\ d * Day <= t /\ t < (d + 1) * Day /\ DayStart(t) = d * Day
  BY SMT, DayOf DEF Day, Hour
<1>2. ASSUME NEW n \in 0 .. 3
      PROVE  /\ ShiftStart(t) + n * Day = start(n)
             /\ Weekend(start(n)) <=> ~Workday(d + n)
  <2>1. ShiftStart(t) + n * Day = start(n)
    <3> HIDE DEF d
    <3> QED
      BY SMT, <1>1 DEF ShiftStart, Day, Hour
  <2>2. Weekday(start(n)) = (d + n + 4) % 7
    BY SMT, <1>1, HourOf
  <2> QED
    BY <2>1, <2>2 DEF Weekend, Workday
<1>4. Min(days) \in 0 .. 3 /\ Min(days) \in days /\ \A n \in days : Min(days) <= n
  <2>1. \E n \in 1 .. 3 : Workday(d + n)
    BY <1>1, WorkdayComes
  <2>2. \A n \in 1 .. 3 : start(n) >= t
    <3> HIDE DEF d
    <3> QED
      BY <1>1, SMT DEF Day, Hour
  <2>3. days # {}
    BY <2>1, <2>2
  <2> HIDE DEF days
  <2>4. days \in SUBSET (0 .. 3)
    BY DEF days
  <2> QED
    BY <2>3, <2>4, LeastDay
<1>3. NextWorkBoundary(t) = start(Min(days))
  <2>1. days = {n \in 0 .. 3 : /\ ShiftStart(t) + n * Day >= t
                              /\ ~Weekend(ShiftStart(t) + n * Day)}
    BY <1>2
  <2>2. NextWorkBoundary(t) = ShiftStart(t) + Min(days) * Day
    BY <2>1 DEF NextWorkBoundary
  <2> HIDE DEF start
  <2> QED
    BY <2>2, <1>2, <1>4
<1> HIDE DEF d
<1>5. start(Min(days)) >= t /\ start(Min(days)) \in WeekdayNines
  BY <1>1, <1>4, StartFacts
<1>6. ASSUME NEW u \in WeekdayNines, u >= t
      PROVE  start(Min(days)) <= u
  <2> DEFINE e == u \div Day
  <2>1. e \in Nat /\ Workday(e) /\ u = e * Day + 9 * Hour
    BY StartFacts
  <2> HIDE DEF e, days
  <2>2. e >= d
    BY <1>1, <1>6, <2>1, SMT DEF Day, Hour
  <2>3. CASE e > d + 3
    BY <1>1, <1>4, <2>1, <2>3, SMT DEF Day, Hour
  <2>4. CASE e <= d + 3
    <3>1. e - d \in 0 .. 3 /\ d + (e - d) = e
      BY <1>1, <2>1, <2>2, <2>4, SMT
    <3>2. e - d \in days
      BY <1>6, <2>1, <3>1 DEF days
    <3>3. Min(days) <= e - d
      BY <1>4, <3>2
    <3> QED
      BY <1>1, <1>4, <2>1, <3>3, SMT DEF Day, Hour
  <2> QED
    BY <1>1, <2>1, <2>3, <2>4, SMT
<1> QED
  BY <1>3, <1>5, <1>6 DEF First

(***************************************************************************)
(* The search of the preparation wake, written differently, finds the same *)
(* shift as that of the boundary wake, which starts a millisecond later:   *)
(* the shift a resident is sent to walk to is the one it is then woken for.*)
(***************************************************************************)
THEOREM SearchesAgree == \A t \in Nat : NextWorkShiftStart(t) = NextWorkBoundary(t + 1)
<1> SUFFICES ASSUME NEW t \in Nat PROVE NextWorkShiftStart(t) = NextWorkBoundary(t + 1)
  OBVIOUS
<1> DEFINE d == t \div Day
           s == NextWorkShiftStart(t)
           days == {n \in 1 .. 3 : Workday(d + n)}
<1>1. /\ d \in Nat /\ d * Day <= t /\ t < (d + 1) * Day /\ DayStart(t) = d * Day
      /\ ShiftStart(t) = d * Day + 9 * Hour
  BY SMT, DayOf DEF Day, Hour, ShiftStart
<1>2. Weekend(t) <=> ~Workday(d)
  BY DEF Weekend, Weekday, Workday
<1>3. ASSUME NEW u \in WeekdayNines, u >= t + 1
      PROVE  /\ u \div Day \in Nat /\ Workday(u \div Day)
             /\ u = (u \div Day) * Day + 9 * Hour /\ u \div Day >= d
  <2> DEFINE e == u \div Day
  <2>1. e \in Nat /\ Workday(e) /\ u = e * Day + 9 * Hour
    BY StartFacts
  <2> HIDE DEF e, d
  <2>2. e >= d
    BY <1>1, <1>3, <2>1, SMT DEF Day, Hour
  <2> QED
    BY <2>1, <2>2 DEF e
<1>4. First(s, t + 1)
  <2>1. CASE t < ShiftStart(t) /\ Workday(d)
    <3>1. s = d * Day + 9 * Hour
      BY <1>1, <1>2, <2>1 DEF NextWorkShiftStart
    <3>2. s \in WeekdayNines
      BY <1>1, <2>1, <3>1, StartFacts
    <3> HIDE DEF d, s
    <3>3. s >= t + 1
      BY <1>1, <2>1, <3>1, SMT DEF Day, Hour
    <3>4. ASSUME NEW u \in WeekdayNines, u >= t + 1 PROVE s <= u
      <4> DEFINE e == u \div Day
      <4>1. e \in Nat /\ u = e * Day + 9 * Hour /\ e >= d
        BY <1>3, <3>4
      <4> HIDE DEF e
      <4> QED
        BY <1>1, <3>1, <4>1, SMT DEF Day, Hour
    <3> QED
      BY <3>2, <3>3, <3>4 DEF First
  <2>2. CASE ~(t < ShiftStart(t) /\ Workday(d))
    <3>1. Min(days) \in days /\ \A n \in days : Min(days) <= n
      <4>1. days # {}
        BY <1>1, WorkdayComes
      <4>2. days \in SUBSET (0 .. 3)
        OBVIOUS
      <4> HIDE DEF days
      <4> QED
        BY <4>1, <4>2, LeastDay
    <3>2. s = (d + Min(days)) * Day + 9 * Hour
      <4>1. ASSUME NEW n \in 1 .. 3
            PROVE  Weekend(DayStart(t) + n * Day) <=> ~Workday(d + n)
        <5> HIDE DEF d
        <5>1. DayStart(t) + n * Day = (d + n) * Day + 0
          BY <1>1, SMT DEF Day, Hour
        <5>2. ((d + n) * Day + 0) \div Day = d + n
          BY <1>1, SMT DEF Day, Hour
        <5> QED
          BY <5>1, <5>2 DEF Weekend, Weekday, Workday
      <4>2. days = {n \in 1 .. 3 : ~Weekend(DayStart(t) + n * Day)}
        BY <4>1
      <4>3. s = DayStart(t) + Min(days) * Day + 9 * Hour
        BY <1>2, <2>2, <4>2 DEF NextWorkShiftStart
      <4>4. Min(days) \in 1 .. 3
        BY <3>1
      <4> HIDE DEF d, days, s
      <4> QED
        BY <1>1, <4>3, <4>4, SMT DEF Day, Hour
    <3>3. Workday(d + Min(days)) /\ Min(days) \in 1 .. 3
      BY <3>1
    <3>4. s \in WeekdayNines
      BY <1>1, <3>2, <3>3, StartFacts
    <3>5. s >= t + 1
      <4> HIDE DEF d, s, days
      <4> QED
        BY <1>1, <3>2, <3>3, SMT DEF Day, Hour
    <3>6. ASSUME NEW u \in WeekdayNines, u >= t + 1 PROVE s <= u
      <4> DEFINE e == u \div Day
      <4>1. e \in Nat /\ Workday(e) /\ u = e * Day + 9 * Hour /\ e >= d
        BY <1>3, <3>6
      <4> HIDE DEF e, d, s
      <4>2. e # d
        BY <1>1, <2>2, <3>6, <4>1, SMT DEF Day, Hour
      <4>3. CASE e > d + 3
        <5> HIDE DEF days
        <5> QED
          BY <1>1, <3>2, <3>3, <4>1, <4>3, SMT DEF Day, Hour
      <4>4. CASE e <= d + 3
        <5>1. e - d \in 1 .. 3 /\ d + (e - d) = e
          BY <1>1, <4>1, <4>2, <4>4, SMT
        <5>2. e - d \in days
          BY <4>1, <5>1
        <5>3. Min(days) <= e - d
          BY <3>1, <5>2
        <5> HIDE DEF days
        <5> QED
          BY <1>1, <3>2, <3>3, <4>1, <5>3, SMT DEF Day, Hour
      <4> QED
        BY <1>1, <4>1, <4>3, <4>4, SMT
    <3> QED
      BY <3>4, <3>5, <3>6 DEF First
  <2> QED
    BY <2>1, <2>2
<1>5. First(NextWorkBoundary(t + 1), t + 1)
  BY BoundaryIsFirst
<1> QED
  BY <1>4, <1>5, FirstIsUnique

(***************************************************************************)
(* The calendar of the code is the one WorldKernel assumes: after every    *)
(* time there is a first shift start, the one its NextShift chooses, and   *)
(* it is the one for which boundary and preparation wakes are registered.  *)
(***************************************************************************)
THEOREM CalendarHolds ==
  \A t \in Nat :
    LET s == NextWorkBoundary(t + 1) IN
    /\ s \in WeekdayNines /\ s > t /\ \A u \in WeekdayNines : u > t => s <= u
    /\ NextWorkShiftStart(t) = s
<1> SUFFICES ASSUME NEW t \in Nat
             PROVE  LET s == NextWorkBoundary(t + 1) IN
                    /\ s \in WeekdayNines /\ s > t
                    /\ \A u \in WeekdayNines : u > t => s <= u
  BY SearchesAgree
<1>1. First(NextWorkBoundary(t + 1), t + 1)
  BY BoundaryIsFirst
<1>2. \A u \in WeekdayNines : u \in Nat
  BY DEF WeekdayNines
<1> QED
  BY <1>1, <1>2 DEF First

(***************************************************************************)
(* WORK can start at the shift starts and at no other time: getWorkShift   *)
(* says DUE at the very start exactly there.                               *)
(***************************************************************************)
THEOREM ShiftsOpenAtStarts ==
  \A t \in Nat : ShiftStatus(t) = "DUE" /\ ShiftStart(t) = t <=> t \in WeekdayNines
<1> SUFFICES ASSUME NEW t \in Nat
             PROVE  ShiftStatus(t) = "DUE" /\ ShiftStart(t) = t <=> t \in WeekdayNines
  OBVIOUS
<1>1. DayStart(t) \in Nat /\ t = DayStart(t) + (t % Day) /\ t % Day \in Nat
  BY SMT, DayOf DEF Day, Hour
<1>2. ShiftStart(t) = t <=> t % Day = 9 * Hour
  BY SMT, <1>1 DEF ShiftStart, Hour
<1>3. ShiftStart(t) < ShiftEnd(t)
  BY SMT, <1>1 DEF ShiftStart, ShiftEnd, Hour
<1>4. ShiftStart(t) = t => (ShiftStatus(t) = "DUE" <=> ~Weekend(t))
  BY SMT, <1>3 DEF ShiftStatus
<1> QED
  BY <1>2, <1>4 DEF WeekdayNines
=============================================================================
