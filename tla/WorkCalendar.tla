------------------------------ MODULE WorkCalendar ------------------------------
(***************************************************************************)
(* The week of work as three places of the code compute it: getWorkShift   *)
(* for the executor, nextWorkBoundaryWorldTime for the boundary wake and   *)
(* nextWorkShiftStart for the preparation wake.  World time is in          *)
(* milliseconds since the epoch, days are UTC, weekday 0 is Sunday.        *)
(***************************************************************************)
EXTENDS Integers, FiniteSetsExt

Hour == 3600000
Day  == 24 * Hour

\* getUTCDay: day 0 of the epoch was a Thursday
Weekday(t)   == (t \div Day + 4) % 7
Weekend(t)   == Weekday(t) \in {0, 6}
DayStart(t)  == t - (t % Day)

\* getWorkShift
ShiftStart(t) == DayStart(t) + 9 * Hour
ShiftEnd(t)   == DayStart(t) + 17 * Hour
ShiftStatus(t) ==
  IF Weekend(t) \/ t < ShiftStart(t) THEN "NOT_DUE"
  ELSE IF t < ShiftEnd(t) THEN "DUE" ELSE "LATE"

\* the while loops of both searches try one day after the other; at most a weekend
\* and the day before it are passed over
NextWorkBoundary(t) ==
  LET days == {n \in 0 .. 3 : /\ ShiftStart(t) + n * Day >= t
                              /\ ~Weekend(ShiftStart(t) + n * Day)}
  IN ShiftStart(t) + Min(days) * Day

\* nextWorkShiftStart: today's shift if it has not begun, else that of a later day
NextWorkShiftStart(t) ==
  LET days == {n \in 1 .. 3 : ~Weekend(DayStart(t) + n * Day)}
  IN IF t < ShiftStart(t) /\ ~Weekend(t) THEN ShiftStart(t)
     ELSE DayStart(t) + Min(days) * Day + 9 * Hour

\* every weekday at nine
WeekdayNines == {s \in Nat : s % Day = 9 * Hour /\ ~Weekend(s)}
=============================================================================
