---------------------------- MODULE MCWorldKernel ----------------------------
(***************************************************************************)
(* Instances of WorldKernel for TLC.  One unit of model time stands for    *)
(* the longest stretch in which nothing of interest can happen; what       *)
(* matters is that durations differ, that an activity can outlast a shift  *)
(* boundary and that time can stop between start and completion.           *)
(***************************************************************************)
EXTENDS WorldKernel

CONSTANTS ana, ben, cai, home, cafe

MCRequest(id, key, actor, type, arg, quantity, version, at) ==
  [id |-> id, key |-> key, actor |-> actor, type |-> type, arg |-> arg,
   quantity |-> quantity, version |-> version, at |-> at]

Plain(id, actor, type, arg) == MCRequest(id, id, actor, type, arg, 1, None, 0)

MCHome      == [x \in Residents |-> home]
MCHomes     == {home}
MCEatSites  == {home, cafe}
MCWorkSites == {cafe}
MCTravel    == [from \in Locations |-> [to \in Locations |-> 1]]
MCFood      == [x \in Residents |-> 3]

Nobody      == [x \in Residents |-> None]
OnlyAna     == [x \in Residents |-> IF x = ana THEN cafe ELSE None]

\* two talks over one participant, who may also have fallen asleep meanwhile
TalkRequests ==
  { Plain("t1", ana, "TALK", ben), Plain("t2", cai, "TALK", ben),
    Plain("s1", ben, "SLEEP", None) }

\* two meals larger together than the stock, and the key of the first and the
\* id of the second used again with other content
MealRequests ==
  { MCRequest("e1", "e1", ana, "EAT", ana, 2, None, 0),
    MCRequest("e2", "e2", ana, "EAT", ana, 2, None, 0),
    MCRequest("e3", "e1", ana, "EAT", ana, 1, None, 0),
    MCRequest("e2", "m1", ana, "MOVE", cafe, 1, None, 0) }

MCShifts == {1, 4, 7}

-----------------------------------------------------------------------------
(* The pure operators of calendar and clock on two weeks and three callers *)

Calendar == INSTANCE WorkCalendar
Clock    == INSTANCE WorldClock

\* around midnight, the shift's start and its end, on every day of two weeks
SampleTimes ==
  {d * Calendar!Day + h * Calendar!Hour + ms :
     d \in 1 .. 14, h \in {0, 9, 17}, ms \in {-1, 0, 1}}

Nines == {d * Calendar!Day + 9 * Calendar!Hour : d \in 0 .. 20} \cap Calendar!WeekdayNines

\* both searches find the first weekday nine o'clock after a time
ASSUME CalendarSample ==
  \A t \in SampleTimes :
    LET s == Calendar!NextWorkBoundary(t + 1) IN
    /\ s \in Nines /\ s > t /\ \A u \in Nines : u > t => s <= u
    /\ Calendar!NextWorkShiftStart(t) = s

\* synchronisations compose in any order, and none moves a world that stands still
ASSUME ClockSample ==
  \A c \in [time : {5}, anchor : 0 .. 2, status : {"RUNNING", "PAUSED"}, scale : {1, 10}],
     a, b \in 0 .. 4, production \in BOOLEAN :
    LET once == Clock!AdvanceWorldClock(c, a, production) IN
    /\ Clock!AdvanceWorldClock(once, b, production)
         = Clock!AdvanceWorldClock(c, IF a > b THEN a ELSE b, production)
    /\ c.status = "PAUSED" => once.time = c.time
=============================================================================
