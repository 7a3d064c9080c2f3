------------------------------- MODULE WorldClock -------------------------------
(***************************************************************************)
(* world-clock.ts: how the `worlds` row turns wall-clock time into world   *)
(* time.  WorldKernel leaves the new time of UpdateClock open; these are   *)
(* the values it can take.  A clock is a record [time, anchor, status,     *)
(* scale]: world_time, clock_anchor_at (the wall-clock time up to which    *)
(* world time has been credited), status, time_scale.  Times are           *)
(* milliseconds; each caller brings its own reading `now` of the wall      *)
(* clock, which may lie behind that of an earlier caller.                  *)
(***************************************************************************)
EXTENDS Integers

Scales == {1, 10, 100}

Clocks == [time : Int, anchor : Int, status : {"RUNNING", "PAUSED", "MAINTENANCE"},
           scale : Scales]

EffectiveScale(c, production) == IF production THEN 1 ELSE c.scale
EffectiveNow(c, now)          == IF now > c.anchor THEN now ELSE c.anchor

\* advanceWorldClock: the anchor moves in every status, the time in a RUNNING world
AdvanceWorldClock(c, now, production) ==
  LET elapsed == EffectiveNow(c, now) - c.anchor  scale == EffectiveScale(c, production) IN
  [time |-> IF c.status = "RUNNING" THEN c.time + elapsed * scale ELSE c.time,
   anchor |-> EffectiveNow(c, now), status |-> c.status, scale |-> scale]

\* applyWorldClockControl outside production, where it throws; a field of the
\* control that is not set keeps the value of the synchronized clock
ApplyWorldClockControl(c, nextStatus, nextScale, now) ==
  LET synchronized == AdvanceWorldClock(c, now, FALSE) IN
  [time |-> synchronized.time, anchor |-> synchronized.anchor,
   status |-> nextStatus, scale |-> nextScale]

\* the state advanceWorldTimeTo commits: the anchor stays where it was
AdvancedTo(c, target) == 
  [time |-> target, anchor |-> c.anchor, status |-> c.status, scale |-> c.scale]
=============================================================================
