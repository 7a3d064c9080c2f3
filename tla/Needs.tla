--------------------------------- MODULE Needs ---------------------------------
(***************************************************************************)
(* packages/life-engine/src/needs.ts: three pressures, 0 .. 100 points,    *)
(* that grow with world time from an anchor.  World time is in minutes and *)
(* a point is `Unit` integer steps, fine enough for every rate of the      *)
(* policy to be a whole number of steps a minute; the code rounds to a     *)
(* millionth of a point.  World and status are RUNNING throughout.         *)
(***************************************************************************)
EXTENDS Integers, FiniteSetsExt

NeedNames == {"hunger", "rest", "social"}

Unit == 120000
Points(n) == n * Unit
Levels == 0 .. Points(100)

\* NEED_POLICY_V1.ratesPerWorldHour in hundredths of a point
HourlyRate(need, activity) ==
  CASE need = "hunger" /\ activity = "AWAKE"   -> 100
    [] need = "hunger" /\ activity = "RESTING" -> 15
    [] need = "rest" /\ activity = "AWAKE"     -> 320
    [] need = "rest" /\ activity = "RESTING"   -> -1200
    [] need = "social"                         -> 120

\* ratePerWorldHour, in steps a minute; pace is the resident's own multiplier,
\* stableVariation times profileMultiplier, in percent
Rate(need, activity, pace) == (HourlyRate(need, activity) \div 5) * pace[need]

\* clampPressure
Clamp(v) == Max({0, Min({Points(100), v})})

(***************************************************************************)
(* evaluateNeeds: the levels at `now` of a resident who has been in one    *)
(* activity since the anchor was set.  A `now` before the anchor counts as *)
(* the anchor's own time.                                                  *)
(***************************************************************************)
EvaluateNeeds(pace, anchor, activity, now) ==
  [n \in NeedNames |->
     Clamp(anchor.level[n] + Rate(n, activity, pace) * Max({0, now - anchor.at}))]

\* applySleepCompletionToNeedAnchor: awake until the sleep began, resting since
AfterSleep(pace, anchor, started, completed) ==
  LET dozing == [at |-> started,
                 level |-> EvaluateNeeds(pace, anchor, "AWAKE", started)]
  IN [at |-> completed, level |-> EvaluateNeeds(pace, dozing, "RESTING", completed)]

\* HUNGER_PRESSURE_RELIEF per unit of food and SOCIAL_PRESSURE_RELIEF
Relief == [hunger |-> Points(55), social |-> Points(35)]

\* applyCompletedNeedEffectToNeedAnchor, for `quantity` reliefs of one need
AfterEffect(pace, anchor, need, quantity, completed) ==
  LET level == EvaluateNeeds(pace, anchor, "AWAKE", completed)
  IN [at |-> completed,
      level |-> [level EXCEPT ![need] = Clamp(@ - quantity * Relief[need])]]
=============================================================================
