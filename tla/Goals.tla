--------------------------------- MODULE Goals ---------------------------------
(***************************************************************************)
(* packages/life-engine/src/goals.ts: the goals a resident may have now,   *)
(* from its needs, its routine, its work obligation and its context, and   *)
(* the one it pursues.  Midnight is minute 0 of a day; scores are in the   *)
(* steps of Needs.                                                         *)
(***************************************************************************)
EXTENDS Needs

Hour == 60
Day  == 24 * Hour

\* NEED_SCORE_RANGE, ROUTINE_SCORE_RANGE, GOAL_POLICY_V1
NeedScoreRange    == Points(20)
RoutineScoreRange == Points(10)
RoutineWindow     == 120
SwitchMargin      == Points(10)
Activation == [hunger |-> Points(55), rest |-> Points(85), social |-> Points(70)]
Priority   == [context |-> Points(130), obligation |-> Points(100), rest |-> Points(90),
               hunger |-> Points(80), social |-> Points(70), routine |-> Points(45)]
GoalOf     == [hunger |-> "SATISFY_HUNGER", rest |-> "REST", social |-> "MAKE_SOCIAL_CONTACT"]

Goal(type, reason, priority, urgency) ==
  [type |-> type, reason |-> reason, priority |-> priority, score |-> priority + urgency]

\* needUrgency above the activation threshold
Urgency(v, activation) ==
  ((v - activation) * 20) \div (100 - activation \div Unit)

\* the bonus that lets loneliness outbid the other needs
CriticalSocial(needs) ==
  IF needs.social >= Points(90) /\ needs.social >= needs.rest /\ needs.social >= needs.hunger
  THEN NeedScoreRange + Points(10) ELSE 0

\* addNeedCandidates
NeedGoals(needs) ==
  {Goal(GoalOf[n], "NEED_HIGH", Priority[n],
        Urgency(needs[n], Activation[n]) + (IF n = "social" THEN CriticalSocial(needs) ELSE 0)) :
     n \in {m \in NeedNames : needs[m] >= Activation[m]}}

\* minutes since the routine's window last opened, today or yesterday
SinceWindow(now, hour) == (now - hour * Hour) % Day

\* addRoutineCandidates; `routine` gives each need the hour its window opens
RoutineGoals(routine, now) ==
  {Goal(GoalOf[n], "WINDOW", Priority.routine,
        (SinceWindow(now, routine[n]) * RoutineScoreRange) \div RoutineWindow) :
     n \in {m \in NeedNames : SinceWindow(now, routine[m]) < RoutineWindow}}

\* mutant of ObligationGoals: on the way to work only once the shift has begun
ObligationGoals_NoPreparation(obligation, preparation, now) ==
  IF obligation.status = "DUE"
  THEN {Goal("FULFILL_WORK_OBLIGATION", "DUE", Priority.obligation, NeedScoreRange)}
  ELSE {}

(***************************************************************************)
(* addObligationCandidate; `preparation` holds the minute to leave for     *)
(* work, if there is one.                                                  *)
(***************************************************************************)
ObligationGoals(obligation, preparation, now) ==
  CASE obligation.status = "NOT_DUE" ->
         {Goal("FULFILL_WORK_OBLIGATION", "PREPARATION", Priority.obligation, NeedScoreRange) :
            b \in {m \in preparation : m <= now /\ now < obligation.starts}}
    [] obligation.status = "DUE" ->
         {Goal("FULFILL_WORK_OBLIGATION", "DUE", Priority.obligation, NeedScoreRange)}
    [] obligation.status = "LATE" ->
         {Goal("FULFILL_WORK_OBLIGATION", "LATE", Priority.obligation,
               NeedScoreRange + Points(10))}
    [] OTHER -> {}

\* addContextCandidates; `away`: not at home
ContextGoals(context, away) ==
  CASE context = "SOCIAL_OPPORTUNITY" ->
         {Goal("MAKE_SOCIAL_CONTACT", "OPPORTUNITY", Priority.context, 0)}
    [] context = "RETURN_HOME_REQUIRED" /\ away ->
         {Goal("RETURN_HOME", "RETURN_HOME_REQUIRED", Priority.context, NeedScoreRange)}
    [] OTHER -> {}

\* candidateKey starts with the type, and equal scores never have one type
TypeOrder == [FULFILL_WORK_OBLIGATION |-> 1, MAKE_SOCIAL_CONTACT |-> 2, REST |-> 3,
              RETURN_HOME |-> 4, SATISFY_HUNGER |-> 5]

\* compareCandidates
Outranks(g, h) ==
  \/ g.score > h.score
  \/ g.score = h.score /\ g.priority > h.priority
  \/ g.score = h.score /\ g.priority = h.priority /\ TypeOrder[g.type] < TypeOrder[h.type]

\* the first of a sorted candidate list, as a set of at most one
Foremost(goals) == {g \in goals : \A h \in goals \ {g} : Outranks(g, h)}

\* selectGoal; `active` holds the type of the active goal, if there is one
SelectGoal(goals, active) ==
  LET kept == {g \in Foremost({h \in goals : h.type \in active}) :
                 \A b \in Foremost(goals) : g.score + SwitchMargin >= b.score}
  IN IF kept # {} THEN kept ELSE Foremost(goals)

\* evaluateGoals of a world that runs
EvaluateGoals(in) ==
  NeedGoals(in.needs) \cup RoutineGoals(in.routine, in.now)
    \cup ObligationGoals(in.obligation, in.preparation, in.now)
    \cup ContextGoals(in.context, in.away)
=============================================================================
