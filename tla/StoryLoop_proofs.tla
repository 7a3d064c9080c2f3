---------------------------- MODULE StoryLoop_proofs ----------------------------
(***************************************************************************)
(* Theorems about StoryLoop: for every street, calendar, population and    *)
(* need profile, the loop changes the rows of the world by steps of        *)
(* WorldKernel only, so the kernel's theorems hold of its worlds.          *)
(***************************************************************************)
EXTENDS StoryLoop, WorldKernelRecords_proofs

LInv == IInv /\ KeysUnique

-----------------------------------------------------------------------------
(* Steps of the loop *)

\* A submission is a request of the pool, on versions the kernel ranges over.
LEMMA SubmitIsKernelStep ==
  ASSUME TypeOK, NEW x, NEW c, Submit(x, c)
  PROVE  Next
<1> DEFINE r == RequestOf(x, c)
           rv == IF c.type = "EAT" THEN food[x].version ELSE None
<1>1. r \in Requests /\ (Start(r, lease, rv) \/ Refuse(r, lease, rv))
  BY DEF Submit
<1>2. r.actor = x
  BY DEF RequestOf
<1>3. x \in Residents
  BY <1>1, <1>2, RequestAssumption
<1>4. food[x].version \in Nat
  BY <1>3 DEF TypeOK
<1>5. rv \in {None} \cup 0 .. food[r.actor].version
  BY <1>2, <1>4
<1>6. lease \in Fences
  BY HeldFence DEF FenceHolds
<1> HIDE DEF r, rv
<1> QED
  BY <1>1, <1>5, <1>6 DEF Next

\* An acknowledgement deletes the one row with the key of its item, or none.
LEMMA AcknowledgeIsKernelStep ==
  ASSUME KeysUnique, Acknowledge
  PROVE  [Next]_vars
<1> DEFINE k == Head(hand).key
<1>1. wakes' = {w \in wakes : WakeKey(w) # k}
  BY DEF Acknowledge
<1>2. UNCHANGED <<worldTime, status, ledger, lease, requests, outcomes, runtime, food>>
  BY DEF Acknowledge
<1> HIDE DEF k
<1>3. ASSUME NEW w \in wakes, WakeKey(w) = k
      PROVE  Next
  <2>1. wakes' = wakes \ {w}
    BY <1>1, <1>3 DEF KeysUnique, UniqueKeys
  <2> QED
    BY <1>2, <2>1 DEF Next, AcknowledgeWake
<1>4. ASSUME \A w \in wakes : WakeKey(w) # k
      PROVE  UNCHANGED vars
  BY <1>1, <1>2, <1>4 DEF vars
<1> QED
  BY <1>3, <1>4

\* A step of the loop is a step of the kernel or none.
LEMMA StoryStepSimulation ==
  ASSUME TypeOK, KeysUnique, [StoryNext]_storyVars
  PROVE  [Next]_vars
<1>1. lease \in Fences
  BY HeldFence DEF FenceHolds
<1>2. CASE Bootstrap
  BY <1>2 DEF Bootstrap, Next
<1>3. CASE TakeLease
  BY <1>3 DEF TakeLease, Next
<1>4. CASE RunUntilNext
  BY <1>1, <1>4 DEF RunUntilNext, Next
<1>5. CASE CompleteNext
  BY <1>5, CompletionIsKernelStep DEF CompleteNext
<1>6. CASE Acknowledge
  BY <1>6, AcknowledgeIsKernelStep
<1>7. CASE Decide
  <2> DEFINE x == Head(hand).resident
  <2>1. CASE StayIdle(x)
    BY <2>1 DEF StayIdle
  <2>2. CASE \E c \in DraftOf(x) : RefuseAtHorizon(x, c)
    BY <2>2 DEF RefuseAtHorizon
  <2>3. CASE \E c \in DraftOf(x) : Submit(x, c)
    BY <2>3, SubmitIsKernelStep
  <2> QED
    BY <1>7, <2>1, <2>2, <2>3 DEF Decide
<1>8. CASE DeliverStep \/ EndStep \/ Finished \/ UNCHANGED storyVars
  BY <1>8 DEF DeliverStep, EndStep, Finished, storyVars
<1> QED
  BY <1>2, <1>3, <1>4, <1>5, <1>6, <1>7, <1>8 DEF StoryNext

(***************************************************************************)
(* The loop implements the kernel: whatever residents need and decide, the *)
(* gate's process changes the rows of the world only as WorldKernel does,  *)
(* with tokens and versions the kernel's callers may hold.                 *)
(***************************************************************************)
THEOREM StoryRunsTheKernel == StorySpec => Spec
<1>1. StoryInit => Init
  BY DEF StoryInit
<1>2. Init => KeysUnique
  BY DEF Init, KeysUnique, UniqueKeys
<1>3. IInv => TypeOK
  BY DEF IInv
<1>4. LInv /\ [StoryNext]_storyVars => [Next]_vars
  BY <1>3, StoryStepSimulation DEF LInv
<1>5. LInv /\ [Next]_vars => LInv'
  BY NextInv, NextKeys DEF LInv
<1>6. Init => LInv
  BY <1>2, InitInv DEF LInv
<1> QED
  BY <1>1, <1>4, <1>5, <1>6, PTL DEF StorySpec, Spec

(***************************************************************************)
(* In a story no activity is poisoned: what a resident was let start, the  *)
(* driver can complete, however long the story and whatever the street.    *)
(***************************************************************************)
THEOREM StoryActivitiesCompletable == StorySpec => []InProgressCompletable
BY StoryRunsTheKernel, NoPoisonedActivity, PTL

(***************************************************************************)
(* A story is a life of activities: loop, life engine and kernel together  *)
(* implement ActivityLifecycle, which knows nothing of needs, wakes,       *)
(* versions or events.                                                     *)
(***************************************************************************)
THEOREM StoriesImplementLifecycle == StorySpec => LifecycleSpec
BY StoryRunsTheKernel, KernelImplementsLifecycle, PTL

-----------------------------------------------------------------------------
(* What decideReplan of replan-policy.ts promises its callers: every signal,
   every budget, every world time *)

\* directives that try again at once
Immediate == {"RETRY_SAME_REQUEST", "REOBSERVE_NOW", "REPLAN_NOW"}

\* recoveries a budget has paid for
Spent(b) == b.submissions + b.conflicts + b.replans

\* an answer either spends one recovery, or keeps the budget and does not try again
WithinBudget(answer, budget) ==
  /\ answer.budget \in Budgets
  /\ answer.directive \in Immediate => Spent(answer.budget) = Spent(budget) + 1
  /\ answer.directive \notin Immediate => answer.budget = budget

\* The answer to a timeout stays within the budget.
LEMMA TimeoutWithinBudget ==
  ASSUME NEW budget \in Budgets, NEW found
  PROVE  WithinBudget(DecideTimeout(found, budget), budget)
BY DEF WithinBudget, DecideTimeout, Stop, Continue, Answer, Budgets, Immediate, Spent,
       MaxSubmissionAttempts, MaxConflictRecoveries, MaxReplans

\* The answer to any class of failure stays within the budget.
LEMMA ClassWithinBudget ==
  ASSUME NEW budget \in Budgets, NEW signal \in Signals, NEW class,
         NEW alternative \in BOOLEAN, NEW now \in Nat
  PROVE  WithinBudget(DecideClass(class, signal, alternative, budget, now), budget)
BY DEF WithinBudget, DecideClass, Stop, Continue, DeferUntil, Answer, Budgets, Immediate,
       Spent, MaxSubmissionAttempts, MaxConflictRecoveries, MaxReplans

(***************************************************************************)
(* Recoveries are bounded: whatever a submission came back with, and       *)
(* whatever was found after a lost response, an answer that tries again at *)
(* once spends exactly one of the budget's recoveries and every other      *)
(* answer spends none.  A caller that hands its budget on tries again at   *)
(* most MaxSubmissionAttempts + MaxConflictRecoveries + MaxReplans times   *)
(* before it stops, succeeds or defers to a world time.                    *)
(***************************************************************************)
THEOREM RecoveriesAreBounded ==
  ASSUME NEW budget \in Budgets, NEW signal \in Signals,
         NEW alternative \in BOOLEAN, NEW now \in Nat
  PROVE  /\ WithinBudget(DecideReplan(signal, alternative, budget, now), budget)
         /\ Spent(budget) <= MaxSubmissionAttempts + MaxConflictRecoveries + MaxReplans
<1>1. WithinBudget(DecideReplan(signal, alternative, budget, now), budget)
  <2>1. CASE signal.kind # "TIMED_OUT"
    BY <2>1, ClassWithinBudget DEF DecideReplan
  <2>2. CASE signal.kind = "TIMED_OUT" /\ signal.status \in {"NOT_FOUND", "UNAVAILABLE"}
    BY <2>2, TimeoutWithinBudget DEF DecideReplan
  <2>3. CASE signal.kind = "TIMED_OUT" /\ signal.status \notin {"NOT_FOUND", "UNAVAILABLE"}
    BY <2>3, ClassWithinBudget DEF DecideReplan
  <2> QED BY <2>1, <2>2, <2>3
<1>2. Spent(budget) <= MaxSubmissionAttempts + MaxConflictRecoveries + MaxReplans
  BY DEF Spent, Budgets, MaxSubmissionAttempts, MaxConflictRecoveries, MaxReplans
<1> QED BY <1>1, <1>2

(***************************************************************************)
(* Idle residents come back: the answer to NOT_DUE, which the action loop  *)
(* asks for after every decision without a draft, is never a stop and      *)
(* never a time that has already come, as long as the due time lies ahead. *)
(***************************************************************************)
THEOREM NotDueComesBack ==
  ASSUME NEW budget \in Budgets, NEW alternative \in BOOLEAN,
         NEW now \in Nat, NEW due \in Nat, due > now
  PROVE  DecideReplan(NotDueSignal(due), alternative, budget, now) = DeferUntil(budget, due)
<1>1. ClassOf(NotDueSignal(due)) = "TEMPORARY_NOT_DUE"
  BY Zenon DEF ClassOf, NotDueSignal
<1>2. /\ NotDueSignal(due).kind = "NOT_DUE"
      /\ NotDueSignal(due).due = due
  BY DEF NotDueSignal
<1> QED BY <1>1, <1>2 DEF DecideReplan, DecideClass

\* A reconsideration is put off by at least two minutes and at most an hour.
LEMMA DelaysArePositive ==
  ASSUME NEW replans \in 0 .. MaxReplans
  PROVE  /\ ReconsiderationDelay(replans) \in Nat
         /\ ReconsiderationDelay(replans) >= InitialDelay
         /\ ReconsiderationDelay(replans) <= MaximumDelay
<1>1. 2 ^ 0 = 1 /\ 2 ^ 1 = 2 /\ 2 ^ 2 = 4
  <2>1. 2 ^ 0 = 1
    OBVIOUS
  <2>2. 2 ^ 1 = 2
    OBVIOUS
  <2>3. 2 ^ 2 = 4
    OBVIOUS
  <2> QED
    BY <2>1, <2>2, <2>3
<1>2. replans = 0 \/ replans = 1 \/ replans = 2
  BY DEF MaxReplans
<1>3. PICK p : p = 2 ^ replans
  OBVIOUS
<1>4. p \in {1, 2, 4}
  <2>1. CASE replans = 0
    BY <1>1, <1>3, <2>1
  <2>2. CASE replans = 1
    BY <1>1, <1>3, <2>2
  <2>3. CASE replans = 2
    BY <1>1, <1>3, <2>3
  <2> QED
    BY <1>2, <2>1, <2>2, <2>3
<1>5. ReconsiderationDelay(replans) = Min({60, 2 * p})
  BY <1>3 DEF ReconsiderationDelay, MaximumDelay, InitialDelay
<1>6. 2 * p \in {2, 4, 8}
  BY <1>4
<1>7. Min({60, 2 * p}) = 2 * p
  BY <1>6 DEF Min
<1> QED
  BY <1>5, <1>6, <1>7 DEF MaximumDelay, InitialDelay

(***************************************************************************)
(* A deferral is never to a time that has come: whatever the budget and    *)
(* whatever the submission came back with, decideReplan names a world time *)
(* that lies ahead, within an hour unless the signal itself named it.      *)
(***************************************************************************)
THEOREM DeferralsLieAhead ==
  ASSUME NEW budget \in Budgets, NEW signal \in Signals,
         NEW alternative \in BOOLEAN, NEW now \in Nat,
         NEW answer, answer = DecideReplan(signal, alternative, budget, now),
         answer.directive = "DEFER_UNTIL_WORLD_TIME"
  PROVE  /\ answer.until \in Nat /\ answer.until > now
         /\ \/ answer.until <= now + MaximumDelay
            \/ signal.kind = "NOT_DUE" /\ answer.until = signal.due
<1> DEFINE Ahead(a) == a.directive = "DEFER_UNTIL_WORLD_TIME" =>
             /\ a.until \in Nat /\ a.until > now
             /\ \/ a.until <= now + MaximumDelay
                \/ signal.kind = "NOT_DUE" /\ a.until = signal.due
<1>1. ASSUME NEW class PROVE Ahead(DecideClass(class, signal, alternative, budget, now))
  <2>1. budget.replans \in 0 .. MaxReplans
    BY DEF Budgets
  <2>2. PICK d \in Nat : d = ReconsiderationDelay(budget.replans)
    BY <2>1, DelaysArePositive
  <2>3. d >= 2 /\ d <= MaximumDelay
    BY <2>1, <2>2, DelaysArePositive DEF InitialDelay
  <2>4. signal.kind = "NOT_DUE" => signal.due \in Nat
    BY DEF Signals
  <2>5. Ahead(DeferUntil(budget, now + d))
    <3>1. now + d \in Nat /\ now + d > now /\ now + d <= now + MaximumDelay
      BY <2>2, <2>3 DEF MaximumDelay
    <3>2. DeferUntil(budget, now + d).until = now + d
      BY DEF DeferUntil, Answer
    <3> QED
      BY <3>1, <3>2
  <2>6. signal.kind = "NOT_DUE" /\ signal.due > now => Ahead(DeferUntil(budget, signal.due))
    BY <2>4 DEF DeferUntil, Answer
  <2>7. \A reason : Ahead(Stop(budget, reason))
    BY DEF Stop, Answer
  <2>8. \A directive \in {"SUCCESS", "REOBSERVE_NOW", "REPLAN_NOW"} :
          \A b : Ahead(Continue(directive, b))
    BY DEF Continue, Answer
  <2> HIDE DEF Ahead
  <2> QED
    BY <2>2, <2>5, <2>6, <2>7, <2>8 DEF DecideClass
<1>2. \A found : Ahead(DecideTimeout(found, budget))
  BY DEF DecideTimeout, Stop, Continue, Answer
<1>3. Ahead(answer)
  BY <1>1, <1>2 DEF DecideReplan
<1> QED
  BY <1>3

-----------------------------------------------------------------------------
(* What is drafted *)

GoalTypes == {"SATISFY_HUNGER", "REST", "FULFILL_WORK_OBLIGATION",
              "MAKE_SOCIAL_CONTACT", "RETURN_HOME"}

\* A goal has one of five types, and selectGoal picks one of the goals.
LEMMA GoalsAreTyped ==
  ASSUME NEW in, NEW g \in SelectGoal(EvaluateGoals(in), {})
  PROVE  g.type \in GoalTypes
<1>1. g \in EvaluateGoals(in)
  BY DEF SelectGoal, Foremost
<1>2. CASE g \in NeedGoals(in.needs) \cup RoutineGoals(in.routine, in.now)
  <2>1. PICK n \in NeedNames : g.type = GoalOf[n]
    BY <1>2 DEF NeedGoals, RoutineGoals, Goal
  <2> QED
    BY <2>1 DEF NeedNames, GoalOf, GoalTypes
<1>3. CASE g \in ObligationGoals(in.obligation, in.preparation, in.now)
  <2>1. g.type = "FULFILL_WORK_OBLIGATION"
    <3> DEFINE s == in.obligation.status
    <3>1. CASE s = "NOT_DUE"
      <4>1. ObligationGoals(in.obligation, in.preparation, in.now) =
              {Goal("FULFILL_WORK_OBLIGATION", "PREPARATION", Priority.obligation, NeedScoreRange) :
                 b \in {m \in in.preparation : m <= in.now /\ in.now < in.obligation.starts}}
        BY <3>1, Zenon DEF ObligationGoals
      <4> QED
        BY <1>3, <4>1 DEF Goal
    <3>2. CASE s = "DUE"
      <4>1. ObligationGoals(in.obligation, in.preparation, in.now) =
              {Goal("FULFILL_WORK_OBLIGATION", "DUE", Priority.obligation, NeedScoreRange)}
        BY <3>2, Zenon DEF ObligationGoals
      <4> QED
        BY <1>3, <4>1 DEF Goal
    <3>3. CASE s = "LATE"
      <4>1. ObligationGoals(in.obligation, in.preparation, in.now) =
              {Goal("FULFILL_WORK_OBLIGATION", "LATE", Priority.obligation,
                    NeedScoreRange + Points(10))}
        BY <3>3, Zenon DEF ObligationGoals
      <4> QED
        BY <1>3, <4>1 DEF Goal
    <3>4. CASE s \notin {"NOT_DUE", "DUE", "LATE"}
      <4>1. ObligationGoals(in.obligation, in.preparation, in.now) = {}
        BY <3>4, Zenon DEF ObligationGoals
      <4> QED
        BY <1>3, <4>1
    <3> QED
      BY <3>1, <3>2, <3>3, <3>4
  <2> QED
    BY <2>1 DEF GoalTypes
<1>4. CASE g \in ContextGoals(in.context, in.away)
  <2>1. CASE in.context = "SOCIAL_OPPORTUNITY"
    <3>1. ContextGoals(in.context, in.away) =
            {Goal("MAKE_SOCIAL_CONTACT", "OPPORTUNITY", Priority.context, 0)}
      BY <2>1, Zenon DEF ContextGoals
    <3> QED
      BY <1>4, <3>1 DEF Goal, GoalTypes
  <2>2. CASE in.context # "SOCIAL_OPPORTUNITY" /\ in.context = "RETURN_HOME_REQUIRED" /\ in.away
    <3>1. ContextGoals(in.context, in.away) =
            {Goal("RETURN_HOME", "RETURN_HOME_REQUIRED", Priority.context, NeedScoreRange)}
      BY <2>2, Zenon DEF ContextGoals
    <3> QED
      BY <1>4, <3>1 DEF Goal, GoalTypes
  <2>3. CASE in.context # "SOCIAL_OPPORTUNITY" /\ ~(in.context = "RETURN_HOME_REQUIRED" /\ in.away)
    <3>1. ContextGoals(in.context, in.away) = {}
      BY <2>3, Zenon DEF ContextGoals
    <3> QED
      BY <1>4, <3>1
  <2> QED
    BY <2>1, <2>2, <2>3
<1> QED
  BY <1>1, <1>2, <1>3, <1>4 DEF EvaluateGoals

\* What a feasible candidate is, whatever the needs and the goal.
Offered(c, obs, now) ==
  \/ c.type = "EAT" /\ c.arg = obs.resident /\ ~(obs.food.units < 1)
       /\ obs.loc = obs.home /\ Kind[obs.loc] \in EatKinds
  \/ c.type = "SLEEP" /\ Kind[obs.loc] = "HOME" /\ c.arg = obs.home /\ obs.loc = obs.home
  \/ c.type = "WORK" /\ c.arg = obs.loc /\ obs.loc \in obs.workplaces
       /\ obs.obligation.status = "DUE" /\ obs.obligation.starts = now /\ now \notin obs.worked
  \/ c.type = "TALK" /\ c.arg \in LegalPartners(obs)
  \/ c.type = "MOVE" /\ c.arg # obs.loc
       /\ c.arg \in {obs.home, SocialPlace} \cup obs.workplaces

\* Candidates are of the five kinds, and only idle residents have any.
LEMMA CandidatesAreOffered ==
  ASSUME NEW needs, NEW obs, NEW now, NEW c \in FeasibleCandidates(needs, obs, now)
  PROVE  Offered(c, obs, now) /\ obs.act = "IDLE"
<1>1. PICK g \in PursuedGoal(needs, obs, now) : c \in CandidatesFor(g, obs, now)
  BY DEF FeasibleCandidates
<1>2. c.feasible /\ obs.act = "IDLE"
  BY DEF FeasibleCandidates
<1>3. g.type \in GoalTypes
  BY <1>1, GoalsAreTyped DEF PursuedGoal
<1>4. CASE g.type = "SATISFY_HUNGER"
  <2>1. c \in EatCandidates(obs)
    <3>1. CandidatesFor(g, obs, now) = EatCandidates(obs)
      BY <1>4, Zenon DEF CandidatesFor
    <3> QED
      BY <1>1, <3>1
  <2>2. ~(obs.food.units < 1)
    BY <2>1 DEF EatCandidates
  <2>3. CASE obs.loc = obs.home
    <3>1. c = Candidate("EAT", obs.resident, Kind[obs.loc] \in EatKinds)
      BY <2>1, <2>2, <2>3 DEF EatCandidates
    <3> QED
      BY <1>2, <2>2, <2>3, <3>1 DEF Candidate, Offered
  <2>4. CASE obs.loc # obs.home
    <3>1. c = Candidate("MOVE", obs.home, TRUE)
      BY <2>1, <2>2, <2>4 DEF EatCandidates
    <3> QED
      BY <1>2, <2>4, <3>1 DEF Candidate, Offered
  <2> QED
    BY <2>3, <2>4
<1>5. CASE g.type = "REST"
  <2>1. c \in SleepCandidates(obs)
    <3>1. CandidatesFor(g, obs, now) = SleepCandidates(obs)
      BY <1>5, Zenon DEF CandidatesFor
    <3> QED
      BY <1>1, <3>1
  <2>2. CASE obs.loc = obs.home
    <3>1. c = Candidate("SLEEP", obs.home, Kind[obs.loc] = "HOME")
      BY <2>1, <2>2 DEF SleepCandidates
    <3> QED
      BY <1>2, <2>2, <3>1 DEF Candidate, Offered
  <2>3. CASE obs.loc # obs.home
    <3>1. c = Candidate("MOVE", obs.home, TRUE)
      BY <2>1, <2>3 DEF SleepCandidates
    <3> QED
      BY <1>2, <2>3, <3>1 DEF Candidate, Offered
  <2> QED
    BY <2>2, <2>3
<1>6. CASE g.type = "FULFILL_WORK_OBLIGATION"
  <2>1. c \in WorkCandidates(obs, now)
    <3>1. CandidatesFor(g, obs, now) = WorkCandidates(obs, now)
      BY <1>6, Zenon DEF CandidatesFor
    <3> QED
      BY <1>1, <3>1
  <2>2. PICK w \in obs.workplaces :
          c = IF obs.loc = w
              THEN Candidate("WORK", w, /\ obs.obligation.status = "DUE"
                                        /\ OnTheHour(obs, now) /\ now \notin obs.worked)
              ELSE Candidate("MOVE", w, TRUE)
    BY <2>1 DEF WorkCandidates
  <2>3. CASE obs.loc = w
    BY <1>2, <2>2, <2>3 DEF Candidate, OnTheHour, Offered
  <2>4. CASE obs.loc # w
    BY <1>2, <2>2, <2>4 DEF Candidate, Offered
  <2> QED
    BY <2>3, <2>4
<1>7. CASE g.type = "MAKE_SOCIAL_CONTACT"
  <2>1. c \in TalkCandidates(obs)
    <3>1. CandidatesFor(g, obs, now) = TalkCandidates(obs)
      BY <1>7, Zenon DEF CandidatesFor
    <3> QED
      BY <1>1, <3>1
  <2> QED
    BY <1>2, <2>1 DEF TalkCandidates, Candidate, Offered
<1>8. CASE g.type = "RETURN_HOME"
  <2>1. c \in ReturnCandidates(obs)
    <3>1. CandidatesFor(g, obs, now) = ReturnCandidates(obs)
      BY <1>8, Zenon DEF CandidatesFor
    <3> QED
      BY <1>1, <3>1
  <2> QED
    BY <1>2, <2>1 DEF ReturnCandidates, Candidate, Offered
<1> QED
  BY <1>2, <1>3, <1>4, <1>5, <1>6, <1>7, <1>8 DEF GoalTypes

\* An obligation that is due names a start of a shift.
LEMMA DueStartsAreShifts ==
  ASSUME NEW x \in Residents, ObligationOf(x).status = "DUE"
  PROVE  ObligationOf(x).starts \in ShiftStarts
<1> DEFINE today == {s \in ShiftStarts : s \div Day = worldTime \div Day}
<1>1. Workplace[x] # None /\ today # {}
  BY DEF ObligationOf
<1>2. PICK s \in today : s = CHOOSE u \in today : TRUE
  BY <1>1
<1>3. ObligationOf(x).starts = s
  BY <1>1, <1>2 DEF ObligationOf
<1> QED
  BY <1>2, <1>3

\* What the kernel reads of a request that asks for a candidate.
LEMMA DraftIsAccepted ==
  ASSUME TypeOK, status = "RUNNING", NEW x \in Residents, NEW c \in FeasibleOf(x)
  PROVE  /\ Decision(RequestOf(x, c), IF c.type = "EAT" THEN food[x].version ELSE None)
              = "COMMITTED"
         /\ c.type \in ActionTypes
<1> DEFINE rv == IF c.type = "EAT" THEN food[x].version ELSE None
<1>1. PICK obs : obs = Observation(x)
  OBVIOUS
<1>2. /\ obs.resident = x /\ obs.home = Home[x] /\ obs.loc = runtime[x].loc
      /\ obs.act = runtime[x].task.act /\ obs.workplaces = {Workplace[x]} \ {None}
      /\ obs.obligation = ObligationOf(x) /\ obs.worked = runtime[x].shifts
      /\ obs.food = food[x]
      /\ obs.others = {[resident |-> y, loc |-> runtime[y].loc, act |-> runtime[y].task.act] :
                         y \in Residents \ {x}}
  BY <1>1 DEF Observation
<1>3. Offered(c, obs, worldTime) /\ obs.act = "IDLE"
  BY <1>1, CandidatesAreOffered DEF FeasibleOf
<1>4. /\ runtime[x].loc \in Locations /\ food[x].units \in Nat
  BY DEF TypeOK, RuntimeRows
<1>5. PICK r : r = RequestOf(x, c)
  OBVIOUS
<1>6. /\ r.actor = x /\ r.type = c.type /\ r.arg = c.arg /\ r.quantity = 1
      /\ r.version = runtime[x].version /\ r.at = 0
  BY <1>5 DEF RequestOf
<1>7. ASSUME c.type = "TALK"
      PROVE  /\ c.arg \in Residents /\ c.arg # x /\ runtime[c.arg].loc = runtime[x].loc
             /\ runtime[c.arg].task.act = "IDLE"
  <2>1. c.arg \in LegalPartners(obs)
    BY <1>3, <1>7 DEF Offered
  <2>2. PICK o \in obs.others : o.loc = obs.loc /\ o.act = "IDLE" /\ o.resident = c.arg
    BY <2>1 DEF LegalPartners
  <2> QED
    BY <1>2, <2>2
<1>8. PartiesIdle(r)
  BY <1>2, <1>3, <1>6, <1>7 DEF PartiesIdle, Parties, IsIdle
<1>9. Possible(r)
  <2>1. CASE c.type = "EAT"
    <3>1. c.arg = x /\ food[x].units >= 1 /\ runtime[x].loc = Home[x]
            /\ Kind[runtime[x].loc] \in EatKinds
      BY <1>2, <1>3, <1>4, <2>1 DEF Offered
    <3>2. runtime[x].loc \in EatSites
      BY <1>4, <3>1, FixtureAssumption
    <3> QED
      BY <1>6, <2>1, <3>1, <3>2 DEF Possible, InStock
  <2>2. CASE c.type = "SLEEP"
    <3>1. runtime[x].loc \in Homes
      BY <1>2, <1>3, <1>4, <2>2, FixtureAssumption DEF Offered
    <3> QED
      BY <1>6, <2>2, <3>1 DEF Possible
  <2>3. CASE c.type = "WORK"
    <3>1. c.arg = runtime[x].loc /\ Workplace[x] = runtime[x].loc /\ Workplace[x] # None
      BY <1>2, <1>3, <2>3 DEF Offered
    <3>2. Workplace[x] \in WorkSites
      BY <3>1, PlaceAssumption
    <3> QED
      BY <1>6, <2>3, <3>1, <3>2 DEF Possible
  <2>4. CASE c.type = "TALK"
    BY <1>6, <1>7, <2>4 DEF Possible
  <2>5. CASE c.type = "MOVE"
    BY <1>2, <1>3, <1>6, <2>5 DEF Possible, Offered
  <2> QED
    BY <1>3, <2>1, <2>2, <2>3, <2>4, <2>5 DEF Offered
<1>10. c.type = "WORK" => ShiftOpen(x)
  <2> SUFFICES ASSUME c.type = "WORK" PROVE ShiftOpen(x)
    OBVIOUS
  <2>1. /\ obs.obligation.status = "DUE" /\ obs.obligation.starts = worldTime
        /\ worldTime \notin obs.worked
    BY <1>3 DEF Offered
  <2>2. ObligationOf(x).starts \in ShiftStarts
    BY <1>2, <2>1, DueStartsAreShifts
  <2> QED
    BY <1>2, <2>1, <2>2 DEF ShiftOpen
<1>11. worldTime \in Nat
  BY TimeAssumption DEF TypeOK, Times
<1>12. c.type \in ActionTypes
  BY <1>3 DEF Offered, ActionTypes
<1>13. Decision(r, rv) = "COMMITTED"
  BY <1>6, <1>7, <1>8, <1>9, <1>10, <1>11 DEF Decision
<1> QED
  BY <1>5, <1>12, <1>13

-----------------------------------------------------------------------------
(* The process's own state *)

LoopWakes == [resident : Residents, reason : {"INITIAL_DECISION", "DEFERRED_REPLAN"},
              due : Int, epoch : Nat]
ItemKeys  == {<<>>} \cup {WakeKey(w) : w \in WakeRows} \cup {LoopKey(w) : w \in LoopWakes}
Items     == {i \in [resident : Residents, due : Int, epoch : Nat, key : ItemKeys,
                     reason : {"ACTIVITY_COMPLETED", "DEFERRED_REPLAN", "INITIAL_DECISION",
                               "WORK_BOUNDARY"}] :
                i.key = <<>> \/ i.key[1] = i.resident}
Completed == {t \in Tasks : t.inst \in Requests /\ t.due \in Nat}

LoopTypes ==
  /\ status = "RUNNING"
  /\ batch \in Seq(Completed) /\ hand \in Seq(Items)
  /\ deferred \in SUBSET LoopWakes /\ epochs \in [Residents -> Nat]
  /\ pc = "deciding" => hand # <<>>
  /\ pc \notin {"handling", "deciding"} => hand = <<>>

\* the greatest of two natural numbers
LEMMA MaxOfTwo ==
  ASSUME NEW a \in Nat, NEW b \in Nat
  PROVE  Max({a, b}) \in {a, b} /\ Max({a, b}) >= a /\ Max({a, b}) >= b
<1>1. \E m \in {a, b} : \A y \in {a, b} : m >= y
  <2>1. CASE a >= b
    BY <2>1
  <2>2. CASE b >= a
    BY <2>2
  <2> QED
    BY <2>1, <2>2
<1>2. Max({a, b}) \in {a, b} /\ \A y \in {a, b} : Max({a, b}) >= y
  BY <1>1 DEF Max
<1> QED
  BY <1>2

\* the epoch of the decision for the first item
NextEpoch == Max({epochs[Head(hand).resident], Head(hand).epoch}) + 1

\* The first item of a hand that is not empty.
LEMMA FirstItem ==
  ASSUME LoopTypes, hand # <<>>
  PROVE  /\ Head(hand) \in Items /\ Tail(hand) \in Seq(Items)
         /\ Head(hand).resident \in Residents /\ Head(hand).epoch \in Nat
         /\ NextEpoch \in Nat /\ NextEpoch > epochs[Head(hand).resident]
         /\ NextEpoch > Head(hand).epoch
<1>1. Head(hand) \in Items /\ Tail(hand) \in Seq(Items)
  <2>1. PICK h : h = hand
    OBVIOUS
  <2>2. h \in Seq(Items) /\ h # <<>>
    BY <2>1 DEF LoopTypes
  <2> HIDE DEF Items
  <2>3. Head(h) \in Items /\ Tail(h) \in Seq(Items)
    BY <2>2, HeadTailProperties
  <2> QED
    BY <2>1, <2>3
<1>2. PICK x \in Residents : x = Head(hand).resident
  BY <1>1 DEF Items
<1>3. PICK e \in Nat : e = Head(hand).epoch
  BY <1>1 DEF Items
<1>4. PICK n \in Nat : n = epochs[x]
  BY DEF LoopTypes
<1>5. Max({n, e}) \in Nat /\ Max({n, e}) >= n /\ Max({n, e}) >= e
  BY MaxOfTwo
<1>6. NextEpoch = Max({n, e}) + 1
  BY <1>2, <1>3, <1>4 DEF NextEpoch
<1>7. NextEpoch \in Nat /\ NextEpoch > n /\ NextEpoch > e
  BY <1>5, <1>6
<1> QED
  BY <1>1, <1>2, <1>3, <1>4, <1>7

\* Only a decision without a draft defers.
LEMMA AnswersOfTheLoop ==
  ASSUME NEW feasible, NEW now \in Nat
  PROVE  /\ IdleAnswer(now).directive = "DEFER_UNTIL_WORLD_TIME"
         /\ IdleAnswer(now).until = now + IdleReconsideration
         /\ OutcomeAnswer("COMMITTED", "", feasible, now).directive # "DEFER_UNTIL_WORLD_TIME"
         /\ OutcomeAnswer("REJECTED", "KERNEL_INVALID_ACTION", feasible, now).directive
              # "DEFER_UNTIL_WORLD_TIME"
<1>1. InitialBudget \in Budgets
  BY DEF InitialBudget, Budgets, MaxSubmissionAttempts, MaxConflictRecoveries, MaxReplans
<1>2. IdleAnswer(now) = DeferUntil(InitialBudget, now + IdleReconsideration)
  <2>1. now + IdleReconsideration \in Nat /\ now + IdleReconsideration > now
    BY DEF IdleReconsideration
  <2> QED
    BY <1>1, <2>1, NotDueComesBack DEF IdleAnswer
<1> DEFINE alternative == Cardinality(feasible) > 1
<1>4. ASSUME NEW s, NEW reason, NEW class, ClassOfOutcome(s, reason) = class
      PROVE  OutcomeAnswer(s, reason, feasible, now) =
               DecideClass(class, OutcomeSignal(s, reason), alternative, InitialBudget, now)
  <2>1. ClassOf(OutcomeSignal(s, reason)) = class
    <3>1. /\ OutcomeSignal(s, reason).kind = "OUTCOME"
          /\ OutcomeSignal(s, reason).status = s /\ OutcomeSignal(s, reason).reason = reason
      BY DEF OutcomeSignal
    <3>2. ClassOf(OutcomeSignal(s, reason)) = ClassOfOutcome(s, reason)
      BY <3>1, Zenon DEF ClassOf
    <3> QED
      BY <1>4, <3>2
  <2>2. OutcomeAnswer(s, reason, feasible, now)
          = DecideReplan(OutcomeSignal(s, reason), alternative, InitialBudget, now)
    BY DEF OutcomeAnswer
  <2>3. OutcomeSignal(s, reason).kind # "TIMED_OUT"
    BY DEF OutcomeSignal
  <2> HIDE DEF alternative
  <2> QED
    BY <2>1, <2>2, <2>3 DEF DecideReplan
<1>5. ClassOfOutcome("COMMITTED", "") = "SUCCESS"
  BY Zenon DEF ClassOfOutcome
<1>6. ClassOfOutcome("REJECTED", "KERNEL_INVALID_ACTION") = "PERMANENT_INVALID"
  <2>1. ClassOfOutcome("REJECTED", "KERNEL_INVALID_ACTION")
          = ClassOfRejection("KERNEL_INVALID_ACTION")
    BY Zenon DEF ClassOfOutcome
  <2>2. ClassOfRejection("KERNEL_INVALID_ACTION") = "PERMANENT_INVALID"
    BY Zenon DEF ClassOfRejection
  <2> QED
    BY <2>1, <2>2
<1> HIDE DEF alternative
<1>7. OutcomeAnswer("COMMITTED", "", feasible, now).directive # "DEFER_UNTIL_WORLD_TIME"
  <2>1. PICK signal : signal = OutcomeSignal("COMMITTED", "")
    OBVIOUS
  <2>2. OutcomeAnswer("COMMITTED", "", feasible, now) =
          DecideClass("SUCCESS", signal, alternative, InitialBudget, now)
    BY <1>4, <1>5, <2>1
  <2>3. DecideClass("SUCCESS", signal, alternative, InitialBudget, now) =
          Continue("SUCCESS", InitialBudget)
    BY Zenon DEF DecideClass
  <2>4. Continue("SUCCESS", InitialBudget).directive = "SUCCESS"
    BY DEF Continue, Answer
  <2> QED
    BY <2>2, <2>3, <2>4
<1>8. OutcomeAnswer("REJECTED", "KERNEL_INVALID_ACTION", feasible, now).directive
        # "DEFER_UNTIL_WORLD_TIME"
  <2>1. PICK signal : signal = OutcomeSignal("REJECTED", "KERNEL_INVALID_ACTION")
    OBVIOUS
  <2>2. OutcomeAnswer("REJECTED", "KERNEL_INVALID_ACTION", feasible, now) =
          DecideClass("PERMANENT_INVALID", signal, alternative, InitialBudget, now)
    BY <1>4, <1>6, <2>1
  <2>3. DecideClass("PERMANENT_INVALID", signal, alternative, InitialBudget, now).directive
          # "DEFER_UNTIL_WORLD_TIME"
    <3>1. CASE alternative
      BY <3>1 DEF DecideClass, Continue, Stop, Answer
    <3>2. CASE ~alternative
      BY <3>2 DEF DecideClass, Continue, Stop, Answer
    <3> QED
      BY <3>1, <3>2
  <2> QED
    BY <2>2, <2>3
<1>9. PICK u : u = now + IdleReconsideration
  OBVIOUS
<1>10. IdleAnswer(now) = DeferUntil(InitialBudget, u)
  BY <1>2, <1>9
<1>11. /\ DeferUntil(InitialBudget, u).directive = "DEFER_UNTIL_WORLD_TIME"
       /\ DeferUntil(InitialBudget, u).until = u
  BY DEF DeferUntil, Answer
<1> QED
  BY <1>7, <1>8, <1>9, <1>10, <1>11

(***************************************************************************)
(* A decision: nothing is drafted and the resident is deferred, a draft is *)
(* not submitted because it could not end before the target, or an         *)
(* activity starts.                                                        *)
(***************************************************************************)
Decided(x) ==
  \/ /\ DraftOf(x) = {} /\ UNCHANGED vars
     /\ deferred' = deferred \cup
          {LoopWake(x, "DEFERRED_REPLAN", u, NextEpoch) :
             u \in {v \in {worldTime + IdleReconsideration} : v < Target}}
  \/ /\ \E c \in DraftOf(x) : ~FitsHorizon(c.type)
     /\ UNCHANGED vars /\ deferred' = deferred
  \/ /\ \E r \in Requests : /\ r.actor = x /\ r.id = <<x, runtime[x].version>>
                            /\ FitsHorizon(r.type)
                            /\ \E c \in DraftOf(x) : c.type = r.type /\ c.arg = r.arg
                            /\ Start(r, lease, IF r.type = "EAT" THEN food[x].version ELSE None)
     /\ deferred' = deferred

\* A decision submits, defers or drops, and takes the first item out of the hand.
LEMMA DecisionShape ==
  ASSUME TypeOK, LoopTypes, Decide
  PROVE  /\ Decided(Head(hand).resident)
         /\ epochs' = [epochs EXCEPT ![Head(hand).resident] = NextEpoch]
         /\ pc = "deciding" /\ pc' = "handling" /\ hand' = Tail(hand)
         /\ UNCHANGED <<profile, anchors, batch>>
<1>1. pc = "deciding" /\ hand # <<>>
  BY DEF Decide, LoopTypes
<1>2. PICK x : x = Head(hand).resident
  OBVIOUS
<1>3. x \in Residents
  BY <1>1, <1>2, FirstItem
<1>4. worldTime \in Nat
  BY TimeAssumption DEF TypeOK, Times
<1>5. ASSUME NEW answer, After(x, answer)
      PROVE  /\ epochs' = [epochs EXCEPT ![x] = NextEpoch]
             /\ pc' = "handling" /\ hand' = Tail(hand)
             /\ UNCHANGED <<profile, anchors, batch>>
             /\ deferred' = deferred \cup
                  {LoopWake(x, "DEFERRED_REPLAN", u, NextEpoch) :
                     u \in {v \in {answer.until} :
                              answer.directive = "DEFER_UNTIL_WORLD_TIME" /\ v < Target}}
  BY <1>2, <1>5 DEF After, NextEpoch
<1>6. ASSUME NEW answer, After(x, answer), answer.directive # "DEFER_UNTIL_WORLD_TIME"
      PROVE  deferred' = deferred
  BY <1>5, <1>6
<1>7. CASE StayIdle(x)
  <2>1. After(x, IdleAnswer(worldTime)) /\ DraftOf(x) = {} /\ UNCHANGED vars
    BY <1>7 DEF StayIdle
  <2>2. PICK a : a = IdleAnswer(worldTime)
    OBVIOUS
  <2>3. a.directive = "DEFER_UNTIL_WORLD_TIME" /\ a.until = worldTime + IdleReconsideration
    BY <1>4, <2>2, AnswersOfTheLoop
  <2>4. After(x, a)
    BY <2>1, <2>2
  <2>5. deferred' = deferred \cup
          {LoopWake(x, "DEFERRED_REPLAN", u, NextEpoch) :
             u \in {v \in {worldTime + IdleReconsideration} : v < Target}}
    BY <1>5, <2>3, <2>4
  <2> QED
    BY <1>1, <1>2, <1>5, <2>1, <2>4, <2>5 DEF Decided
<1>8. ASSUME NEW c \in DraftOf(x), RefuseAtHorizon(x, c)
      PROVE  /\ Decided(x) /\ epochs' = [epochs EXCEPT ![x] = NextEpoch]
             /\ pc' = "handling" /\ hand' = Tail(hand)
             /\ UNCHANGED <<profile, anchors, batch>>
  <2>1. PICK a : a = OutcomeAnswer("REJECTED", "KERNEL_INVALID_ACTION", FeasibleOf(x), worldTime)
    OBVIOUS
  <2>2. After(x, a) /\ ~FitsHorizon(c.type) /\ UNCHANGED vars
    BY <1>8, <2>1 DEF RefuseAtHorizon
  <2>3. a.directive # "DEFER_UNTIL_WORLD_TIME"
    BY <1>4, <2>1, AnswersOfTheLoop
  <2>4. deferred' = deferred
    BY <1>6, <2>2, <2>3
  <2> QED
    BY <1>5, <2>2, <2>4 DEF Decided
<1>9. ASSUME NEW c \in DraftOf(x), Submit(x, c)
      PROVE  /\ Decided(x) /\ epochs' = [epochs EXCEPT ![x] = NextEpoch]
             /\ pc' = "handling" /\ hand' = Tail(hand)
             /\ UNCHANGED <<profile, anchors, batch>>
  <2>1. PICK r : r = RequestOf(x, c)
    OBVIOUS
  <2>2. PICK rv : rv = IF c.type = "EAT" THEN food[x].version ELSE None
    OBVIOUS
  <2>3. c \in FeasibleOf(x)
    BY DEF DraftOf, Draft, FeasibleOf
  <2>4. Decision(r, rv) = "COMMITTED"
    BY <1>3, <2>1, <2>2, <2>3, DraftIsAccepted DEF LoopTypes
  <2>5. /\ r \in Requests /\ r.actor = x /\ r.id = <<x, runtime[x].version>>
        /\ c.type = r.type /\ c.arg = r.arg /\ FitsHorizon(r.type)
    BY <1>9, <2>1 DEF Submit, RequestOf
  <2>6. Start(r, lease, rv)
    BY <1>9, <2>1, <2>2, <2>4 DEF Submit
  <2>7. PICK a : a = OutcomeAnswer("COMMITTED", "", FeasibleOf(x), worldTime)
    OBVIOUS
  <2>8. After(x, a)
    BY <1>9, <2>1, <2>2, <2>4, <2>7 DEF Submit
  <2>9. deferred' = deferred
    BY <1>4, <1>6, <2>7, <2>8, AnswersOfTheLoop
  <2>10. rv = IF r.type = "EAT" THEN food[x].version ELSE None
    BY <2>2, <2>5
  <2> QED
    BY <1>5, <2>5, <2>6, <2>8, <2>9, <2>10 DEF Decided
<1> QED
  BY <1>1, <1>2, <1>7, <1>8, <1>9 DEF Decide, StayIdle, RefuseAtHorizon, Submit


\* In the beginning the process holds nothing.
LEMMA InitLoopTypes == StoryInit => LoopTypes
<1> SUFFICES ASSUME StoryInit PROVE LoopTypes
  OBVIOUS
<1>1. status = "RUNNING" /\ pc = "bootstrap" /\ batch = <<>> /\ hand = <<>> /\ deferred = {}
  BY DEF StoryInit, Init
<1>2. epochs \in [Residents -> Nat]
  BY DEF StoryInit
<1>3. batch \in Seq(Completed) /\ hand \in Seq(Items)
  <2> HIDE DEF Completed, Items
  <2> QED
    BY <1>1, EmptySeq
<1> QED
  BY <1>1, <1>2, <1>3 DEF LoopTypes

\* What is due belongs to a resident in an activity of a request of the pool.
LEMMA DueActivity ==
  ASSUME RInv, DuesAreTimes, NEW x \in DueActors
  PROVE  /\ x \in Residents /\ ~IsIdle(x) /\ runtime[x].task # Idle
         /\ runtime[x].task \in Completed /\ runtime[x].task.inst.actor = x
         /\ runtime[x].task.inst \in requests /\ x \in Parties(runtime[x].task.inst)
<1> USE DEF RInv, IInv
<1>1. x \in Residents /\ ~IsIdle(x) /\ runtime[x].task.inst.actor = x
  BY DEF DueActors, Busy
<1>2. runtime[x].task # Idle
  BY <1>1, FreeIsIdle
<1>3. runtime[x].task.inst \in requests /\ x \in Parties(runtime[x].task.inst)
  BY <1>1, <1>2 DEF TasksIntact, TaskIntact
<1>4. runtime[x].task \in Tasks /\ requests \in SUBSET Requests
  BY <1>1 DEF TypeOK, RuntimeRows
<1>5. runtime[x].task.due \in Nat
  BY <1>1, <1>2 DEF DuesAreTimes
<1> QED
  BY <1>1, <1>2, <1>3, <1>4, <1>5 DEF Completed

\* The items of a step are well-formed.
LEMMA ItemsOfStep ==
  ASSUME RInv, LoopTypes
  PROVE  CompletionItems \cup DueItems \subseteq Items
<1> USE DEF RInv, IInv
<1>1. ASSUME NEW i \in CompletionItems
      PROVE  i \in Items
  <2>1. PICK k \in DOMAIN batch :
          i = Item(batch[k].inst.actor, "ACTIVITY_COMPLETED", batch[k].due, 0, <<>>)
    BY <1>1 DEF CompletionItems
  <2>2. PICK t : t = batch[k]
    OBVIOUS
  <2>3. t \in Completed
    <3>1. batch \in Seq(Completed)
      BY DEF LoopTypes
    <3> HIDE DEF Completed
    <3> QED
      BY <2>1, <2>2, <3>1, ElementOfSeq
  <2>4. t.inst \in Requests /\ t.due \in Nat
    BY <2>3 DEF Completed
  <2>5. t.inst.actor \in Residents
    BY <2>4, RequestFacts
  <2>6. i = Item(t.inst.actor, "ACTIVITY_COMPLETED", t.due, 0, <<>>)
    BY <2>1, <2>2
  <2> QED
    BY <2>4, <2>5, <2>6 DEF Item, Items, ItemKeys
<1>2. ASSUME NEW w \in wakes
      PROVE  KernelItem(w) \in Items
  <2>1. w \in WakeRows
    BY DEF TypeOK
  <2>2. PICK k \in ItemKeys : k = WakeKey(w) /\ k[1] = w.resident
    <3>1. WakeKey(w) \in ItemKeys
      BY <2>1 DEF ItemKeys
    <3>2. WakeKey(w)[1] = w.resident
      BY DEF WakeKey
    <3> QED
      BY <3>1, <3>2
  <2>3. w.resident \in Residents /\ w.due \in Int
    BY <2>1 DEF WakeRows
  <2>4. KernelItem(w) = Item(w.resident, "WORK_BOUNDARY", w.due, 0, k)
    BY <2>2 DEF KernelItem
  <2> QED
    BY <2>2, <2>3, <2>4 DEF Item, Items
<1>3. ASSUME NEW w \in deferred
      PROVE  LoopItem(w) \in Items
  <2>1. w \in LoopWakes
    BY DEF LoopTypes
  <2>2. PICK k \in ItemKeys : k = LoopKey(w) /\ k[1] = w.resident
    <3>1. LoopKey(w) \in ItemKeys
      BY <2>1 DEF ItemKeys
    <3>2. LoopKey(w)[1] = w.resident
      BY DEF LoopKey
    <3> QED
      BY <3>1, <3>2
  <2>3. /\ w.resident \in Residents /\ w.due \in Int /\ w.epoch \in Nat
        /\ w.reason \in {"INITIAL_DECISION", "DEFERRED_REPLAN"}
    BY <2>1 DEF LoopWakes
  <2>4. LoopItem(w) = Item(w.resident, w.reason, w.due, w.epoch, k)
    BY <2>2 DEF LoopItem
  <2> QED
    BY <2>2, <2>3, <2>4 DEF Item, Items
<1>4. ASSUME NEW i \in DueItems
      PROVE  i \in Items
  <2>1. \/ i \in {KernelItem(w) : w \in {v \in wakes : v.due <= worldTime}}
        \/ i \in {LoopItem(w) : w \in {v \in deferred : v.due <= worldTime}}
    BY <1>4 DEF DueItems
  <2>2. (\E w \in wakes : i = KernelItem(w)) \/ (\E w \in deferred : i = LoopItem(w))
    BY <2>1
  <2> HIDE DEF Items
  <2> QED
    BY <1>2, <1>3, <2>2
<1> QED
  BY <1>1, <1>4

\* Items in order are a sequence of them.
LEMMA ArrangedIsSeq ==
  ASSUME NEW items, NEW s \in Arranged(items), NEW S, items \subseteq S
  PROVE  s \in Seq(S)
<1>1. PICK n \in 0 .. Cardinality(items) : s \in [1 .. n -> items]
  BY DEF Arranged
<1>2. n \in Nat
  BY <1>1
<1>3. s \in [1 .. n -> S]
  BY <1>1
<1> QED
  BY <1>2, <1>3

(***************************************************************************)
(* A completion step ends an activity of its actor's and appends it to the *)
(* activities of the step.                                                 *)
(***************************************************************************)
LEMMA CompletionShape ==
  ASSUME RInv, DuesAreTimes, LoopTypes, CompleteNext
  PROVE  \E z \in DueActors, r \in requests, n \in Nat :
           /\ Complete(r, lease, runtime[z].version)
           /\ runtime[z].task.inst = r /\ r.actor = z
           /\ batch' \in Seq(Completed)
           /\ DOMAIN batch = 1 .. n /\ DOMAIN batch' = 1 .. n + 1
           /\ \A i \in 1 .. n : batch'[i] = batch[i]
           /\ batch'[n + 1].inst = r
           /\ pc = "completing" /\ UNCHANGED <<pc, anchors, epochs, deferred, hand>>
<1>1. PICK z \in DueActors :
         /\ Complete(runtime[z].task.inst, lease, runtime[z].version)
         /\ batch' = Append(batch, runtime[z].task)
         /\ pc = "completing" /\ UNCHANGED <<pc, anchors, epochs, deferred, hand>>
  BY DEF CompleteNext
<1>2. PICK t : t = runtime[z].task
  OBVIOUS
<1>3. PICK r : r = t.inst
  OBVIOUS
<1>4. t \in Completed /\ r \in requests /\ r.actor = z
  BY <1>2, <1>3, DueActivity
<1>5. PICK n \in Nat : n = Len(batch)
  BY DEF LoopTypes
<1>6. /\ batch' \in Seq(Completed)
      /\ DOMAIN batch = 1 .. n /\ DOMAIN batch' = 1 .. n + 1
      /\ \A i \in 1 .. n : batch'[i] = batch[i]
      /\ batch'[n + 1] = t
  <2>1. batch \in Seq(Completed) /\ batch' = Append(batch, t)
    BY <1>1, <1>2 DEF LoopTypes
  <2> HIDE DEF Completed
  <2> QED
    BY <1>4, <1>5, <2>1, AppendProperties
<1>7. Complete(r, lease, runtime[z].version) /\ runtime[z].task.inst = r
  BY <1>1, <1>2, <1>3
<1>8. batch'[n + 1].inst = r
  BY <1>3, <1>6
<1> HIDE DEF Completed
<1> QED
  BY <1>1, <1>4, <1>6, <1>7, <1>8

\* No step of the loop leaves the process's own state malformed or the world stopped.
LEMMA LoopTypesStep ==
  ASSUME RInv, DuesAreTimes, LoopTypes, [StoryNext]_storyVars
  PROVE  LoopTypes'
<1> USE DEF RInv, IInv
<1>1. CASE Bootstrap
  BY <1>1 DEF Bootstrap, RegisterNextWakes, LoopTypes
<1>2. CASE TakeLease
  <2>1. deferred' \in SUBSET LoopWakes
    BY <1>2 DEF TakeLease, LoopWake, LoopWakes
  <2> QED
    BY <1>2, <2>1 DEF TakeLease, AcquireLease, LoopTypes
<1>3. CASE RunUntilNext
  <2>1. status' = status
    BY <1>3 DEF RunUntilNext, AdvanceWorldTimeTo, vars
  <2>2. batch' \in Seq(Completed)
    <3>1. batch' = <<>>
      BY <1>3 DEF RunUntilNext
    <3> HIDE DEF Completed
    <3> QED
      BY <3>1, EmptySeq
  <2>3. pc = "waiting" /\ pc' \in {"failed", "completing"}
        /\ UNCHANGED <<epochs, deferred, hand>>
    BY <1>3 DEF RunUntilNext
  <2> QED
    BY <2>1, <2>2, <2>3 DEF LoopTypes
<1>4. CASE CompleteNext
  <2>1. PICK z \in DueActors, r \in requests, n \in Nat :
           /\ Complete(r, lease, runtime[z].version)
           /\ batch' \in Seq(Completed)
           /\ UNCHANGED <<pc, epochs, deferred, hand>>
    BY <1>4, CompletionShape
  <2>5. status' = status
    BY <2>1 DEF Complete
  <2> QED
    BY <2>1, <2>5 DEF LoopTypes
<1>5. CASE DeliverStep
  <2>1. hand' \in Arranged(CompletionItems \cup DueItems)
    BY <1>5 DEF DeliverStep
  <2>2. hand' \in Seq(Items)
    <3> HIDE DEF Items
    <3> QED
      BY <2>1, ItemsOfStep, ArrangedIsSeq
  <2> QED
    BY <1>5, <2>2 DEF DeliverStep, vars, LoopTypes
<1>6. CASE Acknowledge
  <2>1. hand # <<>> /\ pc = "handling" /\ deferred' \subseteq deferred
        /\ UNCHANGED <<status, epochs, batch>>
    BY <1>6 DEF Acknowledge
  <2>2. \/ pc' = "deciding" /\ hand' = hand
        \/ pc' = "handling" /\ hand' = Tail(hand)
    BY <1>6 DEF Acknowledge
  <2>3. hand' \in Seq(Items)
    <3>1. hand \in Seq(Items) /\ Tail(hand) \in Seq(Items)
      BY <2>1, FirstItem DEF LoopTypes
    <3> QED
      BY <2>2, <3>1
  <2> QED
    BY <2>1, <2>2, <2>3 DEF LoopTypes
<1>7. CASE Decide
  <2>1. pc = "deciding" /\ hand # <<>>
    BY <1>7 DEF Decide, LoopTypes
  <2>2. PICK x : x = Head(hand).resident
    OBVIOUS
  <2>3. PICK e : e = NextEpoch
    OBVIOUS
  <2>4. x \in Residents /\ e \in Nat /\ Tail(hand) \in Seq(Items)
    BY <2>1, <2>2, <2>3, FirstItem
  <2>5. /\ Decided(x) /\ epochs' = [epochs EXCEPT ![x] = e]
        /\ pc' = "handling" /\ hand' = Tail(hand) /\ batch' = batch
    BY <1>7, <2>2, <2>3, DecisionShape
  <2>6. epochs' \in [Residents -> Nat]
    BY <2>4, <2>5 DEF LoopTypes
  <2>7. deferred' \in SUBSET LoopWakes
    <3>1. worldTime + IdleReconsideration \in Int
      BY TimeAssumption DEF TypeOK, Times, IdleReconsideration
    <3>2. \A w \in deferred' \ deferred :
            \E u \in {worldTime + IdleReconsideration} : w = LoopWake(x, "DEFERRED_REPLAN", u, e)
      BY <2>3, <2>5 DEF Decided
    <3>3. \A w \in deferred' \ deferred : w \in LoopWakes
      BY <2>4, <3>1, <3>2 DEF LoopWake, LoopWakes
    <3> QED
      BY <3>3 DEF LoopTypes
  <2>8. status' = status
    BY <2>5 DEF Decided, Start, vars
  <2> QED
    BY <2>4, <2>5, <2>6, <2>7, <2>8 DEF LoopTypes
<1>8. CASE EndStep
  BY <1>8 DEF EndStep, vars, LoopTypes
<1>9. CASE Finished \/ UNCHANGED storyVars
  BY <1>9 DEF Finished, storyVars, vars, loop, LoopTypes
<1> QED
  BY <1>1, <1>2, <1>3, <1>4, <1>5, <1>6, <1>7, <1>8, <1>9 DEF StoryNext

\* The world of a story, as far as the kernel's theorems describe it.
StoryWorld == RInv /\ DuesAreTimes /\ KeysUnique /\ OccurredInOrder

\* It is a world of the kernel.
LEMMA StoryWorlds == StorySpec => []StoryWorld
<1>1. Init => KeysUnique
  BY DEF Init, KeysUnique, UniqueKeys
<1>2. KeysUnique /\ [Next]_vars => KeysUnique'
  BY NextKeys
<1>3. Spec => []KeysUnique
  BY <1>1, <1>2, PTL DEF Spec
<1>4. RInv /\ DuesAreTimes /\ KeysUnique /\ OccurredInOrder => StoryWorld
  BY DEF StoryWorld
<1> QED
  BY <1>3, <1>4, StoryRunsTheKernel, DuesAreAlwaysTimes, LedgerInOrder, PTL

\* Throughout a story the process's state is well-formed and the world runs.
LEMMA LoopIsTyped == StorySpec => [](StoryWorld /\ LoopTypes)
<1>1. StoryWorld /\ LoopTypes /\ [StoryNext]_storyVars => LoopTypes'
  BY LoopTypesStep DEF StoryWorld
<1> QED
  BY <1>1, InitLoopTypes, StoryWorlds, PTL DEF StorySpec

(***************************************************************************)
(* No decision of the loop is wasted: what the planner drafts for an       *)
(* observed resident and can still end before the target, the kernel       *)
(* commits, whatever the needs, the routines, the street and the calendar. *)
(***************************************************************************)
THEOREM PlannerAndKernelAgree == StorySpec => []DraftsAreAccepted
<1>1. StoryWorld /\ LoopTypes => DraftsAreAccepted
  <2> SUFFICES ASSUME StoryWorld, LoopTypes, pc = "deciding",
                      NEW x, x = Head(hand).resident, NEW c \in DraftOf(x)
               PROVE  Decision(RequestOf(x, c), IF c.type = "EAT" THEN food[x].version ELSE None)
                        = "COMMITTED"
    BY DEF DraftsAreAccepted
  <2>1. x \in Residents /\ status = "RUNNING" /\ TypeOK
    BY FirstItem DEF LoopTypes, StoryWorld, RInv, IInv
  <2>2. c \in FeasibleOf(x)
    BY DEF DraftOf, Draft, FeasibleOf
  <2> QED
    BY <2>1, <2>2, DraftIsAccepted
<1> QED
  BY <1>1, LoopIsTyped, PTL

-----------------------------------------------------------------------------
(* Anchors *)

Relieving == {"SLEEP", "EAT", "TALK"}

\* m is the last of the times at which x completed something that changes its needs
IsLast(x, m) == m \in {0} \cup Relieved(x) /\ \A t \in {0} \cup Relieved(x) : t <= m

\* positions of the activities of this step whose effect on x is still to come
Pending(x) == {i \in DOMAIN batch : x \in Parties(batch[i].inst)}

(***************************************************************************)
(* The inductive form of AnchorsFollowLedger.  While a step completes      *)
(* activities the anchors lag behind the ledger: by the one activity a     *)
(* resident was in, whose end made it idle, so that there is no second.    *)
(***************************************************************************)
AnchorLags(x) ==
  /\ IsIdle(x)
  /\ \A i \in Pending(x) : IsLast(x, IF batch[i].inst.type \in Relieving THEN worldTime
                                     ELSE anchors[x].at)
AnchorInv ==
  \A x \in Residents :
    IF pc = "completing" /\ Pending(x) # {} THEN AnchorLags(x) ELSE IsLast(x, anchors[x].at)

\* Only a completion of one's own activity is a relief.
LEMMA ReliefAppended ==
  ASSUME TypeOK, NEW type, NEW r, NEW f, Commit(type, r, worldTime, f), NEW x
  PROVE  Relieved(x)' = Relieved(x) \cup
           (IF type = "COMPLETED" /\ x \in Parties(r) /\ r.type \in Relieving
            THEN {worldTime} ELSE {})
<1> DEFINE Relief1(j) == /\ ledger[j].type = "COMPLETED" /\ x \in Parties(ledger[j].req)
                         /\ ledger[j].req.type \in {"SLEEP", "EAT", "TALK"}
           New == type = "COMPLETED" /\ x \in Parties(r) /\ r.type \in Relieving
<1>1. PICK n \in Nat : n = worldSeq
  BY AppendEntries
<1>2. PICK t : t = worldTime
  OBVIOUS
<1>3. /\ worldSeq' = n + 1 /\ \A j \in 1 .. n : ledger'[j] = ledger[j]
      /\ ledger'[n + 1].type = type /\ ledger'[n + 1].req = r /\ ledger'[n + 1].at = t
  BY <1>1, <1>2, AppendEntries
<1>4. Relieved(x) = {ledger[j].at : j \in {k \in 1 .. n : Relief1(k)}}
  BY <1>1 DEF Relieved
<1>5. Relieved(x)' = {ledger'[j].at : j \in {k \in 1 .. n + 1 : Relief1(k)'}}
  BY <1>3 DEF Relieved
<1>6. \A j \in 1 .. n : (Relief1(j)' <=> Relief1(j)) /\ ledger'[j].at = ledger[j].at
  BY <1>3
<1>7. (Relief1(n + 1)' <=> New) /\ ledger'[n + 1].at = t
  BY <1>3 DEF Relieving
<1>8. \A j : j \in 1 .. n + 1 <=> j \in 1 .. n \/ j = n + 1
  OBVIOUS
<1> HIDE DEF Relief1, New
<1>9. CASE New
  <2>1. Relieved(x)' = {ledger[j].at : j \in {k \in 1 .. n : Relief1(k)}} \cup {t}
    BY <1>5, <1>6, <1>7, <1>8, <1>9
  <2> QED
    BY <1>2, <1>4, <1>9, <2>1 DEF New
<1>10. CASE ~New
  <2>1. Relieved(x)' = {ledger[j].at : j \in {k \in 1 .. n : Relief1(k)}}
    BY <1>5, <1>6, <1>7, <1>8, <1>10
  <2> QED
    BY <1>4, <1>10, <2>1 DEF New
<1> QED
  BY <1>9, <1>10

\* Anything else leaves the reliefs as they are.
LEMMA ReliefKept ==
  ASSUME TypeOK, NEW x,
         \/ ledger' = ledger
         \/ \E type, r, at, f : type # "COMPLETED" /\ Commit(type, r, at, f)
  PROVE  Relieved(x)' = Relieved(x)
<1> DEFINE Relief1(j) == /\ ledger[j].type = "COMPLETED" /\ x \in Parties(ledger[j].req)
                         /\ ledger[j].req.type \in {"SLEEP", "EAT", "TALK"}
<1>1. CASE ledger' = ledger
  BY <1>1, Zenon DEF Relieved, worldSeq
<1>2. ASSUME NEW type, NEW r, NEW at, NEW f, type # "COMPLETED", Commit(type, r, at, f)
      PROVE  Relieved(x)' = Relieved(x)
  <2>1. PICK n \in Nat : n = worldSeq
    BY <1>2, AppendEntries
  <2>2. /\ worldSeq' = n + 1 /\ \A j \in 1 .. n : ledger'[j] = ledger[j]
        /\ ledger'[n + 1].type # "COMPLETED"
    BY <1>2, <2>1, AppendEntries
  <2>3. \A j : j \in 1 .. n + 1 <=> j \in 1 .. n \/ j = n + 1
    OBVIOUS
  <2>4. Relieved(x) = {ledger[j].at : j \in {k \in 1 .. n : Relief1(k)}}
    BY <2>1 DEF Relieved
  <2>5. Relieved(x)' = {ledger'[j].at : j \in {k \in 1 .. n + 1 : Relief1(k)'}}
    BY <2>2 DEF Relieved
  <2>6. \A j \in 1 .. n : (Relief1(j)' <=> Relief1(j)) /\ ledger'[j].at = ledger[j].at
    BY <2>2
  <2>7. ~Relief1(n + 1)'
    BY <2>2
  <2> HIDE DEF Relief1
  <2>8. Relieved(x)' = {ledger[j].at : j \in {k \in 1 .. n : Relief1(k)}}
    BY <2>3, <2>5, <2>6, <2>7
  <2> QED
    BY <2>4, <2>8
<1> QED
  BY <1>1, <1>2

\* No relief lies in the future.
LEMMA ReliefIsPast ==
  ASSUME TypeOK, OccurredInOrder, NEW x
  PROVE  /\ worldTime \in Nat
         /\ \A t \in {0} \cup Relieved(x) : t \in Nat /\ t <= worldTime
<1>1. worldTime \in Nat
  BY TimeAssumption DEF TypeOK, Times
<1>2. \A i \in 1 .. worldSeq : ledger[i].at \in Nat /\ ledger[i].at <= worldTime
  BY LedgerEntries DEF OccurredInOrder
<1> QED
  BY <1>1, <1>2 DEF Relieved

\* Effects that change needs start the anchor anew, all others leave it alone.
LEMMA SettledAt ==
  ASSUME NEW x, NEW task
  PROVE  Settled(x, task).at = IF task.inst.type \in Relieving THEN worldTime ELSE anchors[x].at
<1> DEFINE pace == profile[x].pace
           r == task.inst
<1>1. CASE r.type = "SLEEP"
  <2>1. Settled(x, task) = AfterSleep(pace, anchors[x], task.started, worldTime)
    BY <1>1, Zenon DEF Settled
  <2>2. AfterSleep(pace, anchors[x], task.started, worldTime).at = worldTime
    BY DEF AfterSleep
  <2> QED
    BY <1>1, <2>1, <2>2 DEF Relieving
<1>2. CASE r.type = "EAT"
  <2>1. Settled(x, task) = AfterEffect(pace, anchors[x], "hunger", r.quantity, worldTime)
    BY <1>2, Zenon DEF Settled
  <2>2. AfterEffect(pace, anchors[x], "hunger", r.quantity, worldTime).at = worldTime
    BY DEF AfterEffect
  <2> QED
    BY <1>2, <2>1, <2>2 DEF Relieving
<1>3. CASE r.type = "TALK"
  <2>1. Settled(x, task) = AfterEffect(pace, anchors[x], "social", 1, worldTime)
    BY <1>3, Zenon DEF Settled
  <2>2. AfterEffect(pace, anchors[x], "social", 1, worldTime).at = worldTime
    BY DEF AfterEffect
  <2> QED
    BY <1>3, <2>1, <2>2 DEF Relieving
<1>4. CASE r.type \notin {"SLEEP", "EAT", "TALK"}
  <2>1. Settled(x, task) = anchors[x]
    BY <1>4, Zenon DEF Settled
  <2> QED
    BY <1>4, <2>1 DEF Relieving
<1> QED
  BY <1>1, <1>2, <1>3, <1>4

\* A completion adds the last relief of its parties, and they are free then.
LEMMA CompletionKeepsAnchors ==
  ASSUME RInv, OccurredInOrder, DuesAreTimes, LoopTypes, AnchorInv, CompleteNext
  PROVE  AnchorInv'
<1> USE DEF RInv, IInv
<1>1. PICK z \in DueActors, r \in requests, n \in Nat :
         /\ Complete(r, lease, runtime[z].version)
         /\ DOMAIN batch = 1 .. n /\ DOMAIN batch' = 1 .. n + 1
         /\ \A i \in 1 .. n : batch'[i] = batch[i]
         /\ batch'[n + 1].inst = r
         /\ pc = "completing" /\ UNCHANGED <<pc, anchors>>
  BY CompletionShape
<1>2. Commit("COMPLETED", r, worldTime, lease) /\ worldTime' = worldTime
  BY <1>1 DEF Complete
<1>3. ASSUME NEW x \in Residents, x \notin Parties(r)
      PROVE  /\ runtime'[x] = runtime[x] /\ Relieved(x)' = Relieved(x)
             /\ Pending(x)' = Pending(x)
  <2>1. Relieved(x)' = Relieved(x)
    <3> DEFINE New == "COMPLETED" = "COMPLETED" /\ x \in Parties(r) /\ r.type \in Relieving
    <3>1. Relieved(x)' = Relieved(x) \cup (IF New THEN {worldTime} ELSE {})
      BY <1>2, ReliefAppended
    <3>2. ~New
      BY <1>3
    <3> HIDE DEF New
    <3> QED
      BY <3>1, <3>2
  <2>2. Pending(x)' = Pending(x)
    <3>1. \A i : i \in 1 .. n + 1 <=> i \in 1 .. n \/ i = n + 1
      OBVIOUS
    <3>2. \A i : i \in Pending(x)' <=> i \in 1 .. n + 1 /\ x \in Parties(batch'[i].inst)
      BY <1>1 DEF Pending
    <3>3. \A i : i \in Pending(x) <=> i \in 1 .. n /\ x \in Parties(batch[i].inst)
      BY <1>1 DEF Pending
    <3>4. \A i : i \in Pending(x)' <=> i \in Pending(x)
      BY <1>1, <1>3, <3>1, <3>2, <3>3
    <3> QED
      BY <3>4
  <2>3. runtime'[x] = runtime[x]
    BY <1>1, <1>3, CompleteWrites
  <2> QED
    BY <2>1, <2>2, <2>3
<1>4. ASSUME NEW x \in Residents, x \in Parties(r)
       PROVE  /\ IsIdle(x)' /\ Pending(x)' = {n + 1} /\ IsLast(x, anchors[x].at)
              /\ Relieved(x)' = Relieved(x) \cup (IF r.type \in Relieving THEN {worldTime} ELSE {})
  <2>1. runtime[x].task.inst = r /\ runtime'[x].task = Idle
    BY <1>1, <1>4, CompleteWrites
  <2>2. r # None
    BY <1>1, RequestFacts DEF TypeOK
  <2>3. ~IsIdle(x)
    BY <2>1, <2>2, FreeIsIdle DEF Idle
  <2>4. Pending(x) = {} /\ IsLast(x, anchors[x].at)
    BY <1>1, <2>3 DEF AnchorInv, AnchorLags
  <2>5. Pending(x)' = {n + 1}
    <3>1. \A i : i \in 1 .. n + 1 <=> i \in 1 .. n \/ i = n + 1
      OBVIOUS
    <3>2. \A i : i \in Pending(x)' <=> i \in 1 .. n + 1 /\ x \in Parties(batch'[i].inst)
      BY <1>1 DEF Pending
    <3>3. \A i \in 1 .. n : x \notin Parties(batch[i].inst)
      BY <1>1, <2>4 DEF Pending
    <3>4. \A i : i \in Pending(x)' <=> i = n + 1
      BY <1>1, <1>4, <3>1, <3>2, <3>3
    <3> QED
      BY <3>4
  <2>6. Relieved(x)' = Relieved(x) \cup (IF r.type \in Relieving THEN {worldTime} ELSE {})
    <3> DEFINE New == "COMPLETED" = "COMPLETED" /\ x \in Parties(r) /\ r.type \in Relieving
    <3>1. Relieved(x)' = Relieved(x) \cup (IF New THEN {worldTime} ELSE {})
      BY <1>2, ReliefAppended
    <3>2. New <=> r.type \in Relieving
      BY <1>4
    <3> HIDE DEF New
    <3> QED
      BY <3>1, <3>2
  <2> QED
    BY <2>1, <2>4, <2>5, <2>6 DEF IsIdle, Idle
<1>5. ASSUME NEW x \in Residents, x \notin Parties(r)
       PROVE  IF pc' = "completing" /\ Pending(x)' # {} THEN AnchorLags(x)'
              ELSE IsLast(x, anchors[x].at)'
  <2>1. /\ IsIdle(x)' <=> IsIdle(x)
        /\ \A m : IsLast(x, m)' <=> IsLast(x, m)
    BY <1>3, <1>5 DEF IsIdle, IsLast
  <2>2. \A i \in Pending(x) : batch'[i] = batch[i]
    BY <1>1 DEF Pending
  <2>3. IF pc = "completing" /\ Pending(x) # {} THEN AnchorLags(x) ELSE IsLast(x, anchors[x].at)
    BY DEF AnchorInv
  <2>4. CASE Pending(x) # {}
    <3>1. AnchorLags(x)
      BY <1>1, <2>3, <2>4
    <3>2. AnchorLags(x)'
      BY <1>1, <1>2, <1>3, <1>5, <2>1, <2>2, <3>1 DEF AnchorLags
    <3> QED
      BY <1>1, <1>3, <1>5, <2>4, <3>2
  <2>5. CASE Pending(x) = {}
    BY <1>1, <1>3, <1>5, <2>1, <2>3, <2>5
  <2> QED
    BY <2>4, <2>5
<1>6. ASSUME NEW x \in Residents, x \in Parties(r)
       PROVE  AnchorLags(x)' /\ Pending(x)' # {}
  <2>1. /\ IsIdle(x)' /\ Pending(x)' = {n + 1} /\ IsLast(x, anchors[x].at)
        /\ Relieved(x)' = Relieved(x) \cup (IF r.type \in Relieving THEN {worldTime} ELSE {})
    BY <1>4, <1>6
  <2>2. /\ worldTime \in Nat
        /\ \A u \in {0} \cup Relieved(x) : u \in Nat /\ u <= worldTime
    BY ReliefIsPast
  <2>3. CASE r.type \in Relieving
    <3>1. Relieved(x)' = Relieved(x) \cup {worldTime}
      BY <2>1, <2>3
    <3>2. IsLast(x, worldTime)'
      BY <1>2, <2>2, <3>1 DEF IsLast
    <3> QED
      BY <1>1, <1>2, <2>1, <2>3, <3>2 DEF AnchorLags
  <2>4. CASE r.type \notin Relieving
    <3>1. Relieved(x)' = Relieved(x)
      BY <2>1, <2>4
    <3>2. IsLast(x, anchors[x].at)'
      BY <1>1, <2>1, <3>1 DEF IsLast
    <3> QED
      BY <1>1, <2>1, <2>4, <3>2 DEF AnchorLags
  <2> QED
    BY <2>3, <2>4
<1> QED
  BY <1>1, <1>5, <1>6 DEF AnchorInv

\* The end of the step brings the anchors up to date.
LEMMA DeliveryKeepsAnchors ==
  ASSUME AnchorInv, DeliverStep
  PROVE  AnchorInv'
<1>1. pc = "completing" /\ pc' = "handling" /\ UNCHANGED <<vars, batch>>
  BY DEF DeliverStep
<1>2. \A x \in Residents : anchors'[x] =
        IF \E i \in DOMAIN batch : x \in Parties(batch[i].inst)
        THEN Settled(x, batch[CHOOSE i \in DOMAIN batch : x \in Parties(batch[i].inst)])
        ELSE anchors[x]
  BY DEF DeliverStep
<1>3. ASSUME NEW x \in Residents
      PROVE  IsLast(x, anchors'[x].at)
  <2>1. CASE Pending(x) = {}
    <3>1. anchors'[x] = anchors[x]
      BY <1>2, <2>1 DEF Pending
    <3> QED
      BY <2>1, <3>1 DEF AnchorInv
  <2>2. CASE Pending(x) # {}
    <3>1. PICK i \in DOMAIN batch :
            /\ x \in Parties(batch[i].inst)
            /\ i = CHOOSE k \in DOMAIN batch : x \in Parties(batch[k].inst)
      BY <2>2 DEF Pending
    <3>2. anchors'[x] = Settled(x, batch[i])
      BY <1>2, <3>1
    <3>3. PICK t : t = batch[i]
      OBVIOUS
    <3>4. anchors'[x].at = IF t.inst.type \in Relieving THEN worldTime ELSE anchors[x].at
      BY <3>2, <3>3, SettledAt
    <3>5. i \in Pending(x)
      BY <3>1 DEF Pending
    <3>6. IsLast(x, IF t.inst.type \in Relieving THEN worldTime ELSE anchors[x].at)
      BY <1>1, <2>2, <3>3, <3>5 DEF AnchorInv, AnchorLags
    <3> QED
      BY <3>4, <3>6
  <2> QED
    BY <2>1, <2>2
<1>4. \A x : Relieved(x)' = Relieved(x)
  <2>1. ledger' = ledger
    BY <1>1 DEF vars
  <2> QED
    BY <2>1, Zenon DEF Relieved, worldSeq
<1>5. \A x \in Residents : IsLast(x, anchors[x].at)'
  BY <1>3, <1>4 DEF IsLast
<1> QED
  BY <1>1, <1>5 DEF AnchorInv

\* Outside of a step the anchors and the reliefs stand still.
LEMMA QuietKeepsAnchors ==
  ASSUME TypeOK, AnchorInv, pc # "completing", UNCHANGED anchors,
         pc' # "completing" \/ batch' = <<>>,
         \/ ledger' = ledger
         \/ \E type, r, at, f : type # "COMPLETED" /\ Commit(type, r, at, f)
  PROVE  AnchorInv'
<1>1. \A x : Relieved(x)' = Relieved(x)
  BY ReliefKept
<1>2. \A x \in Residents : IsLast(x, anchors[x].at)
  BY DEF AnchorInv
<1>3. \A x \in Residents : IsLast(x, anchors[x].at)'
  BY <1>1, <1>2 DEF IsLast
<1>4. \A x : pc' # "completing" \/ Pending(x)' = {}
  <2>1. DOMAIN <<>> = {}
    OBVIOUS
  <2> QED
    BY <2>1 DEF Pending
<1> QED
  BY <1>3, <1>4 DEF AnchorInv

\* Every step of the loop keeps the anchors where the ledger has them.
LEMMA AnchorStep ==
  ASSUME StoryWorld, LoopTypes, AnchorInv, [StoryNext]_storyVars
  PROVE  AnchorInv'
<1> USE DEF StoryWorld, RInv, IInv
<1>1. CASE CompleteNext
  BY <1>1, CompletionKeepsAnchors
<1>2. CASE DeliverStep
  BY <1>2, DeliveryKeepsAnchors
<1>3. CASE RunUntilNext
  <2>1. pc = "waiting" /\ batch' = <<>> /\ UNCHANGED anchors
    BY <1>3 DEF RunUntilNext
  <2>2. \/ ledger' = ledger
        \/ \E at, f : Commit("WORLD_TIME_ADVANCED", None, at, f)
    BY <1>3 DEF RunUntilNext, AdvanceWorldTimeTo, vars
  <2> QED
    BY <2>1, <2>2, QuietKeepsAnchors
<1>4. CASE Decide
  <2>1. PICK x : x = Head(hand).resident
    OBVIOUS
  <2>2. pc = "deciding" /\ pc' = "handling" /\ UNCHANGED anchors /\ Decided(x)
    BY <1>4, <2>1, DecisionShape
  <2>3. ledger' = ledger \/ \E r, f : Commit("STARTED", r, worldTime, f)
    BY <2>2 DEF Decided, Start, vars
  <2> QED
    BY <2>2, <2>3, QuietKeepsAnchors
<1>5. CASE Bootstrap \/ TakeLease \/ Acknowledge \/ EndStep
  <2>1. pc # "completing" /\ pc' # "completing" /\ UNCHANGED <<anchors, ledger>>
    BY <1>5 DEF Bootstrap, TakeLease, Acknowledge, EndStep, RegisterNextWakes, AcquireLease, vars
  <2> QED
    BY <2>1, QuietKeepsAnchors
<1>6. CASE Finished \/ UNCHANGED storyVars
  <2>1. UNCHANGED <<pc, anchors, batch, ledger, runtime, worldTime>>
    BY <1>6 DEF Finished, storyVars, loop, vars
  <2>2. \A x : Relieved(x)' = Relieved(x)
    BY <2>1, ReliefKept
  <2>3. \A x : /\ Pending(x)' = Pending(x) /\ (IsIdle(x)' <=> IsIdle(x))
               /\ \A m : IsLast(x, m)' <=> IsLast(x, m)
    BY <2>1, <2>2 DEF Pending, IsIdle, IsLast
  <2> QED
    BY <2>1, <2>3 DEF AnchorInv, AnchorLags
<1> QED
  BY <1>1, <1>2, <1>3, <1>4, <1>5, <1>6 DEF StoryNext

\* In the beginning nothing has been relieved.
LEMMA InitAnchors == StoryInit => AnchorInv
<1> SUFFICES ASSUME StoryInit, NEW x \in Residents
             PROVE  pc # "completing" /\ IsLast(x, anchors[x].at)
  BY DEF AnchorInv
<1>1. ledger = <<>> /\ pc = "bootstrap" /\ anchors[x].at = 0
  BY DEF StoryInit, Init, SeededAnchor
<1>2. Relieved(x) = {}
  <2>1. worldSeq = 0
    BY <1>1 DEF worldSeq
  <2>2. 1 .. worldSeq = {}
    BY <2>1
  <2> QED
    BY <2>2, Zenon DEF Relieved
<1> QED
  BY <1>1, <1>2 DEF IsLast

(***************************************************************************)
(* The need anchors in the process's memory agree with the ledger between  *)
(* steps: each starts at the last meal, sleep or talk of its resident.     *)
(***************************************************************************)
THEOREM AnchorsAgreeWithLedger == StorySpec => []AnchorsFollowLedger
<1>1. StoryInit => AnchorInv
  BY InitAnchors
<1>2. AnchorInv => AnchorsFollowLedger
  <2> SUFFICES ASSUME AnchorInv, pc = "waiting", NEW x \in Residents,
                      NEW S, S = {0} \cup Relieved(x)
               PROVE  anchors[x].at = Max(S)
    BY DEF AnchorsFollowLedger
  <2>1. PICK m : m = anchors[x].at
    OBVIOUS
  <2>2. m \in S /\ \A t \in S : t <= m
    BY <2>1 DEF AnchorInv, IsLast
  <2> QED
    BY <2>1, <2>2 DEF Max
<1> QED
  BY <1>1, <1>2, AnchorStep, LoopIsTyped, PTL DEF StorySpec

-----------------------------------------------------------------------------
(* Decisions *)

\* A start registers the next boundary at most, which is still to come.
LEMMA StartedWakes ==
  ASSUME TypeOK, NEW r, NEW f, NEW rv, Start(r, f, rv), NEW w \in wakes'
  PROVE  w \in wakes \/ w.due > worldTime
<1>1. wakes' = WakesAfterStart(r)
  BY DEF Start
<1>2. NextShift(worldTime) > worldTime
  BY NextShiftLater DEF TypeOK
<1>3. \A x, version, seq : \A u \in BoundaryWake(x, version, seq) : u.due > worldTime
  BY <1>2 DEF BoundaryWake, Wake
<1> QED
  BY <1>1, <1>3 DEF WakesAfterStart, Upsert

(***************************************************************************)
(* A decision makes nothing due: what it starts takes time, a deferral and *)
(* the next boundary lie ahead.  So the wakes of one instant run out.      *)
(***************************************************************************)
THEOREM DecisionsLookAhead == StorySpec => DecisionsOnlyPlanAhead
<1>1. StoryWorld /\ LoopTypes /\ [StoryNext]_storyVars
        => [pc = "deciding" => DueNow' \subseteq DueNow]_storyVars
  <2> SUFFICES ASSUME StoryWorld, LoopTypes, [StoryNext]_storyVars, pc = "deciding",
                      storyVars' # storyVars
               PROVE  DueNow' \subseteq DueNow
    OBVIOUS
  <2> USE DEF StoryWorld, RInv, IInv
  <2>1. Decide
    BY DEF StoryNext, Bootstrap, TakeLease, RunUntilNext, CompleteNext, DeliverStep,
           Acknowledge, EndStep, Finished
  <2>2. PICK x : x = Head(hand).resident
    OBVIOUS
  <2>3. Decided(x)
    BY <2>1, <2>2, DecisionShape
  <2>4. [Next]_vars
    BY StoryStepSimulation
  <2>5. worldTime \in Nat /\ worldTime' = worldTime
    <3>1. worldTime' = worldTime
      BY <2>3 DEF Decided, Start, vars
    <3> QED
      BY <3>1, TimeAssumption DEF TypeOK, Times
  <2>6. \A w \in wakes' : w \in wakes \/ w.due > worldTime
    <3>1. CASE UNCHANGED vars
      BY <3>1 DEF vars
    <3>2. CASE ~UNCHANGED vars
      <4>1. \E r, f, rv : Start(r, f, rv)
        BY <2>3, <3>2 DEF Decided
      <4> QED
        BY <4>1, StartedWakes
    <3> QED
      BY <3>1, <3>2
  <2>7. \A w \in deferred' : w \in deferred \/ w.due > worldTime
    <3>1. \A w \in deferred' : w \in deferred \/ w.due = worldTime + IdleReconsideration
      BY <2>3 DEF Decided, LoopWake
    <3> QED
      BY <2>5, <3>1 DEF IdleReconsideration
  <2>8. ASSUME NEW y \in Residents, ~IsIdle(y)'
        PROVE  runtime'[y] = runtime[y] \/ runtime'[y].task.due > worldTime
    <3>1. runtime'[y].task # Idle
      BY <2>8 DEF IsIdle, Idle
    <3> QED
      BY <2>4, <3>1, BusyKept
  <2>9. ASSUME NEW d \in DueNow'
        PROVE  d \in DueNow
    <3>1. CASE d \in {w \in wakes' \cup deferred' : w.due <= worldTime'}
      <4>1. d \in wakes' \cup deferred' /\ d.due <= worldTime
        BY <2>5, <3>1
      <4>2. d \in wakes \cup deferred
        <5>1. d \in WakeRows \cup LoopWakes
          <6>1. wakes' \subseteq WakeRows /\ deferred' \subseteq LoopWakes
            <7>1. LoopTypes'
              BY LoopTypesStep
            <7>2. IInv'
              BY <2>4, NextInv
            <7> QED
              BY <7>1, <7>2 DEF LoopTypes, TypeOK
          <6> QED
            BY <4>1, <6>1
        <5>2. d.due \in Int
          BY <5>1 DEF WakeRows, LoopWakes
        <5>3. ~(d.due > worldTime)
          BY <2>5, <4>1, <5>2
        <5> QED
          BY <2>6, <2>7, <4>1, <5>3
      <4> QED
        BY <4>1, <4>2 DEF DueNow
    <3>2. CASE d \notin {w \in wakes' \cup deferred' : w.due <= worldTime'}
      <4>1. PICK y \in Busy' : d = runtime'[y].task /\ runtime'[y].task.due <= worldTime
        BY <2>5, <3>2 DEF DueNow
      <4>2. y \in Residents /\ ~IsIdle(y)'
        BY <4>1 DEF Busy
      <4>3. runtime'[y].task.due \in Nat
        <5>1. DuesAreTimes'
          <6>1. \A z \in Residents : runtime'[z].task # Idle =>
                   runtime'[z] = runtime[z] \/ runtime'[z].task.due \in Nat
            BY <2>4, BusyKept
          <6> QED
            BY <6>1 DEF DuesAreTimes
        <5>2. runtime'[y].task # Idle
          BY <4>2 DEF IsIdle, Idle
        <5> QED
          BY <4>2, <5>1, <5>2 DEF DuesAreTimes
      <4>4. runtime'[y] = runtime[y]
        BY <2>5, <2>8, <4>1, <4>2, <4>3
      <4>5. y \in Busy /\ d = runtime[y].task /\ runtime[y].task.due <= worldTime
        BY <4>1, <4>2, <4>4 DEF Busy, IsIdle
      <4> QED
        BY <4>5 DEF DueNow
    <3> QED
      BY <3>1, <3>2
  <2> QED
    BY <2>9
<1> QED
  BY <1>1, LoopIsTyped, PTL DEF StorySpec, DecisionsOnlyPlanAhead

-----------------------------------------------------------------------------
(* Nobody is forgotten *)

\* Only employees have work wakes, and a boundary wake is due when its shift begins.
WorkWake(w) == Employed(w.resident) /\ (w.kind = "BOUNDARY" => w.due = w.shift)
WakesOfEmployees == \A w \in wakes : WorkWake(w)

\* No step of the kernel registers any other.
LEMMA EmployeesStep ==
  ASSUME WakesOfEmployees, [Next]_vars
  PROVE  WakesOfEmployees'
<1>1. ASSUME NEW x, NEW loc, NEW version, NEW seq,
             NEW w \in BoundaryWake(x, version, seq) \cup PreparationWake(x, loc, version, seq)
      PROVE  WorkWake(w)
  BY <1>1 DEF BoundaryWake, PreparationWake, Wake, WorkWake, Employed
<1>2. ASSUME NEW new, \A w \in new : WorkWake(w), wakes' = Upsert(wakes, new)
      PROVE  WakesOfEmployees'
  BY <1>2 DEF WakesOfEmployees, WorkWake, Upsert, Employed
<1>3. ASSUME wakes' \subseteq wakes
      PROVE  WakesOfEmployees'
  BY <1>3 DEF WakesOfEmployees, WorkWake, Employed
<1>4. ASSUME NEW r, NEW f, NEW rv, Start(r, f, rv)
      PROVE  WakesOfEmployees'
  <2>1. wakes' = WakesAfterStart(r)
    BY <1>4 DEF Start
  <2>2. CASE r.type # "WORK"
    BY <1>3, <2>1, <2>2 DEF WakesAfterStart
  <2>3. CASE r.type = "WORK"
    <3> DEFINE new == BoundaryWake(r.actor, runtime[r.actor].version + 1, worldSeq + 1)
    <3>1. wakes' = Upsert(wakes, new)
      BY <2>1, <2>3 DEF WakesAfterStart
    <3>2. \A w \in new : WorkWake(w)
      BY <1>1
    <3> HIDE DEF new
    <3> QED
      BY <1>2, <3>1, <3>2
  <2> QED
    BY <2>2, <2>3
<1>5. ASSUME NEW r, NEW f, NEW v, Complete(r, f, v)
      PROVE  WakesOfEmployees'
  <2> DEFINE version == runtime[r.actor].version + 1
             boundary == BoundaryWake(r.actor, version, worldSeq + 1)
             preparation == PreparationWake(r.actor, runtime[r.actor].task.target,
                                            version, worldSeq + 1)
  <2>1. \A w \in boundary \cup preparation : WorkWake(w)
    BY <1>1
  <2>2. \/ wakes' = wakes
        \/ wakes' = Upsert(wakes, boundary \cup preparation)
        \/ wakes' = Upsert(wakes, boundary \cup {})
    BY <1>5 DEF Complete, WakesAfterCompletion
  <2> HIDE DEF boundary, preparation
  <2> QED
    BY <1>2, <1>3, <2>1, <2>2
<1>6. ASSUME NEW prepare, RegisterNextWakes(prepare)
      PROVE  WakesOfEmployees'
  <2> DEFINE mine(x) == BoundaryWake(x, runtime[x].version, worldSeq) \cup
                (IF prepare
                 THEN PreparationWake(x, runtime[x].loc, runtime[x].version, worldSeq)
                 ELSE {})
             all == UNION {mine(x) : x \in Residents}
  <2>1. \A x \in Residents : \A w \in mine(x) : WorkWake(w)
    BY <1>1
  <2>2. wakes' = Upsert(wakes, all)
    BY <1>6 DEF RegisterNextWakes
  <2> HIDE DEF mine
  <2>3. \A w \in all : WorkWake(w)
    BY <2>1
  <2> HIDE DEF all
  <2> QED
    BY <1>2, <2>2, <2>3
<1>7. CASE wakes' \subseteq wakes
  BY <1>3, <1>7
<1> QED
  BY <1>4, <1>5, <1>6, <1>7
     DEF Next, PersistRequest, Refuse, AdvanceWorldTimeTo, UpdateClock, AcquireLease,
         AcknowledgeWake, vars

(***************************************************************************)
(* What keeps a resident in the story: an activity it leads, a deferred    *)
(* decision, an activity that has just ended or a wake in hand.            *)
(***************************************************************************)
DeferredOf(x) == {w \in deferred : w.resident = x}
Ended(x) == pc = "completing" /\ \E i \in DOMAIN batch : batch[i].inst.actor = x
Handling == pc \in {"handling", "deciding"}

\* the i-th wake in hand belongs to nothing registered any more
Consumed(i) == hand[i].key = <<>> \/ (pc = "deciding" /\ i = 1)
Woken(x) == Handling /\ \E i \in DOMAIN hand : hand[i].resident = x /\ Consumed(i)

Chained(x) == Leads(x) \/ DeferredOf(x) # {} \/ Ended(x) \/ Woken(x)

\* and there is only one of these
Single(x) ==
  /\ \A v, w \in DeferredOf(x) : v = w
  /\ Leads(x) => DeferredOf(x) = {} /\ ~Ended(x) /\ ~Woken(x)
  /\ DeferredOf(x) # {} => ~Ended(x) /\ ~Woken(x)
  /\ pc = "completing" =>
       \A i, j \in DOMAIN batch : batch[i].inst.actor = x /\ batch[j].inst.actor = x => i = j
  /\ Handling =>
       /\ \A i, j \in DOMAIN hand : hand[i].resident = x /\ hand[j].resident = x => i = j
       /\ \A i \in DOMAIN hand : hand[i].resident = x =>
            Consumed(i) \/ \E w \in DeferredOf(x) : hand[i] = LoopItem(w)

ChainOK(x) == Chained(x) /\ (~Employed(x) => Single(x))

Early == worldTime + SleepTime <= Target

(***************************************************************************)
(* The inductive form of NobodyIsForgotten.                                *)
(***************************************************************************)
ChainInv ==
  IF pc \in {"bootstrap", "lease"} THEN \A x \in Residents : runtime[x].task = Idle
  ELSE Early => \A x \in Residents : ChainOK(x)

\* rows of the loop that the chains are counted in
ChainRows == WakesOfEmployees /\ \A x \in Residents : IsFiniteSet(DeferredOf(x))

\* A completion hands its actor's activity over to the batch.
LEMMA CompletionKeepsChain ==
  ASSUME StoryWorld, LoopTypes, CompleteNext, NEW x \in Residents, ChainOK(x)
  PROVE  ChainOK(x)'
<1> USE DEF StoryWorld, RInv, IInv
<1>1. PICK z \in DueActors, r \in requests, n \in Nat :
         /\ Complete(r, lease, runtime[z].version)
         /\ runtime[z].task.inst = r /\ r.actor = z
         /\ DOMAIN batch = 1 .. n /\ DOMAIN batch' = 1 .. n + 1
         /\ \A i \in 1 .. n : batch'[i] = batch[i]
         /\ batch'[n + 1].inst = r
         /\ pc = "completing" /\ UNCHANGED <<pc, deferred, hand>>
  BY CompletionShape
<1>2. \A i : i \in 1 .. n + 1 <=> i \in 1 .. n \/ i = n + 1
  OBVIOUS
<1>3. DeferredOf(x)' = DeferredOf(x) /\ ~Handling /\ ~Handling' /\ n + 1 \in DOMAIN batch'
  BY <1>1 DEF DeferredOf, Handling
<1>4. \A y \in Parties(r) : runtime[y].task.inst = r /\ runtime'[y].task = Idle
  BY <1>1, CompleteWrites
<1>5. CASE x = z
  <2>1. Leads(x)
    BY <1>1, <1>5, DueActivity DEF Leads
  <2>2. x \in Parties(r)
    BY <1>1, <1>5, RequestFacts DEF TypeOK
  <2>3. ~Leads(x)' /\ Ended(x)'
    BY <1>1, <1>3, <1>4, <1>5, <2>2 DEF Leads, IsIdle, Idle, Ended
  <2>4. Single(x) => \A i \in 1 .. n : batch[i].inst.actor # x
    BY <1>1, <2>1 DEF Single, Ended
  <2>5. Single(x) => Single(x)'
    BY <1>1, <1>2, <1>3, <2>1, <2>3, <2>4 DEF Single
  <2> QED
    BY <2>3, <2>5 DEF ChainOK, Chained, Employed
<1>6. CASE x # z
  <2>1. Leads(x)' <=> Leads(x)
    <3>1. CASE x \in Parties(r)
      BY <1>1, <1>4, <1>6, <3>1 DEF Leads, IsIdle, Idle
    <3>2. CASE x \notin Parties(r)
      <4>1. runtime'[x] = runtime[x]
        BY <1>1, <3>2, CompleteWrites
      <4> QED
        BY <4>1 DEF Leads, IsIdle
    <3> QED
      BY <3>1, <3>2
  <2>2. \A i : i \in DOMAIN batch' /\ batch'[i].inst.actor = x
                 <=> i \in DOMAIN batch /\ batch[i].inst.actor = x
    BY <1>1, <1>2, <1>6
  <2>3. (Ended(x)' <=> Ended(x)) /\ ~Woken(x) /\ ~Woken(x)'
    BY <1>1, <1>3, <2>2 DEF Ended, Woken
  <2>4. Single(x) => Single(x)'
    BY <1>1, <1>3, <2>1, <2>2, <2>3 DEF Single
  <2> QED
    BY <1>3, <2>1, <2>3, <2>4 DEF ChainOK, Chained, Employed
<1> QED
  BY <1>5, <1>6

\* No item comes before itself.
LEMMA ItemsAreOrdered ==
  ASSUME NEW a \in Items, ItemBefore(a, a)
  PROVE  FALSE
<1> DEFINE rank == <<a.due, IdOrder[a.resident], ReasonOrder[a.reason], a.epoch,
                     IF a.key # <<>> /\ a.key[2] = "PREPARATION" THEN 1 ELSE 0>>
<1>1. PICK n \in 1 .. 5 : rank[n] < rank[n]
  BY DEF ItemBefore
<1>2. /\ a.due \in Int /\ a.epoch \in Int /\ a.resident \in Residents
      /\ a.reason \in {"ACTIVITY_COMPLETED", "DEFERRED_REPLAN", "INITIAL_DECISION",
                       "WORK_BOUNDARY"}
  BY DEF Items
<1>3. IdOrder[a.resident] \in Int
  BY <1>2, LoopAssumption
<1>4. ReasonOrder[a.reason] \in Int
  BY <1>2 DEF ReasonOrder
<1>5. rank[1] \in Int /\ rank[2] \in Int /\ rank[3] \in Int /\ rank[4] \in Int /\ rank[5] \in Int
  BY <1>2, <1>3, <1>4
<1> HIDE DEF rank
<1>6. n \in {1, 2, 3, 4, 5}
  OBVIOUS
<1>7. rank[n] \in Int
  BY <1>5, <1>6
<1> QED
  BY <1>1, <1>7

\* A deferred decision has a registration to acknowledge.
LEMMA KeysAreNotEmpty ==
  ASSUME NEW w
  PROVE  LoopItem(w).key = LoopKey(w) /\ LoopKey(w) # <<>> /\ LoopKey(w)[1] = w.resident
<1>1. PICK a, b, c, d : a = w.resident /\ b = w.reason /\ c = w.due /\ d = w.epoch
  OBVIOUS
<1>2. LoopKey(w) = <<a, b, c, d>>
  BY <1>1 DEF LoopKey
<1>3. <<a, b, c, d>> # <<>> /\ <<a, b, c, d>>[1] = a
  OBVIOUS
<1>4. LoopItem(w).key = LoopKey(w)
  BY DEF LoopItem, Item
<1> QED
  BY <1>1, <1>2, <1>3, <1>4

\* The items of a resident without a job are its completions and deferred decisions.
LEMMA ItemsOfResident ==
  ASSUME WakesOfEmployees, NEW i \in CompletionItems \cup DueItems, ~Employed(i.resident)
  PROVE  \/ /\ i.key = <<>>
            /\ \E k \in DOMAIN batch :
                 /\ batch[k].inst.actor = i.resident
                 /\ i = Item(batch[k].inst.actor, "ACTIVITY_COMPLETED", batch[k].due, 0, <<>>)
         \/ \E w \in DeferredOf(i.resident) : i = LoopItem(w)
<1>1. CASE i \in CompletionItems
  BY <1>1 DEF CompletionItems, Item
<1>2. CASE i \in DueItems
  <2>1. \/ i \in {KernelItem(w) : w \in {v \in wakes : v.due <= worldTime}}
        \/ i \in {LoopItem(w) : w \in {v \in deferred : v.due <= worldTime}}
    BY <1>2 DEF DueItems
  <2>2. (\E w \in wakes : i = KernelItem(w)) \/ (\E w \in deferred : i = LoopItem(w))
    BY <2>1
  <2>3. \A w \in wakes : i # KernelItem(w)
    BY DEF WakesOfEmployees, WorkWake, KernelItem, Item
  <2>4. \A w \in deferred : i = LoopItem(w) => w \in DeferredOf(i.resident)
    BY DEF LoopItem, Item, DeferredOf
  <2> QED
    BY <2>2, <2>3, <2>4
<1> QED
  BY <1>1, <1>2

\* The step hands over a wake for each activity that has just ended.
LEMMA DeliveryKeepsChain ==
  ASSUME StoryWorld, LoopTypes, WakesOfEmployees, DeliverStep, NEW x \in Residents, ChainOK(x)
  PROVE  ChainOK(x)'
<1> USE DEF StoryWorld, RInv, IInv
<1>1. /\ pc = "completing" /\ pc' = "handling" /\ UNCHANGED <<vars, deferred, batch>>
      /\ hand' \in Arranged(CompletionItems \cup DueItems)
  BY DEF DeliverStep
<1>2. PICK items : items = CompletionItems \cup DueItems
  OBVIOUS
<1>3. /\ {hand'[i] : i \in DOMAIN hand'} = items
      /\ \A i, j \in DOMAIN hand' : i < j => ItemBefore(hand'[i], hand'[j])
      /\ DOMAIN hand' \subseteq Int
  BY <1>1, <1>2 DEF Arranged
<1>4. /\ DeferredOf(x)' = DeferredOf(x) /\ (Leads(x)' <=> Leads(x))
      /\ ~Ended(x)' /\ Handling' /\ ~Handling
      /\ \A i : Consumed(i)' <=> hand'[i].key = <<>>
  BY <1>1 DEF vars, DeferredOf, Leads, IsIdle, Ended, Handling, Consumed
<1>5. ASSUME Ended(x)
      PROVE  Woken(x)'
  <2>1. PICK k \in DOMAIN batch : batch[k].inst.actor = x
    BY <1>5 DEF Ended
  <2>2. PICK i : i = Item(batch[k].inst.actor, "ACTIVITY_COMPLETED", batch[k].due, 0, <<>>)
    OBVIOUS
  <2>3. i \in items
    BY <1>2, <2>2 DEF CompletionItems
  <2>4. i.resident = x /\ i.key = <<>>
    BY <2>1, <2>2 DEF Item
  <2> QED
    BY <1>3, <1>4, <2>3, <2>4 DEF Woken
<1>6. Chained(x)'
  BY <1>4, <1>5, <1>1 DEF ChainOK, Chained, Woken, Handling
<1>7. ASSUME Single(x), ~Employed(x)
      PROVE  Single(x)'
  <2>1. ASSUME NEW i \in DOMAIN hand', hand'[i].resident = x
        PROVE  \/ /\ hand'[i].key = <<>> /\ Ended(x)
                  /\ \E k \in DOMAIN batch :
                       /\ batch[k].inst.actor = x
                       /\ hand'[i] = Item(x, "ACTIVITY_COMPLETED", batch[k].due, 0, <<>>)
               \/ \E w \in DeferredOf(x) : hand'[i] = LoopItem(w)
    <3>1. PICK item : item = hand'[i]
      OBVIOUS
    <3>2. item \in CompletionItems \cup DueItems /\ item.resident = x
      BY <1>2, <1>3, <2>1, <3>1
    <3>3. \/ /\ item.key = <<>>
             /\ \E k \in DOMAIN batch :
                  /\ batch[k].inst.actor = x
                  /\ item = Item(batch[k].inst.actor, "ACTIVITY_COMPLETED", batch[k].due, 0, <<>>)
          \/ \E w \in DeferredOf(x) : item = LoopItem(w)
      BY <1>7, <3>2, ItemsOfResident
    <3>4. (\E k \in DOMAIN batch : batch[k].inst.actor = x) => Ended(x)
      BY <1>1 DEF Ended
    <3> QED
      BY <3>1, <3>3, <3>4
  <2>2. ASSUME NEW i \in DOMAIN hand', NEW j \in DOMAIN hand',
               hand'[i].resident = x, hand'[j].resident = x
        PROVE  i = j
    <3>1. hand'[i] = hand'[j]
      <4>1. CASE Ended(x)
        <5>1. DeferredOf(x) = {}
          BY <1>7, <4>1 DEF Single
        <5>2. PICK k \in DOMAIN batch : /\ batch[k].inst.actor = x
                 /\ hand'[i] = Item(x, "ACTIVITY_COMPLETED", batch[k].due, 0, <<>>)
          BY <2>1, <2>2, <5>1
        <5>3. PICK m \in DOMAIN batch : /\ batch[m].inst.actor = x
                 /\ hand'[j] = Item(x, "ACTIVITY_COMPLETED", batch[m].due, 0, <<>>)
          BY <2>1, <2>2, <5>1
        <5>4. k = m
          BY <1>1, <1>7, <5>2, <5>3 DEF Single
        <5> QED
          BY <5>2, <5>3, <5>4
      <4>2. CASE ~Ended(x)
        <5>1. PICK v \in DeferredOf(x) : hand'[i] = LoopItem(v)
          BY <2>1, <2>2, <4>2
        <5>2. PICK w \in DeferredOf(x) : hand'[j] = LoopItem(w)
          BY <2>1, <2>2, <4>2
        <5>3. v = w
          BY <1>7, <5>1, <5>2 DEF Single
        <5> QED
          BY <5>1, <5>2, <5>3
      <4> QED
        BY <4>1, <4>2
    <3>2. hand'[i] \in Items
      <4>1. hand'[i] \in items /\ items \subseteq Items
        BY <1>2, <1>3, ItemsOfStep
      <4> QED
        BY <4>1
    <3>3. PICK item \in Items : item = hand'[i] /\ item = hand'[j]
      BY <3>1, <3>2
    <3>4. ~ItemBefore(item, item)
      BY ItemsAreOrdered
    <3>5. ~(i < j) /\ ~(j < i)
      BY <1>3, <3>3, <3>4
    <3> QED
      BY <1>3, <3>5
  <2>3. Woken(x)' => Ended(x)
    <3>1. ASSUME NEW i \in DOMAIN hand', hand'[i].resident = x, hand'[i].key = <<>>
          PROVE  Ended(x)
      <4>1. \A w \in DeferredOf(x) : LoopItem(w).key # <<>>
        BY KeysAreNotEmpty
      <4> QED
        BY <2>1, <3>1, <4>1
    <3> QED
      BY <1>4, <3>1 DEF Woken
  <2>4. /\ \A v, w \in DeferredOf(x)' : v = w
        /\ Leads(x)' => DeferredOf(x)' = {} /\ ~Woken(x)'
        /\ DeferredOf(x)' # {} => ~Woken(x)'
    BY <1>4, <1>7, <2>3 DEF Single
  <2>5. \A i \in DOMAIN hand' : hand'[i].resident = x =>
            Consumed(i)' \/ \E w \in DeferredOf(x)' : hand'[i] = LoopItem(w)
    BY <1>4, <2>1
  <2>6. /\ Handling' => \A i, j \in DOMAIN hand' :
                          hand'[i].resident = x /\ hand'[j].resident = x => i = j
        /\ pc' # "completing" /\ ~Ended(x)'
    BY <1>1, <1>4, <2>2
  <2>7. \A w : LoopItem(w)' = LoopItem(w)
    BY DEF LoopItem, Item, LoopKey
  <2> QED
    BY <2>4, <2>5, <2>6, <2>7 DEF Single
<1> QED
  BY <1>6, <1>7 DEF ChainOK, Employed

\* What is left in hand after its first item.
LEMMA RestOfHand ==
  ASSUME LoopTypes, hand # <<>>
  PROVE  /\ 1 \in DOMAIN hand /\ hand[1] = Head(hand) /\ DOMAIN hand \subseteq Nat \ {0}
         /\ \A i : i \in DOMAIN Tail(hand) <=> i \in Nat \ {0} /\ i + 1 \in DOMAIN hand
         /\ \A i \in DOMAIN Tail(hand) : Tail(hand)[i] = hand[i + 1]
<1>1. PICK h : h = hand
  OBVIOUS
<1>2. h \in Seq(Items) /\ h # <<>>
  BY <1>1 DEF LoopTypes
<1> HIDE DEF Items
<1>3. PICK n \in Nat \ {0} : n = Len(h)
  BY <1>2, EmptySeq
<1>4. DOMAIN h = 1 .. n /\ Head(h) = h[1]
  BY <1>2, <1>3
<1>5. /\ Tail(h) \in Seq(Items) /\ Len(Tail(h)) = n - 1
      /\ \A i \in 1 .. Len(Tail(h)) : Tail(h)[i] = h[i + 1]
  BY <1>2, <1>3, HeadTailProperties
<1>6. DOMAIN Tail(h) = 1 .. n - 1
  BY <1>5
<1>7. \A i \in DOMAIN Tail(h) : Tail(h)[i] = h[i + 1]
  BY <1>5, <1>6
<1> QED
  BY <1>1, <1>4, <1>6, <1>7

\* Until it is late the loop decides about every wake it acknowledges.
LEMMA AcknowledgeKeepsChain ==
  ASSUME StoryWorld, LoopTypes, Early, Acknowledge, NEW x \in Residents, ChainOK(x)
  PROVE  ChainOK(x)'
<1> USE DEF StoryWorld, RInv, IInv
<1>1. worldTime < Target
  BY TimeAssumption, LoopAssumption DEF Early, TypeOK, Times
<1>2. /\ pc = "handling" /\ hand # <<>> /\ pc' = "deciding" /\ UNCHANGED <<hand, batch, runtime>>
      /\ deferred' = {w \in deferred : LoopKey(w) # Head(hand).key}
  BY <1>1 DEF Acknowledge
<1>3. PICK h \in Items : h = Head(hand)
  BY <1>2, FirstItem
<1>4. 1 \in DOMAIN hand /\ hand[1] = h
  BY <1>2, <1>3, RestOfHand
<1>5. /\ Leads(x)' <=> Leads(x)
      /\ ~Ended(x) /\ ~Ended(x)' /\ Handling /\ Handling'
      /\ \A i : Consumed(i) <=> hand[i].key = <<>>
      /\ \A i : Consumed(i)' <=> hand[i].key = <<>> \/ i = 1
  BY <1>2 DEF Leads, IsIdle, Ended, Handling, Consumed
<1>6. DeferredOf(x)' = {w \in DeferredOf(x) : LoopKey(w) # h.key}
  BY <1>2, <1>3 DEF DeferredOf
<1>7. CASE h.resident = x
  <2>1. Woken(x)'
    BY <1>2, <1>4, <1>5, <1>7 DEF Woken
  <2>2. ASSUME Single(x)
        PROVE  Single(x)'
    <3>1. /\ \A i \in DOMAIN hand : hand[i].resident = x => i = 1
          /\ Consumed(1) \/ \E w \in DeferredOf(x) : h = LoopItem(w)
      BY <1>4, <1>5, <1>7, <2>2 DEF Single
    <3>2. ~Leads(x) /\ DeferredOf(x)' = {}
      <4>1. CASE Consumed(1)
        <5>1. Woken(x)
          BY <1>4, <1>5, <1>7, <4>1 DEF Woken
        <5> QED
          BY <1>6, <2>2, <5>1 DEF Single
      <4>2. ASSUME NEW w \in DeferredOf(x), h = LoopItem(w)
            PROVE  ~Leads(x) /\ DeferredOf(x)' = {}
        <5>1. \A v \in DeferredOf(x) : v = w
          BY <2>2 DEF Single
        <5>2. LoopKey(w) = h.key
          BY <4>2, KeysAreNotEmpty
        <5> QED
          BY <1>6, <2>2, <5>1, <5>2 DEF Single
      <4> QED
        BY <3>1, <4>1, <4>2
    <3> QED
      BY <1>2, <1>5, <3>1, <3>2 DEF Single
  <2> QED
    BY <2>1, <2>2 DEF ChainOK, Chained, Employed
<1>8. CASE h.resident # x
  <2>1. DeferredOf(x)' = DeferredOf(x)
    <3>1. ASSUME NEW w \in DeferredOf(x), LoopKey(w) = h.key
          PROVE  FALSE
      <4>1. w.resident = x
        BY DEF DeferredOf
      <4>2. h.key # <<>> /\ h.key[1] = x
        BY <3>1, <4>1, KeysAreNotEmpty
      <4>3. h.key = <<>> \/ h.key[1] = h.resident
        BY DEF Items
      <4> QED
        BY <1>8, <4>2, <4>3
    <3> QED
      BY <1>6, <3>1
  <2>2. \A i \in DOMAIN hand : hand[i].resident = x => (Consumed(i)' <=> Consumed(i))
    BY <1>4, <1>5, <1>8
  <2>3. Woken(x)' <=> Woken(x)
    BY <1>2, <1>5, <2>2 DEF Woken
  <2>4. \A w : LoopItem(w)' = LoopItem(w)
    BY DEF LoopItem, Item, LoopKey
  <2>5. ASSUME Single(x)
        PROVE  Single(x)'
    <3>1. \A i \in DOMAIN hand' : hand'[i].resident = x =>
            Consumed(i)' \/ \E w \in DeferredOf(x)' : hand'[i] = LoopItem(w)
      BY <1>2, <1>5, <2>1, <2>2, <2>5 DEF Single
    <3>2. \A i, j \in DOMAIN hand' : hand'[i].resident = x /\ hand'[j].resident = x => i = j
      BY <1>2, <1>5, <2>5 DEF Single
    <3> QED
      BY <1>2, <1>5, <2>1, <2>3, <2>4, <2>5, <3>1, <3>2 DEF Single
  <2> QED
    BY <1>5, <2>1, <2>3, <2>5 DEF ChainOK, Chained, Employed
<1> QED
  BY <1>7, <1>8

\* Only its actor leads an activity that starts.
LEMMA StartedLeads ==
  ASSUME RInv, [Next]_vars, NEW r \in Requests, NEW f, NEW rv, Start(r, f, rv),
         NEW y \in Residents
  PROVE  IF y = r.actor THEN Leads(y)' ELSE Leads(y)' <=> Leads(y)
<1> USE DEF RInv, IInv
<1>1. /\ \A x \in Parties(r) : runtime[x].task = Idle /\ runtime'[x].task.inst = r
      /\ \A x \in Residents \ Parties(r) : runtime'[x] = runtime[x]
  BY StartWrites
<1>2. CASE y = r.actor
  <2>1. y \in Parties(r) /\ r # None
    BY <1>2, RequestFacts
  <2>2. TaskIntact(y)'
    BY NextInv DEF TasksIntact
  <2>3. runtime'[y].task # Idle
    BY <1>1, <2>1 DEF Idle
  <2>4. runtime'[y].task.act = ActivityOf(r.type)
    BY <1>1, <2>1, <2>2, <2>3 DEF TaskIntact, Half
  <2>5. runtime'[y].task.act # "IDLE"
    BY <2>4, RequestFacts, ActivityFacts
  <2> QED
    BY <1>1, <1>2, <2>1, <2>5 DEF Leads, IsIdle
<1>3. CASE y # r.actor /\ y \in Parties(r)
  BY <1>1, <1>3 DEF Leads, IsIdle, Idle
<1>4. CASE y # r.actor /\ y \notin Parties(r)
  <2>1. runtime'[y] = runtime[y]
    BY <1>1, <1>4
  <2> QED
    BY <1>4, <2>1 DEF Leads, IsIdle
<1> QED
  BY <1>2, <1>3, <1>4

\* A decision leaves the resident with an activity or a deferred decision.
LEMMA DecisionKeepsChain ==
  ASSUME StoryWorld, LoopTypes, Early, Decide, NEW x \in Residents, ChainOK(x)
  PROVE  ChainOK(x)'
<1> USE DEF StoryWorld, RInv, IInv
<1>1. PICK d : d = Head(hand).resident
  OBVIOUS
<1>2. /\ Decided(d) /\ pc = "deciding" /\ pc' = "handling"
      /\ hand' = Tail(hand) /\ UNCHANGED batch /\ hand # <<>>
  BY <1>1, DecisionShape DEF LoopTypes
<1>3. d \in Residents
  BY <1>1, <1>2, FirstItem
<1>4. [Next]_vars
  BY StoryStepSimulation DEF StoryNext
<1>5. /\ 1 \in DOMAIN hand /\ hand[1].resident = d /\ DOMAIN hand \subseteq Nat \ {0}
      /\ \A i : i \in DOMAIN hand' <=> i \in Nat \ {0} /\ i + 1 \in DOMAIN hand
      /\ \A i \in DOMAIN hand' : hand'[i] = hand[i + 1]
  BY <1>1, <1>2, RestOfHand
<1>6. /\ ~Ended(x) /\ ~Ended(x)' /\ Handling /\ Handling' /\ pc' # "completing"
      /\ \A i : Consumed(i) <=> hand[i].key = <<>> \/ i = 1
      /\ \A i : Consumed(i)' <=> hand'[i].key = <<>>
  BY <1>2 DEF Ended, Handling, Consumed
<1>7. PICK w0 : w0 = LoopWake(d, "DEFERRED_REPLAN", worldTime + IdleReconsideration, NextEpoch)
  OBVIOUS
<1>8. /\ w0.resident = d
      /\ \/ UNCHANGED vars /\ deferred' = deferred \cup {w0}
         \/ /\ \E r \in Requests : r.actor = d /\ \E rv : Start(r, lease, rv)
            /\ deferred' = deferred
  <2>1. worldTime \in Nat /\ Target \in Nat
    BY TimeAssumption, LoopAssumption DEF TypeOK, Times
  <2>2. worldTime + IdleReconsideration < Target
    BY <2>1, TimeAssumption, HorizonAssumption DEF Early, IdleReconsideration
  <2>3. ASSUME NEW c \in DraftOf(d)
        PROVE  FitsHorizon(c.type)
    <3>1. c \in FeasibleOf(d)
      BY DEF DraftOf, Draft, FeasibleOf
    <3>2. c.type \in ActionTypes
      BY <1>3, <3>1, DraftIsAccepted DEF LoopTypes
    <3>3. PICK k : k = HorizonTime(c.type)
      OBVIOUS
    <3>4. k \in 0 .. SleepTime
      BY <3>2, <3>3, HorizonAssumption
    <3>5. k <= Target - worldTime
      BY <2>1, <3>4, TimeAssumption DEF Early
    <3> QED
      BY <3>3, <3>5 DEF FitsHorizon
  <2>4. deferred \cup {LoopWake(d, "DEFERRED_REPLAN", u, NextEpoch) :
                         u \in {v \in {worldTime + IdleReconsideration} : v < Target}}
          = deferred \cup {w0}
    BY <1>7, <2>2
  <2>5. w0.resident = d
    BY <1>7 DEF LoopWake
  <2> QED
    BY <1>2, <2>3, <2>4, <2>5 DEF Decided
<1>9. CASE x = d
  <2>1. DeferredOf(x)' = DeferredOf(x) \cup {w0} \/ Leads(x)'
    <3>1. CASE deferred' = deferred \cup {w0}
      BY <1>8, <1>9, <3>1 DEF DeferredOf
    <3>2. ASSUME NEW r \in Requests, r.actor = d, NEW rv, Start(r, lease, rv)
          PROVE  Leads(x)'
      BY <1>4, <1>9, <3>2, StartedLeads
    <3> QED
      BY <1>8, <3>1, <3>2
  <2>2. Chained(x)'
    BY <2>1 DEF Chained
  <2>3. ASSUME Single(x)
        PROVE  Single(x)'
    <3>1. Woken(x)
      BY <1>2, <1>5, <1>6, <1>9 DEF Woken
    <3>2. ~Leads(x) /\ DeferredOf(x) = {}
      BY <2>3, <3>1 DEF Single
    <3>3. \A i \in DOMAIN hand' : hand'[i].resident # x
      <4> SUFFICES ASSUME NEW i \in DOMAIN hand', hand'[i].resident = x PROVE FALSE
        OBVIOUS
      <4>1. i \in Nat \ {0} /\ i + 1 \in DOMAIN hand /\ hand[i + 1].resident = x
        BY <1>5
      <4>2. i + 1 = 1
        BY <1>5, <1>6, <1>9, <2>3, <4>1 DEF Single
      <4> QED
        BY <4>1, <4>2
    <3>4. ~Woken(x)'
      BY <3>3 DEF Woken
    <3>5. \/ DeferredOf(x)' = {w0} /\ ~Leads(x)'
          \/ DeferredOf(x)' = {}
      <4>1. CASE UNCHANGED vars /\ deferred' = deferred \cup {w0}
        <5>1. Leads(x)' <=> Leads(x)
          BY <4>1 DEF vars, Leads, IsIdle
        <5>2. DeferredOf(x)' = DeferredOf(x) \cup {w0}
          BY <1>8, <1>9, <4>1 DEF DeferredOf
        <5> QED
          BY <3>2, <5>1, <5>2
      <4>2. CASE deferred' = deferred
        BY <3>2, <4>2 DEF DeferredOf
      <4> QED
        BY <1>8, <4>1, <4>2
    <3>6. \A v, w \in DeferredOf(x)' : v = w
      BY <3>5
    <3> QED
      BY <1>6, <3>3, <3>4, <3>5, <3>6 DEF Single
  <2> QED
    BY <2>2, <2>3 DEF ChainOK, Employed
<1>10. CASE x # d
  <2>1. DeferredOf(x)' = DeferredOf(x)
    BY <1>8, <1>10 DEF DeferredOf
  <2>2. Leads(x)' <=> Leads(x)
    <3>1. CASE UNCHANGED vars
      BY <3>1 DEF vars, Leads, IsIdle
    <3>2. ASSUME NEW r \in Requests, r.actor = d, NEW rv, Start(r, lease, rv)
          PROVE  Leads(x)' <=> Leads(x)
      BY <1>4, <1>10, <3>2, StartedLeads
    <3> QED
      BY <1>8, <3>1, <3>2
  <2>3. \A i \in DOMAIN hand : hand[i].resident = x =>
           i - 1 \in DOMAIN hand' /\ hand'[i - 1] = hand[i] /\ (Consumed(i) <=> hand[i].key = <<>>)
    <3> SUFFICES ASSUME NEW i \in DOMAIN hand, hand[i].resident = x
                 PROVE  /\ i - 1 \in DOMAIN hand' /\ hand'[i - 1] = hand[i]
                        /\ Consumed(i) <=> hand[i].key = <<>>
      OBVIOUS
    <3>1. i # 1 /\ i \in Nat \ {0}
      BY <1>5, <1>10
    <3>2. PICK k \in Nat \ {0} : k + 1 = i /\ i - 1 = k
      BY <3>1
    <3> QED
      BY <1>5, <1>6, <3>1, <3>2
  <2>4. Woken(x)' <=> Woken(x)
    <3>1. ASSUME Woken(x)
          PROVE  Woken(x)'
      <4>1. PICK i \in DOMAIN hand : hand[i].resident = x /\ Consumed(i)
        BY <3>1 DEF Woken
      <4>2. PICK k \in DOMAIN hand' : hand'[k] = hand[i] /\ hand[i].key = <<>>
        BY <2>3, <4>1
      <4> QED
        BY <1>6, <4>1, <4>2 DEF Woken
    <3>2. ASSUME Woken(x)'
          PROVE  Woken(x)
      <4>1. PICK k \in DOMAIN hand' : hand'[k].resident = x /\ hand'[k].key = <<>>
        BY <1>6, <3>2 DEF Woken
      <4>2. PICK i \in DOMAIN hand : hand'[k] = hand[i]
        BY <1>5
      <4> QED
        BY <1>6, <4>1, <4>2 DEF Woken
    <3> QED
      BY <3>1, <3>2
  <2>5. \A w : LoopItem(w)' = LoopItem(w)
    BY DEF LoopItem, Item, LoopKey
  <2>6. ASSUME Single(x)
        PROVE  Single(x)'
    <3>1. ASSUME NEW i \in DOMAIN hand', hand'[i].resident = x
          PROVE  Consumed(i)' \/ \E w \in DeferredOf(x) : hand'[i] = LoopItem(w)
      <4>1. i \in Nat \ {0} /\ i + 1 \in DOMAIN hand /\ hand'[i] = hand[i + 1]
        BY <1>5
      <4>2. PICK k \in DOMAIN hand : k = i + 1 /\ hand[k] = hand'[i] /\ hand[k].resident = x
        BY <3>1, <4>1
      <4>3. Consumed(k) \/ \E w \in DeferredOf(x) : hand[k] = LoopItem(w)
        BY <1>6, <2>6, <4>2 DEF Single
      <4>4. Consumed(k) <=> hand[k].key = <<>>
        BY <2>3, <4>2
      <4> QED
        BY <1>6, <4>2, <4>3, <4>4
    <3>2. ASSUME NEW i \in DOMAIN hand', NEW j \in DOMAIN hand',
                 hand'[i].resident = x, hand'[j].resident = x
          PROVE  i = j
      <4>1. i \in Nat /\ j \in Nat /\ i + 1 \in DOMAIN hand /\ j + 1 \in DOMAIN hand
        BY <1>5
      <4>2. hand[i + 1].resident = x /\ hand[j + 1].resident = x
        BY <1>5, <3>2
      <4>3. i + 1 = j + 1
        BY <1>6, <2>6, <4>1, <4>2 DEF Single
      <4> QED
        BY <4>1, <4>3
    <3>3. \A i \in DOMAIN hand' : hand'[i].resident = x =>
            Consumed(i)' \/ \E w \in DeferredOf(x)' : hand'[i] = LoopItem(w)
      BY <2>1, <3>1
    <3>4. \A i, j \in DOMAIN hand' : hand'[i].resident = x /\ hand'[j].resident = x => i = j
      BY <3>2
    <3> QED
      BY <1>6, <2>1, <2>2, <2>4, <2>5, <2>6, <3>3, <3>4 DEF Single
  <2> QED
    BY <1>6, <2>1, <2>2, <2>4, <2>6 DEF ChainOK, Chained, Employed
<1> QED
  BY <1>9, <1>10

\* What is early later was early before.
LEMMA EarlierIsEarly ==
  ASSUME NEW a \in Nat, NEW b \in Nat, NEW s \in Nat, NEW t \in Nat, b >= a, b + s <= t
  PROVE  a + s <= t
OBVIOUS

\* Every step of the loop keeps the chains of residents whole.
LEMMA ChainStep ==
  ASSUME StoryWorld, LoopTypes, ChainRows, ChainInv, [StoryNext]_storyVars
  PROVE  ChainInv'
<1> USE DEF StoryWorld, RInv, IInv
<1>1. [Next]_vars /\ worldTime \in Nat /\ worldTime' \in Nat /\ worldTime' >= worldTime
  <2>1. [Next]_vars
    BY StoryStepSimulation
  <2>2. IInv'
    BY <2>1, NextInv
  <2>3. worldTime' >= worldTime
    BY <2>1, LedgerStep
  <2> QED
    BY <2>1, <2>2, <2>3, TimeAssumption DEF TypeOK, Times
<1>2. Early' => Early
  <2>1. PICK a \in Nat, b \in Nat : a = worldTime /\ b = worldTime' /\ b >= a
    BY <1>1
  <2>2. SleepTime \in Nat /\ Target \in Nat
    BY TimeAssumption, LoopAssumption DEF Times
  <2>3. b + SleepTime <= Target => a + SleepTime <= Target
    BY <2>1, <2>2, EarlierIsEarly
  <2> QED
    BY <2>1, <2>3 DEF Early
<1>3. ASSUME pc \notin {"bootstrap", "lease"}, pc' \notin {"bootstrap", "lease"},
             Early' => \A x \in Residents : Early /\ ChainOK(x) => ChainOK(x)'
      PROVE  ChainInv'
  BY <1>2, <1>3 DEF ChainInv
<1>4. CASE Bootstrap
  BY <1>4 DEF Bootstrap, RegisterNextWakes, ChainInv
<1>5. CASE TakeLease
  <2>1. /\ pc = "lease" /\ pc' = "waiting" /\ runtime' = runtime
        /\ deferred' = {LoopWake(x, "INITIAL_DECISION", 0, 0) : x \in Residents}
    BY <1>5 DEF TakeLease, AcquireLease
  <2>2. ASSUME NEW x \in Residents
        PROVE  ChainOK(x)'
    <3>1. DeferredOf(x)' = {LoopWake(x, "INITIAL_DECISION", 0, 0)}
      BY <2>1 DEF DeferredOf, LoopWake
    <3>2. ~Leads(x)' /\ ~Ended(x)' /\ ~Woken(x)' /\ ~Handling'
      BY <2>1 DEF ChainInv, Leads, IsIdle, Idle, Ended, Woken, Handling
    <3>3. DeferredOf(x)' # {} /\ \A v, w \in DeferredOf(x)' : v = w
      BY <3>1
    <3> QED
      BY <2>1, <3>2, <3>3 DEF ChainOK, Chained, Single
  <2> QED
    BY <2>1, <2>2 DEF ChainInv
<1>6. CASE RunUntilNext
  <2>1. /\ pc = "waiting" /\ pc' \in {"failed", "completing"} /\ batch' = <<>>
        /\ UNCHANGED <<deferred, hand, runtime>>
    BY <1>6 DEF RunUntilNext, AdvanceWorldTimeTo, vars
  <2>2. ASSUME NEW x \in Residents, ChainOK(x)
        PROVE  ChainOK(x)'
    <3>1. /\ Leads(x)' <=> Leads(x)
          /\ DeferredOf(x)' = DeferredOf(x)
          /\ ~Ended(x) /\ ~Woken(x) /\ ~Woken(x)' /\ ~Handling' /\ DOMAIN batch' = {}
      BY <2>1 DEF Leads, IsIdle, DeferredOf, Ended, Woken, Handling
    <3>2. ~Ended(x)'
      BY <3>1 DEF Ended
    <3>3. Single(x) => Single(x)'
      BY <3>1, <3>2 DEF Single
    <3> QED
      BY <2>2, <3>1, <3>2, <3>3 DEF ChainOK, Chained, Employed
  <2> QED
    BY <1>3, <2>1, <2>2
<1>7. CASE CompleteNext
  <2>1. pc = "completing" /\ pc' = "completing"
    BY <1>7 DEF CompleteNext
  <2> QED
    BY <1>3, <1>7, <2>1, CompletionKeepsChain
<1>8. CASE DeliverStep
  <2>1. pc = "completing" /\ pc' = "handling"
    BY <1>8 DEF DeliverStep
  <2> QED
    BY <1>3, <1>8, <2>1, DeliveryKeepsChain DEF ChainRows
<1>9. CASE Acknowledge
  <2>1. pc = "handling" /\ pc' \in {"handling", "deciding"}
    BY <1>9 DEF Acknowledge
  <2> QED
    BY <1>3, <1>9, <2>1, AcknowledgeKeepsChain
<1>10. CASE Decide
  <2>1. pc = "deciding" /\ pc' = "handling"
    BY <1>10, DecisionShape
  <2> QED
    BY <1>3, <1>10, <2>1, DecisionKeepsChain
<1>11. CASE EndStep
  <2>1. /\ pc = "handling" /\ hand = <<>> /\ pc' \in {"waiting", "done", "failed"}
        /\ UNCHANGED <<deferred, hand, runtime>>
    BY <1>11 DEF EndStep, vars
  <2>2. ASSUME NEW x \in Residents, ChainOK(x)
        PROVE  ChainOK(x)'
    <3>1. /\ Leads(x)' <=> Leads(x)
          /\ DeferredOf(x)' = DeferredOf(x)
          /\ ~Ended(x) /\ ~Ended(x)' /\ ~Woken(x)' /\ ~Handling' /\ DOMAIN hand = {}
          /\ pc' # "completing"
      BY <2>1 DEF Leads, IsIdle, DeferredOf, Ended, Woken, Handling
    <3>2. ~Woken(x)
      BY <3>1 DEF Woken
    <3>3. Single(x) => Single(x)'
      BY <3>1, <3>2 DEF Single
    <3> QED
      BY <2>2, <3>1, <3>2, <3>3 DEF ChainOK, Chained, Employed
  <2> QED
    BY <1>3, <2>1, <2>2
<1>12. CASE Finished \/ UNCHANGED storyVars
  <2>1. UNCHANGED <<pc, batch, hand, deferred, runtime, worldTime>>
    BY <1>12 DEF Finished, storyVars, loop, vars
  <2>2. CASE pc \in {"bootstrap", "lease"}
    BY <2>1, <2>2 DEF ChainInv
  <2>3. CASE pc \notin {"bootstrap", "lease"}
    <3>1. ASSUME NEW x \in Residents, ChainOK(x)
          PROVE  ChainOK(x)'
      <4>1. /\ Leads(x)' <=> Leads(x)
            /\ DeferredOf(x)' = DeferredOf(x)
            /\ Ended(x)' <=> Ended(x)
            /\ Handling' <=> Handling
            /\ \A i : Consumed(i)' <=> Consumed(i)
            /\ \A w : LoopItem(w)' = LoopItem(w)
        BY <2>1 DEF Leads, IsIdle, DeferredOf, Ended, Handling, Consumed, LoopItem, Item, LoopKey
      <4>2. Woken(x)' <=> Woken(x)
        BY <2>1, <4>1 DEF Woken
      <4>3. Single(x) => Single(x)'
        BY <2>1, <4>1, <4>2 DEF Single
      <4> QED
        BY <3>1, <4>1, <4>2, <4>3 DEF ChainOK, Chained, Employed
    <3> QED
      BY <1>3, <2>1, <2>3, <3>1
  <2> QED
    BY <2>2, <2>3
<1> QED
  BY <1>4, <1>5, <1>6, <1>7, <1>8, <1>9, <1>10, <1>11, <1>12 DEF StoryNext

\* The rows the chains are counted in stay countable.
LEMMA ChainRowsStep ==
  ASSUME StoryWorld, LoopTypes, ChainRows, [StoryNext]_storyVars
  PROVE  ChainRows'
<1> USE DEF StoryWorld, RInv, IInv
<1>1. WakesOfEmployees'
  BY StoryStepSimulation, EmployeesStep DEF ChainRows
<1>2. ASSUME NEW x \in Residents
      PROVE  IsFiniteSet(DeferredOf(x)')
  <2>1. IsFiniteSet(DeferredOf(x))
    BY DEF ChainRows
  <2>2. CASE TakeLease
    <3>1. DeferredOf(x)' = {LoopWake(x, "INITIAL_DECISION", 0, 0)}
      BY <2>2 DEF TakeLease, DeferredOf, LoopWake
    <3> QED
      BY <3>1, FS_Singleton
  <2>3. CASE Decide
    <3>1. \E w : deferred' \subseteq deferred \cup {w}
      <4>1. PICK d : d = Head(hand).resident /\ Decided(d)
        BY <2>3, DecisionShape
      <4> QED
        BY <4>1 DEF Decided
    <3>2. PICK w : deferred' \subseteq deferred \cup {w}
      BY <3>1
    <3>3. DeferredOf(x)' \subseteq DeferredOf(x) \cup {w}
      BY <3>2 DEF DeferredOf
    <3>4. IsFiniteSet(DeferredOf(x) \cup {w})
      BY <2>1, FS_AddElement
    <3> QED
      BY <3>3, <3>4, FS_Subset
  <2>4. CASE deferred' \subseteq deferred
    <3>1. DeferredOf(x)' \subseteq DeferredOf(x)
      BY <2>4 DEF DeferredOf
    <3> QED
      BY <2>1, <3>1, FS_Subset
  <2> QED
    BY <2>2, <2>3, <2>4
       DEF StoryNext, Bootstrap, RunUntilNext, CompleteNext, DeliverStep, Acknowledge, EndStep,
           Finished, storyVars, loop
<1> QED
  BY <1>1, <1>2 DEF ChainRows

(***************************************************************************)
(* Nobody is forgotten: until a night before the target every resident     *)
(* leads an activity or has a deferred decision, and who has no job has    *)
(* exactly one of the two, so that it is asked once per instant.           *)
(***************************************************************************)
THEOREM EverybodyIsWoken == StorySpec => []NobodyIsForgotten
<1>1. StoryInit => ChainRows /\ ChainInv
  <2> SUFFICES ASSUME StoryInit PROVE ChainRows /\ ChainInv
    OBVIOUS
  <2>1. wakes = {} /\ deferred = {} /\ pc = "bootstrap"
        /\ \A x \in Residents : runtime[x].task = Idle
    BY DEF StoryInit, Init
  <2>2. \A x : DeferredOf(x) = {}
    BY <2>1 DEF DeferredOf
  <2> QED
    BY <2>1, <2>2, FS_EmptySet DEF ChainRows, WakesOfEmployees, ChainInv
<1>2. ChainRows /\ ChainInv => NobodyIsForgotten
  <2> SUFFICES ASSUME ChainRows, ChainInv, pc = "waiting", Early, NEW x \in Residents,
                      NEW n, n = Cardinality(DeferredOf(x)) + (IF Leads(x) THEN 1 ELSE 0)
               PROVE  n >= 1 /\ (Employed(x) \/ n = 1)
    BY DEF NobodyIsForgotten, Early, DeferredOf
  <2>1. Leads(x) \/ DeferredOf(x) # {}
    BY DEF ChainInv, ChainOK, Chained, Ended, Woken, Handling
  <2>2. PICK c : c = Cardinality(DeferredOf(x))
    OBVIOUS
  <2>3. c \in Nat /\ (c = 0 <=> DeferredOf(x) = {})
    <3>1. IsFiniteSet(DeferredOf(x))
      BY DEF ChainRows
    <3> QED
      BY <2>2, <3>1, FS_CardinalityType, FS_EmptySet
  <2>4. n >= 1
    BY <2>1, <2>2, <2>3
  <2>5. ASSUME ~Employed(x)
        PROVE  n = 1
    <3>1. /\ \A v, w \in DeferredOf(x) : v = w
          /\ Leads(x) => DeferredOf(x) = {}
      BY <2>5 DEF ChainInv, ChainOK, Single
    <3>2. CASE Leads(x)
      BY <2>2, <2>3, <3>1, <3>2
    <3>3. CASE ~Leads(x)
      <4>1. PICK w : DeferredOf(x) = {w}
        BY <2>1, <3>1, <3>3
      <4>2. c = 1
        BY <2>2, <4>1, FS_Singleton
      <4> QED
        BY <2>2, <3>3, <4>2
    <3> QED
      BY <3>2, <3>3
  <2> QED
    BY <2>4, <2>5
<1> QED
  BY <1>1, <1>2, ChainStep, ChainRowsStep, LoopIsTyped, PTL DEF StorySpec

-----------------------------------------------------------------------------
(* Nothing due is passed by *)

\* Nothing has happened before the loop begins.
FreshWorld == pc \in {"bootstrap", "lease"} => worldTime = 0 /\ ledger = <<>>

\* What there is to wait for is finite, so it has a first instant.
FiniteRows == IsFiniteSet(wakes) /\ IsFiniteSet(deferred)

\* The inductive form of NothingDueIsPassedBy.
DueInv == FreshWorld /\ FiniteRows /\ NothingDueIsPassedBy

\* The loop stops no later than anything is due.
LEMMA NextStopIsFirst ==
  ASSUME StoryWorld, LoopTypes, FiniteRows
  PROVE  /\ NextStop \in Int /\ NextStop \in DueTimes \cup {Target} /\ NextStop <= Target
         /\ \A x \in Busy : NextStop <= runtime[x].task.due
         /\ \A w \in wakes \cup deferred : NextStop <= w.due
<1> USE DEF StoryWorld, RInv, IInv
<1> DEFINE ends  == {runtime[x].task.due : x \in Busy}
           rows  == wakes \cup deferred
           calls == {w.due : w \in rows}
           all   == DueTimes \cup {Target}
<1>1. IsFiniteSet(ends)
  <2>1. IsFiniteSet(Busy)
    <3>1. Busy \in SUBSET Residents
      BY DEF Busy
    <3> QED
      BY <3>1, LoopAssumption, FS_Subset
  <2> DEFINE f == [x \in Busy |-> runtime[x].task.due]
  <2>2. ends = {f[x] : x \in Busy}
    OBVIOUS
  <2> HIDE DEF f, ends
  <2> QED
    BY <2>1, <2>2, ImageFinite
<1>2. IsFiniteSet(calls)
  <2>1. IsFiniteSet(rows)
    BY FS_Union DEF FiniteRows
  <2> DEFINE f == [w \in rows |-> w.due]
  <2>2. calls = {f[w] : w \in rows}
    OBVIOUS
  <2> HIDE DEF f, calls, rows
  <2> QED
    BY <2>1, <2>2, ImageFinite
<1>3. all = (ends \cup calls) \cup {Target}
  BY DEF DueTimes
<1>4. IsFiniteSet(all)
  <2> HIDE DEF ends, calls, all
  <2>1. IsFiniteSet(ends \cup calls)
    BY <1>1, <1>2, FS_Union
  <2> QED
    BY <1>3, <2>1, FS_AddElement
<1>5. all \in SUBSET Int /\ all # {}
  <2>1. \A x \in Busy : runtime[x].task.due \in Nat
    BY DEF Busy, IsIdle, Idle, DuesAreTimes
  <2>2. \A w \in rows : w.due \in Int
    BY DEF TypeOK, LoopTypes, WakeRows, LoopWakes
  <2>3. Target \in Int
    BY TimeAssumption, LoopAssumption DEF Times
  <2> HIDE DEF rows, all
  <2> QED
    BY <1>3, <2>1, <2>2, <2>3
<1>6. NextStop = Min(all)
  BY DEF NextStop
<1>7. Min(all) \in all /\ \A t \in all : Min(all) <= t
  <2> HIDE DEF all
  <2>1. \E m \in all : \A t \in all : m <= t
    BY <1>4, <1>5, LeastOfFinite
  <2> QED
    BY <2>1 DEF Min
<1> QED
  BY <1>3, <1>5, <1>6, <1>7

\* Wakes that a start or a completion registers bear its position and time.
LEMMA RegisteredNow ==
  ASSUME TypeOK, NEW r \in Requests,
         \/ \E f, rv : Start(r, f, rv)
         \/ \E f, v : Complete(r, f, v),
         NEW w \in wakes', w \notin wakes
  PROVE  RegisteredAt(w)' = worldTime
<1>1. PICK type, f : Commit(type, r, worldTime, f)
  BY DEF Start, Complete
<1>2. \/ w \in BoundaryWake(r.actor, runtime[r.actor].version + 1, worldSeq + 1)
      \/ w \in PreparationWake(r.actor, runtime[r.actor].task.target,
                               runtime[r.actor].version + 1, worldSeq + 1)
  BY DEF Start, Complete, WakesAfterStart, WakesAfterCompletion, Upsert
<1>3. w.seq = worldSeq + 1
  BY <1>2 DEF BoundaryWake, PreparationWake, Wake
<1>4. worldSeq \in Nat /\ ledger'[worldSeq + 1].at = worldTime
  BY <1>1, AppendEntries
<1> QED
  BY <1>3, <1>4 DEF RegisteredAt

\* A start or a completion registers two wakes at most.
LEMMA FewWakes ==
  ASSUME NEW r, IsFiniteSet(wakes),
         \/ \E f, rv : Start(r, f, rv)
         \/ \E f, v : Complete(r, f, v)
  PROVE  IsFiniteSet(wakes')
<1>1. \E a, b : wakes' \subseteq (wakes \cup {a}) \cup {b}
  <2>1. \A x, version, seq : \E a : BoundaryWake(x, version, seq) \subseteq {a}
    BY DEF BoundaryWake
  <2>2. \A x, loc, version, seq : \E b : PreparationWake(x, loc, version, seq) \subseteq {b}
    BY DEF PreparationWake
  <2>3. \E x, loc, version, seq :
          wakes' \subseteq wakes \cup BoundaryWake(x, version, seq)
                             \cup PreparationWake(x, loc, version, seq)
    BY DEF Start, Complete, WakesAfterStart, WakesAfterCompletion, Upsert
  <2> QED
    BY <2>1, <2>2, <2>3
<1>2. PICK a, b : wakes' \subseteq (wakes \cup {a}) \cup {b}
  BY <1>1
<1>3. IsFiniteSet((wakes \cup {a}) \cup {b})
  <2>1. IsFiniteSet(wakes \cup {a})
    BY FS_AddElement
  <2> QED
    BY <2>1, FS_AddElement
<1> QED
  BY <1>2, <1>3, FS_Subset

\* A wake keeps the time it was registered at.
LEMMA RegisteredStays ==
  ASSUME StoryWorld, WakesDescribeTheirCommit, [Next]_vars, NEW w \in wakes
  PROVE  RegisteredAt(w)' = RegisteredAt(w)
<1> USE DEF StoryWorld, RInv, IInv
<1>1. w.seq \in Nat /\ w.seq <= worldSeq
  BY DEF TypeOK, WakeRows, WakesDescribeTheirCommit
<1>2. CASE ledger' = ledger
  BY <1>2 DEF RegisteredAt
<1>3. ASSUME NEW type, NEW r, NEW at, NEW f, Commit(type, r, at, f)
      PROVE  RegisteredAt(w)' = RegisteredAt(w)
  <2>1. worldSeq \in Nat /\ \A i \in 1 .. worldSeq : ledger'[i] = ledger[i]
    BY <1>3, AppendEntries
  <2>2. w.seq # 0 => w.seq \in 1 .. worldSeq
    BY <1>1, <2>1
  <2> QED
    BY <2>1, <2>2 DEF RegisteredAt
<1> QED
  BY <1>2, <1>3, LedgerStep

\* While world time stands still, nothing due is passed by.
LEMMA InstantKeepsDue ==
  ASSUME StoryWorld, LoopTypes, WakesDescribeTheirCommit, NothingDueIsPassedBy, [Next]_vars,
         TypeOK', LoopTypes', worldTime' = worldTime,
         \A w \in wakes' : w \in wakes \/ RegisteredAt(w)' = worldTime,
         \A w \in deferred' : w \in deferred \/ w.due >= worldTime
  PROVE  NothingDueIsPassedBy'
<1> USE DEF StoryWorld, RInv, IInv
<1>1. worldTime \in Nat
  BY TimeAssumption DEF TypeOK, Times
<1>2. ASSUME NEW x \in Busy'
      PROVE  runtime'[x].task.due >= worldTime
  <2>1. x \in Residents /\ runtime'[x].task # Idle
    BY <1>2 DEF Busy, IsIdle, Idle
  <2>2. CASE runtime'[x] = runtime[x]
    <3>1. x \in Busy
      BY <1>2, <2>1, <2>2 DEF Busy, IsIdle
    <3> QED
      BY <2>2, <3>1 DEF NothingDueIsPassedBy
  <2>3. CASE runtime'[x].task.due \in Nat /\ runtime'[x].task.due > worldTime
    BY <1>1, <2>3
  <2> QED
    BY <2>1, <2>2, <2>3, BusyKept
<1>3. \A w \in deferred' : w.due >= worldTime
  BY DEF NothingDueIsPassedBy
<1>4. ASSUME NEW w \in wakes'
      PROVE  w.due >= worldTime \/ w.due < RegisteredAt(w)'
  <2>1. CASE w \in wakes
    BY <2>1, RegisteredStays DEF NothingDueIsPassedBy
  <2>2. CASE RegisteredAt(w)' = worldTime
    <3>1. w.due \in Int
      BY DEF TypeOK, WakeRows
    <3> QED
      BY <1>1, <2>2, <3>1
  <2> QED
    BY <2>1, <2>2
<1> QED
  BY <1>2, <1>3, <1>4 DEF NothingDueIsPassedBy

\* World time moves to the first thing due and no further.
LEMMA AdvanceKeepsDue ==
  ASSUME StoryWorld, LoopTypes, WakesDescribeTheirCommit, DueInv, RunUntilNext, [Next]_vars
  PROVE  NothingDueIsPassedBy'
<1> USE DEF StoryWorld, RInv, IInv
<1>1. deferred' = deferred
  BY DEF RunUntilNext
<1>2. CASE UNCHANGED vars
  <2>1. UNCHANGED <<worldTime, runtime, wakes, ledger>>
    BY <1>2 DEF vars
  <2> QED
    BY <1>1, <2>1 DEF DueInv, NothingDueIsPassedBy, Busy, IsIdle, RegisteredAt
<1>3. ASSUME NextStop > worldTime, NEW t \in Times \cap {NextStop}, AdvanceWorldTimeTo(t, lease)
      PROVE  NothingDueIsPassedBy'
  <2>1. worldTime' = t /\ t = NextStop /\ UNCHANGED <<runtime, wakes>>
    BY <1>3 DEF AdvanceWorldTimeTo
  <2>2. /\ \A x \in Busy : t <= runtime[x].task.due
        /\ \A w \in wakes \cup deferred : t <= w.due
    BY <2>1, NextStopIsFirst DEF DueInv
  <2>3. t \in Int
    BY <2>1, NextStopIsFirst DEF DueInv
  <2>4. \A x \in Busy : runtime[x].task.due \in Int
    BY DEF Busy, IsIdle, Idle, DuesAreTimes
  <2>5. \A w \in wakes \cup deferred : w.due \in Int
    BY DEF TypeOK, LoopTypes, WakeRows, LoopWakes
  <2>6. Busy' = Busy
    BY <2>1 DEF Busy, IsIdle
  <2> QED
    BY <1>1, <2>1, <2>2, <2>3, <2>4, <2>5, <2>6 DEF NothingDueIsPassedBy
<1> QED
  BY <1>2, <1>3 DEF RunUntilNext

\* The wakes registered at bootstrap are finitely many and of the beginning.
LEMMA BootstrapWakes ==
  ASSUME TypeOK, FreshWorld, IsFiniteSet(wakes), Bootstrap
  PROVE  /\ IsFiniteSet(wakes')
         /\ \A w \in wakes' : w \in wakes \/ RegisteredAt(w)' = 0
<1> DEFINE prepared(x) == PreparationWake(x, runtime[x].loc, runtime[x].version, worldSeq)
           bound(x) == BoundaryWake(x, runtime[x].version, worldSeq)
           first == [x \in Residents |-> CHOOSE a : bound(x) \subseteq {a}]
           second == [x \in Residents |-> CHOOSE a : prepared(x) \subseteq {a}]
           firsts == {first[x] : x \in Residents}
           seconds == {second[x] : x \in Residents}
<1>1. \A w \in wakes' : w \in wakes \/ \E x \in Residents : w \in bound(x) \/ w \in prepared(x)
  BY DEF Bootstrap, RegisterNextWakes, Upsert
<1>2. ledger' = <<>> /\ worldSeq = 0
  BY DEF Bootstrap, RegisterNextWakes, FreshWorld, worldSeq
<1>3. \A x : /\ \E a : bound(x) \subseteq {a}
             /\ \E a : prepared(x) \subseteq {a}
             /\ \A w \in bound(x) \cup prepared(x) : w.seq = worldSeq
  BY DEF BoundaryWake, PreparationWake, Wake
<1> HIDE DEF prepared, bound
<1>4. \A x \in Residents : bound(x) \subseteq {first[x]} /\ prepared(x) \subseteq {second[x]}
  BY <1>3
<1> HIDE DEF first, second
<1>5. IsFiniteSet((wakes \cup firsts) \cup seconds)
  <2>1. IsFiniteSet(firsts) /\ IsFiniteSet(seconds)
    BY LoopAssumption, ImageFinite
  <2> HIDE DEF firsts, seconds
  <2>2. IsFiniteSet(wakes \cup firsts)
    BY <2>1, FS_Union
  <2> QED
    BY <2>1, <2>2, FS_Union
<1>6. wakes' \in SUBSET ((wakes \cup firsts) \cup seconds)
  BY <1>1, <1>4
<1>7. IsFiniteSet(wakes')
  <2> HIDE DEF firsts, seconds
  <2> QED
    BY <1>5, <1>6, FS_Subset
<1>8. \A w \in wakes' : w \in wakes \/ RegisteredAt(w)' = 0
  BY <1>1, <1>2, <1>3 DEF RegisteredAt
<1> QED
  BY <1>7, <1>8

\* Every step of the loop lets nothing due be passed by.
LEMMA DueStep ==
  ASSUME StoryWorld, LoopTypes, WakesDescribeTheirCommit, DueInv, [StoryNext]_storyVars
  PROVE  DueInv'
<1> USE DEF StoryWorld, RInv, IInv
<1>1. [Next]_vars /\ TypeOK' /\ LoopTypes' /\ worldTime \in Nat
  BY StoryStepSimulation, NextInv, LoopTypesStep, TimeAssumption DEF TypeOK, Times
<1>2. ASSUME worldTime' = worldTime, FreshWorld',
             IsFiniteSet(wakes'), IsFiniteSet(deferred'),
             \A w \in wakes' : w \in wakes \/ RegisteredAt(w)' = worldTime,
             \A w \in deferred' : w \in deferred \/ w.due >= worldTime
      PROVE  DueInv'
  BY <1>1, <1>2, InstantKeepsDue DEF DueInv, FiniteRows
<1>3. CASE Bootstrap
  <2>1. /\ worldTime = 0 /\ UNCHANGED <<worldTime, ledger, deferred>>
        /\ pc = "bootstrap"
    BY <1>3 DEF Bootstrap, RegisterNextWakes, DueInv, FreshWorld
  <2>2. FreshWorld'
    BY <2>1 DEF DueInv, FreshWorld
  <2> QED
    BY <1>2, <1>3, <2>1, <2>2, BootstrapWakes DEF DueInv, FiniteRows
<1>4. CASE TakeLease
  <2>1. /\ pc = "lease" /\ pc' = "waiting" /\ UNCHANGED <<worldTime, wakes>>
        /\ deferred' = {LoopWake(x, "INITIAL_DECISION", 0, 0) : x \in Residents}
    BY <1>4 DEF TakeLease, AcquireLease
  <2>2. worldTime = 0
    BY <2>1 DEF DueInv, FreshWorld
  <2>3. \A w \in deferred' : w.due = 0
    BY <2>1 DEF LoopWake
  <2>4. IsFiniteSet(deferred')
    <3> DEFINE f == [x \in Residents |-> LoopWake(x, "INITIAL_DECISION", 0, 0)]
    <3>1. deferred' = {f[x] : x \in Residents}
      BY <2>1
    <3> HIDE DEF f
    <3> QED
      BY <3>1, LoopAssumption, ImageFinite
  <2>5. \A w \in deferred' : w.due >= worldTime
    BY <2>2, <2>3
  <2> QED
    BY <1>2, <2>1, <2>4, <2>5 DEF DueInv, FiniteRows, FreshWorld
<1>5. CASE RunUntilNext
  <2>1. /\ pc = "waiting" /\ pc' \in {"failed", "completing"}
        /\ UNCHANGED <<wakes, deferred>>
    BY <1>5 DEF RunUntilNext, AdvanceWorldTimeTo, vars
  <2>2. NothingDueIsPassedBy'
    BY <1>1, <1>5, AdvanceKeepsDue
  <2> QED
    BY <2>1, <2>2 DEF DueInv, FiniteRows, FreshWorld
<1>6. CASE CompleteNext
  <2>1. PICK z \in DueActors, r \in requests, n \in Nat :
           /\ Complete(r, lease, runtime[z].version)
           /\ pc = "completing" /\ UNCHANGED <<pc, deferred>>
    BY <1>6, CompletionShape
  <2>2. r \in Requests /\ worldTime' = worldTime
    BY <2>1 DEF TypeOK, Complete
  <2>3. IsFiniteSet(wakes') /\ \A w \in wakes' : w \in wakes \/ RegisteredAt(w)' = worldTime
    BY <2>1, <2>2, FewWakes, RegisteredNow DEF DueInv, FiniteRows
  <2> QED
    BY <1>2, <2>1, <2>2, <2>3 DEF DueInv, FiniteRows, FreshWorld
<1>7. CASE Acknowledge
  <2>1. /\ pc = "handling" /\ pc' \in {"handling", "deciding"} /\ worldTime' = worldTime
        /\ wakes' \subseteq wakes /\ deferred' \subseteq deferred
    BY <1>7 DEF Acknowledge
  <2>2. IsFiniteSet(wakes') /\ IsFiniteSet(deferred')
    BY <2>1, FS_Subset DEF DueInv, FiniteRows
  <2> QED
    BY <1>2, <2>1, <2>2 DEF FreshWorld
<1>8. CASE Decide
  <2>1. PICK x : Decided(x) /\ pc = "deciding" /\ pc' = "handling"
    BY <1>8, DecisionShape
  <2>2. worldTime' = worldTime
    BY <2>1 DEF Decided, Start, vars
  <2>3. IsFiniteSet(wakes') /\ \A w \in wakes' : w \in wakes \/ RegisteredAt(w)' = worldTime
    <3>1. CASE UNCHANGED vars
      BY <3>1 DEF vars, DueInv, FiniteRows
    <3>2. CASE ~UNCHANGED vars
      <4>1. PICK r \in Requests : \E f, rv : Start(r, f, rv)
        BY <2>1, <3>2 DEF Decided
      <4> QED
        BY <4>1, FewWakes, RegisteredNow DEF DueInv, FiniteRows
    <3> QED
      BY <3>1, <3>2
  <2>4. \A w \in deferred' : w \in deferred \/ w.due >= worldTime
    <3>1. \A w \in deferred' : w \in deferred \/ w.due = worldTime + IdleReconsideration
      BY <2>1 DEF Decided, LoopWake
    <3> QED
      BY <1>1, <3>1 DEF IdleReconsideration
  <2>5. IsFiniteSet(deferred')
    <3>1. \E w : deferred' \subseteq deferred \cup {w}
      BY <2>1 DEF Decided
    <3>2. PICK w : deferred' \subseteq deferred \cup {w}
      BY <3>1
    <3>3. IsFiniteSet(deferred \cup {w})
      BY FS_AddElement DEF DueInv, FiniteRows
    <3> QED
      BY <3>2, <3>3, FS_Subset
  <2> QED
    BY <1>2, <2>1, <2>2, <2>3, <2>4, <2>5 DEF FreshWorld
<1>9. CASE DeliverStep \/ EndStep
  <2>1. /\ pc \in {"completing", "handling"} /\ pc' \notin {"bootstrap", "lease"}
        /\ UNCHANGED <<worldTime, wakes, deferred>>
    BY <1>9 DEF DeliverStep, EndStep, vars
  <2> QED
    BY <1>2, <2>1 DEF DueInv, FiniteRows, FreshWorld
<1>10. CASE Finished \/ UNCHANGED storyVars
  <2>1. UNCHANGED <<pc, worldTime, ledger, wakes, deferred>>
    BY <1>10 DEF Finished, storyVars, loop, vars
  <2> QED
    BY <1>2, <2>1 DEF DueInv, FiniteRows, FreshWorld
<1> QED
  BY <1>3, <1>4, <1>5, <1>6, <1>7, <1>8, <1>9, <1>10 DEF StoryNext

\* In the beginning nothing is due.
LEMMA InitDueInv == StoryInit => DueInv
<1> SUFFICES ASSUME StoryInit PROVE DueInv
  OBVIOUS
<1>1. /\ wakes = {} /\ deferred = {} /\ worldTime = 0 /\ ledger = <<>>
      /\ \A x \in Residents : runtime[x].task = Idle
  BY DEF StoryInit, Init
<1>2. Busy = {}
  BY <1>1 DEF Busy, IsIdle, Idle
<1> QED
  BY <1>1, <1>2, FS_EmptySet DEF DueInv, FreshWorld, FiniteRows, NothingDueIsPassedBy

(***************************************************************************)
(* Nothing due is passed by, for any street and calendar: world time stops *)
(* at the end of every activity, at every decision and at every wake that  *)
(* was registered before its minute was over.                              *)
(***************************************************************************)
THEOREM TimeStopsAtEverythingDue == StorySpec => []NothingDueIsPassedBy
<1>1. StoryInit => DueInv
  BY InitDueInv
<1>2. StoryWorld /\ LoopTypes /\ WakesDescribeTheirCommit /\ DueInv /\ [StoryNext]_storyVars
        => DueInv'
  BY DueStep
<1>3. DueInv => NothingDueIsPassedBy
  BY DEF DueInv
<1>4. StorySpec => []WakesDescribeTheirCommit
  BY StoryRunsTheKernel, WakesAreSnapshots, PTL
<1> QED
  BY <1>1, <1>2, <1>3, <1>4, LoopIsTyped, PTL DEF StorySpec
-----------------------------------------------------------------------------
(* The end of the week: as long as no wake is registered too late, the endpoint check of
   the gate finds nothing active and nothing due *)

\* The activities of a step are of different actors, who are free again.
BatchIsFree ==
  pc = "completing" =>
    \A i \in DOMAIN batch :
      /\ IsIdle(batch[i].inst.actor)
      /\ \A j \in DOMAIN batch : batch[i].inst.actor = batch[j].inst.actor => i = j

(***************************************************************************)
(* The inductive form of EndpointHolds: decisions are made before the      *)
(* target only, what they start ends by then, what they defer lies before  *)
(* it, no wake falls on it, and the step that reaches it ends everything.  *)
(***************************************************************************)
EndInv ==
  /\ pc # "failed" /\ worldTime <= Target
  /\ pc \in {"bootstrap", "lease", "waiting", "deciding"} => worldTime < Target
  /\ \A x \in Busy : runtime[x].task.due <= Target
  /\ \A w \in deferred : w.due < Target
  /\ \A w \in wakes : w.due # Target
  /\ BatchIsFree
  /\ worldTime = Target /\ pc = "handling" => Busy = {}

\* The target is a world time after the beginning.
LEMMA TargetIsTime == Target \in Nat /\ Target > 0
BY TimeAssumption, LoopAssumption DEF Times

\* No wake that the kernel registers falls on the target.
LEMMA WakesMissTarget ==
  ASSUME TypeOK, NEW x \in Residents, NEW version, NEW seq
  PROVE  /\ \A w \in BoundaryWake(x, version, seq) : w.due # Target
         /\ \A loc \in Locations :
              \A w \in PreparationWake(x, loc, version, seq) : w.due # Target
<1>1. PICK s : s = NextShift(worldTime)
  OBVIOUS
<1>2. s \in ShiftStarts /\ s \in Nat
  BY <1>1, NextShiftLater DEF TypeOK
<1>3. CASE Workplace[x] = None
  BY <1>3 DEF BoundaryWake, PreparationWake
<1>4. CASE Workplace[x] # None
  <2>1. Workplace[x] \in Locations
    BY <1>4, PlaceAssumption
  <2>2. \A loc \in Locations : TravelTime[loc][Workplace[x]] \in Nat \ {0}
    BY <2>1, PlaceAssumption
  <2>3. s < Target \/ \A loc \in Locations : s - TravelTime[loc][Workplace[x]] > Target
    BY <1>2, <2>1, EndpointAssumption
  <2>4. \A loc \in Locations : s - TravelTime[loc][Workplace[x]] # Target /\ s # Target
    BY <1>2, <2>2, <2>3, TargetIsTime
  <2>5. s # Target
    BY <2>1, <2>4
  <2>6. \A w \in BoundaryWake(x, version, seq) : w.due = s
    BY <1>1 DEF BoundaryWake, Wake
  <2>7. \A loc : \A w \in PreparationWake(x, loc, version, seq) :
           w.due = s - TravelTime[loc][Workplace[x]]
    BY <1>1 DEF PreparationWake, Wake
  <2> QED
    BY <2>4, <2>5, <2>6, <2>7
<1> QED
  BY <1>3, <1>4

\* What the loop submits ends by the target.
LEMMA SubmittedEnds ==
  ASSUME TypeOK, NEW r \in Requests, FitsHorizon(r.type)
  PROVE  worldTime + Duration(r) <= Target
<1>1. PICK type : type = r.type
  OBVIOUS
<1>2. type \in ActionTypes /\ r.actor \in Residents
  BY <1>1, RequestAssumption
<1>3. Duration(r) \in Nat /\ HorizonTime(type) \in Nat /\ worldTime \in Nat
  <2>1. SleepTime \in Nat
    BY TimeAssumption
  <2>2. HorizonTime(type) \in Nat
    BY <1>2, <2>1, HorizonAssumption
  <2> QED
    BY <2>2, DurationFacts, TimeAssumption DEF TypeOK, Times
<1>4. Duration(r) <= HorizonTime(type)
  <2>1. CASE type = "MOVE"
    <3>1. runtime[r.actor].loc \in Locations /\ r.arg \in Locations
      BY <1>1, <1>2, <2>1, RequestAssumption DEF TypeOK, RuntimeRows
    <3>2. Duration(r) = TravelTime[runtime[r.actor].loc][r.arg]
      BY <1>1, <2>1 DEF Duration
    <3> QED
      BY <2>1, <3>1, <3>2, EndpointAssumption
  <2>2. CASE type # "MOVE"
    <3>1. \/ type = "SLEEP" /\ Duration(r) = SleepTime
          \/ type = "EAT" /\ Duration(r) = EatTime
          \/ type = "WORK" /\ Duration(r) = ShiftTime
          \/ type = "TALK" /\ Duration(r) = TalkTime
      BY <1>1, <1>2, <2>2 DEF ActionTypes, Duration
    <3> QED
      BY <1>3, <3>1, EndpointAssumption
  <2> QED
    BY <2>1, <2>2
<1>5. HorizonTime(type) <= Target - worldTime
  BY <1>1 DEF FitsHorizon
<1> QED
  BY <1>3, <1>4, <1>5, TargetIsTime

\* Neither does one that a start registers,
LEMMA StartsMissTarget ==
  ASSUME TypeOK, NEW r \in Requests, NEW f, NEW rv, Start(r, f, rv), NEW w \in wakes',
         w \notin wakes
  PROVE  w.due # Target
<1>1. w \in BoundaryWake(r.actor, runtime[r.actor].version + 1, worldSeq + 1)
  BY DEF Start, WakesAfterStart, Upsert
<1> QED
  BY <1>1, WakesMissTarget, RequestFacts

\* nor one that a completion registers.
LEMMA CompletionsMissTarget ==
  ASSUME IInv, NEW r \in requests, NEW f, NEW v, Complete(r, f, v), NEW w \in wakes',
         w \notin wakes
  PROVE  w.due # Target
<1> DEFINE x == r.actor
<1>1. /\ r \in Requests /\ x \in Residents
      /\ r.type = "MOVE" => runtime[x].task.target \in Locations
  <2>1. /\ r \in Requests
        /\ r.type = "MOVE" => runtime[x].task.target = r.arg
    BY CompletedActivity DEF Complete
  <2> QED
    BY <2>1, RequestAssumption
<1>2. \/ w \in BoundaryWake(x, runtime[x].version + 1, worldSeq + 1)
      \/ /\ r.type = "MOVE"
         /\ w \in PreparationWake(x, runtime[x].task.target, runtime[x].version + 1, worldSeq + 1)
  BY DEF Complete, WakesAfterCompletion, Upsert
<1> QED
  BY <1>1, <1>2, WakesMissTarget DEF IInv

\* A completion frees the actor it adds to the activities of the step.
LEMMA CompletionKeepsBatch ==
  ASSUME StoryWorld, LoopTypes, BatchIsFree, CompleteNext
  PROVE  BatchIsFree'
<1> USE DEF StoryWorld, RInv, IInv
<1>1. PICK z \in DueActors, r \in requests, n \in Nat :
         /\ Complete(r, lease, runtime[z].version)
         /\ runtime[z].task.inst = r /\ r.actor = z
         /\ DOMAIN batch = 1 .. n /\ DOMAIN batch' = 1 .. n + 1
         /\ \A i \in 1 .. n : batch'[i] = batch[i]
         /\ batch'[n + 1].inst = r
         /\ pc = "completing"
  BY CompletionShape
<1>2. /\ \A y \in Parties(r) : runtime'[y].task = Idle
      /\ \A y \in Residents \ Parties(r) : runtime'[y] = runtime[y]
  BY <1>1, CompleteWrites
<1>3. z \in Residents /\ ~IsIdle(z) /\ z \in Parties(r)
  BY <1>1, DueActivity
<1>4. \A y \in Residents : IsIdle(y)' <=> IsIdle(y) \/ y \in Parties(r)
  BY <1>2 DEF IsIdle, Idle
<1>5. \A i \in 1 .. n : batch[i] \in Completed
  <2>1. batch \in Seq(Completed)
    BY DEF LoopTypes
  <2> HIDE DEF Completed
  <2> QED
    BY <1>1, <2>1, ElementOfSeq
<1>6. \A i \in 1 .. n : batch[i].inst.actor \in Residents
  BY <1>5, RequestAssumption DEF Completed
<1>7. \A i \in 1 .. n : /\ batch[i].inst.actor \in Residents /\ IsIdle(batch[i].inst.actor)
                        /\ \A j \in 1 .. n : batch[i].inst.actor = batch[j].inst.actor => i = j
  BY <1>1, <1>6 DEF BatchIsFree
<1>8. \A i : i \in 1 .. n + 1 <=> i \in 1 .. n \/ i = n + 1
  OBVIOUS
<1>9. \A i \in 1 .. n : batch'[i].inst.actor # z
  BY <1>1, <1>3, <1>7
<1>10. batch'[n + 1].inst.actor = z /\ runtime'[z].task.act = "IDLE"
  BY <1>1, <1>2, <1>3 DEF Idle
<1>11. ASSUME NEW i \in 1 .. n
       PROVE  runtime'[batch'[i].inst.actor].task.act = "IDLE"
  <2>1. PICK y \in Residents : y = batch[i].inst.actor /\ IsIdle(y)
    BY <1>7
  <2>2. IsIdle(y)'
    BY <1>4, <2>1
  <2> QED
    BY <1>1, <2>1, <2>2 DEF IsIdle
<1>12. ASSUME NEW i \in 1 .. n + 1
       PROVE  /\ IsIdle(batch[i].inst.actor)'
              /\ \A j \in 1 .. n + 1 : batch'[i].inst.actor = batch'[j].inst.actor => i = j
  <2>1. IsIdle(batch[i].inst.actor)'
    <3>1. runtime'[batch'[i].inst.actor].task.act = "IDLE"
      BY <1>8, <1>10, <1>11
    <3> QED
      BY <3>1 DEF IsIdle
  <2>2. \A j \in 1 .. n + 1 : batch'[i].inst.actor = batch'[j].inst.actor => i = j
    BY <1>1, <1>7, <1>8, <1>9, <1>10
  <2> QED
    BY <2>1, <2>2
<1> QED
  BY <1>1, <1>12 DEF BatchIsFree

\* A completion keeps the end in reach.
LEMMA CompletionKeepsEnd ==
  ASSUME StoryWorld, LoopTypes, EndInv, CompleteNext
  PROVE  EndInv'
<1> USE DEF StoryWorld, RInv, IInv
<1>1. PICK z \in DueActors, r \in requests, n \in Nat :
         /\ Complete(r, lease, runtime[z].version)
         /\ pc = "completing" /\ UNCHANGED <<pc, deferred, hand>>
  BY CompletionShape
<1>2. /\ \A y \in Parties(r) : runtime'[y].task = Idle
      /\ \A y \in Residents \ Parties(r) : runtime'[y] = runtime[y]
      /\ worldTime' = worldTime
  BY <1>1, CompleteWrites
<1>3. \A y \in Busy' : y \in Busy /\ runtime'[y] = runtime[y]
  <2>1. \A y \in Residents : IsIdle(y)' <=> IsIdle(y) \/ y \in Parties(r)
    BY <1>2 DEF IsIdle, Idle
  <2> QED
    BY <1>2, <2>1 DEF Busy
<1>4. \A y \in Busy' : runtime'[y].task.due <= Target
  BY <1>3 DEF EndInv
<1>5. \A w \in wakes' : w.due # Target
  BY <1>1, CompletionsMissTarget DEF EndInv
<1>6. BatchIsFree'
  BY CompletionKeepsBatch DEF EndInv
<1> QED
  BY <1>1, <1>2, <1>4, <1>5, <1>6 DEF EndInv

\* When a step returns, nobody is in an activity that is due.
LEMMA NothingIsOverdue ==
  ASSUME StoryWorld, LoopTypes, BatchIsFree, DeliverStep, NEW x \in Busy
  PROVE  runtime[x].task.due > worldTime
<1> USE DEF StoryWorld, RInv, IInv
<1>1. pc = "completing" /\ (DueActors = {} \/ Len(batch) = Limit)
  BY DEF DeliverStep
<1>2. x \in Residents /\ ~IsIdle(x) /\ runtime[x].task # Idle
  BY FreeIsIdle DEF Busy
<1>3. CASE DueActors = {}
  <2>1. PICK r : r = runtime[x].task.inst
    OBVIOUS
  <2>2. r \in Requests /\ x \in Parties(r) /\ \A y \in Parties(r) : Half(r, y)
    BY <1>2, <2>1 DEF TypeOK, TasksIntact, TaskIntact
  <2>3. r.actor \in Residents /\ r.actor \in Parties(r)
    BY <2>2, RequestFacts
  <2>4. /\ runtime[r.actor].task.inst = r /\ ~IsIdle(r.actor)
        /\ runtime[r.actor].task.due = runtime[x].task.due
    <3>1. Half(r, r.actor) /\ Half(r, x)
      BY <2>2, <2>3
    <3>2. ActivityOf(r.type) # "IDLE"
      BY <2>2, ActivityFacts, RequestAssumption
    <3> QED
      BY <3>1, <3>2 DEF Half, IsIdle
  <2>5. ~(runtime[r.actor].task.due <= worldTime)
    BY <1>3, <2>3, <2>4 DEF DueActors, Busy
  <2>6. runtime[x].task.due \in Nat /\ worldTime \in Nat
    BY <1>2, TimeAssumption DEF DuesAreTimes, TypeOK, Times
  <2> QED
    BY <2>4, <2>5, <2>6
<1>4. CASE Len(batch) = Limit
  <2> DEFINE others == Residents \ {x}
             actor == [i \in 1 .. Limit |-> batch[i].inst.actor]
  <2>1. DOMAIN batch = 1 .. Limit /\ Limit \in Nat
    BY <1>4, LoopAssumption DEF LoopTypes
  <2>2. \A i \in 1 .. Limit : batch[i].inst.actor \in others
    <3>1. \A i \in 1 .. Limit : batch[i] \in Completed
      <4>1. batch \in Seq(Completed)
        BY DEF LoopTypes
      <4> HIDE DEF Completed
      <4> QED
        BY <2>1, <4>1, ElementOfSeq
    <3>2. \A i \in 1 .. Limit : batch[i].inst.actor \in Residents
      BY <3>1, RequestAssumption DEF Completed
    <3>3. \A i \in 1 .. Limit : IsIdle(batch[i].inst.actor)
      BY <1>1, <2>1 DEF BatchIsFree
    <3> QED
      BY <1>2, <3>2, <3>3
  <2>3. \A i, j \in 1 .. Limit : actor[i] = actor[j] => i = j
    BY <1>1, <2>1 DEF BatchIsFree
  <2>4. actor \in Injection(1 .. Limit, others)
    BY <2>2, <2>3 DEF Injection, IsInjective
  <2>5. IsFiniteSet(others) /\ Cardinality(others) = Cardinality(Residents) - 1
    BY <1>2, LoopAssumption, FS_RemoveElement
  <2>6. Cardinality(1 .. Limit) <= Cardinality(others)
    <3> HIDE DEF actor, others
    <3> QED
      BY <2>4, <2>5, FS_Injection
  <2>7. Cardinality(1 .. Limit) = Limit
    BY <2>1, FS_Interval
  <2>8. Cardinality(Residents) \in Nat
    BY LoopAssumption, FS_CardinalityType
  <2> QED
    BY <2>1, <2>5, <2>6, <2>7, <2>8, EndpointAssumption
<1> QED
  BY <1>1, <1>3, <1>4

\* Before the target, the loop drives to an instant that is not over and not beyond it.
LEMMA StopIsAhead ==
  ASSUME StoryWorld, LoopTypes, WakesDescribeTheirCommit, DueInv, WakesAreInTime, EndInv
  PROVE  /\ \A w \in wakes : w.due >= worldTime
         /\ NextStop \in Nat /\ worldTime <= NextStop /\ NextStop <= Target
<1> USE DEF StoryWorld, RInv, IInv
<1>1. worldTime \in Nat
  BY TimeAssumption DEF TypeOK, Times
<1>2. ASSUME NEW w \in wakes
      PROVE  w.due >= worldTime
  <2>1. w.due \in Int /\ RegisteredAt(w) \in Int
    <3>1. w.due \in Int /\ w.seq \in Nat /\ w.seq <= worldSeq
      BY DEF TypeOK, WakeRows, WakesDescribeTheirCommit
    <3>2. w.seq # 0 => ledger[w.seq] \in LedgerEvents
      <4>1. ledger \in Seq(LedgerEvents)
        BY DEF TypeOK
      <4>2. w.seq # 0 => w.seq \in 1 .. Len(ledger)
        BY <3>1, <4>1 DEF worldSeq
      <4> HIDE DEF LedgerEvents
      <4> QED
        BY <4>1, <4>2
    <3>3. w.seq # 0 => ledger[w.seq].at \in Int
      BY <3>2, TimeAssumption DEF LedgerEvents, Times
    <3> QED
      BY <3>1, <3>3 DEF RegisteredAt
  <2>2. w.due >= RegisteredAt(w)
    BY DEF WakesAreInTime
  <2>3. w.due >= worldTime \/ w.due < RegisteredAt(w)
    BY DEF DueInv, NothingDueIsPassedBy
  <2> QED
    BY <2>1, <2>2, <2>3
<1>3. NextStop \in Int /\ NextStop \in DueTimes \cup {Target} /\ NextStop <= Target
  BY NextStopIsFirst DEF DueInv
<1>4. \A t \in DueTimes \cup {Target} : t >= worldTime
  <2>1. \A x \in Busy : runtime[x].task.due >= worldTime
    BY DEF DueInv, NothingDueIsPassedBy
  <2>2. \A w \in deferred : w.due >= worldTime
    BY DEF DueInv, NothingDueIsPassedBy
  <2>3. Target >= worldTime
    BY <1>1, TargetIsTime DEF EndInv
  <2> QED
    BY <1>2, <2>1, <2>2, <2>3 DEF DueTimes
<1> QED
  BY <1>1, <1>2, <1>3, <1>4

\* Every step of the loop keeps the end in reach, as long as wakes are in time.
LEMMA EndStepKept ==
  ASSUME StoryWorld, LoopTypes, WakesDescribeTheirCommit, DueInv, WakesAreInTime, EndInv,
         [StoryNext]_storyVars
  PROVE  EndInv'
<1> USE DEF StoryWorld, RInv, IInv
<1>1. worldTime \in Nat /\ Target \in Nat /\ Target > 0
  BY TimeAssumption, TargetIsTime DEF TypeOK, Times
<1>2. ASSUME UNCHANGED <<worldTime, runtime>>
      PROVE  Busy' = Busy /\ \A x \in Busy' : runtime'[x].task.due = runtime[x].task.due
  BY <1>2 DEF Busy, IsIdle
<1>3. CASE Bootstrap
  <2>1. /\ pc = "bootstrap" /\ pc' = "lease"
        /\ UNCHANGED <<worldTime, runtime, deferred>>
    BY <1>3 DEF Bootstrap, RegisterNextWakes
  <2>2. ASSUME NEW w \in wakes'
        PROVE  w.due # Target
    <3>1. CASE w \in wakes
      BY <3>1 DEF EndInv
    <3>2. CASE w \notin wakes
      <4>1. PICK x \in Residents :
               \/ w \in BoundaryWake(x, runtime[x].version, worldSeq)
               \/ w \in PreparationWake(x, runtime[x].loc, runtime[x].version, worldSeq)
        BY <1>3, <3>2 DEF Bootstrap, RegisterNextWakes, Upsert
      <4>2. runtime[x].loc \in Locations
        BY DEF TypeOK, RuntimeRows
      <4> QED
        BY <4>1, <4>2, WakesMissTarget
    <3> QED
      BY <3>1, <3>2
  <2> QED
    BY <1>2, <2>1, <2>2 DEF EndInv, BatchIsFree
<1>4. CASE TakeLease
  <2>1. /\ pc = "lease" /\ pc' = "waiting" /\ UNCHANGED <<worldTime, runtime, wakes>>
        /\ deferred' = {LoopWake(x, "INITIAL_DECISION", 0, 0) : x \in Residents}
    BY <1>4 DEF TakeLease, AcquireLease
  <2>2. \A w \in deferred' : w.due < Target
    BY <1>1, <2>1 DEF LoopWake
  <2> QED
    BY <1>2, <2>1, <2>2 DEF EndInv, BatchIsFree
<1>5. CASE RunUntilNext
  <2>1. pc = "waiting" /\ batch' = <<>> /\ deferred' = deferred
    BY <1>5 DEF RunUntilNext
  <2>2. NextStop \in Nat /\ worldTime <= NextStop /\ NextStop <= Target
    BY StopIsAhead
  <2>3. pc' = "completing"
    BY <1>1, <1>5, <2>2 DEF RunUntilNext
  <2>4. UNCHANGED <<runtime, wakes>> /\ worldTime' \in {worldTime, NextStop}
    BY <1>5 DEF RunUntilNext, AdvanceWorldTimeTo, vars
  <2>5. worldTime' <= Target
    BY <1>1, <2>2, <2>4
  <2>6. BatchIsFree'
    BY <2>1 DEF BatchIsFree
  <2>7. \A x \in Busy' : x \in Busy /\ runtime'[x].task.due = runtime[x].task.due
    BY <2>4 DEF Busy, IsIdle
  <2> QED
    BY <2>1, <2>3, <2>4, <2>5, <2>6, <2>7 DEF EndInv
<1>6. CASE CompleteNext
  BY <1>6, CompletionKeepsEnd
<1>7. CASE DeliverStep
  <2>1. pc' = "handling" /\ UNCHANGED <<worldTime, runtime, wakes, deferred>>
    BY <1>7 DEF DeliverStep, vars
  <2>2. worldTime = Target => Busy = {}
    <3> SUFFICES ASSUME worldTime = Target, NEW x \in Busy PROVE FALSE
      OBVIOUS
    <3>1. runtime[x].task.due > Target /\ runtime[x].task.due <= Target
      BY <1>7, NothingIsOverdue DEF EndInv
    <3>2. runtime[x].task.due \in Nat
      BY FreeIsIdle DEF Busy, DuesAreTimes
    <3> QED
      BY <1>1, <3>1, <3>2
  <2> QED
    BY <1>2, <2>1, <2>2 DEF EndInv, BatchIsFree
<1>8. CASE Acknowledge
  <2>1. /\ pc = "handling" /\ UNCHANGED <<worldTime, runtime>>
        /\ wakes' \subseteq wakes /\ deferred' \subseteq deferred
        /\ \/ worldTime < Target /\ pc' = "deciding"
           \/ ~(worldTime < Target) /\ pc' = "handling"
    BY <1>8 DEF Acknowledge
  <2> QED
    BY <1>1, <1>2, <2>1 DEF EndInv, BatchIsFree
<1>9. CASE Decide
  <2>1. PICK x : Decided(x) /\ pc = "deciding" /\ pc' = "handling"
    BY <1>9, DecisionShape
  <2>2. worldTime' = worldTime /\ worldTime < Target
    BY <2>1 DEF Decided, Start, vars, EndInv
  <2>3. \A w \in deferred' : w.due < Target
    <3>1. \A w \in deferred' : w \in deferred \/ w.due < Target
      BY <2>1 DEF Decided, LoopWake
    <3> QED
      BY <3>1 DEF EndInv
  <2>4. CASE UNCHANGED vars
    <3>1. UNCHANGED <<runtime, wakes>>
      BY <2>4 DEF vars
    <3> QED
      BY <1>1, <1>2, <2>1, <2>2, <2>3, <3>1 DEF EndInv, BatchIsFree
  <2>5. ASSUME NEW r \in Requests, NEW rv, FitsHorizon(r.type), Start(r, lease, rv)
        PROVE  EndInv'
    <3>1. \A w \in wakes' : w.due # Target
      BY <2>5, StartsMissTarget DEF EndInv
    <3>2. ASSUME NEW y \in Busy'
          PROVE  runtime'[y].task.due <= Target
      <4>1. CASE y \in Parties(r)
        BY <2>5, <4>1, StartWrites, SubmittedEnds
      <4>2. CASE y \notin Parties(r)
        <5>1. y \in Residents
          BY <3>2 DEF Busy
        <5>2. runtime'[y] = runtime[y]
          BY <2>5, <4>2, <5>1, StartWrites
        <5>3. y \in Busy
          BY <3>2, <5>1, <5>2 DEF Busy, IsIdle
        <5> QED
          BY <5>2, <5>3 DEF EndInv
      <4> QED
        BY <4>1, <4>2
    <3> QED
      BY <1>1, <2>1, <2>2, <2>3, <3>1, <3>2 DEF EndInv, BatchIsFree
  <2> QED
    BY <2>1, <2>4, <2>5 DEF Decided
<1>10. CASE EndStep
  <2>1. /\ pc = "handling" /\ UNCHANGED <<worldTime, runtime, wakes, deferred>>
        /\ pc' = IF worldTime < Target THEN "waiting"
                 ELSE IF Settles THEN "done" ELSE "failed"
    BY <1>10 DEF EndStep, vars
  <2>2. CASE worldTime < Target
    BY <1>2, <2>1, <2>2 DEF EndInv, BatchIsFree
  <2>3. CASE ~(worldTime < Target)
    <3>1. worldTime = Target /\ Busy = {}
      BY <1>1, <2>1, <2>3 DEF EndInv
    <3>2. \A w \in wakes : w.due > Target
      <4>1. \A w \in wakes : w.due >= worldTime /\ w.due \in Int
        BY StopIsAhead DEF TypeOK, WakeRows
      <4> QED
        BY <1>1, <3>1, <4>1 DEF EndInv
    <3>3. \A w \in deferred : w.due > Target
      <4>1. \A w \in deferred : w.due >= worldTime /\ w.due \in Int
        BY DEF DueInv, NothingDueIsPassedBy, LoopTypes, LoopWakes
      <4> QED
        BY <1>1, <3>1, <4>1 DEF EndInv
    <3>4. pc' = "done"
      BY <2>1, <2>3, <3>1, <3>2, <3>3 DEF Settles
    <3> QED
      BY <1>2, <2>1, <3>4 DEF EndInv, BatchIsFree
  <2> QED
    BY <2>2, <2>3
<1>11. CASE Finished \/ UNCHANGED storyVars
  <2>1. UNCHANGED <<pc, worldTime, runtime, wakes, deferred, batch>>
    BY <1>11 DEF Finished, storyVars, loop, vars
  <2> QED
    BY <1>2, <2>1 DEF EndInv, BatchIsFree, Busy, IsIdle
<1> QED
  BY <1>3, <1>4, <1>5, <1>6, <1>7, <1>8, <1>9, <1>10, <1>11 DEF StoryNext

(***************************************************************************)
(* The week ends well, for every street, population and calendar that      *)
(* leaves the target free of shifts: in a story whose wakes are all        *)
(* registered in time, the loop never drives to the past and the gate's    *)
(* endpoint check finds no activity and no due wake.                       *)
(***************************************************************************)
THEOREM WeeksEndWell == StorySpec => ([]WakesAreInTime => []EndpointHolds)
<1>1. StoryInit => DueInv
  BY InitDueInv
<1>2. StoryInit => EndInv
  <2> SUFFICES ASSUME StoryInit PROVE EndInv
    OBVIOUS
  <2>1. /\ wakes = {} /\ deferred = {} /\ worldTime = 0 /\ pc = "bootstrap"
        /\ \A x \in Residents : runtime[x].task = Idle
    BY DEF StoryInit, Init
  <2>2. Busy = {}
    BY <2>1 DEF Busy, IsIdle, Idle
  <2> QED
    BY <2>1, <2>2, TargetIsTime DEF EndInv, BatchIsFree
<1>3. StoryWorld /\ LoopTypes /\ WakesDescribeTheirCommit /\ DueInv /\ [StoryNext]_storyVars
        => DueInv'
  BY DueStep
<1>4. StoryWorld /\ LoopTypes /\ WakesDescribeTheirCommit /\ DueInv /\ WakesAreInTime /\ EndInv
        /\ [StoryNext]_storyVars => EndInv'
  BY EndStepKept
<1>5. EndInv => EndpointHolds
  BY DEF EndInv, EndpointHolds
<1>6. StorySpec => []WakesDescribeTheirCommit
  BY StoryRunsTheKernel, WakesAreSnapshots, PTL
<1> QED
  BY <1>1, <1>2, <1>3, <1>4, <1>5, <1>6, LoopIsTyped, PTL DEF StorySpec
=============================================================================
