------------------------------ MODULE ActionLoop ------------------------------
(***************************************************************************)
(* What one resident does next: rule-decision.ts (version 2) turns the     *)
(* selected goal into candidate actions with hard constraints, and the     *)
(* step of action-loop.ts joins needs, context, goal and candidates.       *)
(*                                                                         *)
(* All candidates of one decision serve one goal and, when there are       *)
(* several, are talks at one place, so their scores are equal and the      *)
(* stable key, the participant's actor id, decides; scores are left out.   *)
(* With fewer than 9 residents at one place maxCandidates cuts nothing off.*)
(*                                                                         *)
(* An observation `obs` is a record: resident, home, loc, act, version,    *)
(* workplaces (none or one), obligation [status, starts], worked (starts   *)
(* of completed shifts), preparation (none or the minute to leave), food   *)
(* [units, version] of the item kept at home, routine, and others, the     *)
(* [resident, loc, act] of everybody else.                                 *)
(***************************************************************************)
EXTENDS Goals, ReplanPolicy, FiniteSets

CONSTANTS
  Kind,          \* fixture kinds, a function on the locations
  SocialPlace,   \* the first fixture of kind CAFE, or PARK without one
  IdOrder        \* the order of actor ids, a function into Nat

EatKinds    == {"HOME", "CAFE"}
SharedKinds == {"CAFE", "PARK", "OFFICE", "STORE", "TRANSIT"}

IdleReconsideration == 30   \* idleReconsiderationWorldMinutes
ShiftHour           == 9    \* isExactShiftStart

Candidate(type, arg, feasible) == [type |-> type, arg |-> arg, feasible |-> feasible]

\* SATISFY_HUNGER: eat where the food is, or go there
EatCandidates(obs) ==
  IF obs.food.units < 1 THEN {}
  ELSE IF obs.loc = obs.home
  THEN {Candidate("EAT", obs.resident, Kind[obs.loc] \in EatKinds)}
  ELSE {Candidate("MOVE", obs.home, TRUE) : k \in {Kind[obs.home]} \cap EatKinds}

\* REST
SleepCandidates(obs) ==
  IF obs.loc = obs.home
  THEN {Candidate("SLEEP", obs.home, Kind[obs.loc] = "HOME")}
  ELSE {Candidate("MOVE", obs.home, TRUE)}

\* SHIFT_START_BOUNDARY
OnTheHour(obs, now) == now % Day = ShiftHour * Hour /\ obs.obligation.starts = now

\* FULFILL_WORK_OBLIGATION: nothing is left to do once the obligation is LATE
WorkCandidates(obs, now) ==
  {IF obs.loc = w
   THEN Candidate("WORK", w, /\ obs.obligation.status = "DUE"
                             /\ OnTheHour(obs, now) /\ now \notin obs.worked)
   ELSE Candidate("MOVE", w, TRUE) :
     w \in {v \in obs.workplaces : obs.obligation.status \in {"NOT_DUE", "DUE"}}}

\* mutant of LegalPartners: PARTICIPANT_IDLE is dropped
LegalPartners_Busy(obs) == {o.resident : o \in {p \in obs.others : p.loc = obs.loc}}

\* idle residents at the same place
LegalPartners(obs) ==
  {o.resident : o \in {p \in obs.others : p.loc = obs.loc /\ p.act = "IDLE"}}

\* MAKE_SOCIAL_CONTACT: talk here, or go where people meet
TalkCandidates(obs) ==
  IF LegalPartners(obs) # {}
  THEN {Candidate("TALK", y, TRUE) : y \in LegalPartners(obs)}
  ELSE {Candidate("MOVE", place, TRUE) : place \in {SocialPlace} \ {obs.loc}}

\* RETURN_HOME
ReturnCandidates(obs) == {Candidate("MOVE", place, TRUE) : place \in {obs.home} \ {obs.loc}}

\* generateV2Candidates
CandidatesFor(goal, obs, now) ==
  CASE goal.type = "SATISFY_HUNGER"          -> EatCandidates(obs)
    [] goal.type = "REST"                    -> SleepCandidates(obs)
    [] goal.type = "FULFILL_WORK_OBLIGATION" -> WorkCandidates(obs, now)
    [] goal.type = "MAKE_SOCIAL_CONTACT"     -> TalkCandidates(obs)
    [] goal.type = "RETURN_HOME"             -> ReturnCandidates(obs)

-----------------------------------------------------------------------------
\* mutant of SocialContext: company is offered to whoever is not at work
SocialContext_Anytime(needs, obs) ==
  IF /\ obs.obligation.status # "DUE"
     /\ LegalPartners(obs) # {} => Kind[obs.loc] \in SharedKinds
  THEN "SOCIAL_OPPORTUNITY" ELSE "NONE"

(***************************************************************************)
(* deriveSocialOpportunityContext: a lonely resident is offered company,   *)
(* or the way to it, unless its shift is on or its only company is at home.*)
(***************************************************************************)
SocialContext(needs, obs) ==
  IF /\ needs.social >= Points(70) /\ obs.obligation.status # "DUE"
     /\ LegalPartners(obs) # {} => Kind[obs.loc] \in SharedKinds
  THEN "SOCIAL_OPPORTUNITY" ELSE "NONE"

\* the goal runResidentActionLoopStepV2 selects, as a set of at most one;
\* no caller passes an active goal
PursuedGoal(needs, obs, now) ==
  SelectGoal(EvaluateGoals([needs |-> needs, now |-> now, routine |-> obs.routine,
                            obligation |-> obs.obligation, preparation |-> obs.preparation,
                            context |-> SocialContext(needs, obs),
                            away |-> obs.loc # obs.home]), {})

\* evaluateRuleDecisionV2: the feasible candidates; a busy resident has none
FeasibleCandidates(needs, obs, now) ==
  {c \in UNION {CandidatesFor(g, obs, now) : g \in PursuedGoal(needs, obs, now)} :
     c.feasible /\ obs.act = "IDLE"}

\* the candidate that becomes the action request, as a set of at most one
Draft(needs, obs, now) ==
  LET all == FeasibleCandidates(needs, obs, now) IN
  {c \in all : \A d \in all \ {c} : IdOrder[c.arg] < IdOrder[d.arg]}

\* decideReplan after a decision without a draft, whatever the reason
IdleAnswer(now) ==
  DecideReplan(NotDueSignal(now + IdleReconsideration), FALSE, InitialBudget, now)

\* decideReplan after a submission was answered
OutcomeAnswer(status, reason, feasible, now) ==
  DecideReplan(OutcomeSignal(status, reason), Cardinality(feasible) > 1, InitialBudget, now)
=============================================================================
