------------------------ MODULE ShiftAttendance_proofs ------------------------
(***************************************************************************)
(* Employees attend their shifts: what the planner drafts when it is time  *)
(* to leave for work and at nine, the wakes that ask it then, and the      *)
(* inductive invariant that holds the two together.                        *)
(***************************************************************************)
EXTENDS StoryLoop_proofs

-----------------------------------------------------------------------------
(* What an employee decides when it is time to leave for work and at nine *)

\* The greater and the lesser of two integers.
LEMMA OfTwo ==
  ASSUME NEW a \in Int, NEW b \in Int
  PROVE  /\ Max({a, b}) \in {a, b} /\ Max({a, b}) >= a /\ Max({a, b}) >= b
         /\ Min({a, b}) \in {a, b} /\ Min({a, b}) <= a /\ Min({a, b}) <= b
<1>1. \E m \in {a, b} : \A y \in {a, b} : m >= y
  OBVIOUS
<1>2. \E m \in {a, b} : \A y \in {a, b} : m <= y
  OBVIOUS
<1>3. Max({a, b}) \in {a, b} /\ \A y \in {a, b} : Max({a, b}) >= y
  BY <1>1 DEF Max
<1>4. Min({a, b}) \in {a, b} /\ \A y \in {a, b} : Min({a, b}) <= y
  BY <1>2 DEF Min
<1> QED
  BY <1>3, <1>4

\* A pressure is clamped to its range, and a higher one to no less.
LEMMA ClampFacts ==
  ASSUME NEW v \in Int, NEW u \in Int, v <= u
  PROVE  Clamp(v) \in Levels /\ Clamp(v) <= Clamp(u)
<1>1. ASSUME NEW i \in Int
      PROVE  /\ i <= 0 => Clamp(i) = 0
             /\ i >= Points(100) => Clamp(i) = Points(100)
             /\ i >= 0 /\ i <= Points(100) => Clamp(i) = i
  <2>1. Points(100) = 12000000
    BY DEF Points, Unit
  <2>2. PICK m \in Int : m = Min({12000000, i})
    BY OfTwo
  <2>3. m \in {12000000, i} /\ m <= 12000000 /\ m <= i
    BY <2>2, OfTwo
  <2>4. Clamp(i) = Max({0, m})
    BY <2>1, <2>2 DEF Clamp
  <2>5. Max({0, m}) \in {0, m} /\ Max({0, m}) >= 0 /\ Max({0, m}) >= m
    BY OfTwo
  <2> QED
    BY <2>1, <2>3, <2>4, <2>5
<1>2. Points(100) = 12000000
  BY DEF Points, Unit
<1> QED
  BY <1>1, <1>2 DEF Levels

\* More at a rate that is not negative is no less.
LEMMA MoreOfRate ==
  ASSUME NEW rate \in Nat, NEW a \in Nat, NEW b \in Nat, a <= b
  PROVE  rate * a <= rate * b
<1>1. PICK d \in Nat : b = a + d
  <2>1. b - a \in Nat /\ b = a + (b - a)
    OBVIOUS
  <2> QED
    BY <2>1
<1>2. rate * b = rate * a + rate * d
  BY <1>1
<1>3. rate * a \in Nat /\ rate * d \in Nat
  OBVIOUS
<1> QED
  BY <1>2, <1>3

Paces   == [NeedNames -> Nat]
Anchors == [at : Nat, level : [NeedNames -> Int]]

\* Needs are levels; loneliness only grows until it is relieved.
LEMMA NeedFacts ==
  ASSUME NEW pace \in Paces, NEW anchor \in Anchors, NEW activity \in {"AWAKE", "RESTING"},
         NEW now \in Nat, NEW later \in Nat, now <= later
  PROVE  /\ EvaluateNeeds(pace, anchor, activity, now) \in [NeedNames -> Levels]
         /\ EvaluateNeeds(pace, anchor, activity, now).social
              <= EvaluateNeeds(pace, anchor, activity, later).social
<1> DEFINE span(t) == Max({0, t - anchor.at})
           level(n, t) == anchor.level[n] + Rate(n, activity, pace) * span(t)
<1>1. anchor.at \in Nat /\ \A n \in NeedNames : anchor.level[n] \in Int /\ pace[n] \in Nat
  BY DEF Paces, Anchors
<1>2. ASSUME NEW t \in Nat
      PROVE  span(t) \in Nat /\ span(t) >= t - anchor.at /\ span(t) \in {0, t - anchor.at}
  <2>1. PICK d \in Int : d = t - anchor.at
    BY <1>1
  <2>2. Max({0, d}) \in {0, d} /\ Max({0, d}) >= 0 /\ Max({0, d}) >= d
    BY OfTwo
  <2> QED
    BY <2>1, <2>2
<1>3. span(now) <= span(later)
  BY <1>1, <1>2
<1>4. ASSUME NEW n \in NeedNames
      PROVE  Rate(n, activity, pace) \in Int
  <2>1. HourlyRate(n, activity) \in Int
    BY DEF HourlyRate, NeedNames
  <2>2. HourlyRate(n, activity) \div 5 \in Int
    BY <2>1
  <2> QED
    BY <1>1, <2>2 DEF Rate
<1>5. Rate("social", activity, pace) \in Nat
  <2>1. HourlyRate("social", activity) = 120
    BY DEF HourlyRate
  <2>2. HourlyRate("social", activity) \div 5 = 24
    BY <2>1
  <2> QED
    BY <1>1, <2>2 DEF Rate, NeedNames
<1>6. ASSUME NEW n \in NeedNames, NEW t \in Nat
      PROVE  level(n, t) \in Int
  <2> HIDE DEF span
  <2>1. Rate(n, activity, pace) * span(t) \in Int
    BY <1>2, <1>4
  <2> QED
    BY <1>1, <2>1
<1>7. level("social", now) <= level("social", later)
  <2> HIDE DEF span
  <2>1. PICK rate \in Nat : rate = Rate("social", activity, pace)
    BY <1>5
  <2>2. rate * span(now) <= rate * span(later)
    BY <1>2, <1>3, MoreOfRate
  <2>3. rate * span(now) \in Nat /\ rate * span(later) \in Nat
    BY <1>2
  <2>4. anchor.level["social"] \in Int
    BY <1>1 DEF NeedNames
  <2> QED
    BY <2>1, <2>2, <2>3, <2>4
<1>8. \A t : EvaluateNeeds(pace, anchor, activity, t) = [n \in NeedNames |-> Clamp(level(n, t))]
  BY DEF EvaluateNeeds
<1> HIDE DEF level
<1>9. "social" \in NeedNames
  BY DEF NeedNames
<1> QED
  BY <1>6, <1>7, <1>8, <1>9, ClampFacts

\* Neither a need nor a routine outbids an obligation.
LEMMA BidsAreBounded ==
  ASSUME NEW needs \in [NeedNames -> Levels], NEW routine \in [NeedNames -> 0 .. 23],
         NEW now \in Nat, NEW g \in NeedGoals(needs) \cup RoutineGoals(routine, now)
  PROVE  /\ g.score \in Int /\ g.priority \in Int
         /\ g.score <= Points(120) /\ g.priority < Points(100)
<1>1. CASE g \in NeedGoals(needs)
  <2>1. PICK n \in NeedNames :
          /\ needs[n] >= Activation[n]
          /\ g = Goal(GoalOf[n], "NEED_HIGH", Priority[n],
                      Urgency(needs[n], Activation[n]) +
                        (IF n = "social" THEN CriticalSocial(needs) ELSE 0))
    BY <1>1 DEF NeedGoals
  <2>2. PICK v \in Int : v = needs[n] /\ 0 <= v /\ v <= 12000000
    <3>1. needs[n] \in Levels
      OBVIOUS
    <3>2. Points(100) = 12000000
      BY DEF Points, Unit
    <3> QED
      BY <3>1, <3>2 DEF Levels
  <2>3. CriticalSocial(needs) \in {0, 3600000}
    BY DEF CriticalSocial, NeedScoreRange, Points, Unit
  <2>4. \/ n = "hunger" /\ Activation[n] = 6600000 /\ Priority[n] = 9600000
        \/ n = "rest" /\ Activation[n] = 10200000 /\ Priority[n] = 10800000
        \/ n = "social" /\ Activation[n] = 8400000 /\ Priority[n] = 8400000
    BY DEF NeedNames, Activation, Priority, Points, Unit
  <2>5. Points(120) = 14400000 /\ Points(100) = 12000000 /\ Unit = 120000
    BY DEF Points, Unit
  <2>6. g.priority = Priority[n] /\ g.score = Priority[n] + (Urgency(v, Activation[n]) +
           (IF n = "social" THEN CriticalSocial(needs) ELSE 0))
    BY <2>1, <2>2 DEF Goal
  <2>7. CASE n = "hunger"
    <3>1. Urgency(v, 6600000) = ((v - 6600000) * 20) \div 45
      BY <2>5 DEF Urgency
    <3>2. Urgency(v, 6600000) \in Int /\ Urgency(v, 6600000) <= 2400000
      BY <2>2, <3>1
    <3> QED
      BY <2>4, <2>5, <2>6, <2>7, <3>2
  <2>8. CASE n = "rest"
    <3>1. Urgency(v, 10200000) = ((v - 10200000) * 20) \div 15
      BY <2>5 DEF Urgency
    <3>2. Urgency(v, 10200000) \in Int /\ Urgency(v, 10200000) <= 2400000
      BY <2>2, <3>1
    <3> QED
      BY <2>4, <2>5, <2>6, <2>8, <3>2
  <2>9. CASE n = "social"
    <3>1. Urgency(v, 8400000) = ((v - 8400000) * 20) \div 30
      BY <2>5 DEF Urgency
    <3>2. Urgency(v, 8400000) \in Int /\ Urgency(v, 8400000) <= 2400000
      BY <2>2, <3>1
    <3> QED
      BY <2>3, <2>4, <2>5, <2>6, <2>9, <3>2
  <2> QED
    BY <2>4, <2>7, <2>8, <2>9
<1>2. CASE g \in RoutineGoals(routine, now)
  <2>1. PICK n \in NeedNames :
          /\ SinceWindow(now, routine[n]) < RoutineWindow
          /\ g = Goal(GoalOf[n], "WINDOW", Priority.routine,
                      (SinceWindow(now, routine[n]) * RoutineScoreRange) \div RoutineWindow)
    BY <1>2 DEF RoutineGoals
  <2>2. PICK m \in 0 .. 119 : m = SinceWindow(now, routine[n])
    <3>1. routine[n] \in Int
      OBVIOUS
    <3>2. now - routine[n] * Hour \in Int
      BY <3>1 DEF Hour
    <3>3. SinceWindow(now, routine[n]) \in Nat
      BY <3>2 DEF SinceWindow, Day, Hour
    <3> QED
      BY <2>1, <3>3 DEF RoutineWindow
  <2>3. Priority.routine = 5400000 /\ RoutineScoreRange = 1200000 /\ RoutineWindow = 120
    BY DEF Priority, RoutineScoreRange, RoutineWindow, Points, Unit
  <2>4. (m * 1200000) \div 120 \in Int /\ (m * 1200000) \div 120 <= 1200000
    BY <2>2
  <2>5. g.priority = 5400000 /\ g.score = 5400000 + (m * 1200000) \div 120
    BY <2>1, <2>2, <2>3 DEF Goal
  <2> QED
    BY <2>4, <2>5 DEF Points, Unit
<1> QED
  BY <1>1, <1>2

\* An obligation to be met now wins unless company is offered.
LEMMA ObligationWins ==
  ASSUME NEW in, in.needs \in [NeedNames -> Levels], in.routine \in [NeedNames -> 0 .. 23],
         in.now \in Nat, in.context = "NONE", NEW reason,
         ObligationGoals(in.obligation, in.preparation, in.now) =
           {Goal("FULFILL_WORK_OBLIGATION", reason, Priority.obligation, NeedScoreRange)}
  PROVE  SelectGoal(EvaluateGoals(in), {}) =
           {Goal("FULFILL_WORK_OBLIGATION", reason, Priority.obligation, NeedScoreRange)}
<1> DEFINE all == EvaluateGoals(in)
<1>1. PICK g : g = Goal("FULFILL_WORK_OBLIGATION", reason, Priority.obligation, NeedScoreRange)
  OBVIOUS
<1>2. g.score = Points(120) /\ g.priority = Points(100)
  BY <1>1, SMT DEF Goal, Priority, NeedScoreRange, Points, Unit
<1>3. Points(120) \in Int /\ Points(100) \in Int
  BY SMT DEF Points, Unit
<1>4. all = NeedGoals(in.needs) \cup RoutineGoals(in.routine, in.now) \cup {g}
  <2>1. ContextGoals(in.context, in.away) = {}
    <3>1. in.context # "SOCIAL_OPPORTUNITY" /\ in.context # "RETURN_HOME_REQUIRED"
      OBVIOUS
    <3> QED
      BY <3>1, Zenon DEF ContextGoals
  <2> QED
    BY <1>1, <2>1 DEF EvaluateGoals
<1>5. ASSUME NEW h \in all, h # g
      PROVE  Outranks(g, h) /\ ~Outranks(h, g)
  <2>1. /\ h.score \in Int /\ h.priority \in Int
        /\ h.score <= Points(120) /\ h.priority < Points(100)
    BY <1>4, <1>5, BidsAreBounded
  <2> QED
    BY <1>2, <1>3, <2>1 DEF Outranks
<1>6. g \in all
  BY <1>4
<1> HIDE DEF all
<1>7. Foremost(all) = {g}
  BY <1>5, <1>6 DEF Foremost
<1>8. SelectGoal(all, {}) = Foremost(all)
  BY DEF SelectGoal, Foremost
<1> QED
  BY <1>1, <1>7, <1>8 DEF all

\* One candidate is the draft.
LEMMA OnlyCandidate ==
  ASSUME NEW needs, NEW obs, NEW now, NEW g, NEW c,
         PursuedGoal(needs, obs, now) = {g}, CandidatesFor(g, obs, now) = {c},
         c.feasible, obs.act = "IDLE"
  PROVE  Draft(needs, obs, now) = {c}
<1>1. FeasibleCandidates(needs, obs, now) = {c}
  BY DEF FeasibleCandidates
<1> QED
  BY <1>1 DEF Draft

\* What a resident's decision reads of its needs and its profile.
Minded(x) ==
  /\ NeedsOf(x) \in [NeedNames -> Levels]
  /\ profile[x].routine \in [NeedNames -> 0 .. 23]

\* Who may meet its obligation now, and is not offered company, does.
LEMMA ObligationIsMet ==
  ASSUME TypeOK, NEW x \in Residents, Employed(x), IsIdle(x), Minded(x), NEW reason,
         SocialContext(NeedsOf(x), Observation(x)) = "NONE",
         ObligationOf(x).status \in {"NOT_DUE", "DUE"},
         ObligationGoals(ObligationOf(x), PreparationOf(x), worldTime) =
           {Goal("FULFILL_WORK_OBLIGATION", reason, Priority.obligation, NeedScoreRange)},
         runtime[x].loc = Workplace[x] =>
           /\ ObligationOf(x).status = "DUE" /\ OnTheHour(Observation(x), worldTime)
           /\ worldTime \notin runtime[x].shifts
  PROVE  DraftOf(x) = {Candidate(IF runtime[x].loc = Workplace[x] THEN "WORK" ELSE "MOVE",
                                 Workplace[x], TRUE)}
<1> DEFINE w == Workplace[x]
           in == [needs |-> NeedsOf(x), now |-> worldTime, routine |-> profile[x].routine,
                  obligation |-> ObligationOf(x), preparation |-> PreparationOf(x),
                  context |-> SocialContext(NeedsOf(x), Observation(x)),
                  away |-> runtime[x].loc # Home[x]]
<1>1. PICK obs : obs = Observation(x)
  OBVIOUS
<1>2. /\ obs.home = Home[x] /\ obs.loc = runtime[x].loc /\ obs.act = "IDLE"
      /\ obs.workplaces = {w} /\ obs.obligation = ObligationOf(x)
      /\ obs.worked = runtime[x].shifts /\ obs.preparation = PreparationOf(x)
      /\ obs.routine = profile[x].routine
  BY <1>1 DEF Observation, IsIdle, Employed
<1>3. PICK g : g = Goal("FULFILL_WORK_OBLIGATION", reason, Priority.obligation, NeedScoreRange)
  OBVIOUS
<1>4. PursuedGoal(NeedsOf(x), obs, worldTime) = {g}
  <2>1. PursuedGoal(NeedsOf(x), obs, worldTime) = SelectGoal(EvaluateGoals(in), {})
    BY <1>1, <1>2 DEF PursuedGoal
  <2>2. /\ in.needs \in [NeedNames -> Levels] /\ in.routine \in [NeedNames -> 0 .. 23]
        /\ in.now \in Nat /\ in.context = "NONE"
        /\ ObligationGoals(in.obligation, in.preparation, in.now) = {g}
    <3>1. /\ NeedsOf(x) \in [NeedNames -> Levels] /\ profile[x].routine \in [NeedNames -> 0 .. 23]
          /\ SocialContext(NeedsOf(x), Observation(x)) = "NONE"
      BY DEF Minded
    <3>2. worldTime \in Nat
      BY TimeAssumption DEF TypeOK, Times
    <3>3. ObligationGoals(ObligationOf(x), PreparationOf(x), worldTime) = {g}
      BY <1>3
    <3> QED
      BY <3>1, <3>2, <3>3
  <2> HIDE DEF in
  <2> QED
    BY <1>3, <2>1, <2>2, ObligationWins
<1>5. PICK c : c = Candidate(IF obs.loc = w THEN "WORK" ELSE "MOVE", w, TRUE)
  OBVIOUS
<1>6. CandidatesFor(g, obs, worldTime) = {c}
  <2>1. g.type = "FULFILL_WORK_OBLIGATION"
    BY <1>3 DEF Goal
  <2>2. CandidatesFor(g, obs, worldTime) = WorkCandidates(obs, worldTime)
    BY <2>1, Zenon DEF CandidatesFor
  <2>3. WorkCandidates(obs, worldTime) =
          {IF obs.loc = w
           THEN Candidate("WORK", w, /\ obs.obligation.status = "DUE"
                                     /\ OnTheHour(obs, worldTime) /\ worldTime \notin obs.worked)
           ELSE Candidate("MOVE", w, TRUE)}
    BY <1>2 DEF WorkCandidates
  <2>4. obs.loc = w => (/\ obs.obligation.status = "DUE"
                        /\ OnTheHour(obs, worldTime) /\ worldTime \notin obs.worked) = TRUE
    BY <1>1, <1>2
  <2> QED
    BY <1>5, <2>2, <2>3, <2>4
<1>7. c.feasible
  BY <1>5 DEF Candidate
<1>8. Draft(NeedsOf(x), obs, worldTime) = {c}
  BY <1>2, <1>4, <1>6, <1>7, OnlyCandidate
<1> QED
  BY <1>1, <1>2, <1>5, <1>8 DEF DraftOf

\* the way to work, the minute to leave for the shift at s, and company wanted
Away(x)     == runtime[x].loc # Workplace[x]
Way(x)      == IF Away(x) THEN TravelTime[runtime[x].loc][Workplace[x]] ELSE 0
Leave(x, s) == s - Way(x)
Lonely(x)   == NeedsOf(x).social >= Activation.social

\* Nobody walks to work for more than a quarter of an hour.
LEMMA WayFacts ==
  ASSUME TypeOK, NEW x \in Residents, Employed(x)
  PROVE  /\ Way(x) \in 0 .. 15 /\ (Away(x) <=> Way(x) # 0)
         /\ Away(x) => Way(x) = TravelTime[runtime[x].loc][Workplace[x]]
<1>1. runtime[x].loc \in Locations /\ Workplace[x] \in Locations
  BY PlaceAssumption DEF TypeOK, RuntimeRows, Employed
<1>2. PICK t : t = TravelTime[runtime[x].loc][Workplace[x]]
  OBVIOUS
<1>3. t \in Nat \ {0} /\ t <= 15
  BY <1>1, <1>2, PlaceAssumption, EndpointAssumption DEF HorizonTime
<1> QED
  BY <1>2, <1>3 DEF Way

\* Every shift begins at nine.
LEMMA ShiftFacts ==
  ASSUME NEW s \in ShiftStarts
  PROVE  /\ s \in Nat /\ s % Day = 540 /\ s >= 540 /\ Day = 1440
         /\ \E q \in Nat : s = 1440 * q + 540 /\ s \div Day = q
<1>1. s \in Nat /\ s % 1440 = 540
  BY CalendarAssumption, ShiftAssumption DEF ShiftHour, Hour, Day
<1>2. PICK q \in Nat : q = s \div 1440
  BY <1>1
<1>3. s = 1440 * q + 540
  BY <1>1, <1>2
<1> QED
  BY <1>1, <1>2, <1>3 DEF Day, Hour

\* The obligation of the day, from a quarter of an hour before its shift to its first minute.
LEMMA ObligationNow ==
  ASSUME TypeOK, NEW x \in Residents, Employed(x), NEW s \in ShiftStarts,
         worldTime \in s - 15 .. s
  PROVE  /\ ObligationOf(x).starts = s
         /\ ObligationOf(x).status = IF worldTime = s THEN "DUE" ELSE "NOT_DUE"
<1> DEFINE today == {u \in ShiftStarts : u \div Day = worldTime \div Day}
<1>1. PICK q \in Nat : s = 1440 * q + 540 /\ s \div Day = q /\ s \in Nat /\ Day = 1440
  BY ShiftFacts
<1>2. worldTime \in Nat /\ worldTime <= s /\ s - 15 <= worldTime
  BY <1>1, TimeAssumption DEF TypeOK, Times
<1>3. worldTime \div Day = q
  BY <1>1, <1>2
<1>4. ASSUME NEW u \in today
      PROVE  u = s
  <2>1. PICK p \in Nat : u = 1440 * p + 540 /\ u \div Day = p
    BY ShiftFacts
  <2> QED
    BY <1>1, <1>3, <2>1
<1>5. today = {s}
  <2>1. s \in today
    BY <1>1, <1>3
  <2> HIDE DEF today
  <2> QED
    BY <1>4, <2>1
<1>6. ObligationOf(x) = [starts |-> s,
                         status |-> IF worldTime < s THEN "NOT_DUE"
                                    ELSE IF worldTime < s + ShiftTime THEN "DUE" ELSE "LATE"]
  <2> HIDE DEF today
  <2>1. today # {} /\ (CHOOSE u \in today : TRUE) = s
    BY <1>5
  <2> QED
    BY <2>1 DEF ObligationOf, Employed, today
<1>7. ShiftTime \in Nat /\ ShiftTime > 0
  BY TimeAssumption
<1> QED
  BY <1>1, <1>2, <1>6, <1>7

\* At nine, who is at its place and has not worked this shift begins it.
LEMMA WorkIsDrafted ==
  ASSUME TypeOK, NEW x \in Residents, Employed(x), IsIdle(x), Minded(x), ~Away(x),
         worldTime \in ShiftStarts, worldTime \notin runtime[x].shifts
  PROVE  DraftOf(x) = {Candidate("WORK", Workplace[x], TRUE)}
<1>1. PICK s \in ShiftStarts : s = worldTime
  OBVIOUS
<1>2. s \in Nat /\ s % Day = 540 /\ worldTime \in s - 15 .. s
  BY <1>1, ShiftFacts
<1>3. ObligationOf(x).starts = s /\ ObligationOf(x).status = "DUE"
  BY <1>1, <1>2, ObligationNow
<1>4. SocialContext(NeedsOf(x), Observation(x)) = "NONE"
  BY <1>3 DEF SocialContext, Observation
<1>5. ObligationGoals(ObligationOf(x), PreparationOf(x), worldTime) =
        {Goal("FULFILL_WORK_OBLIGATION", "DUE", Priority.obligation, NeedScoreRange)}
  BY <1>3, Zenon DEF ObligationGoals
<1>6. OnTheHour(Observation(x), worldTime)
  BY <1>1, <1>2, <1>3 DEF OnTheHour, Observation, ShiftHour, Hour
<1> QED
  BY <1>3, <1>4, <1>5, <1>6, ObligationIsMet DEF Away

\* Who is to leave for work now, and does not want company, leaves.
LEMMA WalkIsDrafted ==
  ASSUME TypeOK, NEW x \in Residents, Employed(x), IsIdle(x), Minded(x), ~Lonely(x), Away(x),
         NEW s \in ShiftStarts, worldTime = Leave(x, s), NextShift(worldTime) = s
  PROVE  DraftOf(x) = {Candidate("MOVE", Workplace[x], TRUE)}
<1>1. PICK t : t = TravelTime[runtime[x].loc][Workplace[x]]
  OBVIOUS
<1>2. t \in 1 .. 15 /\ s \in Nat /\ worldTime = s - t /\ worldTime < s
  BY <1>1, WayFacts, ShiftFacts DEF Leave
<1>3. ObligationOf(x).starts = s /\ ObligationOf(x).status = "NOT_DUE"
  BY <1>2, ObligationNow
<1>4. SocialContext(NeedsOf(x), Observation(x)) = "NONE"
  <2>1. ~(NeedsOf(x).social >= Points(70))
    BY DEF Lonely, Activation
  <2> QED
    BY <2>1, Zenon DEF SocialContext
<1>5. PreparationOf(x) = {worldTime}
  <2>1. {v \in {Workplace[x]} \ {None, runtime[x].loc} :
           ObligationOf(x).status = "NOT_DUE"
             /\ ObligationOf(x).starts = NextShift(worldTime)} = {Workplace[x]}
    BY <1>3 DEF Employed, Away
  <2> QED
    BY <1>1, <1>2, <1>3, <2>1 DEF PreparationOf
<1>6. ObligationGoals(ObligationOf(x), PreparationOf(x), worldTime) =
        {Goal("FULFILL_WORK_OBLIGATION", "PREPARATION", Priority.obligation, NeedScoreRange)}
  <2>1. {m \in PreparationOf(x) : m <= worldTime /\ worldTime < ObligationOf(x).starts}
          = {worldTime}
    BY <1>2, <1>3, <1>5
  <2>2. ObligationGoals(ObligationOf(x), PreparationOf(x), worldTime) =
          {Goal("FULFILL_WORK_OBLIGATION", "PREPARATION", Priority.obligation, NeedScoreRange) :
             b \in {m \in PreparationOf(x) : m <= worldTime /\ worldTime < ObligationOf(x).starts}}
    BY <1>3, Zenon DEF ObligationGoals
  <2> QED
    BY <2>1, <2>2
<1> QED
  BY <1>3, <1>4, <1>6, ObligationIsMet DEF Away

\* The rows a start writes.
LEMMA StartedRows ==
  ASSUME RInv, NEW r \in Requests, NEW f, NEW rv, Start(r, f, rv)
  PROVE  /\ \A x \in Parties(r) :
              /\ x \in Residents /\ IsIdle(x)
              /\ runtime'[x].loc = runtime[x].loc /\ runtime'[x].shifts = runtime[x].shifts
              /\ runtime'[x].task = StartedTask(r, x)
         /\ \A x \in Residents \ Parties(r) : runtime'[x] = runtime[x]
         /\ worldTime' = worldTime /\ Commit("STARTED", r, worldTime, f)
         /\ wakes' = WakesAfterStart(r)
         /\ Duration(r) \in Nat \ {0}
         /\ r.type = "MOVE" => Duration(r) = TravelTime[runtime[r.actor].loc][r.arg]
         /\ r.type = "WORK" => /\ Workplace[r.actor] = runtime[r.actor].loc
                               /\ worldTime \in ShiftStarts
<1> USE DEF RInv, IInv
<1>1. /\ Decision(r, rv) = "COMMITTED" /\ Commit("STARTED", r, worldTime, f)
      /\ runtime' = [x \in Residents |->
                       IF x \in Parties(r) THEN StartedRow(r, x) ELSE runtime[x]]
      /\ worldTime' = worldTime /\ wakes' = WakesAfterStart(r)
  BY DEF Start
<1>2. Possible(r) /\ PartiesIdle(r) /\ (r.type = "WORK" => ShiftOpen(r.actor))
  BY <1>1, CommittedDecision
<1>3. ASSUME NEW x \in Parties(r)
      PROVE  /\ x \in Residents /\ IsIdle(x)
             /\ runtime'[x].loc = runtime[x].loc /\ runtime'[x].shifts = runtime[x].shifts
             /\ runtime'[x].task = StartedTask(r, x)
  <2>1. x \in Residents /\ IsIdle(x) /\ runtime[x] \in RuntimeRows
    BY <1>2, RequestFacts DEF PartiesIdle, TypeOK
  <2>2. runtime'[x] = Stamped(runtime[x], StartedTask(r, x))
    BY <1>1, <2>1 DEF StartedRow
  <2>3. StartedTask(r, x) \in Tasks
    BY StartedTaskTypes
  <2> QED
    BY <2>1, <2>2, <2>3, StampedFacts
<1>4. \A x \in Residents \ Parties(r) : runtime'[x] = runtime[x]
  BY <1>1
<1>5. Duration(r) \in Nat \ {0}
  BY DurationFacts
<1>6. r.type = "MOVE" => Duration(r) = TravelTime[runtime[r.actor].loc][r.arg]
  BY DEF Duration
<1>7. r.type = "WORK" => Workplace[r.actor] = runtime[r.actor].loc /\ worldTime \in ShiftStarts
  BY <1>2 DEF Possible, ShiftOpen
<1> QED
  BY <1>1, <1>3, <1>4, <1>5, <1>6, <1>7

\* The rows a completion writes.
LEMMA CompletedRows ==
  ASSUME RInv, DuesAreTimes, NEW r \in requests, NEW f, NEW v, Complete(r, f, v)
  PROVE  /\ r \in Requests
         /\ \A x \in Parties(r) :
              /\ x \in Residents /\ ~IsIdle(x) /\ runtime[x].task.inst = r
              /\ runtime[x].task.due <= worldTime
              /\ runtime'[x].task = Idle
              /\ runtime'[x].loc = IF r.type = "MOVE" THEN r.arg ELSE runtime[x].loc
              /\ runtime'[x].shifts = IF r.type = "WORK"
                                      THEN runtime[x].shifts \cup {runtime[x].task.started}
                                      ELSE runtime[x].shifts
         /\ \A x \in Residents \ Parties(r) : runtime'[x] = runtime[x]
         /\ worldTime' = worldTime /\ Commit("COMPLETED", r, worldTime, f)
         /\ wakes' = WakesAfterCompletion(r)
         /\ r.type = "MOVE" => runtime[r.actor].task.target = r.arg /\ r.arg \in Locations
         /\ r.type = "WORK" => /\ Workplace[r.actor] = runtime[r.actor].loc
                               /\ runtime[r.actor].task.started \in ShiftStarts
                               /\ runtime[r.actor].task.due
                                    = runtime[r.actor].task.started + ShiftTime
<1> USE DEF RInv, IInv
<1>1. /\ CompletionDisposition(r, v) = "EXECUTED" /\ Commit("COMPLETED", r, worldTime, f)
      /\ runtime' = [x \in Residents |->
                       IF x \in Parties(r) THEN CompletedRow(r, x) ELSE runtime[x]]
      /\ worldTime' = worldTime /\ wakes' = WakesAfterCompletion(r)
  BY DEF Complete
<1>2. /\ r \in Requests /\ \A y \in Parties(r) : y \in Residents /\ Half(r, y)
      /\ r.type = "MOVE" => runtime[r.actor].task.target = r.arg
      /\ Rederivable(r)
  BY <1>1, CompletedActivity
<1>3. \A x \in Parties(r) : x \in Residents /\ runtime[x].task.inst = r
                            /\ worldTime >= runtime[x].task.due
  BY CompleteWrites
<1>4. ASSUME NEW x \in Parties(r)
      PROVE  ~IsIdle(x) /\ runtime[x].task.due <= worldTime
  <2>1. x \in Residents /\ Half(r, x)
    BY <1>2
  <2>2. ActivityOf(r.type) # "IDLE"
    BY <1>2, ActivityFacts, RequestAssumption
  <2>3. ~IsIdle(x)
    BY <2>1, <2>2 DEF Half, IsIdle
  <2>4. worldTime \in Nat /\ runtime[x].task.due \in Nat
    BY <2>1, <2>3, FreeIsIdle, TimeAssumption DEF DuesAreTimes, TypeOK, Times
  <2> QED
    BY <1>3, <2>3, <2>4
<1>5. ASSUME NEW x \in Parties(r)
      PROVE  /\ runtime'[x].task = Idle
             /\ runtime'[x].loc = IF r.type = "MOVE" THEN r.arg ELSE runtime[x].loc
             /\ runtime'[x].shifts = IF r.type = "WORK"
                                     THEN runtime[x].shifts \cup {runtime[x].task.started}
                                     ELSE runtime[x].shifts
  <2>1. x \in Residents /\ runtime[x] \in RuntimeRows
    BY <1>2 DEF TypeOK
  <2>2. runtime'[x] = Stamped(Effect(r, x), Idle)
    BY <1>1, <2>1 DEF CompletedRow
  <2>3. Effect(r, x) \in RuntimeRows /\ Idle \in Tasks
    BY <1>2, EffectTypes, IdleIsTask
  <2>4. /\ runtime'[x].task = Idle /\ runtime'[x].loc = Effect(r, x).loc
        /\ runtime'[x].shifts = Effect(r, x).shifts
    BY <2>2, <2>3, StampedFacts
  <2>5. r.type = "MOVE" => x = r.actor
    BY DEF Parties
  <2>6. Effect(r, x).loc = IF r.type = "MOVE" THEN runtime[x].task.target ELSE runtime[x].loc
    BY <2>1 DEF Effect, RuntimeRows
  <2>7. Effect(r, x).shifts = IF r.type = "WORK"
                              THEN runtime[x].shifts \cup {runtime[x].task.started}
                              ELSE runtime[x].shifts
    BY <2>1 DEF Effect, RuntimeRows
  <2> QED
    BY <1>2, <2>4, <2>5, <2>6, <2>7
<1>6. \A x \in Residents \ Parties(r) : runtime'[x] = runtime[x]
  BY <1>1
<1>7. r.type = "MOVE" => r.arg \in Locations
  BY <1>2, RequestAssumption
<1>8. r.type = "WORK" => /\ Workplace[r.actor] = runtime[r.actor].loc
                         /\ runtime[r.actor].task.started \in ShiftStarts
                         /\ runtime[r.actor].task.due
                              = runtime[r.actor].task.started + ShiftTime
  BY <1>2 DEF Rederivable
<1> QED
  BY <1>1, <1>2, <1>3, <1>4, <1>5, <1>6, <1>7, <1>8

\* Activities have begun, and the shifts that were worked are over.
RowsArePast ==
  \A x \in Residents :
    /\ ~IsIdle(x) => runtime[x].task.started \in Nat /\ runtime[x].task.started <= worldTime
    /\ \A u \in runtime[x].shifts : u < worldTime

\* Every step of the kernel keeps it so.
LEMMA RowsStep ==
  ASSUME RInv, DuesAreTimes, RowsArePast, [Next]_vars
  PROVE  RowsArePast'
<1> USE DEF RInv, IInv
<1>1. worldTime \in Nat /\ worldTime' \in Nat /\ worldTime' >= worldTime
  <2>1. worldTime' >= worldTime
    BY LedgerStep
  <2>2. TypeOK'
    BY NextInv
  <2> QED
    BY <2>1, <2>2, TimeAssumption DEF TypeOK, Times
<1> SUFFICES ASSUME NEW x \in Residents
             PROVE  /\ IsIdle(x)' \/ ( /\ runtime'[x].task.started \in Nat
                                       /\ runtime'[x].task.started <= worldTime')
                    /\ \A u \in runtime'[x].shifts : u < worldTime'
  BY DEF RowsArePast
<1>2. \A u \in runtime[x].shifts : u \in Nat /\ u < worldTime
  BY CalendarAssumption DEF RowsArePast, TypeOK, RuntimeRows
<1>3. ASSUME runtime'[x] = runtime[x]
      PROVE  /\ IsIdle(x)' \/ ( /\ runtime'[x].task.started \in Nat
                                /\ runtime'[x].task.started <= worldTime')
             /\ \A u \in runtime'[x].shifts : u < worldTime'
  BY <1>1, <1>2, <1>3 DEF RowsArePast, IsIdle
<1>4. ASSUME NEW r \in Requests, NEW f, NEW rv, Start(r, f, rv), x \in Parties(r)
      PROVE  /\ runtime'[x].task.started \in Nat /\ runtime'[x].task.started <= worldTime'
             /\ \A u \in runtime'[x].shifts : u < worldTime'
  <2>1. runtime'[x].task.started = worldTime /\ runtime'[x].shifts = runtime[x].shifts
    BY <1>4, StartedRows, StartedTaskFields
  <2> QED
    BY <1>1, <1>2, <2>1
<1>5. ASSUME NEW r \in requests, NEW f, NEW v, Complete(r, f, v), x \in Parties(r)
      PROVE  IsIdle(x)' /\ \A u \in runtime'[x].shifts : u < worldTime'
  <2>1. /\ runtime'[x].task = Idle /\ runtime[x].task.due <= worldTime
        /\ runtime'[x].shifts = IF r.type = "WORK"
                                THEN runtime[x].shifts \cup {runtime[x].task.started}
                                ELSE runtime[x].shifts
    BY <1>5, CompletedRows
  <2>2. CASE r.type = "WORK"
    <3>1. x = r.actor
      BY <1>5, <2>2 DEF Parties
    <3>2. PICK s \in ShiftStarts :
             runtime[x].task.started = s /\ runtime[x].task.due = s + ShiftTime
      BY <1>5, <2>2, <3>1, CompletedRows
    <3>3. s \in Nat /\ s < worldTime
      <4>1. s \in Nat /\ ShiftTime \in Nat /\ ShiftTime > 0
        BY CalendarAssumption, TimeAssumption
      <4> QED
        BY <1>1, <2>1, <3>2, <4>1
    <3> QED
      BY <1>1, <1>2, <2>1, <2>2, <3>2, <3>3 DEF IsIdle, Idle
  <2>3. CASE r.type # "WORK"
    BY <1>1, <1>2, <2>1, <2>3 DEF IsIdle, Idle
  <2> QED
    BY <2>2, <2>3
<1>6. ASSUME NEW r \in Requests, NEW f, NEW rv, Start(r, f, rv), x \notin Parties(r)
      PROVE  runtime'[x] = runtime[x]
  BY <1>6, StartWrites
<1>7. ASSUME NEW r \in requests, NEW f, NEW v, Complete(r, f, v), x \notin Parties(r)
      PROVE  runtime'[x] = runtime[x]
  BY <1>7, CompleteWrites
<1>8. CASE \E r \in Requests : \E f, rv : Refuse(r, f, rv)
  BY <1>3, <1>8, RefuseWrites
<1>9. CASE OtherStep
  BY <1>3, <1>9 DEF OtherStep
<1> QED
  BY <1>3, <1>4, <1>5, <1>6, <1>7, <1>8, <1>9, StepKinds

-----------------------------------------------------------------------------
(* What every instant of the loop keeps *)

\* Once a step has returned, no activity is due any more.
NothingRunsOver == Handling => \A x \in Busy : runtime[x].task.due > worldTime

\* What the loop keeps in memory of its residents' needs.
MindsTyped ==
  /\ profile \in Populations /\ anchors \in [Residents -> Anchors]
  /\ pc = "completing" => \A i \in DOMAIN batch : batch[i].started \in Nat

\* A wake in hand is due, and so is any that is registered under its key meanwhile.
HandIsDue ==
  \A i \in DOMAIN hand :
    /\ \A w \in wakes : WakeKey(w) = hand[i].key => w.due <= worldTime
    /\ \A x, s : hand[i].key = <<x, "BOUNDARY", s>> => s <= worldTime

\* What the loop keeps at every instant, beside the kernel's and the chain's invariants.
InstantInv ==
  WakesOfEmployees /\ RowsArePast /\ BatchIsFree /\ NothingRunsOver /\ MindsTyped /\ HandIsDue

\* Every step of the loop keeps activities that have ended apart from those that go on.
LEMMA RoundStep ==
  ASSUME StoryWorld, LoopTypes, BatchIsFree, NothingRunsOver, [StoryNext]_storyVars
  PROVE  BatchIsFree' /\ NothingRunsOver'
<1> USE DEF StoryWorld, RInv, IInv
<1>1. CASE Bootstrap \/ TakeLease
  <2>1. pc' # "completing" /\ ~Handling'
    BY <1>1 DEF Bootstrap, TakeLease, Handling
  <2> QED
    BY <2>1 DEF BatchIsFree, NothingRunsOver
<1>2. CASE RunUntilNext
  <2>1. batch' = <<>> /\ ~Handling'
    BY <1>2 DEF RunUntilNext, Handling
  <2> QED
    BY <2>1 DEF BatchIsFree, NothingRunsOver
<1>3. CASE CompleteNext
  <2>1. pc' = "completing"
    BY <1>3 DEF CompleteNext
  <2> QED
    BY <1>3, <2>1, CompletionKeepsBatch DEF NothingRunsOver, Handling
<1>4. CASE DeliverStep
  <2>1. pc' = "handling" /\ UNCHANGED <<worldTime, runtime>>
    BY <1>4 DEF DeliverStep, vars
  <2>2. \A x \in Busy : runtime[x].task.due > worldTime
    BY <1>4, NothingIsOverdue
  <2> QED
    BY <2>1, <2>2 DEF BatchIsFree, NothingRunsOver, Busy, IsIdle
<1>5. CASE Acknowledge
  <2>1. Handling /\ pc' # "completing" /\ UNCHANGED <<worldTime, runtime>>
    BY <1>5 DEF Acknowledge, Handling
  <2> QED
    BY <2>1 DEF BatchIsFree, NothingRunsOver, Busy, IsIdle
<1>6. CASE Decide
  <2>1. PICK x : Decided(x) /\ pc = "deciding" /\ pc' = "handling"
    BY <1>6, DecisionShape
  <2>2. CASE UNCHANGED vars
    <3>1. UNCHANGED <<worldTime, runtime>>
      BY <2>2 DEF vars
    <3> QED
      BY <2>1, <3>1 DEF BatchIsFree, NothingRunsOver, Handling, Busy, IsIdle
  <2>3. ASSUME NEW r \in Requests, NEW rv, Start(r, lease, rv)
        PROVE  NothingRunsOver'
    <3>1. worldTime \in Nat
      BY TimeAssumption DEF TypeOK, Times
    <3>2. ASSUME NEW y \in Busy'
          PROVE  runtime'[y].task.due > worldTime
      <4>1. y \in Residents
        BY <3>2 DEF Busy
      <4>2. CASE y \in Parties(r)
        <5>1. runtime'[y].task.due = worldTime + Duration(r) /\ Duration(r) \in Nat \ {0}
          BY <2>3, <4>2, StartWrites, DurationFacts
        <5> QED
          BY <3>1, <5>1
      <4>3. CASE y \notin Parties(r)
        <5>1. runtime'[y] = runtime[y]
          BY <2>3, <4>1, <4>3, StartWrites
        <5>2. y \in Busy
          BY <3>2, <4>1, <5>1 DEF Busy, IsIdle
        <5> QED
          BY <2>1, <5>1, <5>2 DEF NothingRunsOver, Handling
      <4> QED
        BY <4>2, <4>3
    <3>3. worldTime' = worldTime
      BY <2>3 DEF Start
    <3> QED
      BY <3>2, <3>3 DEF NothingRunsOver
  <2>4. BatchIsFree'
    BY <2>1 DEF BatchIsFree
  <2> QED
    BY <2>1, <2>2, <2>3, <2>4 DEF Decided
<1>7. CASE EndStep
  <2>1. ~Handling' /\ pc' # "completing"
    BY <1>7 DEF EndStep, Handling
  <2> QED
    BY <2>1 DEF BatchIsFree, NothingRunsOver
<1>8. CASE Finished \/ UNCHANGED storyVars
  <2>1. UNCHANGED <<pc, worldTime, runtime, batch>>
    BY <1>8 DEF Finished, storyVars, loop, vars
  <2> QED
    BY <2>1 DEF BatchIsFree, NothingRunsOver, Handling, Busy, IsIdle
<1> QED
  BY <1>1, <1>2, <1>3, <1>4, <1>5, <1>6, <1>7, <1>8 DEF StoryNext

\* What a completed activity leaves of a resident's needs is an anchor again.
LEMMA SettledIsAnchor ==
  ASSUME TypeOK, MindsTyped, NEW x \in Residents, NEW task \in Completed, task.started \in Nat
  PROVE  Settled(x, task) \in Anchors
<1> DEFINE r == task.inst
<1>1. PICK pace \in Paces : pace = profile[x].pace
  BY LoopAssumption DEF MindsTyped, Paces
<1>2. PICK anchor \in Anchors : anchor = anchors[x]
  BY DEF MindsTyped
<1>3. PICK now \in Nat : now = worldTime
  BY TimeAssumption DEF TypeOK, Times
<1>4. ASSUME NEW level \in [NeedNames -> Levels], NEW at \in Nat
      PROVE  [at |-> at, level |-> level] \in Anchors
  <2>1. Levels \subseteq Int
    BY DEF Levels
  <2> HIDE DEF Levels
  <2>2. level \in [NeedNames -> Int]
    BY <2>1
  <2> QED
    BY <2>2 DEF Anchors
<1>5. CASE r.type = "SLEEP"
  <2>1. PICK from \in Nat : from = task.started
    OBVIOUS
  <2>2. PICK dozing : dozing = [at |-> from, level |-> EvaluateNeeds(pace, anchor, "AWAKE", from)]
    OBVIOUS
  <2>3. dozing \in Anchors
    <3>1. EvaluateNeeds(pace, anchor, "AWAKE", from) \in [NeedNames -> Levels]
      BY NeedFacts
    <3> QED
      BY <1>4, <2>2, <3>1
  <2>4. EvaluateNeeds(pace, dozing, "RESTING", now) \in [NeedNames -> Levels]
    BY <2>3, NeedFacts
  <2>5. Settled(x, task) = [at |-> now, level |-> EvaluateNeeds(pace, dozing, "RESTING", now)]
    <3>1. Settled(x, task) = AfterSleep(pace, anchor, from, now)
      BY <1>1, <1>2, <1>3, <1>5, <2>1, Zenon DEF Settled
    <3> QED
      BY <2>2, <3>1 DEF AfterSleep
  <2> QED
    BY <1>4, <2>4, <2>5
<1>6. ASSUME NEW need \in {"hunger", "social"}, NEW quantity \in Nat
      PROVE  AfterEffect(pace, anchor, need, quantity, now) \in Anchors
  <2>1. PICK level \in [NeedNames -> Levels] : level = EvaluateNeeds(pace, anchor, "AWAKE", now)
    BY NeedFacts
  <2>2. PICK v : v = level[need] - quantity * Relief[need]
    OBVIOUS
  <2>3. Clamp(v) \in Levels
    <3>1. level[need] \in Levels
      BY DEF NeedNames
    <3>2. level[need] \in Int
      BY <3>1 DEF Levels
    <3>3. Relief[need] \in Int
      BY SMT DEF Relief, Points, Unit
    <3>4. quantity * Relief[need] \in Int
      BY <3>3
    <3>5. v \in Int
      BY <2>2, <3>2, <3>4
    <3> QED
      BY <3>5, ClampFacts
  <2>4. AfterEffect(pace, anchor, need, quantity, now) =
          [at |-> now, level |-> [level EXCEPT ![need] = Clamp(v)]]
    <3>1. AfterEffect(pace, anchor, need, quantity, now) =
            [at |-> now, level |-> [level EXCEPT ![need] = Clamp(@ - quantity * Relief[need])]]
      BY <2>1 DEF AfterEffect
    <3>2. need \in DOMAIN level
      BY DEF NeedNames
    <3> QED
      BY <2>2, <3>1, <3>2
  <2>5. [level EXCEPT ![need] = Clamp(v)] \in [NeedNames -> Levels]
    BY <2>3
  <2> QED
    BY <1>4, <2>4, <2>5
<1>7. CASE r.type = "EAT"
  <2>1. r.quantity \in Nat
    BY <1>7, RequestAssumption DEF Completed
  <2>2. Settled(x, task) = AfterEffect(pace, anchor, "hunger", r.quantity, now)
    BY <1>1, <1>2, <1>3, <1>7, Zenon DEF Settled
  <2> QED
    BY <1>6, <2>1, <2>2
<1>8. CASE r.type = "TALK"
  <2>1. Settled(x, task) = AfterEffect(pace, anchor, "social", 1, now)
    BY <1>1, <1>2, <1>3, <1>8, Zenon DEF Settled
  <2> QED
    BY <1>6, <2>1
<1>9. CASE r.type \notin {"SLEEP", "EAT", "TALK"}
  <2>1. Settled(x, task) = anchor
    BY <1>2, <1>9, Zenon DEF Settled
  <2> QED
    BY <2>1
<1> QED
  BY <1>5, <1>7, <1>8, <1>9

\* No step of the loop takes in anything that is not an anchor.
LEMMA MindsStep ==
  ASSUME StoryWorld, LoopTypes, RowsArePast, MindsTyped, [StoryNext]_storyVars
  PROVE  MindsTyped'
<1> USE DEF StoryWorld, RInv, IInv
<1>1. CASE /\ UNCHANGED <<profile, anchors>>
           /\ pc' # "completing" \/ batch' = <<>> \/ UNCHANGED <<pc, batch>>
  BY <1>1 DEF MindsTyped
<1>2. CASE Bootstrap \/ TakeLease \/ RunUntilNext \/ Acknowledge \/ EndStep
  <2>1. /\ UNCHANGED <<profile, anchors>>
        /\ pc' # "completing" \/ batch' = <<>>
    BY <1>2 DEF Bootstrap, TakeLease, RunUntilNext, Acknowledge, EndStep
  <2> QED
    BY <1>1, <2>1
<1>3. CASE CompleteNext
  <2>1. PICK z \in DueActors : batch' = Append(batch, runtime[z].task)
    BY <1>3 DEF CompleteNext
  <2>2. PICK t : t = runtime[z].task
    OBVIOUS
  <2>3. z \in Residents /\ ~IsIdle(z) /\ t \in Completed
    BY <2>2, DueActivity
  <2>4. t.started \in Nat
    BY <2>2, <2>3 DEF RowsArePast
  <2>5. PICK n \in Nat : n = Len(batch)
    BY DEF LoopTypes
  <2>6. /\ DOMAIN batch = 1 .. n /\ DOMAIN batch' = 1 .. n + 1
        /\ \A i \in 1 .. n : batch'[i] = batch[i]
        /\ batch'[n + 1] = t
    <3>1. batch \in Seq(Completed) /\ batch' = Append(batch, t)
      BY <2>1, <2>2 DEF LoopTypes
    <3> HIDE DEF Completed
    <3> QED
      BY <2>3, <2>5, <3>1, AppendProperties
  <2>7. pc = "completing" /\ UNCHANGED <<profile, pc, anchors>>
    BY <1>3 DEF CompleteNext
  <2>8. \A i : i \in 1 .. n + 1 <=> i \in 1 .. n \/ i = n + 1
    OBVIOUS
  <2> QED
    BY <2>4, <2>6, <2>7, <2>8 DEF MindsTyped
<1>4. CASE DeliverStep
  <2>1. /\ pc = "completing" /\ pc' = "handling" /\ profile' = profile
        /\ anchors' = [x \in Residents |->
             IF \E i \in DOMAIN batch : x \in Parties(batch[i].inst)
             THEN Settled(x, batch[CHOOSE i \in DOMAIN batch : x \in Parties(batch[i].inst)])
             ELSE anchors[x]]
    BY <1>4 DEF DeliverStep
  <2>2. ASSUME NEW x \in Residents, NEW i \in DOMAIN batch
        PROVE  Settled(x, batch[i]) \in Anchors
    <3>1. PICK task \in Completed : task = batch[i]
      <4>1. batch \in Seq(Completed)
        BY DEF LoopTypes
      <4> HIDE DEF Completed
      <4> QED
        BY <4>1, ElementOfSeq
    <3>2. task.started \in Nat
      BY <2>1, <3>1 DEF MindsTyped
    <3> QED
      BY <3>1, <3>2, SettledIsAnchor
  <2>3. ASSUME NEW x \in Residents
        PROVE  anchors'[x] \in Anchors
    <3>1. CASE \E i \in DOMAIN batch : x \in Parties(batch[i].inst)
      <4>1. PICK i \in DOMAIN batch :
               i = CHOOSE k \in DOMAIN batch : x \in Parties(batch[k].inst)
        BY <3>1
      <4>2. anchors'[x] = Settled(x, batch[i])
        BY <2>1, <3>1, <4>1
      <4> QED
        BY <2>2, <4>2
    <3>2. CASE ~ \E i \in DOMAIN batch : x \in Parties(batch[i].inst)
      BY <2>1, <3>2 DEF MindsTyped
    <3> QED
      BY <3>1, <3>2
  <2>4. anchors' \in [Residents -> Anchors]
    <3>1. anchors' = [x \in Residents |-> anchors'[x]]
      BY <2>1
    <3> HIDE DEF Anchors
    <3> QED
      BY <2>3, <3>1
  <2> QED
    BY <2>1, <2>4 DEF MindsTyped
<1>5. CASE Decide
  <2>1. pc' = "handling" /\ UNCHANGED <<profile, anchors>>
    BY <1>5, DecisionShape
  <2> QED
    BY <1>1, <2>1
<1>6. CASE Finished \/ UNCHANGED storyVars
  <2>1. UNCHANGED <<profile, anchors, pc, batch>>
    BY <1>6 DEF Finished, storyVars, loop
  <2> QED
    BY <1>1, <2>1
<1> QED
  BY <1>2, <1>3, <1>4, <1>5, <1>6 DEF StoryNext

\* No step of the loop takes a wake in hand, or registers one under its key, before its time.
LEMMA HandStep ==
  ASSUME StoryWorld, LoopTypes, WakesOfEmployees, HandIsDue, [StoryNext]_storyVars
  PROVE  HandIsDue'
<1> USE DEF StoryWorld, RInv, IInv
<1>1. CASE hand' = <<>>
  <2>1. DOMAIN hand' = {}
    BY <1>1
  <2> QED
    BY <2>1 DEF HandIsDue
<1>2. CASE Bootstrap \/ TakeLease \/ RunUntilNext \/ CompleteNext \/ EndStep
  <2>1. hand' = <<>>
    BY <1>2 DEF Bootstrap, TakeLease, RunUntilNext, CompleteNext, EndStep, LoopTypes
  <2> QED
    BY <1>1, <2>1
<1>3. CASE DeliverStep
  <2>1. /\ hand' \in Arranged(CompletionItems \cup DueItems)
        /\ UNCHANGED <<worldTime, wakes>>
    BY <1>3 DEF DeliverStep, vars
  <2>2. ASSUME NEW i \in DOMAIN hand'
        PROVE  /\ \A w \in wakes : WakeKey(w) = hand'[i].key => w.due <= worldTime
               /\ \A x, s : hand'[i].key = <<x, "BOUNDARY", s>> => s <= worldTime
    <3>1. PICK item \in CompletionItems \cup DueItems : item = hand'[i]
      BY <2>1 DEF Arranged
    <3>2. \/ item.key = <<>>
          \/ \E w \in wakes : w.due <= worldTime /\ item.key = WakeKey(w)
          \/ \E w \in deferred : item.key = LoopKey(w)
      BY <3>1 DEF CompletionItems, DueItems, KernelItem, LoopItem, Item
    <3>3. CASE item.key = <<>>
      BY <3>1, <3>3 DEF WakeKey
    <3>4. ASSUME NEW w \in wakes, w.due <= worldTime, item.key = WakeKey(w)
          PROVE  /\ \A v \in wakes : WakeKey(v) = item.key => v.due <= worldTime
                 /\ \A x, s : item.key = <<x, "BOUNDARY", s>> => s <= worldTime
      <4>1. \A v \in wakes : WakeKey(v) = item.key => v = w
        BY <3>4 DEF KeysUnique, UniqueKeys
      <4>2. \A x, s : item.key = <<x, "BOUNDARY", s>> => w.kind = "BOUNDARY" /\ w.shift = s
        BY <3>4 DEF WakeKey
      <4> QED
        BY <3>4, <4>1, <4>2 DEF WakesOfEmployees, WorkWake
    <3>5. ASSUME NEW w \in deferred, item.key = LoopKey(w)
          PROVE  /\ \A v \in wakes : WakeKey(v) # item.key
                 /\ \A x, s : item.key # <<x, "BOUNDARY", s>>
      <4>1. item.key[2] \in {"INITIAL_DECISION", "DEFERRED_REPLAN"}
        BY <3>5 DEF LoopKey, LoopTypes, LoopWakes
      <4>2. \A v \in wakes : WakeKey(v)[2] \in {"BOUNDARY", "PREPARATION"}
        BY DEF WakeKey, TypeOK, WakeRows
      <4> QED
        BY <4>1, <4>2
    <3> QED
      BY <3>1, <3>2, <3>3, <3>4, <3>5
  <2> QED
    BY <2>1, <2>2 DEF HandIsDue
<1>4. ASSUME hand # <<>>, hand' = Tail(hand), worldTime' = worldTime,
             \A w \in wakes' : w \in wakes \/ \E x, s : WakeKey(w) = <<x, "BOUNDARY", s>> /\ s > worldTime
      PROVE  HandIsDue'
  <2> SUFFICES ASSUME NEW i \in DOMAIN Tail(hand)
               PROVE  /\ \A w \in wakes' : WakeKey(w) = Tail(hand)[i].key => w.due <= worldTime
                      /\ \A x, s : Tail(hand)[i].key = <<x, "BOUNDARY", s>> => s <= worldTime
    BY <1>4 DEF HandIsDue
  <2>1. i + 1 \in DOMAIN hand /\ Tail(hand)[i] = hand[i + 1]
    BY <1>4, RestOfHand
  <2>2. PICK key : key = Tail(hand)[i].key
    OBVIOUS
  <2>3. /\ \A w \in wakes : WakeKey(w) = key => w.due <= worldTime
        /\ \A x, s : key = <<x, "BOUNDARY", s>> => s <= worldTime
    BY <2>1, <2>2 DEF HandIsDue
  <2>4. ASSUME NEW w \in wakes', WakeKey(w) = key, w \notin wakes
        PROVE  FALSE
    <3>1. PICK x, s : WakeKey(w) = <<x, "BOUNDARY", s>> /\ s > worldTime
      BY <1>4, <2>4
    <3>2. s <= worldTime /\ s = w.shift
      BY <2>3, <2>4, <3>1 DEF WakeKey
    <3>3. s \in Nat /\ worldTime \in Nat
      <4>1. w \in WakeRows
        <5>1. TypeOK'
          BY StoryStepSimulation, NextInv
        <5> QED
          BY <2>4, <5>1 DEF TypeOK
      <4> QED
        BY <3>2, <4>1, CalendarAssumption, TimeAssumption DEF WakeRows, TypeOK, Times
    <3> QED
      BY <3>1, <3>2, <3>3
  <2> QED
    BY <2>2, <2>3, <2>4
<1>5. CASE Acknowledge
  <2>1. /\ hand # <<>> /\ worldTime' = worldTime /\ wakes' \subseteq wakes
        /\ hand' = hand \/ hand' = Tail(hand)
    BY <1>5 DEF Acknowledge
  <2>2. CASE hand' = hand
    BY <2>1, <2>2 DEF HandIsDue
  <2>3. CASE hand' = Tail(hand)
    BY <1>4, <2>1, <2>3
  <2> QED
    BY <2>1, <2>2, <2>3
<1>6. CASE Decide
  <2>1. PICK x : Decided(x) /\ pc = "deciding" /\ hand' = Tail(hand)
    BY <1>6, DecisionShape
  <2>2. hand # <<>>
    BY <2>1 DEF LoopTypes
  <2>3. CASE UNCHANGED vars
    <3>1. UNCHANGED <<worldTime, wakes>>
      BY <2>3 DEF vars
    <3> QED
      BY <1>4, <2>1, <2>2, <3>1
  <2>4. ASSUME NEW r \in Requests, NEW rv, Start(r, lease, rv)
        PROVE  HandIsDue'
    <3>1. ASSUME NEW w \in wakes', w \notin wakes
          PROVE  \E y, s : WakeKey(w) = <<y, "BOUNDARY", s>> /\ s > worldTime
      <4>1. w \in BoundaryWake(r.actor, runtime[r.actor].version + 1, worldSeq + 1)
        BY <2>4, <3>1 DEF Start, WakesAfterStart, Upsert
      <4>2. WakeKey(w) = <<r.actor, "BOUNDARY", NextShift(worldTime)>>
        BY <4>1 DEF BoundaryWake, Wake, WakeKey
      <4>3. NextShift(worldTime) > worldTime
        BY NextShiftLater DEF TypeOK
      <4> QED
        BY <4>2, <4>3
    <3>2. worldTime' = worldTime
      BY <2>4 DEF Start
    <3> QED
      BY <1>4, <2>1, <2>2, <3>1, <3>2
  <2> QED
    BY <2>1, <2>3, <2>4 DEF Decided
<1>7. CASE Finished \/ UNCHANGED storyVars
  <2>1. UNCHANGED <<hand, wakes, worldTime>>
    BY <1>7 DEF Finished, storyVars, loop, vars
  <2> QED
    BY <2>1 DEF HandIsDue
<1> QED
  BY <1>2, <1>3, <1>5, <1>6, <1>7 DEF StoryNext

\* What the loop keeps at every instant, it keeps.
LEMMA InstantStep ==
  ASSUME StoryWorld, LoopTypes, InstantInv, [StoryNext]_storyVars
  PROVE  InstantInv'
<1>1. [Next]_vars
  BY StoryStepSimulation DEF StoryWorld, RInv, IInv
<1> QED
  BY <1>1, EmployeesStep, RowsStep, RoundStep, MindsStep, HandStep DEF InstantInv, StoryWorld

\* The loop begins with nothing under way and nothing in hand.
LEMMA InitInstant == StoryInit => InstantInv
<1> SUFFICES ASSUME StoryInit PROVE InstantInv
  OBVIOUS
<1>1. /\ wakes = {} /\ hand = <<>> /\ pc = "bootstrap"
      /\ profile \in Populations /\ anchors = [x \in Residents |-> SeededAnchor]
      /\ \A x \in Residents : IsIdle(x) /\ runtime[x].shifts = {}
  BY DEF StoryInit, Init, IsIdle, Idle
<1>2. anchors \in [Residents -> Anchors]
  <2>1. Points(20) \in Int
    BY SMT DEF Points, Unit
  <2>2. SeededAnchor \in Anchors
    BY <2>1 DEF SeededAnchor, Anchors
  <2> QED
    BY <1>1, <2>2
<1>3. DOMAIN hand = {}
  BY <1>1
<1> QED
  BY <1>1, <1>2, <1>3
  DEF InstantInv, WakesOfEmployees, RowsArePast, BatchIsFree, NothingRunsOver, Handling,
      MindsTyped, HandIsDue

-----------------------------------------------------------------------------
(* On the way to a shift *)

\* s is the shift that comes next or begins now, and x stirred before it
Coming(x, s) ==
  /\ worldTime <= s /\ s + ShiftTime <= Target
  /\ \A u \in ShiftStarts : u <= worldTime \/ s <= u
  /\ pc # "bootstrap" /\ Stirred(x, s)

\* x will be woken when the shift begins, and at t to leave for it
Booked(x, s)    == \E w \in wakes : WakeKey(w) = <<x, "BOUNDARY", s>> /\ w.due = s
Called(x, s, t) == \E w \in wakes : WakeKey(w) = <<x, "PREPARATION", s>> /\ w.due = t

\* it is for x to decide; x is at work; x began what it does now, or before t;
\* x walks to its shift; x completed something after t, or in this step
Asked(x)        == pc = "deciding" /\ Head(hand).resident = x
Working(x)      == runtime[x].task.act = "WORKING"
Own(x)          == Leads(x) /\ runtime[x].task.started = worldTime
BusySince(x, t) == ~IsIdle(x) /\ (~Leads(x) \/ runtime[x].task.started < t)
BusyPast(x, t)  == IsIdle(x) \/ runtime[x].task.due > t
Going(x, s)     == /\ Leads(x) /\ runtime[x].task.inst.type = "MOVE"
                   /\ runtime[x].task.inst.arg = Workplace[x] /\ runtime[x].task.due = s
EndedAfter(x, t) == \E i \in 1 .. worldSeq : /\ ledger[i].type = "COMPLETED" /\ ledger[i].at > t
                                             /\ x \in Parties(ledger[i].req)
InBatch(x)      == pc = "completing" /\ Pending(x) # {}

\* when the shift begins x is woken, or was, and what it does then is work
AtNine(x, s) ==
  /\ worldTime < s => Booked(x, s)
  /\ worldTime = s =>
       /\ \/ Booked(x, s)
          \/ BusyPast(x, s) /\ (Asked(x) \/ Away(x) \/ Working(x) \/ BusySince(x, s))
       /\ Own(x) /\ ~Away(x) => Working(x)

\* when it is time to leave x is woken, or was, and what it does then is walk
Leaving(x, s, t) ==
  /\ ~InBatch(x) /\ BusyPast(x, t)
  /\ (worldTime = t /\ Asked(x)) \/ BusySince(x, t) \/ Going(x, s) \/ Lonely(x)
OnTheWay(x, s, t) ==
  /\ worldTime < t => Called(x, s, t)
  /\ worldTime = t /\ Own(x) => Going(x, s) \/ Lonely(x)
  /\ worldTime >= t => \/ EndedAfter(x, t)
                       \/ worldTime = t /\ Called(x, s, t)
                       \/ Leaving(x, s, t)

Ready(x, s) == AtNine(x, s) /\ (Away(x) => \A t \in {Leave(x, s)} : OnTheWay(x, s, t))

(***************************************************************************)
(* The inductive form of ShiftsAreAttended: until the shift begins, its    *)
(* wakes are booked; from each of them on, the resident is being asked, is *)
(* busy with what it began before, or does what the wake was for.          *)
(***************************************************************************)
AttendInv ==
  \A x \in Residents, s \in ShiftStarts : Employed(x) /\ Coming(x, s) => Ready(x, s)

\* Needs are levels, and the routine has its hours.
LEMMA MindsAreSound ==
  ASSUME TypeOK, MindsTyped, NEW x \in Residents
  PROVE  Minded(x)
<1>1. PICK pace \in Paces : pace = profile[x].pace
  BY LoopAssumption DEF MindsTyped, Paces
<1>2. PICK anchor \in Anchors : anchor = anchors[x]
  BY DEF MindsTyped
<1>3. PICK now \in Nat : now = worldTime
  BY TimeAssumption DEF TypeOK, Times
<1>4. EvaluateNeeds(pace, anchor, "AWAKE", now) \in [NeedNames -> Levels]
  BY NeedFacts
<1>5. profile[x].routine \in [NeedNames -> 0 .. 23]
  BY LoopAssumption DEF MindsTyped
<1> QED
  BY <1>1, <1>2, <1>3, <1>4, <1>5 DEF Minded, NeedsOf

\* Who is lonely stays so until its anchor is replaced.
LEMMA LonelyStays ==
  ASSUME TypeOK, TypeOK', MindsTyped, NEW x \in Residents, Lonely(x),
         profile' = profile, anchors'[x] = anchors[x], worldTime <= worldTime'
  PROVE  Lonely(x)'
<1>1. PICK pace \in Paces : pace = profile[x].pace
  BY LoopAssumption DEF MindsTyped, Paces
<1>2. PICK anchor \in Anchors : anchor = anchors[x]
  BY DEF MindsTyped
<1>3. PICK now \in Nat, later \in Nat : now = worldTime /\ later = worldTime'
  BY TimeAssumption DEF TypeOK, Times
<1>4. PICK a, b : /\ a = EvaluateNeeds(pace, anchor, "AWAKE", now)
                  /\ b = EvaluateNeeds(pace, anchor, "AWAKE", later)
  OBVIOUS
<1>5. a \in [NeedNames -> Levels] /\ b \in [NeedNames -> Levels] /\ a.social <= b.social
  <2>1. now <= later
    BY <1>3
  <2>2. "AWAKE" \in {"AWAKE", "RESTING"}
    OBVIOUS
  <2> QED
    BY <1>4, <2>1, <2>2, NeedFacts
<1>6. a.social \in Int /\ b.social \in Int
  <2>1. "social" \in NeedNames /\ Levels \subseteq Int
    BY DEF NeedNames, Levels
  <2> HIDE DEF Levels, NeedNames
  <2>2. a["social"] \in Levels /\ b["social"] \in Levels
    BY <1>5, <2>1
  <2> QED
    BY <2>1, <2>2
<1>7. NeedsOf(x) = a /\ NeedsOf(x)' = b
  BY <1>1, <1>2, <1>3, <1>4 DEF NeedsOf
<1>8. PICK n \in Int : n = Activation.social
  BY SMT DEF Activation, Points, Unit
<1> QED
  BY <1>5, <1>6, <1>7, <1>8 DEF Lonely

\* A commit of anything else, or after the shift has begun, does not make x stir.
LEMMA StirredBefore ==
  ASSUME TypeOK, NEW x, NEW s \in ShiftStarts, Stirred(x, s)',
         \/ ledger' = ledger
         \/ \E type, r, at, f : /\ Commit(type, r, at, f)
                                /\ ~Rebooks(x, Event(type, r, at, f)) \/ ~(at < s)
  PROVE  Stirred(x, s)
<1>1. CASE ledger' = ledger
  BY <1>1 DEF Stirred, worldSeq
<1>2. ASSUME NEW type, NEW r, NEW at, NEW f, Commit(type, r, at, f),
             ~Rebooks(x, Event(type, r, at, f)) \/ ~(at < s)
      PROVE  Stirred(x, s)
  <2>1. PICK n \in Nat : n = worldSeq
    BY <1>2, AppendEntries
  <2>2. PICK e : e = Event(type, r, at, f)
    OBVIOUS
  <2>3. /\ worldSeq' = n + 1 /\ \A j \in 1 .. n : ledger'[j] = ledger[j]
        /\ ledger'[n + 1].type = e.type /\ ledger'[n + 1].req = e.req /\ ledger'[n + 1].at = e.at
    BY <1>2, <2>1, <2>2, AppendEntries DEF Event
  <2>4. CASE \A u \in ShiftStarts : u >= s
    BY <2>4 DEF Stirred
  <2>5. ASSUME NEW i \in 1 .. worldSeq', Rebooks(x, ledger'[i]), ledger'[i].at < s,
               \A u \in ShiftStarts : u < s => u <= ledger'[i].at
        PROVE  Stirred(x, s)
    <3>1. i # n + 1
      <4>1. Rebooks(x, ledger'[n + 1]) = Rebooks(x, e)
        BY <2>3 DEF Rebooks
      <4>2. e.at = at
        BY <2>2 DEF Event
      <4> QED
        BY <1>2, <2>2, <2>3, <2>5, <4>1, <4>2
    <3>2. i \in 1 .. n /\ ledger'[i] = ledger[i]
      BY <2>3, <2>5, <3>1
    <3> QED
      BY <2>1, <2>5, <3>2 DEF Stirred
  <2>6. \/ \A u \in ShiftStarts : u >= s
        \/ \E i \in 1 .. worldSeq' :
             /\ Rebooks(x, ledger'[i]) /\ ledger'[i].at < s
             /\ \A u \in ShiftStarts : u < s => u <= ledger'[i].at
    <3>1. \A i : Rebooks(x, ledger[i])' = Rebooks(x, ledger'[i])
      BY DEF Rebooks
    <3> QED
      BY <3>1 DEF Stirred
  <2> QED
    BY <2>4, <2>5, <2>6
<1> QED
  BY <1>1, <1>2

\* What the ledger records it keeps.
LEMMA EndedStays ==
  ASSUME TypeOK, NEW x, NEW t, EndedAfter(x, t),
         ledger' = ledger \/ \E type, r, at, f : Commit(type, r, at, f)
  PROVE  EndedAfter(x, t)'
<1>1. CASE ledger' = ledger
  BY <1>1 DEF EndedAfter, worldSeq
<1>2. ASSUME NEW type, NEW r, NEW at, NEW f, Commit(type, r, at, f)
      PROVE  EndedAfter(x, t)'
  <2>1. PICK n \in Nat : n = worldSeq
    BY <1>2, AppendEntries
  <2>2. worldSeq' = n + 1 /\ \A j \in 1 .. n : ledger'[j] = ledger[j]
    BY <1>2, <2>1, AppendEntries
  <2> QED
    BY <2>1, <2>2 DEF EndedAfter
<1> QED
  BY <1>1, <1>2

\* A completion is recorded for both sides.
LEMMA JustEnded ==
  ASSUME TypeOK, NEW r, NEW f, Commit("COMPLETED", r, worldTime, f), NEW x \in Parties(r),
         NEW t, worldTime > t
  PROVE  EndedAfter(x, t)'
<1>1. PICK n \in Nat : n = worldSeq
  BY AppendEntries
<1>2. /\ worldSeq' = n + 1
      /\ ledger'[n + 1].type = "COMPLETED" /\ ledger'[n + 1].req = r
      /\ ledger'[n + 1].at = worldTime
  BY <1>1, AppendEntries
<1>3. n + 1 \in 1 .. n + 1
  BY <1>1
<1> QED
  BY <1>2, <1>3 DEF EndedAfter

\* The next shift is the one that comes next.
LEMMA ComingIsNext ==
  ASSUME TypeOK, NEW s \in ShiftStarts, worldTime < s,
         \A u \in ShiftStarts : u <= worldTime \/ s <= u
  PROVE  NextShift(worldTime) = s
<1>1. PICK t \in Nat : t = worldTime
  BY TimeAssumption DEF TypeOK, Times
<1>2. \A v \in ShiftStarts : v \in Nat
  BY CalendarAssumption
<1>3. \A v \in ShiftStarts : (v > t /\ \A u \in ShiftStarts : u > t => v <= u) <=> v = s
  BY <1>1, <1>2
<1> QED
  BY <1>1, <1>3 DEF NextShift

\* A step that leaves x's row alone keeps x ready.
LEMMA ReadyKept ==
  ASSUME NEW x, NEW s, Ready(x, s),
         worldTime' = worldTime, runtime'[x] = runtime[x],
         Booked(x, s) => Booked(x, s)',
         \A t : Called(x, s, t) => Called(x, s, t)',
         \A t : EndedAfter(x, t) => EndedAfter(x, t)',
         Asked(x) => Asked(x)', ~InBatch(x) => ~InBatch(x)',
         InBatch(x) \/ (Lonely(x) => Lonely(x)'),
         InBatch(x) => IsIdle(x)
  PROVE  Ready(x, s)'
<1>1. /\ Away(x)' <=> Away(x)
      /\ Leave(x, s)' = Leave(x, s)
      /\ Working(x)' <=> Working(x)
      /\ IsIdle(x)' <=> IsIdle(x)
      /\ Own(x)' <=> Own(x)
      /\ \A t : BusySince(x, t)' <=> BusySince(x, t)
      /\ \A t : BusyPast(x, t)' <=> BusyPast(x, t)
      /\ Going(x, s)' <=> Going(x, s)
  BY DEF Away, Leave, Way, Working, IsIdle, Own, BusySince, BusyPast, Going, Leads
<1>2. Own(x) => ~InBatch(x)
  BY DEF Own, Leads
<1>3. AtNine(x, s)'
  <2>1. AtNine(x, s)
    BY DEF Ready
  <2> QED
    BY <1>1, <2>1 DEF AtNine
<1>4. ASSUME NEW t, OnTheWay(x, s, t)
      PROVE  OnTheWay(x, s, t)'
  <2>1. Leaving(x, s, t) => Leaving(x, s, t)'
    BY <1>1 DEF Leaving
  <2> QED
    BY <1>1, <1>2, <1>4, <2>1 DEF OnTheWay
<1>5. PICK t : t = Leave(x, s)
  OBVIOUS
<1>6. Away(x)' => OnTheWay(x, s, t)'
  BY <1>1, <1>4, <1>5 DEF Ready
<1>7. Leave(x, s)' = t
  BY <1>1, <1>5
<1> QED
  BY <1>3, <1>6, <1>7 DEF Ready

\* What came before the step, when the step leaves world time alone and x does not stir.
LEMMA ComingBefore ==
  ASSUME TypeOK, NEW x, NEW s \in ShiftStarts, Coming(x, s)', worldTime' = worldTime,
         pc # "bootstrap",
         \/ ledger' = ledger
         \/ \E type, r, at, f : /\ Commit(type, r, at, f)
                                /\ ~Rebooks(x, Event(type, r, at, f)) \/ ~(at < s)
  PROVE  Coming(x, s)
<1>1. Stirred(x, s)
  BY StirredBefore DEF Coming
<1> QED
  BY <1>1 DEF Coming

\* Steps that change no row of the world keep everybody ready.
LEMMA QuietKeepsReady ==
  ASSUME StoryWorld, LoopTypes, InstantInv, AnchorInv, AttendInv,
         UNCHANGED <<worldTime, ledger, runtime, wakes, profile>>,
         pc # "bootstrap", pc # "deciding",
         pc' # "completing" \/ (pc = "completing" /\ batch' = batch),
         \A x \in Residents : InBatch(x) \/ anchors'[x] = anchors[x]
  PROVE  AttendInv'
<1> USE DEF StoryWorld, RInv, IInv
<1> SUFFICES ASSUME NEW x \in Residents, NEW s \in ShiftStarts, Employed(x), Coming(x, s)'
             PROVE  Ready(x, s)'
  BY DEF AttendInv, Employed
<1>1. Ready(x, s)
  BY ComingBefore DEF AttendInv
<1>2. /\ Booked(x, s) => Booked(x, s)'
      /\ \A t : Called(x, s, t) => Called(x, s, t)'
      /\ \A t : EndedAfter(x, t) => EndedAfter(x, t)'
      /\ ~Asked(x)
      /\ ~InBatch(x) => ~InBatch(x)'
  BY DEF Booked, Called, EndedAfter, worldSeq, Asked, InBatch, Pending
<1>3. InBatch(x) \/ (Lonely(x) => Lonely(x)')
  <2>1. CASE anchors'[x] = anchors[x]
    BY <2>1 DEF Lonely, NeedsOf
  <2> QED
    BY <2>1
<1>4. InBatch(x) => IsIdle(x)
  BY DEF InBatch, AnchorInv, AnchorLags
<1> QED
  BY <1>1, <1>2, <1>3, <1>4, ReadyKept

\* The first wakes are registered at midnight, well before the first shift.
LEMMA BootstrapReadies ==
  ASSUME StoryWorld, DueInv, Bootstrap
  PROVE  AttendInv'
<1> USE DEF StoryWorld, RInv, IInv
<1> SUFFICES ASSUME NEW x \in Residents, NEW s \in ShiftStarts, Employed(x), Coming(x, s)'
             PROVE  Ready(x, s)'
  BY DEF AttendInv, Employed
<1> DEFINE new == UNION {BoundaryWake(y, runtime[y].version, worldSeq) \cup
                           PreparationWake(y, runtime[y].loc, runtime[y].version, worldSeq) :
                           y \in Residents}
<1>1. /\ worldTime = 0 /\ UNCHANGED <<worldTime, runtime>> /\ wakes' = Upsert(wakes, new)
  BY DEF Bootstrap, RegisterNextWakes, DueInv, FreshWorld
<1>2. s \in Nat /\ s >= 540
  BY ShiftFacts
<1>3. NextShift(worldTime) = s
  BY <1>1, <1>2, ComingIsNext DEF Coming
<1>4. \A w \in BoundaryWake(x, runtime[x].version, worldSeq) \cup
                 PreparationWake(x, runtime[x].loc, runtime[x].version, worldSeq) : w \in wakes'
  <2>1. \A w \in BoundaryWake(x, runtime[x].version, worldSeq) \cup
                   PreparationWake(x, runtime[x].loc, runtime[x].version, worldSeq) : w \in new
    OBVIOUS
  <2> HIDE DEF new
  <2> QED
    BY <1>1, <2>1 DEF Upsert
<1>5. Booked(x, s)'
  <2>1. PICK w : w = Wake(x, "BOUNDARY", s, s, runtime[x].version, worldSeq)
    OBVIOUS
  <2>2. w \in wakes'
    BY <1>3, <1>4, <2>1 DEF BoundaryWake, Employed
  <2>3. WakeKey(w) = <<x, "BOUNDARY", s>> /\ w.due = s
    BY <2>1 DEF Wake, WakeKey
  <2> QED
    BY <2>2, <2>3 DEF Booked
<1>6. PICK t : t = Leave(x, s)
  OBVIOUS
<1>7. Leave(x, s)' = t /\ (Away(x)' <=> Away(x))
  BY <1>1, <1>6 DEF Leave, Way, Away
<1>8. t \in Nat /\ t >= 525
  BY <1>2, <1>6, WayFacts DEF Leave
<1>9. Away(x) => Called(x, s, t)'
  <2>1. PICK w : w = Wake(x, "PREPARATION", s, s - TravelTime[runtime[x].loc][Workplace[x]],
                          runtime[x].version, worldSeq)
    OBVIOUS
  <2>2. Away(x) => w \in wakes'
    BY <1>3, <1>4, <2>1 DEF PreparationWake, Employed, Away
  <2>3. WakeKey(w) = <<x, "PREPARATION", s>>
    BY <2>1 DEF Wake, WakeKey
  <2>4. Away(x) => w.due = t
    BY <1>6, <2>1 DEF Wake, Leave, Way
  <2> QED
    BY <2>2, <2>3, <2>4 DEF Called
<1>10. AtNine(x, s)'
  BY <1>1, <1>2, <1>5 DEF AtNine
<1>11. Away(x)' => OnTheWay(x, s, t)'
  BY <1>1, <1>7, <1>8, <1>9 DEF OnTheWay
<1> QED
  BY <1>7, <1>10, <1>11 DEF Ready

\* Driving to the next due instant passes by neither the shift nor the minute to leave.
LEMMA AdvanceKeepsReady ==
  ASSUME StoryWorld, TypeOK', LoopTypes, InstantInv, DueInv, AttendInv, RunUntilNext
  PROVE  AttendInv'
<1> USE DEF StoryWorld, RInv, IInv
<1>1. CASE UNCHANGED vars
  <2>1. /\ UNCHANGED <<worldTime, ledger, runtime, wakes, profile, anchors>>
        /\ pc = "waiting" /\ batch' = <<>>
    BY <1>1 DEF RunUntilNext, vars
  <2> SUFFICES ASSUME NEW x \in Residents, NEW s \in ShiftStarts, Employed(x), Coming(x, s)'
               PROVE  Ready(x, s)'
    BY DEF AttendInv, Employed
  <2>2. Ready(x, s)
    BY <2>1, ComingBefore DEF AttendInv
  <2>3. /\ Booked(x, s) => Booked(x, s)'
        /\ \A t : Called(x, s, t) => Called(x, s, t)'
        /\ \A t : EndedAfter(x, t) => EndedAfter(x, t)'
        /\ ~Asked(x) /\ ~InBatch(x) /\ (Lonely(x) => Lonely(x)')
    BY <2>1 DEF Booked, Called, EndedAfter, worldSeq, Asked, InBatch, Lonely, NeedsOf
  <2>4. ~InBatch(x)'
    <3>1. Pending(x)' = {}
      BY <2>1 DEF Pending
    <3> QED
      BY <3>1 DEF InBatch
  <2> QED
    BY <2>1, <2>2, <2>3, <2>4, ReadyKept
<1>2. ASSUME NEW u \in Times, u = NextStop, AdvanceWorldTimeTo(u, lease)
      PROVE  AttendInv'
  <2> SUFFICES ASSUME NEW x \in Residents, NEW s \in ShiftStarts, Employed(x), Coming(x, s)'
               PROVE  Ready(x, s)'
    BY DEF AttendInv, Employed
  <2>1. /\ pc = "waiting" /\ batch' = <<>> /\ UNCHANGED <<profile, anchors, runtime, wakes>>
        /\ worldTime' = u /\ u > worldTime /\ Commit("WORLD_TIME_ADVANCED", None, u, lease)
    BY <1>2 DEF RunUntilNext, AdvanceWorldTimeTo, CanAdvance
  <2>2. PICK now \in Nat : now = worldTime
    BY TimeAssumption DEF TypeOK, Times
  <2>3. u \in Nat /\ s \in Nat /\ now < u /\ u <= s
    BY <2>1, <2>2, ShiftFacts, TimeAssumption DEF Times, Coming
  <2>4. Coming(x, s)
    <3>1. Stirred(x, s)
      <4>1. ~Rebooks(x, Event("WORLD_TIME_ADVANCED", None, u, lease))
        BY DEF Rebooks, Event
      <4> QED
        BY <2>1, <4>1, StirredBefore DEF Coming
    <3>2. \A v \in ShiftStarts : v <= worldTime \/ s <= v
      <4>1. ASSUME NEW v \in ShiftStarts, NEW i \in 1 .. worldSeq, v <= ledger[i].at
            PROVE  v <= worldTime
        <5>1. ledger[i].at \in Nat /\ ledger[i].at <= now /\ v \in Nat
          BY <2>2, LedgerEntries, ShiftFacts DEF OccurredInOrder
        <5> QED
          BY <2>2, <4>1, <5>1
      <4>2. \A v \in ShiftStarts : v < s \/ s <= v
        BY <2>3, ShiftFacts
      <4> QED
        BY <3>1, <4>1, <4>2 DEF Stirred
    <3> QED
      BY <2>1, <2>2, <2>3, <3>1, <3>2 DEF Coming
  <2>5. Ready(x, s)
    BY <2>4 DEF AttendInv
  <2>6. \A w \in wakes : u <= w.due
    BY <1>2, NextStopIsFirst DEF DueInv
  <2>7. Booked(x, s)' /\ \A t : Called(x, s, t)' <=> Called(x, s, t)
    BY <2>1, <2>2, <2>3, <2>5 DEF Ready, AtNine, Booked, Called
  <2>8. ~Own(x)'
    <3>1. ~IsIdle(x) => runtime[x].task.started \in Nat /\ runtime[x].task.started <= now
      BY <2>2 DEF InstantInv, RowsArePast
    <3> QED
      BY <2>1, <2>3, <3>1 DEF Own, Leads, IsIdle
  <2>9. AtNine(x, s)'
    BY <2>1, <2>7, <2>8 DEF AtNine
  <2>10. PICK t \in Int : t = Leave(x, s)
    BY <2>3, WayFacts DEF Leave
  <2>11. Leave(x, s)' = t /\ (Away(x)' <=> Away(x))
    BY <2>1, <2>10 DEF Leave, Way, Away
  <2>12. ASSUME OnTheWay(x, s, t)
         PROVE  OnTheWay(x, s, t)'
    <3>1. CASE now < t
      <4>1. Called(x, s, t)
        BY <2>2, <2>12, <3>1 DEF OnTheWay
      <4>2. u <= t
        BY <2>3, <2>6, <4>1 DEF Called
      <4> QED
        BY <2>1, <2>3, <2>7, <2>8, <4>1, <4>2 DEF OnTheWay
    <3>2. CASE now >= t
      <4>1. u > t
        BY <2>3, <3>2
      <4>2. ~(now = t /\ Called(x, s, t))
        BY <2>3, <2>6, <4>1 DEF Called
      <4>3. CASE EndedAfter(x, t)
        <5>1. EndedAfter(x, t)'
          BY <2>1, <4>3, EndedStays
        <5> QED
          BY <2>1, <2>3, <4>1, <5>1 DEF OnTheWay
      <4>4. CASE Leaving(x, s, t)
        <5>1. BusyPast(x, t) /\ (BusySince(x, t) \/ Going(x, s) \/ Lonely(x))
          BY <2>1, <4>4 DEF Leaving, Asked
        <5>2. /\ BusyPast(x, t)' <=> BusyPast(x, t)
              /\ BusySince(x, t)' <=> BusySince(x, t)
              /\ Going(x, s)' <=> Going(x, s)
          BY <2>1 DEF BusyPast, BusySince, Going, Leads, IsIdle
        <5>3. Lonely(x) => Lonely(x)'
          <6>1. worldTime <= worldTime'
            BY <2>1, <2>2, <2>3
          <6> QED
            BY <2>1, <6>1, LonelyStays DEF InstantInv
        <5>4. ~InBatch(x)'
          <6>1. Pending(x)' = {}
            BY <2>1 DEF Pending
          <6> QED
            BY <6>1 DEF InBatch
        <5>5. Leaving(x, s, t)'
          BY <5>1, <5>2, <5>3, <5>4 DEF Leaving
        <5> QED
          BY <2>1, <2>3, <4>1, <5>5 DEF OnTheWay
      <4> QED
        BY <2>2, <2>12, <3>2, <4>2, <4>3, <4>4 DEF OnTheWay
    <3> QED
      BY <3>1, <3>2
  <2>13. Away(x)' => OnTheWay(x, s, t)'
    BY <2>5, <2>10, <2>11, <2>12 DEF Ready
  <2> QED
    BY <2>9, <2>11, <2>13 DEF Ready
<1>3. \/ UNCHANGED vars
      \/ \E u \in Times : u = NextStop /\ AdvanceWorldTimeTo(u, lease)
  BY DEF RunUntilNext
<1> QED
  BY <1>1, <1>2, <1>3

\* Which wakes a completion registers.
LEMMA CompletionWakes ==
  ASSUME TypeOK, NEW r, NEW f, NEW v, Complete(r, f, v), NEW x, NEW s, NEW t,
         x # r.actor \/ r.type \notin {"MOVE", "WORK"} \/ s # NextShift(worldTime)
  PROVE  (Booked(x, s) => Booked(x, s)') /\ (Called(x, s, t) => Called(x, s, t)')
<1>1. wakes' = WakesAfterCompletion(r)
  BY DEF Complete
<1>2. CASE r.type \notin {"MOVE", "WORK"}
  BY <1>1, <1>2 DEF WakesAfterCompletion, Booked, Called
<1>3. CASE x # r.actor \/ s # NextShift(worldTime)
  <2>1. ASSUME NEW new, wakes' = Upsert(wakes, new),
               \A w \in new : w.resident = r.actor /\ w.shift = NextShift(worldTime)
        PROVE  (Booked(x, s) => Booked(x, s)') /\ (Called(x, s, t) => Called(x, s, t)')
    <3>1. \A w \in new : \A kind : WakeKey(w) # <<x, kind, s>>
      BY <1>3, <2>1 DEF WakeKey
    <3> QED
      BY <2>1, <3>1 DEF Upsert, Booked, Called
  <2>2. \/ wakes' = wakes
        \/ \E new : /\ wakes' = Upsert(wakes, new)
                    /\ \A w \in new : w.resident = r.actor /\ w.shift = NextShift(worldTime)
    <3>1. \A version, seq : \A w \in BoundaryWake(r.actor, version, seq) :
             w.resident = r.actor /\ w.shift = NextShift(worldTime)
      BY DEF BoundaryWake, Wake
    <3>2. \A loc, version, seq : \A w \in PreparationWake(r.actor, loc, version, seq) :
             w.resident = r.actor /\ w.shift = NextShift(worldTime)
      BY DEF PreparationWake, Wake
    <3> QED
      BY <1>1, <3>1, <3>2 DEF WakesAfterCompletion
  <2> QED
    BY <2>1, <2>2 DEF Booked, Called
<1> QED
  BY <1>2, <1>3

\* Who comes back from a walk or a shift is booked for the next one.
LEMMA CompletionBooks ==
  ASSUME TypeOK, NEW r, NEW f, NEW v, Complete(r, f, v), r.type \in {"MOVE", "WORK"},
         Employed(r.actor), NEW s, s = NextShift(worldTime),
         NEW to, to = runtime[r.actor].task.target
  PROVE  /\ Booked(r.actor, s)'
         /\ r.type = "MOVE" /\ to # Workplace[r.actor] =>
              Called(r.actor, s, s - TravelTime[to][Workplace[r.actor]])'
<1>1. PICK x, version, seq : /\ x = r.actor /\ version = runtime[x].version + 1
                             /\ seq = worldSeq + 1
  OBVIOUS
<1>2. wakes' = Upsert(wakes, BoundaryWake(x, version, seq) \cup
                 (IF r.type = "MOVE" THEN PreparationWake(x, to, version, seq) ELSE {}))
  BY <1>1 DEF Complete, WakesAfterCompletion
<1>3. Booked(x, s)'
  <2>1. PICK w : w = Wake(x, "BOUNDARY", s, s, version, seq)
    OBVIOUS
  <2>2. w \in BoundaryWake(x, version, seq)
    BY <1>1, <2>1 DEF BoundaryWake, Employed
  <2>3. w \in wakes'
    BY <1>2, <2>2 DEF Upsert
  <2>4. WakeKey(w) = <<x, "BOUNDARY", s>> /\ w.due = s
    BY <2>1 DEF Wake, WakeKey
  <2> QED
    BY <2>3, <2>4 DEF Booked
<1>4. ASSUME r.type = "MOVE", to # Workplace[x]
      PROVE  Called(x, s, s - TravelTime[to][Workplace[x]])'
  <2>1. PICK due : due = s - TravelTime[to][Workplace[x]]
    OBVIOUS
  <2>2. PICK w : w = Wake(x, "PREPARATION", s, due, version, seq)
    OBVIOUS
  <2>3. w \in PreparationWake(x, to, version, seq)
    BY <1>1, <1>4, <2>1, <2>2 DEF PreparationWake, Employed
  <2>4. w \in wakes'
    BY <1>2, <1>4, <2>3 DEF Upsert
  <2>5. WakeKey(w) = <<x, "PREPARATION", s>> /\ w.due = due
    BY <2>2 DEF Wake, WakeKey
  <2>6. Called(x, s, due)'
    BY <2>4, <2>5 DEF Called
  <2> QED
    BY <2>1, <2>6
<1> QED
  BY <1>1, <1>3, <1>4

\* Completing what is due keeps everybody ready.
LEMMA CompletionKeepsReady ==
  ASSUME StoryWorld, LoopTypes, LoopTypes', InstantInv, AnchorInv, AttendInv, CompleteNext
  PROVE  AttendInv'
<1> USE DEF StoryWorld, RInv, IInv
<1>1. PICK z \in DueActors, r \in requests, n \in Nat :
         /\ Complete(r, lease, runtime[z].version) /\ r.actor = z
         /\ DOMAIN batch = 1 .. n /\ DOMAIN batch' = 1 .. n + 1
         /\ \A i \in 1 .. n : batch'[i] = batch[i]
         /\ batch'[n + 1].inst = r
         /\ pc = "completing" /\ UNCHANGED <<pc, anchors>>
  BY CompletionShape
<1>2. profile' = profile
  BY DEF CompleteNext
<1>3. PICK f, v : f = lease /\ v = runtime[z].version
  OBVIOUS
<1>4. Complete(r, f, v) /\ Commit("COMPLETED", r, worldTime, f) /\ worldTime' = worldTime
  BY <1>1, <1>3, CompletedRows
<1>5. PICK now \in Nat : now = worldTime
  BY TimeAssumption DEF TypeOK, Times
<1> SUFFICES ASSUME NEW x \in Residents, NEW s \in ShiftStarts, Employed(x), Coming(x, s)'
             PROVE  Ready(x, s)'
  BY DEF AttendInv, Employed
<1>6. s \in Nat /\ now <= s
  BY <1>4, <1>5, ShiftFacts DEF Coming
<1>7. (Rebooks(x, Event("COMPLETED", r, worldTime, f)) /\ now < s) \/ Coming(x, s)
  <2>1. (~Rebooks(x, Event("COMPLETED", r, worldTime, f)) \/ ~(worldTime < s)) => Coming(x, s)
    BY <1>1, <1>4, ComingBefore
  <2> QED
    BY <1>5, <2>1
<1>8. \A t : EndedAfter(x, t) => EndedAfter(x, t)'
  BY <1>4, EndedStays
<1>9. CASE x \notin Parties(r)
  <2>1. x # r.actor /\ ~Rebooks(x, Event("COMPLETED", r, worldTime, f))
    BY <1>9 DEF Rebooks, Event, Parties
  <2>2. Ready(x, s)
    BY <1>7, <2>1 DEF AttendInv
  <2>3. runtime'[x] = runtime[x]
    BY <1>4, <1>9, CompletedRows
  <2>4. /\ Booked(x, s) => Booked(x, s)'
        /\ \A t : Called(x, s, t) => Called(x, s, t)'
    BY <1>4, <2>1, CompletionWakes
  <2>5. ~Asked(x) /\ (InBatch(x) => IsIdle(x)) /\ (Lonely(x) => Lonely(x)')
    BY <1>1, <1>2, <1>4 DEF Asked, InBatch, AnchorInv, AnchorLags, Lonely, NeedsOf
  <2>6. ~InBatch(x) => ~InBatch(x)'
    <3>1. \A i : i \in 1 .. n + 1 <=> i \in 1 .. n \/ i = n + 1
      OBVIOUS
    <3>2. Pending(x)' = Pending(x)
      BY <1>1, <1>9, <3>1 DEF Pending
    <3> QED
      BY <1>1, <3>2 DEF InBatch
  <2> QED
    BY <1>4, <1>8, <2>2, <2>3, <2>4, <2>5, <2>6, ReadyKept
<1>10. CASE x \in Parties(r)
  <2>1. /\ ~IsIdle(x) /\ runtime[x].task.due <= now
        /\ runtime'[x].task = Idle
        /\ runtime'[x].loc = IF r.type = "MOVE" THEN r.arg ELSE runtime[x].loc
    BY <1>4, <1>5, <1>10, CompletedRows
  <2>2. ~Own(x)' /\ runtime[x].task.due \in Nat
    <3>1. runtime[x].task # Idle
      BY <2>1 DEF IsIdle, Idle
    <3>2. runtime[x].task.due \in Nat
      BY <3>1 DEF DuesAreTimes
    <3> QED
      BY <2>1, <3>2 DEF Own, Leads, IsIdle, Idle
  <2>3. \A t \in Int : t >= now => ~BusyPast(x, t)
    BY <1>5, <2>1, <2>2 DEF BusyPast
  <2>4. now = s => Booked(x, s)'
    <3>1. ASSUME now = s
          PROVE  Booked(x, s)'
      <4>1. AtNine(x, s)
        BY <1>7, <3>1 DEF AttendInv, Ready
      <4>2. Booked(x, s)
        BY <1>5, <1>6, <2>3, <3>1, <4>1 DEF AtNine
      <4>3. s # NextShift(worldTime)
        BY <1>5, <3>1, NextShiftLater DEF TypeOK
      <4> QED
        BY <1>4, <4>2, <4>3, CompletionWakes
    <3> QED
      BY <3>1
  <2>5. now < s => NextShift(worldTime) = s
    BY <1>4, <1>5, ComingIsNext DEF Coming
  <2>6. CASE x = r.actor /\ r.type \in {"MOVE", "WORK"}
    <3>1. AtNine(x, s)'
      <4>1. now < s => Booked(x, s)'
        BY <1>4, <2>5, <2>6, CompletionBooks
      <4> QED
        BY <1>4, <1>5, <1>6, <2>2, <2>4, <4>1 DEF AtNine
    <3>2. ASSUME Away(x)', NEW t, t = Leave(x, s)'
          PROVE  OnTheWay(x, s, t)'
      <4>1. r.type = "MOVE"
        <5>1. r.type = "WORK" => ~Away(x)'
          BY <1>4, <2>1, <2>6, CompletedRows DEF Away
        <5> QED
          BY <2>6, <3>2, <5>1
      <4>2. PICK to \in Locations : to = r.arg /\ runtime[x].task.target = to /\ runtime'[x].loc = to
        BY <1>4, <2>1, <2>6, <4>1, CompletedRows
      <4>3. to # Workplace[x] /\ t = s - TravelTime[to][Workplace[x]]
        BY <3>2, <4>2 DEF Away, Leave, Way
      <4>4. PICK way \in Nat \ {0} : way = TravelTime[to][Workplace[x]]
        BY <4>2, <4>3, PlaceAssumption DEF Employed
      <4>5. now < s => Called(x, s, t)'
        BY <1>4, <2>5, <2>6, <4>1, <4>2, <4>3, CompletionBooks
      <4>6. t \in Int /\ t < s
        BY <1>6, <4>3, <4>4
      <4>7. now > t => EndedAfter(x, t)'
        BY <1>4, <1>5, <1>10, JustEnded
      <4> QED
        BY <1>4, <1>5, <1>6, <2>2, <4>5, <4>6, <4>7 DEF OnTheWay
    <3> QED
      BY <3>1, <3>2 DEF Ready
  <2>7. CASE ~(x = r.actor /\ r.type \in {"MOVE", "WORK"})
    <3>1. Ready(x, s)
      <4>1. ~Rebooks(x, Event("COMPLETED", r, worldTime, f))
        BY <2>7 DEF Rebooks, Event
      <4> QED
        BY <1>7, <4>1 DEF AttendInv
    <3>2. /\ Booked(x, s) => Booked(x, s)'
          /\ \A t : Called(x, s, t) => Called(x, s, t)'
      BY <1>4, <2>7, CompletionWakes
    <3>3. AtNine(x, s)'
      BY <1>4, <1>5, <1>6, <2>2, <2>4, <3>1, <3>2 DEF Ready, AtNine
    <3>4. PICK t \in Int : t = Leave(x, s)
      BY <1>6, WayFacts DEF Leave
    <3>5. Leave(x, s)' = t /\ (Away(x)' <=> Away(x))
      <4>1. r.type # "MOVE"
        BY <1>10, <2>7 DEF Parties
      <4> QED
        BY <2>1, <3>4, <4>1 DEF Leave, Way, Away
    <3>6. ASSUME OnTheWay(x, s, t)
          PROVE  OnTheWay(x, s, t)'
      <4>1. now > t => EndedAfter(x, t)'
        BY <1>4, <1>5, <1>10, JustEnded
      <4>2. now = t => EndedAfter(x, t) \/ Called(x, s, t)
        BY <1>5, <2>3, <3>6 DEF OnTheWay, Leaving
      <4> QED
        BY <1>4, <1>5, <1>8, <2>2, <3>2, <3>6, <4>1, <4>2 DEF OnTheWay
    <3> QED
      BY <3>1, <3>3, <3>4, <3>5, <3>6 DEF Ready
  <2> QED
    BY <2>6, <2>7
<1> QED
  BY <1>9, <1>10

\* A wake that is acknowledged is handled at once.
LEMMA AcknowledgeKeepsReady ==
  ASSUME StoryWorld, LoopTypes, InstantInv, AnchorInv, AttendInv, Acknowledge
  PROVE  AttendInv'
<1> USE DEF StoryWorld, RInv, IInv
<1>1. /\ pc = "handling" /\ hand # <<>>
      /\ wakes' = {w \in wakes : WakeKey(w) # Head(hand).key}
      /\ worldTime < Target => pc' = "deciding" /\ hand' = hand
      /\ UNCHANGED <<worldTime, ledger, runtime, profile, anchors, batch>>
  BY DEF Acknowledge
<1>2. PICK now \in Nat : now = worldTime
  BY TimeAssumption DEF TypeOK, Times
<1> SUFFICES ASSUME NEW x \in Residents, NEW s \in ShiftStarts, Employed(x), Coming(x, s)'
             PROVE  Ready(x, s)'
  BY DEF AttendInv, Employed
<1>3. Ready(x, s)
  BY <1>1, ComingBefore DEF AttendInv
<1>4. s \in Nat /\ now <= s /\ pc' = "deciding" /\ hand' = hand
  <2>1. s \in Nat /\ now <= s /\ s + ShiftTime <= Target
    BY <1>1, <1>2, ShiftFacts DEF Coming
  <2>2. ShiftTime \in Nat /\ ShiftTime > 0 /\ Target \in Nat
    BY TimeAssumption, TargetIsTime
  <2>3. now < Target
    BY <2>1, <2>2
  <2> QED
    BY <1>1, <1>2, <2>1, <2>3
<1>5. PICK item \in Items : item = Head(hand)
  BY <1>1, FirstItem
<1>6. /\ \A t : EndedAfter(x, t) => EndedAfter(x, t)'
      /\ ~Asked(x) /\ ~InBatch(x) /\ ~InBatch(x)' /\ (Lonely(x) => Lonely(x)')
  BY <1>1, <1>4 DEF EndedAfter, worldSeq, Asked, InBatch, Lonely, NeedsOf
<1>7. CASE item.resident # x
  <2>1. \A kind : item.key # <<x, kind, s>>
    <3>1. item.key = <<>> \/ item.key[1] = item.resident
      BY DEF Items
    <3> QED
      BY <1>7, <3>1
  <2>2. /\ Booked(x, s) => Booked(x, s)'
        /\ \A t : Called(x, s, t) => Called(x, s, t)'
    BY <1>1, <1>5, <2>1 DEF Booked, Called
  <2> QED
    BY <1>1, <1>3, <1>6, <2>2, ReadyKept
<1>8. CASE item.resident = x
  <2>1. Asked(x)'
    BY <1>4, <1>5, <1>8 DEF Asked
  <2>2. \A w \in wakes : w.due > now => w \in wakes'
    <3>1. 1 \in DOMAIN hand /\ hand[1] = item
      BY <1>1, <1>5, RestOfHand
    <3>2. \A w \in wakes : WakeKey(w) = item.key => w.due <= now /\ w.due \in Int
      BY <1>2, <3>1 DEF InstantInv, HandIsDue, TypeOK, WakeRows
    <3> QED
      BY <1>1, <1>5, <3>2
  <2>3. \A t \in Int : t <= now => BusyPast(x, t)
    <3>1. x \in Busy => runtime[x].task.due > now
      BY <1>1, <1>2 DEF InstantInv, NothingRunsOver, Handling
    <3>2. ~IsIdle(x) => runtime[x].task.due \in Nat
      BY FreeIsIdle DEF DuesAreTimes
    <3> QED
      BY <1>2, <3>1, <3>2 DEF BusyPast, Busy
  <2>4. /\ now < s => (Booked(x, s) => Booked(x, s)')
        /\ \A t : now < t => (Called(x, s, t) => Called(x, s, t)')
    BY <2>2 DEF Booked, Called
  <2>5. PICK t \in Int : t = Leave(x, s)
    BY <1>4, WayFacts DEF Leave
  <2>6. /\ Away(x)' <=> Away(x)
        /\ Leave(x, s)' = t
        /\ Working(x)' <=> Working(x)
        /\ Own(x)' <=> Own(x)
        /\ \A u : BusySince(x, u)' <=> BusySince(x, u)
        /\ \A u : BusyPast(x, u)' <=> BusyPast(x, u)
        /\ Going(x, s)' <=> Going(x, s)
    BY <1>1, <2>5
    DEF Away, Leave, Way, Working, IsIdle, Own, BusySince, BusyPast, Going, Leads
  <2>7. AtNine(x, s)'
    <3>1. now = s => BusyPast(x, s)'
      BY <1>4, <2>3, <2>6
    <3> QED
      BY <1>1, <1>2, <1>3, <1>4, <2>1, <2>4, <2>6, <3>1 DEF Ready, AtNine
  <2>8. ASSUME OnTheWay(x, s, t)
        PROVE  OnTheWay(x, s, t)'
    <3>1. now >= t => BusyPast(x, t)'
      BY <2>3, <2>6
    <3>2. now = t => Leaving(x, s, t)'
      BY <1>1, <1>2, <1>6, <2>1, <3>1 DEF Leaving
    <3>3. now > t => EndedAfter(x, t)' \/ Leaving(x, s, t)'
      BY <1>2, <1>6, <2>6, <2>8 DEF OnTheWay, Leaving
    <3>4. now < t => Called(x, s, t)'
      BY <1>2, <2>4, <2>8 DEF OnTheWay
    <3>5. now = t /\ Own(x)' => Going(x, s)' \/ Lonely(x)'
      BY <1>2, <1>6, <2>6, <2>8 DEF OnTheWay
    <3> QED
      BY <1>1, <1>2, <3>2, <3>3, <3>4, <3>5 DEF OnTheWay
  <2> QED
    BY <1>3, <2>5, <2>6, <2>7, <2>8 DEF Ready
<1> QED
  BY <1>7, <1>8

\* Which wakes a start registers.
LEMMA StartWakes ==
  ASSUME TypeOK, NEW r, NEW f, NEW rv, Start(r, f, rv), NEW x, NEW s, NEW t,
         x # r.actor \/ r.type # "WORK" \/ s # NextShift(worldTime)
  PROVE  (Booked(x, s) => Booked(x, s)') /\ (Called(x, s, t) => Called(x, s, t)')
<1>1. wakes' = WakesAfterStart(r)
  BY DEF Start
<1>2. CASE r.type # "WORK"
  BY <1>1, <1>2 DEF WakesAfterStart, Booked, Called
<1>3. CASE r.type = "WORK"
  <2>1. PICK new : new = BoundaryWake(r.actor, runtime[r.actor].version + 1, worldSeq + 1)
    OBVIOUS
  <2>2. wakes' = Upsert(wakes, new)
    BY <1>1, <1>3, <2>1 DEF WakesAfterStart
  <2>3. \A w \in new : w.resident = r.actor /\ w.shift = NextShift(worldTime)
    BY <2>1 DEF BoundaryWake, Wake
  <2>4. \A w \in new : \A kind : WakeKey(w) # <<x, kind, s>>
    BY <1>3, <2>3 DEF WakeKey
  <2> QED
    BY <2>2, <2>4 DEF Upsert, Booked, Called
<1> QED
  BY <1>2, <1>3

\* Who begins a shift is booked for the next one.
LEMMA StartBooks ==
  ASSUME TypeOK, NEW r, NEW f, NEW rv, Start(r, f, rv), r.type = "WORK", Employed(r.actor)
  PROVE  \A s : s = NextShift(worldTime) => Booked(r.actor, s)'
<1> SUFFICES ASSUME NEW s, s = NextShift(worldTime)
             PROVE  Booked(r.actor, s)'
  OBVIOUS
<1>1. PICK x, version, seq : /\ x = r.actor /\ version = runtime[x].version + 1
                             /\ seq = worldSeq + 1
  OBVIOUS
<1>2. wakes' = Upsert(wakes, BoundaryWake(x, version, seq))
  BY <1>1 DEF Start, WakesAfterStart
<1>3. PICK w : w = Wake(x, "BOUNDARY", s, s, version, seq)
  OBVIOUS
<1>4. w \in BoundaryWake(x, version, seq)
  BY <1>1, <1>3 DEF BoundaryWake, Employed
<1>5. w \in wakes'
  BY <1>2, <1>4 DEF Upsert
<1>6. WakeKey(w) = <<x, "BOUNDARY", s>> /\ w.due = s
  BY <1>3 DEF Wake, WakeKey
<1> QED
  BY <1>1, <1>5, <1>6 DEF Booked

\* The deciding resident, idle: at nine in its workplace, and when it has to leave.
LEMMA WhatIsDecided ==
  ASSUME StoryWorld, InstantInv, NEW x \in Residents, NEW s \in ShiftStarts, Employed(x),
         Coming(x, s), IsIdle(x)
  PROVE  /\ worldTime = s /\ ~Away(x) =>
              /\ DraftOf(x) = {Candidate("WORK", Workplace[x], TRUE)}
              /\ FitsHorizon("WORK")
         /\ worldTime = Leave(x, s) /\ Away(x) /\ ~Lonely(x) =>
              /\ DraftOf(x) = {Candidate("MOVE", Workplace[x], TRUE)}
              /\ FitsHorizon("MOVE")
<1> USE DEF StoryWorld, RInv, IInv
<1>1. PICK now \in Nat : now = worldTime
  BY TimeAssumption DEF TypeOK, Times
<1>2. s \in Nat /\ now <= s /\ s + ShiftTime <= Target
  BY <1>1, ShiftFacts DEF Coming
<1>3. Minded(x)
  BY MindsAreSound DEF InstantInv
<1>4. HorizonTime("WORK") = 480 /\ HorizonTime("MOVE") = 15 /\ ShiftTime = 480 /\ Target \in Nat
  BY EndpointAssumption, TargetIsTime DEF HorizonTime
<1>5. now = s => FitsHorizon("WORK")
  BY <1>1, <1>2, <1>4 DEF FitsHorizon
<1>6. FitsHorizon("MOVE")
  BY <1>1, <1>2, <1>4 DEF FitsHorizon
<1>7. ASSUME now = s, ~Away(x)
      PROVE  DraftOf(x) = {Candidate("WORK", Workplace[x], TRUE)}
  <2>1. worldTime \notin runtime[x].shifts
    BY <1>1 DEF InstantInv, RowsArePast
  <2> QED
    BY <1>1, <1>3, <1>7, <2>1, WorkIsDrafted
<1>8. ASSUME now = Leave(x, s), Away(x), ~Lonely(x)
      PROVE  DraftOf(x) = {Candidate("MOVE", Workplace[x], TRUE)}
  <2>1. now < s
    <3>1. Way(x) \in 0 .. 15 /\ Way(x) # 0
      BY <1>8, WayFacts
    <3> QED
      BY <1>1, <1>2, <1>8, <3>1 DEF Leave
  <2>2. NextShift(worldTime) = s
    BY <1>1, <2>1, ComingIsNext DEF Coming
  <2> QED
    BY <1>1, <1>3, <1>8, <2>2, WalkIsDrafted
<1> HIDE DEF StoryWorld, RInv, IInv
<1> QED
  BY <1>1, <1>5, <1>6, <1>7, <1>8, Zenon

\* A decision that starts nothing leaves the deciding resident ready.
LEMMA PassingKeepsReady ==
  ASSUME StoryWorld, LoopTypes, InstantInv, NEW x \in Residents, NEW s \in ShiftStarts,
         Employed(x), Coming(x, s), Ready(x, s), UNCHANGED vars,
         pc = "deciding", pc' = "handling", UNCHANGED <<profile, anchors, batch>>,
         DraftOf(x) = {} \/ \E c \in DraftOf(x) : ~FitsHorizon(c.type)
  PROVE  Ready(x, s)'
<1> USE DEF StoryWorld, RInv, IInv
<1>1. UNCHANGED <<worldTime, ledger, runtime, wakes>>
  BY DEF vars
<1>2. PICK now \in Nat : now = worldTime
  BY TimeAssumption DEF TypeOK, Times
<1>3. s \in Nat /\ now <= s
  BY <1>2, ShiftFacts DEF Coming
<1>4. PICK t \in Int : t = Leave(x, s)
  BY <1>3, WayFacts DEF Leave
<1>5. /\ Away(x)' <=> Away(x)
      /\ Leave(x, s)' = t
      /\ Working(x)' <=> Working(x)
      /\ Own(x)' <=> Own(x)
      /\ \A u : BusySince(x, u)' <=> BusySince(x, u)
      /\ \A u : BusyPast(x, u)' <=> BusyPast(x, u)
      /\ Going(x, s)' <=> Going(x, s)
      /\ Lonely(x)' <=> Lonely(x)
      /\ Booked(x, s)' <=> Booked(x, s)
      /\ \A u : Called(x, s, u)' <=> Called(x, s, u)
      /\ \A u : EndedAfter(x, u)' <=> EndedAfter(x, u)
  BY <1>1, <1>4
  DEF Away, Leave, Way, Working, IsIdle, Own, BusySince, BusyPast, Going, Leads, Lonely,
      NeedsOf, Booked, Called, EndedAfter, worldSeq
<1>6. ~InBatch(x)'
  BY DEF InBatch
<1>7. ~IsIdle(x) => Own(x) \/ BusySince(x, now)
  BY <1>2 DEF Own, BusySince, Leads, InstantInv, RowsArePast
<1>8. now = s /\ ~Away(x) => Working(x) \/ BusySince(x, s) \/ Booked(x, s)
  <2>1. IsIdle(x) => ~(now = s /\ ~Away(x))
    <3>1. PICK c : c = Candidate("WORK", Workplace[x], TRUE)
      OBVIOUS
    <3>2. c.type = "WORK"
      BY <3>1 DEF Candidate
    <3>3. IsIdle(x) /\ now = s /\ ~Away(x) => DraftOf(x) = {c} /\ FitsHorizon("WORK")
      BY <1>2, <3>1, WhatIsDecided
    <3> QED
      BY <3>2, <3>3
  <2>2. now = s /\ ~Away(x) /\ Own(x) => Working(x)
    BY <1>2 DEF Ready, AtNine
  <2> QED
    BY <1>7, <2>1, <2>2
<1>9. AtNine(x, s)'
  BY <1>1, <1>2, <1>3, <1>5, <1>8 DEF Ready, AtNine
<1>10. ASSUME Away(x), OnTheWay(x, s, t)
       PROVE  OnTheWay(x, s, t)'
  <2>1. now = t => BusySince(x, t) \/ Going(x, s) \/ Lonely(x)
    <3>1. IsIdle(x) /\ now = t => Lonely(x)
      <4>1. PICK c : c = Candidate("MOVE", Workplace[x], TRUE)
        OBVIOUS
      <4>2. c.type = "MOVE"
        BY <4>1 DEF Candidate
      <4>3. IsIdle(x) /\ now = t /\ ~Lonely(x) => DraftOf(x) = {c} /\ FitsHorizon("MOVE")
        BY <1>2, <1>4, <1>10, <4>1, WhatIsDecided
      <4> QED
        BY <4>2, <4>3
    <3>2. now = t /\ Own(x) => Going(x, s) \/ Lonely(x)
      BY <1>2, <1>10 DEF OnTheWay
    <3> QED
      BY <1>7, <3>1, <3>2
  <2>2. Leaving(x, s, t) => Leaving(x, s, t)'
    BY <1>2, <1>5, <1>6, <2>1 DEF Leaving
  <2> QED
    BY <1>1, <1>5, <1>10, <2>2 DEF OnTheWay
<1> QED
  BY <1>4, <1>5, <1>9, <1>10 DEF Ready

\* What the deciding resident starts leaves it ready.
LEMMA StartKeepsReady ==
  ASSUME StoryWorld, LoopTypes, InstantInv, NEW r \in Requests, NEW rv, Start(r, lease, rv),
         NEW x \in Residents, x = r.actor, NEW s \in ShiftStarts, Employed(x), Coming(x, s)',
         Coming(x, s) => Ready(x, s),
         pc = "deciding", pc' = "handling", UNCHANGED <<profile, anchors, batch>>,
         \E c \in DraftOf(x) : c.type = r.type /\ c.arg = r.arg
  PROVE  Ready(x, s)'
<1> USE DEF StoryWorld, RInv, IInv
<1>0. PICK f : f = lease
  OBVIOUS
<1>1. PICK now \in Nat : now = worldTime /\ f = lease
  BY <1>0, TimeAssumption DEF TypeOK, Times
<1>2. Start(r, f, rv) /\ x \in Parties(r)
  BY <1>1, RequestFacts
<1>3. /\ IsIdle(x) /\ runtime'[x].loc = runtime[x].loc
      /\ runtime'[x].task = StartedTask(r, x)
      /\ worldTime' = worldTime /\ Commit("STARTED", r, worldTime, f)
      /\ Duration(r) \in Nat \ {0}
      /\ r.type = "MOVE" => Duration(r) = TravelTime[runtime[x].loc][r.arg]
      /\ r.type = "WORK" => Workplace[x] = runtime[x].loc
  BY <1>2, StartedRows
<1>4. /\ runtime'[x].task.act = ActivityOf(r.type) /\ runtime'[x].task.inst = r
      /\ runtime'[x].task.started = now /\ runtime'[x].task.due = now + Duration(r)
  BY <1>1, <1>3, StartedTaskFields
<1>5. Leads(x)'
  <2>1. ActivityOf(r.type) # "IDLE"
    BY ActivityFacts, RequestAssumption
  <2> QED
    BY <1>3, <1>4, <2>1 DEF Leads, IsIdle
<1>6. s \in Nat /\ now <= s
  BY <1>1, <1>3, ShiftFacts DEF Coming
<1>7. \A t \in Int : t <= now => BusyPast(x, t)'
  BY <1>3, <1>4 DEF BusyPast
<1>8. PICK t \in Int : t = Leave(x, s)
  BY <1>6, WayFacts DEF Leave
<1>9. Leave(x, s)' = t /\ (Away(x)' <=> Away(x))
  BY <1>3, <1>8 DEF Leave, Way, Away
<1>10. CASE r.type = "WORK"
  <2>1. ~Away(x)' /\ Working(x)'
    BY <1>3, <1>4, <1>9, <1>10 DEF Away, Working, ActivityOf
  <2>2. now < s => Booked(x, s)'
    <3>1. now < s => NextShift(worldTime) = s
      BY <1>1, <1>3, ComingIsNext DEF Coming
    <3> QED
      BY <1>2, <1>10, <3>1, StartBooks
  <2>3. now = s => BusyPast(x, s)'
    BY <1>6, <1>7
  <2> QED
    BY <1>1, <1>3, <1>6, <2>1, <2>2, <2>3 DEF Ready, AtNine
<1>11. CASE r.type # "WORK"
  <2>1. Coming(x, s)
    <3>1. ~Rebooks(x, Event("STARTED", r, worldTime, f))
      BY <1>11 DEF Rebooks, Event
    <3> QED
      BY <1>3, <3>1, ComingBefore
  <2>2. Ready(x, s)
    BY <2>1
  <2>3. /\ Booked(x, s) => Booked(x, s)'
        /\ \A u : Called(x, s, u) => Called(x, s, u)'
        /\ \A u : EndedAfter(x, u) => EndedAfter(x, u)'
    BY <1>2, <1>3, <1>11, StartWakes, EndedStays
  <2>4. Lonely(x) => Lonely(x)'
    BY <1>3 DEF Lonely, NeedsOf
  <2>5. ~(now = s /\ ~Away(x))
    BY <1>1, <1>3, <1>11, <2>1, WhatIsDecided DEF Candidate
  <2>6. AtNine(x, s)'
    <3>1. now = s => BusyPast(x, s)'
      BY <1>6, <1>7
    <3> QED
      BY <1>1, <1>3, <1>6, <1>9, <2>2, <2>3, <2>5, <3>1 DEF Ready, AtNine
  <2>7. ASSUME Away(x), OnTheWay(x, s, t)
        PROVE  OnTheWay(x, s, t)'
    <3>1. now = t => Going(x, s)' \/ Lonely(x)'
      <4>1. ASSUME now = t, ~Lonely(x)
            PROVE  Going(x, s)'
        <5>1. r.type = "MOVE" /\ r.arg = Workplace[x]
          BY <1>1, <1>3, <1>8, <2>1, <2>7, <4>1, WhatIsDecided DEF Candidate
        <5>2. Way(x) \in 0 .. 15 /\ Duration(r) = Way(x)
          BY <1>3, <2>7, <5>1, WayFacts
        <5>3. runtime'[x].task.due = s
          BY <1>4, <1>6, <1>8, <4>1, <5>2 DEF Leave
        <5> QED
          BY <1>4, <1>5, <5>1, <5>3 DEF Going
      <4> QED
        BY <2>4, <4>1
    <3>2. now > t /\ Leaving(x, s, t) => Leaving(x, s, t)'
      <4>1. now > t => BusyPast(x, t)'
        BY <1>7
      <4>2. Leaving(x, s, t) /\ now > t => Lonely(x)
        BY <1>1, <1>3 DEF Leaving, BusySince, Going, Leads
      <4> QED
        BY <2>4, <4>1, <4>2 DEF Leaving, InBatch
    <3>3. now = t => Leaving(x, s, t)'
      <4>1. now = t => BusyPast(x, t)'
        BY <1>7
      <4> QED
        BY <3>1, <4>1 DEF Leaving, InBatch
    <3> QED
      BY <1>1, <1>3, <2>3, <2>7, <3>1, <3>2, <3>3 DEF OnTheWay
  <2> QED
    BY <1>8, <1>9, <2>2, <2>6, <2>7 DEF Ready
<1> QED
  BY <1>10, <1>11

\* What somebody else starts leaves everybody else ready, also who it talks to.
LEMMA OthersStartKeepsReady ==
  ASSUME StoryWorld, LoopTypes, InstantInv, NEW r \in Requests, NEW rv, Start(r, lease, rv),
         NEW x \in Residents, x # r.actor, NEW s \in ShiftStarts, Employed(x), Coming(x, s),
         Ready(x, s), ~Asked(x),
         pc = "deciding", pc' = "handling", UNCHANGED <<profile, anchors, batch>>
  PROVE  Ready(x, s)'
<1> USE DEF StoryWorld, RInv, IInv
<1>0. PICK f : f = lease
  OBVIOUS
<1>1. PICK now \in Nat : now = worldTime /\ f = lease
  BY <1>0, TimeAssumption DEF TypeOK, Times
<1>2. Start(r, f, rv) /\ worldTime' = worldTime /\ Commit("STARTED", r, worldTime, f)
  BY <1>1, StartedRows
<1>3. /\ Booked(x, s) => Booked(x, s)'
      /\ \A u : Called(x, s, u) => Called(x, s, u)'
      /\ \A u : EndedAfter(x, u) => EndedAfter(x, u)'
  BY <1>2, StartWakes, EndedStays
<1>4. (Lonely(x) => Lonely(x)') /\ ~InBatch(x) /\ ~InBatch(x)'
  BY <1>2 DEF Lonely, NeedsOf, InBatch
<1>5. CASE x \notin Parties(r)
  <2>1. runtime'[x] = runtime[x]
    BY <1>2, <1>5, StartedRows
  <2> QED
    BY <1>2, <1>3, <1>4, <2>1, ReadyKept
<1>6. CASE x \in Parties(r)
  <2>1. /\ IsIdle(x) /\ runtime'[x].loc = runtime[x].loc
        /\ runtime'[x].task = StartedTask(r, x) /\ Duration(r) \in Nat \ {0}
    BY <1>2, <1>6, StartedRows
  <2>2. /\ runtime'[x].task.act = ActivityOf(r.type) /\ runtime'[x].task.inst = r
        /\ runtime'[x].task.due = now + Duration(r)
    BY <1>1, <2>1, StartedTaskFields
  <2>3. ~IsIdle(x)' /\ ~Leads(x)'
    <3>1. ActivityOf(r.type) # "IDLE"
      BY ActivityFacts, RequestAssumption
    <3> QED
      BY <2>2, <3>1 DEF Leads, IsIdle
  <2>4. \A t \in Int : /\ t <= now => BusyPast(x, t)'
                       /\ BusySince(x, t)'
    BY <2>1, <2>2, <2>3 DEF BusyPast, BusySince
  <2>5. ~Own(x)'
    BY <2>3 DEF Own
  <2>6. s \in Nat /\ now <= s
    BY <1>1, ShiftFacts DEF Coming
  <2>7. AtNine(x, s)'
    <3>1. now = s => BusyPast(x, s)' /\ BusySince(x, s)'
      BY <2>4, <2>6
    <3> QED
      BY <1>1, <1>2, <1>3, <2>5, <2>6, <3>1 DEF Ready, AtNine
  <2>8. PICK t \in Int : t = Leave(x, s)
    BY <2>6, WayFacts DEF Leave
  <2>9. Leave(x, s)' = t /\ (Away(x)' <=> Away(x))
    BY <2>1, <2>8 DEF Leave, Way, Away
  <2>10. ASSUME OnTheWay(x, s, t)
         PROVE  OnTheWay(x, s, t)'
    <3>1. now >= t => Leaving(x, s, t)'
      BY <1>4, <2>4 DEF Leaving
    <3> QED
      BY <1>1, <1>2, <1>3, <2>5, <2>10, <3>1 DEF OnTheWay
  <2> QED
    BY <2>7, <2>8, <2>9, <2>10 DEF Ready
<1> QED
  BY <1>5, <1>6

\* Every step of the loop keeps everybody ready.
LEMMA AttendStep ==
  ASSUME StoryWorld, TypeOK', LoopTypes, LoopTypes', InstantInv, DueInv, AnchorInv, AttendInv,
         [StoryNext]_storyVars
  PROVE  AttendInv'
<1> USE DEF StoryWorld, RInv, IInv
<1>1. CASE pc' = "bootstrap"
  BY <1>1 DEF AttendInv, Coming
<1>2. CASE Bootstrap
  BY <1>2, BootstrapReadies
<1>3. CASE TakeLease \/ EndStep \/ Finished \/ UNCHANGED storyVars
  <2>1. /\ UNCHANGED <<worldTime, ledger, runtime, wakes, profile, anchors, batch>>
        /\ pc' # "completing" \/ pc = "completing"
        /\ pc = "deciding" => UNCHANGED storyVars
        /\ pc = "bootstrap" => pc' = "bootstrap"
    BY <1>3 DEF TakeLease, AcquireLease, EndStep, Finished, storyVars, loop, vars
  <2>2. CASE UNCHANGED storyVars
    <3>1. UNCHANGED <<pc, worldTime, ledger, runtime, wakes, hand, profile, anchors, batch>>
      BY <2>2 DEF storyVars, loop, vars
    <3> SUFFICES ASSUME NEW x \in Residents, NEW s \in ShiftStarts, Employed(x), Coming(x, s)'
                 PROVE  Ready(x, s)'
      BY DEF AttendInv, Employed
    <3>2. Ready(x, s)
      BY <3>1 DEF AttendInv, Coming, Stirred, Rebooks, worldSeq
    <3>3. /\ Booked(x, s) => Booked(x, s)'
          /\ \A t : Called(x, s, t) => Called(x, s, t)'
          /\ \A t : EndedAfter(x, t) => EndedAfter(x, t)'
          /\ Asked(x) => Asked(x)'
          /\ ~InBatch(x) => ~InBatch(x)'
          /\ Lonely(x) => Lonely(x)'
      BY <3>1 DEF Booked, Called, EndedAfter, worldSeq, Asked, InBatch, Pending, Lonely, NeedsOf
    <3>4. InBatch(x) => IsIdle(x)
      BY DEF InBatch, AnchorInv, AnchorLags
    <3> QED
      BY <3>1, <3>2, <3>3, <3>4, ReadyKept
  <2>3. CASE pc # "deciding" /\ pc # "bootstrap"
    BY <2>1, <2>3, QuietKeepsReady
  <2> QED
    BY <1>1, <2>1, <2>2, <2>3
<1>4. CASE RunUntilNext
  BY <1>4, AdvanceKeepsReady
<1>5. CASE CompleteNext
  BY <1>5, CompletionKeepsReady
<1>6. CASE DeliverStep
  <2>1. /\ UNCHANGED <<worldTime, ledger, runtime, wakes, profile>>
        /\ pc = "completing" /\ pc' = "handling"
    BY <1>6 DEF DeliverStep, vars
  <2>2. ASSUME NEW x \in Residents
        PROVE  InBatch(x) \/ anchors'[x] = anchors[x]
    <3>1. Pending(x) = {} => anchors'[x] = anchors[x]
      BY <1>6 DEF DeliverStep, Pending
    <3> QED
      BY <2>1, <3>1 DEF InBatch
  <2> QED
    BY <2>1, <2>2, QuietKeepsReady
<1>7. CASE Acknowledge
  BY <1>7, AcknowledgeKeepsReady
<1>8. CASE Decide
  <2>1. PICK z : /\ Decided(z) /\ z = Head(hand).resident
                 /\ pc = "deciding" /\ pc' = "handling"
                 /\ UNCHANGED <<profile, anchors, batch>>
    BY <1>8, DecisionShape
  <2> SUFFICES ASSUME NEW x \in Residents, NEW s \in ShiftStarts, Employed(x), Coming(x, s)'
               PROVE  Ready(x, s)'
    BY DEF AttendInv, Employed
  <2>2. Coming(x, s) => Ready(x, s)
    BY DEF AttendInv
  <2>3. CASE UNCHANGED vars
    <3>1. UNCHANGED <<worldTime, ledger, runtime, wakes>>
      BY <2>3 DEF vars
    <3>2. Coming(x, s) /\ Ready(x, s)
      BY <2>1, <2>2, <3>1, ComingBefore
    <3>3. CASE x = z
      <4>1. DraftOf(x) = {} \/ \E c \in DraftOf(x) : ~FitsHorizon(c.type)
        <5>1. ASSUME NEW r \in Requests, NEW rv, Start(r, lease, rv)
              PROVE  FALSE
          <6>1. PICK f : f = lease
            OBVIOUS
          <6>2. Commit("STARTED", r, worldTime, f)
            BY <5>1, <6>1, StartedRows
          <6>3. worldSeq' = worldSeq + 1 /\ worldSeq \in Nat
            BY <6>2, AppendEntries
          <6>4. worldSeq' = worldSeq
            BY <3>1 DEF worldSeq
          <6> QED
            BY <6>3, <6>4
        <5> QED
          BY <2>1, <3>3, <5>1 DEF Decided
      <4> QED
        BY <2>1, <2>3, <3>2, <4>1, PassingKeepsReady
    <3>4. CASE x # z
      <4>1. /\ Booked(x, s) => Booked(x, s)'
            /\ \A t : Called(x, s, t) => Called(x, s, t)'
            /\ \A t : EndedAfter(x, t) => EndedAfter(x, t)'
            /\ ~Asked(x) /\ ~InBatch(x) /\ ~InBatch(x)'
            /\ Lonely(x) => Lonely(x)'
        BY <2>1, <3>1, <3>4
        DEF Booked, Called, EndedAfter, worldSeq, Asked, InBatch, Lonely, NeedsOf
      <4> QED
        BY <3>1, <3>2, <4>1, ReadyKept
    <3> QED
      BY <3>3, <3>4
  <2>4. ASSUME NEW r \in Requests, NEW rv, Start(r, lease, rv), r.actor = z,
               \E c \in DraftOf(z) : c.type = r.type /\ c.arg = r.arg
        PROVE  Ready(x, s)'
    <3>1. CASE x = z
      BY <2>1, <2>2, <2>4, <3>1, StartKeepsReady
    <3>2. CASE x # z
      <4>1. PICK f : f = lease
        OBVIOUS
      <4>2. Commit("STARTED", r, worldTime, f) /\ worldTime' = worldTime
        BY <2>4, <4>1, StartedRows
      <4>3. ~Rebooks(x, Event("STARTED", r, worldTime, f))
        BY <2>4, <3>2 DEF Rebooks, Event
      <4>4. Coming(x, s)
        BY <2>1, <4>2, <4>3, ComingBefore
      <4>5. ~Asked(x)
        BY <2>1, <3>2 DEF Asked
      <4> QED
        BY <2>1, <2>2, <2>4, <3>2, <4>4, <4>5, OthersStartKeepsReady
    <3> QED
      BY <3>1, <3>2
  <2> QED
    BY <2>1, <2>3, <2>4 DEF Decided
<1> QED
  BY <1>2, <1>3, <1>4, <1>5, <1>6, <1>7, <1>8 DEF StoryNext

\* When x last became free is no earlier than anything it completed.
LEMMA FreeSinceIsLast ==
  ASSUME TypeOK, OccurredInOrder, NEW x, NEW t \in Int, EndedAfter(x, t)
  PROVE  FreeSince(x) \in Int /\ FreeSince(x) > t
<1> DEFINE ends == {0} \cup {ledger[i].at : i \in {j \in 1 .. worldSeq :
                       ledger[j].type = "COMPLETED" /\ x \in Parties(ledger[j].req)}}
<1>1. PICK now \in Nat : now = worldTime
  BY TimeAssumption DEF TypeOK, Times
<1>2. \A i \in 1 .. worldSeq : ledger[i].at \in Nat /\ ledger[i].at <= now
  BY <1>1, LedgerEntries DEF OccurredInOrder
<1>3. \A e \in ends : e \in Nat /\ e <= now
  BY <1>2
<1>4. PICK e \in ends : e > t
  BY DEF EndedAfter
<1>5. FreeSince(x) = Max(ends)
  BY DEF FreeSince
<1> HIDE DEF ends
<1>6. \E m \in ends : \A y \in ends : m >= y
  <2> DEFINE T == {now - y : y \in ends}
  <2>1. T \in SUBSET Nat /\ T # {}
    BY <1>3, <1>4
  <2> HIDE DEF T
  <2>2. PICK k \in T : \A u \in T : k <= u
    BY <2>1, LeastOf
  <2>3. PICK m \in ends : k = now - m
    BY DEF T
  <2>4. ASSUME NEW y \in ends
        PROVE  m >= y
    <3>1. now - y \in T
      BY DEF T
    <3> QED
      BY <1>3, <2>2, <2>3, <3>1
  <2> QED
    BY <2>4
<1>7. Max(ends) \in ends /\ \A y \in ends : Max(ends) >= y
  BY <1>6 DEF Max
<1> QED
  BY <1>3, <1>4, <1>5, <1>7

\* Who stirs and is ready is at work when everything due at nine has been handled.
LEMMA ReadyAttends ==
  ASSUME StoryWorld, LoopTypes, DueInv, AttendInv, InstantInv, EmployeesStir
  PROVE  ShiftsAreAttended
<1> USE DEF StoryWorld, RInv, IInv
<1> SUFFICES ASSUME Caught, worldTime \in ShiftStarts, worldTime + ShiftTime <= Target,
                    NEW x \in Residents, Employed(x), InTime(x),
                    NeedsOf(x).social < Activation.social
             PROVE  Working(x)
  BY DEF ShiftsAreAttended, Working
<1>1. PICK s \in ShiftStarts : s = worldTime
  OBVIOUS
<1>2. s \in Nat
  BY ShiftFacts
<1>3. pc = "waiting" /\ NextStop > s /\ NextStop \in Int
  BY <1>1, NextStopIsFirst DEF Caught, DueInv
<1>4. Coming(x, s)
  <2>1. \A u \in ShiftStarts : u <= s \/ s <= u
    BY <1>2, ShiftFacts
  <2>2. Stirred(x, s)
    BY <1>1 DEF EmployeesStir
  <2> QED
    BY <1>1, <1>2, <1>3, <2>1, <2>2 DEF Coming
<1>5. Ready(x, s)
  BY <1>4 DEF AttendInv
<1>6. IsIdle(x) \/ Leads(x)
  BY DEF EmployeesStir
<1>7. ~Lonely(x)
  <2>1. PICK n \in Int : n = Activation.social
    BY SMT DEF Activation, Points, Unit
  <2>2. NeedsOf(x).social \in Int
    <3>1. "social" \in NeedNames /\ Levels \subseteq Int
      BY DEF NeedNames, Levels
    <3>2. NeedsOf(x) \in [NeedNames -> Levels]
      BY MindsAreSound DEF InstantInv, Minded
    <3> HIDE DEF Levels, NeedNames
    <3> QED
      BY <3>1, <3>2
  <2> QED
    BY <2>1, <2>2 DEF Lonely
<1>8. ~Booked(x, s)
  <2>1. \A w \in wakes : NextStop <= w.due
    BY NextStopIsFirst DEF DueInv
  <2> QED
    BY <1>2, <1>3, <2>1 DEF Booked
<1>9. ~Asked(x)
  BY <1>3 DEF Asked
<1>10. PICK t \in Int : t = Leave(x, s) /\ t <= s
  <2>1. Way(x) \in 0 .. 15
    BY WayFacts
  <2> QED
    BY <1>2, <2>1 DEF Leave
<1>11. FreeSince(x) <= t /\ (IsIdle(x) \/ runtime[x].task.started >= t)
  <2>1. t = worldTime - (IF runtime[x].loc = Workplace[x] THEN 0
                         ELSE TravelTime[runtime[x].loc][Workplace[x]])
    BY <1>1, <1>10 DEF Leave, Way, Away
  <2> QED
    BY <2>1 DEF InTime
<1>12. ~BusySince(x, t)
  <2>1. ~IsIdle(x) => runtime[x].task.started \in Nat
    BY DEF InstantInv, RowsArePast
  <2> QED
    BY <1>6, <1>11, <2>1 DEF BusySince
<1>13. ~Going(x, s)
  <2>1. Leads(x) => NextStop <= runtime[x].task.due
    BY NextStopIsFirst DEF DueInv, Leads, Busy
  <2> QED
    BY <1>2, <1>3, <2>1 DEF Going
<1>14. ~EndedAfter(x, t)
  <2>1. EndedAfter(x, t) => FreeSince(x) \in Int /\ FreeSince(x) > t
    BY FreeSinceIsLast
  <2> QED
    BY <1>11, <2>1
<1>15. ~Away(x)
  <2>1. ASSUME Away(x)
        PROVE  FALSE
    <3>1. OnTheWay(x, s, t) /\ t # s
      <4>1. Way(x) \in 0 .. 15 /\ Way(x) # 0
        BY <2>1, WayFacts
      <4> QED
        BY <1>2, <1>5, <1>10, <2>1, <4>1 DEF Ready, Leave
    <3>2. Leaving(x, s, t)
      BY <1>1, <1>2, <1>10, <1>14, <3>1 DEF OnTheWay
    <3> QED
      BY <1>7, <1>9, <1>12, <1>13, <3>2 DEF Leaving
  <2> QED
    BY <2>1
<1>16. t = s
  BY <1>2, <1>10, <1>15 DEF Leave, Way
<1> QED
  BY <1>1, <1>5, <1>8, <1>9, <1>12, <1>15, <1>16 DEF Ready, AtNine

(***************************************************************************)
(* Shifts are attended, for every street, population and calendar of nine  *)
(* o'clock shifts: as long as no employee spends a day where no wake finds *)
(* it, or is held in a talk at nine, whoever is free in time to walk to    *)
(* its workplace and is not lonely is at work once nine has been handled.  *)
(***************************************************************************)
THEOREM ShiftsOfStirringEmployees == StorySpec => [](EmployeesStir => ShiftsAreAttended)
<1>1. StoryInit => DueInv /\ InstantInv /\ AnchorInv /\ AttendInv
  <2>1. StoryInit => AttendInv
    BY DEF StoryInit, AttendInv, Coming
  <2> QED
    BY <2>1, InitDueInv, InitInstant, InitAnchors
<1>2. StoryWorld /\ LoopTypes /\ WakesDescribeTheirCommit /\ DueInv /\ [StoryNext]_storyVars
        => DueInv'
  BY DueStep
<1>3. StoryWorld /\ LoopTypes /\ AnchorInv /\ [StoryNext]_storyVars => AnchorInv'
  BY AnchorStep
<1>4. StoryWorld /\ LoopTypes /\ InstantInv /\ [StoryNext]_storyVars => InstantInv'
  BY InstantStep
<1>5. StoryWorld /\ StoryWorld' /\ LoopTypes /\ LoopTypes' /\ InstantInv /\ DueInv /\ AnchorInv
        /\ AttendInv /\ [StoryNext]_storyVars => AttendInv'
  BY AttendStep DEF StoryWorld, RInv, IInv
<1>6. StoryWorld /\ LoopTypes /\ DueInv /\ InstantInv /\ AttendInv
        => (EmployeesStir => ShiftsAreAttended)
  BY ReadyAttends
<1>7. StorySpec => []WakesDescribeTheirCommit
  BY StoryRunsTheKernel, WakesAreSnapshots, PTL
<1> QED
  BY <1>1, <1>2, <1>3, <1>4, <1>5, <1>6, <1>7, LoopIsTyped, PTL DEF StorySpec
=============================================================================
