------------------------------- MODULE StoryLoop -------------------------------
(***************************************************************************)
(* The autonomous loop of apps/api/scripts/m3-lifecycle-story-gate.mjs: one*)
(* process that owns the lease, drives world time from one due instant to  *)
(* the next, completes what is due, updates the need anchors it keeps in   *)
(* memory, and lets the life engine decide for every resident that is      *)
(* woken.  Kernel steps are those of WorldKernel, decisions those of       *)
(* ActionLoop.  World time is in minutes, minute 0 is midnight.            *)
(*                                                                         *)
(* A request is identified by its resident and the state version it was    *)
(* decided on; the code hashes world time and decision epoch as well.      *)
(***************************************************************************)
EXTENDS WorldKernel, ActionLoop

CONSTANTS
  Target,        \* TARGET_TIME
  Limit,         \* maxWorkItemsPerStep, as many as there are residents
  Populations    \* what the seed may make of the residents: functions from
                 \* Residents to [pace |-> need multipliers in percent,
                 \* routine |-> the hours its routine windows open]

ASSUME LoopAssumption ==
  /\ Target \in Times \ {0} /\ Limit \in Nat \ {0}
  /\ IsFiniteSet(Residents)
  /\ IdOrder \in [Residents -> Nat]
  /\ \A x, y \in Residents : IdOrder[x] = IdOrder[y] => x = y
  /\ \A p \in Populations, x \in Residents :
       /\ p[x].pace \in [NeedNames -> Nat] /\ p[x].routine \in [NeedNames -> 0 .. 23]
ASSUME FixtureAssumption ==
  /\ \A l \in Locations : /\ l \in Homes <=> Kind[l] = "HOME"
                          /\ l \in EatSites <=> Kind[l] \in EatKinds
                          /\ l \in WorkSites <=> Kind[l] \in {"CAFE", "OFFICE", "STORE"}
  /\ SocialPlace \in Locations
ASSUME ShiftAssumption == \A s \in ShiftStarts : s % Day = ShiftHour * Hour

VARIABLES
  profile,    \* the profiles of the generated residents
  pc,         \* where the process is in its loop
  anchors,    \* the need anchor store
  epochs,     \* decisionEpochs
  deferred,   \* scheduled_wake_registrations of the loop's own reasons
  batch,      \* activities completed by this driver step, in order
  hand        \* wake items of this step still to be handled

loop == <<profile, pc, anchors, epochs, deferred, batch, hand>>
storyVars == <<vars, loop>>

\* INITIAL_DECISION and DEFERRED_REPLAN rows; the dedupe key is the whole row
LoopWake(x, reason, due, epoch) ==
  [resident |-> x, reason |-> reason, due |-> due, epoch |-> epoch]

\* seedAnchor
SeededAnchor == [at |-> 0, level |-> [n \in NeedNames |-> Points(20)]]

StoryInit ==
  /\ Init
  /\ pc = "bootstrap" /\ profile \in Populations
  /\ anchors = [x \in Residents |-> SeededAnchor]
  /\ epochs = [x \in Residents |-> 0]
  /\ deferred = {} /\ batch = <<>> /\ hand = <<>>

\* registerNextWorkPreparationWakes after the residents were bootstrapped
Bootstrap ==
  /\ pc = "bootstrap" /\ pc' = "lease"
  /\ RegisterNextWakes(TRUE)
  /\ UNCHANGED <<profile, anchors, epochs, deferred, batch, hand>>

\* acquireSimulationDriverLease, then an INITIAL_DECISION wake for everybody
TakeLease ==
  /\ pc = "lease" /\ pc' = "waiting"
  /\ AcquireLease
  /\ deferred' = {LoopWake(x, "INITIAL_DECISION", 0, 0) : x \in Residents}
  /\ UNCHANGED <<profile, anchors, epochs, batch, hand>>

-----------------------------------------------------------------------------
(* Driving world time *)

Busy == {x \in Residents : ~IsIdle(x)}

\* mutants of DueTimes: the second query is left out; the first one is
DueTimes_NoWakes == {runtime[x].task.due : x \in Busy}
DueTimes_NoActivities == {w.due : w \in wakes \cup deferred}

\* the two min(..) queries at the head of the loop
DueTimes == {runtime[x].task.due : x \in Busy} \cup {w.due : w \in wakes \cup deferred}

\* the next due instant, but never beyond the target
NextStop == Min(DueTimes \cup {Target})

\* driver.runUntil: a target before world time is a WORLD_TIME_REWIND, which ends
\* the process, an equal one is NO_OP
RunUntilNext ==
  /\ pc = "waiting" /\ batch' = <<>>
  /\ IF NextStop > worldTime
     THEN \E t \in Times \cap {NextStop} : AdvanceWorldTimeTo(t, lease)
     ELSE UNCHANGED vars
  /\ pc' = IF NextStop < worldTime THEN "failed" ELSE "completing"
  /\ UNCHANGED <<profile, anchors, epochs, deferred, hand>>

\* actors of due activities: a TALK is one item, owned by its requester
DueActors ==
  {x \in Busy : runtime[x].task.inst.actor = x /\ runtime[x].task.due <= worldTime}

\* the order of due rows
DueBefore(x, y) ==
  \/ runtime[x].task.due < runtime[y].task.due
  \/ runtime[x].task.due = runtime[y].task.due /\ IdOrder[x] < IdOrder[y]

\* processDueWork completes the due activities one after the other
CompleteNext ==
  /\ pc = "completing" /\ Len(batch) < Limit
  /\ \E x \in DueActors :
       /\ \A y \in DueActors \ {x} : DueBefore(x, y)
       /\ Complete(runtime[x].task.inst, lease, runtime[x].version)
       /\ batch' = Append(batch, runtime[x].task)
  /\ UNCHANGED <<profile, pc, anchors, epochs, deferred, hand>>

-----------------------------------------------------------------------------
(* What a step hands to the loop *)

\* wakeReasonOrder
ReasonOrder == [ACTIVITY_COMPLETED |-> 0, DEFERRED_REPLAN |-> 1, INITIAL_DECISION |-> 2,
                WORK_BOUNDARY |-> 3]

\* `key` identifies the registration to acknowledge, <<>> when there is none
Item(x, reason, due, epoch, key) ==
  [resident |-> x, reason |-> reason, due |-> due, epoch |-> epoch, key |-> key]

LoopKey(w)  == <<w.resident, w.reason, w.due, w.epoch>>
KernelItem(w) == Item(w.resident, "WORK_BOUNDARY", w.due, 0, WakeKey(w))
LoopItem(w) == Item(w.resident, w.reason, w.due, w.epoch, LoopKey(w))

\* compareSchedulerWorkItems; two work wakes of one resident and instant are told
\* apart by their hashed ids, for which their keys' kinds stand
ItemBefore(i, j) ==
  LET rank(k) == <<k.due, IdOrder[k.resident], ReasonOrder[k.reason], k.epoch,
                   IF k.key # <<>> /\ k.key[2] = "PREPARATION" THEN 1 ELSE 0>>
  IN \E n \in 1 .. 5 : /\ rank(i)[n] < rank(j)[n]
                       /\ \A m \in 1 .. n - 1 : rank(i)[m] = rank(j)[m]

\* readDueScheduledWakes, for what the completions left of the limit
DueItems ==
  LET due == {KernelItem(w) : w \in {v \in wakes : v.due <= worldTime}}
               \cup {LoopItem(w) : w \in {v \in deferred : v.due <= worldTime}}
      room == Limit - Len(batch)
  IN {i \in due : Cardinality({j \in due : ItemBefore(j, i)}) < room}

\* orderSchedulerWorkItems: the items of a step, each once, in order
Arranged(items) ==
  {s \in UNION {[1 .. n -> items] : n \in 0 .. Cardinality(items)} :
     /\ {s[i] : i \in DOMAIN s} = items
     /\ \A i, j \in DOMAIN s : i < j => ItemBefore(s[i], s[j])}

\* a completed activity wakes its actor, nobody else
CompletionItems ==
  {Item(batch[i].inst.actor, "ACTIVITY_COMPLETED", batch[i].due, 0, <<>>) :
     i \in DOMAIN batch}

\* mutant of Settled: the participant of a TALK keeps its loneliness
Settled_ActorOnly(x, task) ==
  LET pace == profile[x].pace  r == task.inst IN
  CASE r.type = "TALK" /\ x # r.actor -> anchors[x]
    [] r.type = "SLEEP" -> AfterSleep(pace, anchors[x], task.started, worldTime)
    [] r.type = "EAT"   -> AfterEffect(pace, anchors[x], "hunger", r.quantity, worldTime)
    [] r.type = "TALK"  -> AfterEffect(pace, anchors[x], "social", 1, worldTime)
    [] OTHER            -> anchors[x]

\* applyCompletionEffects for one resident of a completed activity
Settled(x, task) ==
  LET pace == profile[x].pace  r == task.inst IN
  CASE r.type = "SLEEP" -> AfterSleep(pace, anchors[x], task.started, worldTime)
    [] r.type = "EAT"   -> AfterEffect(pace, anchors[x], "hunger", r.quantity, worldTime)
    [] r.type = "TALK"  -> AfterEffect(pace, anchors[x], "social", 1, worldTime)
    [] OTHER            -> anchors[x]

\* the step returns: anchors are brought up to date, then its wakes are handled
DeliverStep ==
  /\ pc = "completing" /\ (DueActors = {} \/ Len(batch) = Limit)
  /\ hand' \in Arranged(CompletionItems \cup DueItems)
  /\ anchors' = [x \in Residents |->
       IF \E i \in DOMAIN batch : x \in Parties(batch[i].inst)
       THEN Settled(x, batch[CHOOSE i \in DOMAIN batch : x \in Parties(batch[i].inst)])
       ELSE anchors[x]]
  /\ pc' = "handling"
  /\ UNCHANGED <<vars, profile, epochs, deferred, batch>>

\* acknowledgeScheduledWake comes before the decision; at the target nobody decides
Acknowledge ==
  /\ pc = "handling" /\ hand # <<>>
  /\ wakes' = {w \in wakes : WakeKey(w) # Head(hand).key}
  /\ deferred' = {w \in deferred : LoopKey(w) # Head(hand).key}
  /\ IF worldTime < Target THEN pc' = "deciding" /\ UNCHANGED hand
     ELSE hand' = Tail(hand) /\ UNCHANGED pc
  /\ UNCHANGED <<worldTime, status, ledger, lease, requests, outcomes, runtime, food,
                 profile, anchors, epochs, batch>>

-----------------------------------------------------------------------------
(* Deciding *)

\* currentShift for the obligation of an employed resident
ObligationOf(x) ==
  LET today == {s \in ShiftStarts : s \div Day = worldTime \div Day} IN
  IF Workplace[x] = None THEN [status |-> "NONE", starts |-> None]
  ELSE IF today = {} THEN [status |-> "NOT_DUE", starts |-> None]
  ELSE LET s == CHOOSE u \in today : TRUE IN
       [starts |-> s,
        status |-> IF worldTime < s THEN "NOT_DUE"
                   ELSE IF worldTime < s + ShiftTime THEN "DUE" ELSE "LATE"]

\* deriveWorkPreparationBoundary, kept if it belongs to today's shift
PreparationOf(x) ==
  LET o == ObligationOf(x) IN
  {o.starts - TravelTime[runtime[x].loc][w] :
     w \in {v \in {Workplace[x]} \ {None, runtime[x].loc} :
              o.status = "NOT_DUE" /\ o.starts = NextShift(worldTime)}}

\* getResidentObservations as loopObservation arranges it
Observation(x) ==
  [resident |-> x, home |-> Home[x], loc |-> runtime[x].loc,
   act |-> runtime[x].task.act, version |-> runtime[x].version,
   workplaces |-> {Workplace[x]} \ {None},
   obligation |-> ObligationOf(x), worked |-> runtime[x].shifts,
   preparation |-> PreparationOf(x),
   food |-> food[x], routine |-> profile[x].routine,
   others |-> {[resident |-> y, loc |-> runtime[y].loc, act |-> runtime[y].task.act] :
                 y \in Residents \ {x}}]

NeedsOf(x)    == EvaluateNeeds(profile[x].pace, anchors[x], "AWAKE", worldTime)
DraftOf(x)    == Draft(NeedsOf(x), Observation(x), worldTime)
FeasibleOf(x) == FeasibleCandidates(NeedsOf(x), Observation(x), worldTime)

\* toActionRequestV2
RequestOf(x, c) ==
  [id |-> <<x, runtime[x].version>>, key |-> <<x, runtime[x].version>>, actor |-> x,
   type |-> c.type, arg |-> c.arg, quantity |-> 1, version |-> runtime[x].version, at |-> 0]

\* the harness's own table of durations, an upper bound for a MOVE
HorizonTime(type) ==
  CASE type \in {"SLEEP", "WORK"} -> 480 [] type = "EAT" -> 30
    [] type \in {"MOVE", "TALK"}  -> 15

FitsHorizon(type) == HorizonTime(type) <= Target - worldTime

(***************************************************************************)
(* What the gate's configuration provides for its endpoint: one step has   *)
(* room for every resident, no shift and no way to it falls on the target, *)
(* a midnight, and nothing takes longer than its table of durations says.  *)
(***************************************************************************)
ASSUME EndpointAssumption ==
  /\ Cardinality(Residents) <= Limit
  /\ \A s \in ShiftStarts : s < Target \/ \A l, m \in Locations : s - TravelTime[l][m] > Target
  /\ SleepTime <= HorizonTime("SLEEP") /\ ShiftTime = HorizonTime("WORK")
  /\ EatTime <= HorizonTime("EAT") /\ TalkTime <= HorizonTime("TALK")
  /\ \A l, m \in Locations : TravelTime[l][m] <= HorizonTime("MOVE")

\* a night's sleep is the longest thing a resident does
ASSUME HorizonAssumption ==
  /\ SleepTime > IdleReconsideration
  /\ \A type \in ActionTypes : HorizonTime(type) \in 0 .. SleepTime

\* the reasons a kernel rejection may carry
RejectionReasons ==
  {"KERNEL_INVALID_ACTION", "KERNEL_INVALID_LOCATION", "KERNEL_PERMISSION_DENIED",
   "KERNEL_INSUFFICIENT_RESOURCE", "WORLD_NOT_RUNNING"}

\* the rest of decideResident: only a deferral that ends before the target is
\* registered, every other directive just ends the decision
After(x, answer) ==
  LET epoch == Max({epochs[x], Head(hand).epoch}) + 1 IN
  /\ epochs' = [epochs EXCEPT ![x] = epoch]
  /\ deferred' = deferred \cup
       {LoopWake(x, "DEFERRED_REPLAN", u, epoch) :
          u \in {v \in {answer.until} :
                   answer.directive = "DEFER_UNTIL_WORLD_TIME" /\ v < Target}}
  /\ pc' = "handling" /\ hand' = Tail(hand)
  /\ UNCHANGED <<profile, anchors, batch>>

\* no draft: busy, no goal or no feasible candidate
StayIdle(x) ==
  /\ DraftOf(x) = {}
  /\ After(x, IdleAnswer(worldTime))
  /\ UNCHANGED vars

\* the submission port refuses by itself what could not end before the target
RefuseAtHorizon(x, c) ==
  /\ ~FitsHorizon(c.type)
  /\ After(x, OutcomeAnswer("REJECTED", "KERNEL_INVALID_ACTION", FeasibleOf(x), worldTime))
  /\ UNCHANGED vars

\* executeResidentActionRequest on what was just observed; Requests bounds the story
Submit(x, c) ==
  LET r == RequestOf(x, c)
      rv == IF c.type = "EAT" THEN food[x].version ELSE None
  IN /\ FitsHorizon(c.type) /\ r \in Requests
     /\ IF Decision(r, rv) = "COMMITTED" THEN Start(r, lease, rv) ELSE Refuse(r, lease, rv)
     /\ \E reason \in IF Decision(r, rv) = "REJECTED" THEN RejectionReasons ELSE {""} :
          After(x, OutcomeAnswer(Decision(r, rv), reason, FeasibleOf(x), worldTime))

Decide ==
  /\ pc = "deciding"
  /\ LET x == Head(hand).resident IN
     \/ StayIdle(x)
     \/ \E c \in DraftOf(x) : RefuseAtHorizon(x, c)
     \/ \E c \in DraftOf(x) : Submit(x, c)

-----------------------------------------------------------------------------
(* The end of an iteration *)

\* at the target nobody may be active and no wake due by then
Settles == Busy = {} /\ \A w \in wakes \cup deferred : w.due > Target

\* world time is the target only when nothing was due before it, so the endpoint
\* check throws whenever the loop has not settled
EndStep ==
  /\ pc = "handling" /\ hand = <<>>
  /\ pc' = IF worldTime < Target THEN "waiting" ELSE IF Settles THEN "done" ELSE "failed"
  /\ UNCHANGED <<vars, profile, anchors, epochs, deferred, batch, hand>>

Finished == pc \in {"done", "failed"} /\ UNCHANGED storyVars

StoryNext ==
  \/ Bootstrap \/ TakeLease
  \/ RunUntilNext \/ CompleteNext \/ DeliverStep
  \/ Acknowledge \/ Decide \/ EndStep \/ Finished

StorySpec == StoryInit /\ [][StoryNext]_storyVars

-----------------------------------------------------------------------------
(* Properties *)

Employed(x) == Workplace[x] # None

\* everything due so far has been handled
Caught == pc = "waiting" /\ NextStop > worldTime

Leads(x) == ~IsIdle(x) /\ runtime[x].task.inst.actor = x

(***************************************************************************)
(* Nobody is forgotten: until the endpoint comes too close for a night's   *)
(* sleep, each resident is either the actor of a running activity, whose   *)
(* completion will wake it, or has a deferred decision registered; also    *)
(* the participant of a TALK, for whom no completion wake exists.  Who has *)
(* no job never has two, so it is asked once per instant.                  *)
(***************************************************************************)
NobodyIsForgotten ==
  pc = "waiting" /\ worldTime + SleepTime <= Target =>
    \A x \in Residents :
      LET chains == Cardinality({w \in deferred : w.resident = x})
                      + (IF Leads(x) THEN 1 ELSE 0)
      IN chains >= 1 /\ (Employed(x) \/ chains = 1)

(***************************************************************************)
(* Planner and kernel agree: what rule-decision.ts calls feasible for an   *)
(* observed resident, executeResidentActionRequest commits, although the   *)
(* one reads fixtures, stock, shift and neighbours through the observation *)
(* and the other the locked rows.  So no decision of the loop is wasted.   *)
(***************************************************************************)
DraftsAreAccepted ==
  pc = "deciding" =>
    LET x == Head(hand).resident IN
    \A c \in DraftOf(x) :
      FitsHorizon(c.type) =>
        Decision(RequestOf(x, c), IF c.type = "EAT" THEN food[x].version ELSE None)
          = "COMMITTED"

\* world times at which x completed something that changes its needs
Relieved(x) ==
  {ledger[i].at : i \in {j \in 1 .. worldSeq :
     /\ ledger[j].type = "COMPLETED" /\ x \in Parties(ledger[j].req)
     /\ ledger[j].req.type \in {"SLEEP", "EAT", "TALK"}}}

(***************************************************************************)
(* The anchors kept in memory follow the ledger: each starts at the last   *)
(* meal, sleep or talk the ledger records for the resident, whichever side *)
(* of a TALK it was on and however many activities one step completed.     *)
(***************************************************************************)
AnchorsFollowLedger ==
  pc = "waiting" => \A x \in Residents : anchors[x].at = Max({0} \cup Relieved(x))

\* when x last became free, and whether that was in time to walk to its shift
FreeSince(x) ==
  Max({0} \cup {ledger[i].at : i \in {j \in 1 .. worldSeq :
        ledger[j].type = "COMPLETED" /\ x \in Parties(ledger[j].req)}})
InTime(x) ==
  LET leave == worldTime - (IF runtime[x].loc = Workplace[x] THEN 0
                            ELSE TravelTime[runtime[x].loc][Workplace[x]])
  IN FreeSince(x) <= leave /\ (IsIdle(x) \/ runtime[x].task.started >= leave)

(***************************************************************************)
(* Shifts are attended: WORK may start at the very minute of shift.start   *)
(* only, so preparation wake, walk and boundary wake must line up.  When   *)
(* everything due at 09:00 has been handled, an employed resident is at    *)
(* work unless it became free too late to walk there, or is lonely.        *)
(***************************************************************************)
ShiftsAreAttended ==
  Caught /\ worldTime \in ShiftStarts /\ worldTime + ShiftTime <= Target =>
    \A x \in Residents :
      Employed(x) /\ InTime(x) /\ NeedsOf(x).social < Activation.social
      => runtime[x].task.act = "WORKING"

\* a start or a completion that registers x's wakes for the next shift
Rebooks(x, e) ==
  \/ e.type = "STARTED" /\ e.req.type = "WORK" /\ e.req.actor = x
  \/ e.type = "COMPLETED" /\ e.req.type \in {"MOVE", "WORK"} /\ e.req.actor = x

\* before the shift at s, x has gone to work or somewhere else since the shift before began
Stirred(x, s) ==
  \/ \A u \in ShiftStarts : u >= s
  \/ \E i \in 1 .. worldSeq :
       /\ Rebooks(x, ledger[i]) /\ ledger[i].at < s
       /\ \A u \in ShiftStarts : u < s => u <= ledger[i].at

(***************************************************************************)
(* Employees are where their wakes find them: only WORK and MOVE register  *)
(* wakes for the next shift, so an employee must not stay in one place     *)
(* without working from one shift to the next; and who would be in time is *)
(* not held at nine in a talk that somebody else began.                    *)
(***************************************************************************)
EmployeesStir ==
  Caught /\ worldTime \in ShiftStarts =>
    \A x \in Residents : Employed(x) =>
      /\ Stirred(x, worldTime)
      /\ InTime(x) => IsIdle(x) \/ Leads(x)

\* the world time of the commit that registered a wake
RegisteredAt(w) == IF w.seq = 0 THEN 0 ELSE ledger[w.seq].at

(***************************************************************************)
(* Nothing due is passed by.  World time stops at every due instant until  *)
(* all of it is handled, however many steps that takes: the two queries    *)
(* at the head of the loop leave out no activity, no decision and no wake, *)
(* save a wake that was over before it was registered.                     *)
(***************************************************************************)
NothingDueIsPassedBy ==
  /\ \A x \in Busy : runtime[x].task.due >= worldTime
  /\ \A w \in deferred : w.due >= worldTime
  /\ \A w \in wakes : w.due >= worldTime \/ w.due < RegisteredAt(w)

(***************************************************************************)
(* No wake is registered for a minute that is over, as the kernel would    *)
(* when a walk to somewhere else ends after the minute to leave for work.  *)
(* If the step that ended the walk has no room left for it in its limit,   *)
(* such a wake is the next due instant, and driving to it fails.           *)
(***************************************************************************)
WakesAreInTime == \A w \in wakes : w.due >= RegisteredAt(w)

(***************************************************************************)
(* The week ends well: no instant the loop drives to lies in the past, and *)
(* at the target, where the gate's endpoint check throws, no activity and  *)
(* no due wake is left.                                                    *)
(***************************************************************************)
EndpointHolds == pc # "failed"

\* what is due by now: activities, kernel wakes and deferred decisions
DueNow == {runtime[x].task : x \in {y \in Busy : runtime[y].task.due <= worldTime}}
            \cup {w \in wakes \cup deferred : w.due <= worldTime}

(***************************************************************************)
(* Decisions only plan ahead: whatever a decision starts, defers or makes  *)
(* the kernel register lies strictly later, so the loop handles finitely   *)
(* many wakes at one instant and world time moves on.                      *)
(***************************************************************************)
DecisionsOnlyPlanAhead ==
  [][pc = "deciding" => DueNow' \subseteq DueNow]_storyVars

(***************************************************************************)
(* 10_FAILURE_REPLAN_SPEC.md: a LATE obligation is PERMANENT_INVALID and   *)
(* "stop this shift": it no longer determines what a resident does.        *)
(***************************************************************************)
LateShiftIsStopped ==
  pc = "deciding" =>
    LET x == Head(hand).resident IN
    ObligationOf(x).status = "LATE" =>
      \A g \in PursuedGoal(NeedsOf(x), Observation(x), worldTime) :
        g.type # "FULFILL_WORK_OBLIGATION"
=============================================================================
