----------------------------- MODULE WorldKernel -----------------------------
(***************************************************************************)
(* One world of packages/world-kernel and the rows of packages/db it owns. *)
(* Every operation of the kernel is one PostgreSQL transaction that locks  *)
(* the `worlds` row (or, for a repeated request, the request row) before   *)
(* it reads what it decides on, so each operation is one atomic action     *)
(* here; RowLocks models the locks themselves.                             *)
(*                                                                         *)
(* A request is identified with its action_requests row: `id` is the       *)
(* primary key, (world, key) is unique and the fingerprint covers every    *)
(* field, so two requests are "the same" exactly when the records are      *)
(* equal.  activityInstanceId = request.id is the request itself.          *)
(***************************************************************************)
EXTENDS Integers, Sequences, FiniteSets, FiniteSetsExt

CONSTANTS
  Residents,      \* residents of the seeded population
  Locations,      \* first-street fixtures
  Homes,          \* fixtures of kind HOME: the only place to SLEEP
  EatSites,       \* fixtures with the EAT capability (HOME, CAFE)
  WorkSites,      \* fixtures with the WORK capability (CAFE, OFFICE, STORE)
  Home,           \* [Residents -> Homes], seed.homeLocationId
  Workplace,      \* [Residents -> WorkSites \cup {None}], None: not EMPLOYED
  InitialFood,    \* [Residents -> Nat], seed.resources.foodUnits
  TravelTime,     \* [Locations -> [Locations -> Nat]], route matrix
  SleepTime, EatTime, TalkTime,
  ShiftStarts,    \* the weekday 09:00 boundaries
  ShiftTime,      \* 09:00 .. 17:00
  Requests,       \* the requests clients may submit
  None,           \* SQL null / absent optional argument
  MaxTime,        \* bound on world time
  MaxFence        \* bound on lease acquisitions

ActionTypes == {"MOVE", "SLEEP", "EAT", "WORK", "TALK"}
Statuses    == {"RUNNING", "PAUSED", "MAINTENANCE"}
Times       == 0 .. MaxTime

(***************************************************************************)
(* `arg` is the destination of a MOVE, the owner of the food item of an    *)
(* EAT, the workplace of a WORK and the participant of a TALK.             *)
(***************************************************************************)
ASSUME NoneAssumption ==
  None \notin Residents \cup Locations \cup Requests \cup Int
ASSUME PlaceAssumption ==
  /\ Homes \subseteq Locations /\ EatSites \subseteq Locations
  /\ WorkSites \subseteq Locations
  /\ Home \in [Residents -> Homes]
  /\ Workplace \in [Residents -> WorkSites \cup {None}]
  /\ \A r \in Residents : InitialFood[r] \in Nat
  /\ TravelTime \in [Locations -> [Locations -> Nat \ {0}]]
ASSUME TimeAssumption ==
  /\ SleepTime \in Nat \ {0} /\ EatTime \in Nat \ {0}
  /\ TalkTime \in Nat \ {0} /\ ShiftTime \in Nat \ {0}
  /\ MaxTime \in Nat /\ MaxFence \in Nat
ASSUME CalendarAssumption ==
  /\ \A s \in ShiftStarts : s \in Nat
  /\ \A t \in Times : \E s \in ShiftStarts :
        s > t /\ \A u \in ShiftStarts : u > t => s <= u
ASSUME RequestAssumption ==
  \A r \in Requests :
    /\ r.type \in ActionTypes
    /\ r.actor \in Residents
    /\ r.type = "MOVE" => r.arg \in Locations
    /\ r.type \in {"EAT", "TALK"} => r.arg \in Residents
    /\ r.type = "EAT" => r.quantity \in Nat \ {0}
    /\ r.version \in Nat \cup {None}
    /\ r.at \in Int

-----------------------------------------------------------------------------
VARIABLES
  worldTime, status,   \* worlds.world_time, worlds.status
  ledger,              \* world_events in seq order; worlds.world_seq = Len
  lease,               \* simulation_driver_leases.fence_token, 0: no lease
  requests,            \* action_requests rows
  outcomes,            \* kernel_action_outcomes and its event links
  runtime,             \* resident_runtime_states
  food,                \* resident_resource_states
  wakes                \* scheduled_wake_registrations

vars == <<worldTime, status, ledger, lease, requests, outcomes, runtime, food,
          wakes>>

worldSeq == Len(ledger)

Idle == [act |-> "IDLE", inst |-> None, target |-> None, with |-> None,
         started |-> None, due |-> None]

(***************************************************************************)
(* `task` is the activity part of a runtime row: current_activity,         *)
(* activity_instance_id, activity_target_location_id,                      *)
(* activity_target_resident_id, activity_started/due_at_world_time.        *)
(***************************************************************************)
Init ==
  /\ worldTime = 0 /\ status = "RUNNING"
  /\ ledger = <<>> /\ lease = 0
  /\ requests = {}
  /\ outcomes = [r \in Requests |-> [status |-> "NONE", refs |-> <<>>]]
  /\ runtime = [x \in Residents |->
       [loc |-> Home[x], task |-> Idle, lastAte |-> None, lastSocial |-> None,
        shifts |-> {}, version |-> 0, seq |-> 0]]
  /\ food = [x \in Residents |-> [units |-> InitialFood[x], version |-> 0]]
  /\ wakes = {}

-----------------------------------------------------------------------------
(* Ledger *)

(***************************************************************************)
(* commitWorldStateWithEventsInTransaction appends the event at            *)
(* world_seq + 1 with occurred_at = the world time after the state patch.  *)
(* `fence` records which driver lease the transaction asserted (0: none).  *)
(***************************************************************************)
Event(type, r, at, fence) == [type |-> type, req |-> r, at |-> at, fence |-> fence]

Commit(type, r, at, fence) == ledger' = Append(ledger, Event(type, r, at, fence))

\* mutant of FenceHolds: any token ever issued passes
FenceHolds_AnyIssued(f) == f <= lease

\* assertSimulationDriverFenceInTransaction; 0 is a call without a fence token
FenceHolds(f) == f = 0 \/ f = lease

Parties(r) == IF r.type = "TALK" THEN {r.actor, r.arg} ELSE {r.actor}
Partner(r, x) == IF r.type # "TALK" THEN None
                 ELSE IF x = r.actor THEN r.arg ELSE r.actor

-----------------------------------------------------------------------------
(* Scheduled wakes registered inside kernel transactions *)

\* mutant of NextShift: without the extra millisecond, a boundary follows itself
NextShift_Inclusive(t) ==
  CHOOSE s \in ShiftStarts : s >= t /\ \A u \in ShiftStarts : u >= t => s <= u

\* the first boundary strictly after t
NextShift(t) ==
  CHOOSE s \in ShiftStarts : s > t /\ \A u \in ShiftStarts : u > t => s <= u

Wake(x, kind, shift, due, version, seq) ==
  [resident |-> x, kind |-> kind, shift |-> shift, due |-> due,
   version |-> version, seq |-> seq]

WakeKey(w) == <<w.resident, w.kind, w.shift>>

\* a row with the dedupe key of a new wake is refreshed in place
Upsert(rows, new) ==
  {u \in rows : \A w \in new : WakeKey(u) # WakeKey(w)} \cup new

\* registerNextWorkBoundaryWakeInTransaction
BoundaryWake(x, version, seq) ==
  IF Workplace[x] = None THEN {}
  ELSE {Wake(x, "BOUNDARY", NextShift(worldTime), NextShift(worldTime), version, seq)}

\* mutant of PreparationWake: a shift that has begun is not passed over
PreparationWake_Begun(x, loc, version, seq) ==
  LET begun == {s \in ShiftStarts : s <= worldTime}
      shift == IF begun = {} THEN NextShift(worldTime) ELSE Max(begun)
  IN IF Workplace[x] = None \/ loc = Workplace[x] THEN {}
     ELSE {Wake(x, "PREPARATION", shift, shift - TravelTime[loc][Workplace[x]], version, seq)}

\* registerNextWorkPreparationWakeInTransaction, leaving from `loc`
PreparationWake(x, loc, version, seq) ==
  IF Workplace[x] = None \/ loc = Workplace[x] THEN {}
  ELSE {Wake(x, "PREPARATION", NextShift(worldTime),
             NextShift(worldTime) - TravelTime[loc][Workplace[x]], version, seq)}

-----------------------------------------------------------------------------
(* Action requests and their outcomes *)

\* mutant of EnsureStatus: the key is not part of a unique index
EnsureStatus_ById(r) ==
  IF \A s \in requests : s.id # r.id THEN "accepted"
  ELSE IF r \in requests THEN "duplicate" ELSE "conflict"

\* ensureActionRequestInTransaction: INSERT .. ON CONFLICT DO NOTHING, then re-read
EnsureStatus(r) ==
  IF \A s \in requests : s.id # r.id /\ s.key # r.key THEN "accepted"
  ELSE IF r \in requests THEN "duplicate" ELSE "conflict"

\* mutant of Executable: a duplicate is executed without looking up its outcome
Executable_Again(r) == EnsureStatus(r) # "conflict"

\* the request has no durable outcome yet, so this call may execute it
Executable(r) == EnsureStatus(r) # "conflict" /\ outcomes[r].status = "NONE"

\* persistValidatedActionRequest: the row without an outcome
PersistRequest(r) ==
  /\ EnsureStatus(r) = "accepted"
  /\ requests' = requests \cup {r}
  /\ UNCHANGED <<worldTime, status, ledger, lease, outcomes, runtime, food, wakes>>

-----------------------------------------------------------------------------
(* Starting an activity *)

IsIdle(x) == runtime[x].task.act = "IDLE"

\* mutant of PartiesIdle: the participant of a TALK is not looked at
PartiesIdle_ActorOnly(r) == IsIdle(r.actor)

PartiesIdle(r) == \A x \in Parties(r) : IsIdle(x)

\* mutant of InStock: there is food, but is it enough?
InStock_Any(r) == food[r.actor].units > 0

InStock(r) == food[r.actor].units >= r.quantity

\* the per-type checks of validateActionRequest
Possible(r) ==
  LET here == runtime[r.actor].loc IN
  /\ r.type = "MOVE"  => r.arg # here
  /\ r.type = "SLEEP" => here \in Homes
  /\ r.type = "EAT"   => /\ r.arg = r.actor
                         /\ here \in EatSites /\ here = Home[r.actor]
                         /\ InStock(r)
  /\ r.type = "WORK"  => /\ r.arg = here /\ here \in WorkSites
                         /\ Workplace[r.actor] = here
  /\ r.type = "TALK"  => runtime[r.arg].loc = here

\* mutant of ShiftOpen: a late arrival may still start the shift
ShiftOpen_Late(x) ==
  \E s \in ShiftStarts \ runtime[x].shifts : worldTime \in s .. s + ShiftTime - 1

\* getWorkShift: DUE and exactly at its start; the obligation is still open
ShiftOpen(x) == worldTime \in ShiftStarts /\ worldTime \notin runtime[x].shifts

(***************************************************************************)
(* validateResidentActionInTransaction in the order of its checks; `rv` is *)
(* expectedResourceVersion.  buildStartExecution re-reads the same locked  *)
(* rows, so its own checks cannot decide otherwise.                        *)
(***************************************************************************)
Decision(r, rv) ==
  IF \/ r.type = "TALK" /\ r.arg = r.actor
     \/ status # "RUNNING" \/ r.at > worldTime
  THEN "REJECTED"
  ELSE IF r.version # None /\ r.version # runtime[r.actor].version
  THEN "CONFLICT"
  ELSE IF ~Possible(r) \/ ~PartiesIdle(r)
  THEN "REJECTED"
  ELSE IF r.type = "EAT" /\ rv # food[r.actor].version
  THEN "CONFLICT"
  ELSE IF r.type = "WORK" /\ ~ShiftOpen(r.actor)
  THEN "REJECTED"
  ELSE "COMMITTED"

ActivityOf(type) ==
  CASE type = "MOVE" -> "TRAVELING" [] type = "SLEEP" -> "SLEEPING"
    [] type = "EAT" -> "EATING" [] type = "WORK" -> "WORKING"
    [] type = "TALK" -> "TALKING"

Duration(r) ==
  CASE r.type = "MOVE" -> TravelTime[runtime[r.actor].loc][r.arg]
    [] r.type = "SLEEP" -> SleepTime [] r.type = "EAT" -> EatTime
    [] r.type = "WORK" -> ShiftTime  [] r.type = "TALK" -> TalkTime

StartedTask(r, x) ==
  [act |-> ActivityOf(r.type), inst |-> r,
   target |-> IF r.type = "MOVE" THEN r.arg ELSE None,
   with |-> Partner(r, x),
   started |-> worldTime, due |-> worldTime + Duration(r)]

\* every write of a runtime row bumps state_version and stamps source_world_seq
Stamped(row, task) ==
  [row EXCEPT !.task = task, !.version = @ + 1, !.seq = worldSeq + 1]

StartedRow(r, x) == Stamped(runtime[x], StartedTask(r, x))

\* mutant of FoodAfterStart: one unit whatever the requested quantity
FoodAfterStart_OneUnit(r) ==
  IF r.type # "EAT" THEN food
  ELSE [food EXCEPT ![r.actor].units = @ - 1, ![r.actor].version = @ + 1]

FoodAfterStart(r) ==
  IF r.type # "EAT" THEN food
  ELSE [food EXCEPT ![r.actor].units = @ - r.quantity, ![r.actor].version = @ + 1]

WakesAfterStart(r) ==
  IF r.type # "WORK" THEN wakes
  ELSE Upsert(wakes, BoundaryWake(r.actor, runtime[r.actor].version + 1, worldSeq + 1))

\* executeResidentActionRequest whose validation succeeds
Start(r, f, rv) ==
  /\ Executable(r) /\ FenceHolds(f)
  /\ Decision(r, rv) = "COMMITTED"
  /\ requests' = requests \cup {r}
  /\ Commit("STARTED", r, worldTime, f)
  /\ runtime' = [x \in Residents |->
                   IF x \in Parties(r) THEN StartedRow(r, x) ELSE runtime[x]]
  /\ food' = FoodAfterStart(r)
  /\ wakes' = WakesAfterStart(r)
  /\ outcomes' = [outcomes EXCEPT ![r] = [status |-> "COMMITTED",
                                          refs |-> <<worldSeq + 1>>]]
  /\ UNCHANGED <<worldTime, status, lease>>

\* executeResidentActionRequest whose validation fails: a durable outcome
Refuse(r, f, rv) ==
  /\ Executable(r) /\ FenceHolds(f)
  /\ Decision(r, rv) # "COMMITTED"
  /\ requests' = requests \cup {r}
  /\ outcomes' = [outcomes EXCEPT ![r].status = Decision(r, rv)]
  /\ UNCHANGED <<worldTime, status, ledger, lease, runtime, food, wakes>>

-----------------------------------------------------------------------------
(* Completing an activity *)

\* mutant of Belongs: any activity of the right kind will do
Belongs_Kind(r) == runtime[r.actor].task.act = ActivityOf(r.type)

\* the actor's current activity was started by this request
Belongs(r) ==
  /\ runtime[r.actor].task.act = ActivityOf(r.type)
  /\ runtime[r.actor].task.inst = r

\* the rows of a TALK are still the two halves of this request
PairIntact(r) ==
  LET mine == runtime[r.actor].task  theirs == runtime[r.arg].task IN
  /\ theirs.act = "TALKING" /\ theirs.inst = r /\ theirs.target = None
  /\ mine.with = r.arg /\ theirs.with = r.actor
  /\ runtime[r.arg].loc = runtime[r.actor].loc
  /\ theirs.started = mine.started /\ theirs.due = mine.due

\* due times and obligations the completion re-derives from the started row
Rederivable(r) ==
  LET row == runtime[r.actor] IN
  /\ r.type = "EAT"  => row.task.due = row.task.started + EatTime
  /\ r.type = "TALK" => row.task.due = row.task.started + TalkTime /\ PairIntact(r)
  /\ r.type = "WORK" => /\ row.loc = r.arg /\ Workplace[r.actor] = r.arg
                        /\ row.task.started \in ShiftStarts
                        /\ row.task.due = row.task.started + ShiftTime
                        /\ row.task.started \notin row.shifts

\* the work item the caller read is still the row's state
StateVersionHolds(r, v) == v = None \/ v = runtime[r.actor].version

\* mutant of DueReached: one minute early
DueReached_Early(r) == worldTime + 1 >= runtime[r.actor].task.due

DueReached(r) == worldTime >= runtime[r.actor].task.due

(***************************************************************************)
(* The result of completeResidentAction for the request with this id;      *)
(* "INVALID_COMPLETION" stands for its exceptions, which roll back.  `v`   *)
(* is expectedStateVersion.                                                *)
(***************************************************************************)
CompletionDisposition(r, v) ==
  IF r \notin requests \/ outcomes[r].status # "COMMITTED"
  THEN "INVALID_COMPLETION"
  ELSE IF IsIdle(r.actor)
  THEN IF Len(outcomes[r].refs) > 1 /\ PartiesIdle(r)
       THEN "REUSED" ELSE "INVALID_COMPLETION"
  ELSE IF ~Belongs(r) \/ ~StateVersionHolds(r, v) \/ ~Rederivable(r)
  THEN "INVALID_COMPLETION"
  ELSE IF status # "RUNNING" THEN "REJECTED"
  ELSE IF ~DueReached(r) THEN "NOT_DUE"
  ELSE "EXECUTED"

\* what the activity leaves behind in x's row
Effect(r, x) ==
  LET row == runtime[x] IN
  [row EXCEPT
     !.loc = IF r.type = "MOVE" THEN row.task.target ELSE @,
     !.lastAte = IF r.type = "EAT" THEN worldTime ELSE @,
     !.lastSocial = IF r.type = "TALK" THEN worldTime ELSE @,
     !.shifts = IF r.type = "WORK" THEN @ \cup {row.task.started} ELSE @]

\* mutant of CompletedRow: only the actor's row gets a new version
CompletedRow_ActorVersion(r, x) ==
  [Stamped(Effect(r, x), Idle) EXCEPT
     !.version = IF x = r.actor THEN @ ELSE runtime[x].version]

CompletedRow(r, x) == Stamped(Effect(r, x), Idle)

WakesAfterCompletion(r) ==
  LET x == r.actor  version == runtime[x].version + 1  seq == worldSeq + 1 IN
  IF r.type \notin {"WORK", "MOVE"} THEN wakes
  ELSE Upsert(wakes,
         BoundaryWake(x, version, seq) \cup
           (IF r.type = "MOVE"
            THEN PreparationWake(x, runtime[x].task.target, version, seq) ELSE {}))

\* completeResidentAction with appendKernelActionOutcomeEventsInTransaction
Complete(r, f, v) ==
  /\ FenceHolds(f)
  /\ CompletionDisposition(r, v) = "EXECUTED"
  /\ Commit("COMPLETED", r, worldTime, f)
  /\ outcomes' = [outcomes EXCEPT ![r].refs = Append(@, worldSeq + 1)]
  /\ runtime' = [x \in Residents |->
                   IF x \in Parties(r) THEN CompletedRow(r, x) ELSE runtime[x]]
  /\ wakes' = WakesAfterCompletion(r)
  /\ UNCHANGED <<worldTime, status, lease, requests, food>>

-----------------------------------------------------------------------------
(* Clock, lease and wake registration *)

\* mutants of CanAdvance: time may go back; time passes in a paused world
CanAdvance_Rewind(t) == t # worldTime /\ status = "RUNNING"
CanAdvance_Paused(t) == t > worldTime

\* a rewind throws, an equal target is NO_OP, a world that does not run is BLOCKED
CanAdvance(t) == t > worldTime /\ status = "RUNNING"

AdvanceWorldTimeTo(t, f) ==
  /\ FenceHolds(f)
  /\ CanAdvance(t)
  /\ worldTime' = t
  /\ Commit("WORLD_TIME_ADVANCED", None, t, f)
  /\ UNCHANGED <<status, lease, requests, outcomes, runtime, food, wakes>>

\* mutant of UpdateClock: only a status change is written with an event
UpdateClock_Silent(t, s) ==
  /\ t >= worldTime /\ (status # "RUNNING" => t = worldTime)
  /\ worldTime' = t
  /\ status' = s
  /\ IF t > worldTime /\ s # status THEN Commit("WORLD_TIME_ADVANCED", None, t, 0)
     ELSE UNCHANGED ledger
  /\ UNCHANGED <<lease, requests, outcomes, runtime, food, wakes>>

(***************************************************************************)
(* updateLockedWorld for syncWorldClock (s = status) and                   *)
(* updateWorldClockControl: synchronise to wall-clock time, which moves a  *)
(* RUNNING world only, then set the status.  No lease is asserted.  Scale  *)
(* and anchor only choose t; they are WorldClock's subject.                *)
(***************************************************************************)
UpdateClock(t, s) ==
  /\ t >= worldTime /\ (status # "RUNNING" => t = worldTime)
  /\ worldTime' = t
  /\ status' = s
  /\ IF t > worldTime THEN Commit("WORLD_TIME_ADVANCED", None, t, 0)
     ELSE UNCHANGED ledger
  /\ UNCHANGED <<lease, requests, outcomes, runtime, food, wakes>>

\* acquireSimulationDriverLease: whoever asks takes over
AcquireLease ==
  /\ lease < MaxFence
  /\ lease' = lease + 1
  /\ UNCHANGED <<worldTime, status, ledger, requests, outcomes, runtime, food, wakes>>

\* registerNextWorkBoundaryWakes, and registerNextWorkPreparationWakes (prepare)
RegisterNextWakes(prepare) ==
  /\ wakes' = Upsert(wakes, UNION {
        BoundaryWake(x, runtime[x].version, worldSeq) \cup
          (IF prepare
           THEN PreparationWake(x, runtime[x].loc, runtime[x].version, worldSeq)
           ELSE {}) : x \in Residents})
  /\ UNCHANGED <<worldTime, status, ledger, lease, requests, outcomes, runtime, food>>

\* acknowledgeScheduledWake deletes by id, that is by key, whatever the row now says
AcknowledgeWake(w) ==
  /\ wakes' = wakes \ {w}
  /\ UNCHANGED <<worldTime, status, ledger, lease, requests, outcomes, runtime, food>>

-----------------------------------------------------------------------------
Fences == 0 .. lease

Next ==
  \/ \E r \in Requests : PersistRequest(r)
  \/ \E r \in Requests : \E f \in Fences, rv \in {None} \cup 0 .. food[r.actor].version :
       Start(r, f, rv) \/ Refuse(r, f, rv)
  \/ \E r \in requests : \E f \in Fences, v \in {None} \cup 0 .. runtime[r.actor].version :
       Complete(r, f, v)
  \/ \E t \in Times, f \in Fences : AdvanceWorldTimeTo(t, f)
  \/ \E t \in Times, s \in Statuses : UpdateClock(t, s)
  \/ AcquireLease
  \/ \E prepare \in BOOLEAN : RegisterNextWakes(prepare)
  \/ \E w \in wakes : AcknowledgeWake(w)

Spec == Init /\ [][Next]_vars

-----------------------------------------------------------------------------
(* Types *)

EventTypes == {"STARTED", "COMPLETED", "WORLD_TIME_ADVANCED"}

LedgerEvents ==
  [type : EventTypes, req : Requests \cup {None}, at : Times, fence : 0 .. MaxFence]

Tasks ==
  [act : {ActivityOf(type) : type \in ActionTypes} \cup {"IDLE"},
   inst : Requests \cup {None}, target : Locations \cup {None},
   with : Residents \cup {None}, started : Times \cup {None}, due : Nat \cup {None}]

RuntimeRows ==
  [loc : Locations, task : Tasks, lastAte : Times \cup {None},
   lastSocial : Times \cup {None}, shifts : SUBSET ShiftStarts,
   version : Nat, seq : Nat]

WakeRows ==
  [resident : Residents, kind : {"BOUNDARY", "PREPARATION"}, shift : ShiftStarts,
   due : Int, version : Nat, seq : Nat]

(***************************************************************************)
(* Every table holds rows of its schema; in particular the food check and  *)
(* the debit of an EAT, two statements of one transaction, never take      *)
(* food_units below zero.                                                  *)
(***************************************************************************)
TypeOK ==
  /\ worldTime \in Times /\ status \in Statuses /\ lease \in 0 .. MaxFence
  /\ ledger \in Seq(LedgerEvents)
  /\ requests \in SUBSET Requests
  /\ outcomes \in [Requests ->
       [status : {"NONE", "COMMITTED", "REJECTED", "CONFLICT"}, refs : Seq(Nat)]]
  /\ runtime \in [Residents -> RuntimeRows]
  /\ food \in [Residents -> [units : Nat, version : Nat]]
  /\ wakes \in SUBSET WakeRows

-----------------------------------------------------------------------------
(* Activities *)

\* y's row is y's half of the activity r: same start and end as the actor's row
Half(r, y) ==
  LET mine == runtime[y].task  actors == runtime[r.actor].task IN
  /\ mine.act = ActivityOf(r.type) /\ mine.inst = r
  /\ mine.with = Partner(r, y)
  /\ mine.started = actors.started /\ mine.due = actors.due
  /\ runtime[y].loc = runtime[r.actor].loc

\* x is free, or in an activity of a committed request that holds all its parties
TaskIntact(x) ==
  LET r == runtime[x].task.inst IN
  \/ runtime[x].task = Idle
  \/ /\ r \in requests /\ outcomes[r].status = "COMMITTED"
     /\ x \in Parties(r)
     /\ \A y \in Parties(r) : Half(r, y)
     /\ runtime[r.actor].task.due > runtime[r.actor].task.started
     /\ r.type = "MOVE" => runtime[r.actor].task.target = r.arg
     /\ Rederivable(r)

\* the inductive form of InProgressCompletable
TasksIntact == \A x \in Residents : TaskIntact(x)

(***************************************************************************)
(* No poisoned activity: whatever was started can be completed once it is  *)
(* due and the world runs.  completeResidentAction re-derives the due time,*)
(* the reciprocal TALK pair, the workplace and the open shift from rows    *)
(* other transactions may have changed meanwhile, and throws               *)
(* INVALID_COMPLETION for ever if one of them no longer fits.              *)
(***************************************************************************)
InProgressCompletable ==
  \A x \in Residents : ~IsIdle(x) =>
    LET r == runtime[x].task.inst IN
    /\ x \in Parties(r)
    /\ CompletionDisposition(r, None) \in {"EXECUTED", "NOT_DUE", "REJECTED"}

PhaseOf(r) ==
  CASE outcomes[r].status = "NONE" -> "new"
    [] outcomes[r].status \in {"REJECTED", "CONFLICT"} -> "refused"
    [] outcomes[r].status = "COMMITTED" ->
         IF Len(outcomes[r].refs) = 1 THEN "active" ELSE "done"

Lifecycle == INSTANCE ActivityLifecycle WITH
  Free   <- None,
  now    <- worldTime,
  phase  <- [r \in Requests |-> PhaseOf(r)],
  holder <- [x \in Residents |-> runtime[x].task.inst],
  due    <- [x \in Residents |-> runtime[x].task.due]

(***************************************************************************)
(* The kernel implements ActivityLifecycle: request rows, outcomes with    *)
(* event links, runtime rows and the clock together behave like activities *)
(* that take, hold and release all their parties at once.                  *)
(***************************************************************************)
LifecycleSpec == Lifecycle!Spec

LifecycleEvents(x, n) ==
  {i \in 1 .. n : ledger[i].type # "WORLD_TIME_ADVANCED" /\ x \in Parties(ledger[i].req)}

(***************************************************************************)
(* A resident's state_version counts, and its source_world_seq names the   *)
(* last of, the lifecycle events it took part in, so a decision made on an *)
(* older row is always detected by expectedActorVersion, for the           *)
(* participant of a TALK too.                                              *)
(***************************************************************************)
VersionsCountEvents ==
  \A x \in Residents :
    /\ runtime[x].version = Cardinality(LifecycleEvents(x, worldSeq))
    /\ runtime[x].seq \in LifecycleEvents(x, worldSeq) \cup {0}
    /\ \A i \in LifecycleEvents(x, worldSeq) : i <= runtime[x].seq

-----------------------------------------------------------------------------
(* Requests, outcomes and the ledger *)

EventsOf(r) == {i \in 1 .. worldSeq : ledger[i].req = r}

(***************************************************************************)
(* The event links of an outcome are exactly the events of its request: the*)
(* STARTED event, then at most one COMPLETED event (world_seq_start and    *)
(* world_seq_end), with any other events of the world in between.          *)
(***************************************************************************)
OutcomesLinkTheirEvents ==
  \A r \in Requests :
    LET refs == outcomes[r].refs IN
    /\ Len(refs) <= 2
    /\ {refs[i] : i \in DOMAIN refs} = EventsOf(r)
    /\ \A i, j \in DOMAIN refs : i < j => refs[i] < refs[j]
    /\ \A i \in DOMAIN refs : ledger[refs[i]].type = <<"STARTED", "COMPLETED">>[i]

(***************************************************************************)
(* One world never runs two activities for one idempotency key, whichever  *)
(* of executeResidentActionRequest and persistValidatedActionRequest came  *)
(* first and however often they are repeated.                              *)
(***************************************************************************)
KeyStartsOnce ==
  \A i, j \in 1 .. worldSeq :
    /\ ledger[i].type = "STARTED" /\ ledger[j].type = "STARTED"
    /\ ledger[i].req.key = ledger[j].req.key
    => i = j

(***************************************************************************)
(* A durable outcome is final: no retry, duplicate or later completion     *)
(* turns a refusal into a commit or drops an event link; a completion only *)
(* adds one.                                                               *)
(***************************************************************************)
OutcomesAreFinal ==
  [][\A r \in Requests : outcomes[r].status # "NONE" =>
       /\ outcomes'[r].status = outcomes[r].status
       /\ \E extra \in 0 .. 1 : Len(outcomes'[r].refs) = Len(outcomes[r].refs) + extra
       /\ \A i \in DOMAIN outcomes[r].refs : outcomes'[r].refs[i] = outcomes[r].refs[i]
    ]_vars

Meals(x) ==
  {i \in 1 .. worldSeq : /\ ledger[i].type = "STARTED"
                         /\ ledger[i].req.type = "EAT" /\ ledger[i].req.actor = x}

\* the units that the i-th event of the ledger took out of x's larder
UnitsEaten(x, i) == IF i \in Meals(x) THEN ledger[i].req.quantity ELSE 0

\* their sum over the ledger
Eaten(x) ==
  LET upTo[n \in 0 .. worldSeq] ==
        IF n = 0 THEN 0 ELSE upTo[n - 1] + UnitsEaten(x, n)
  IN upTo[worldSeq]

(***************************************************************************)
(* Food is conserved: the units left and the quantities of all EAT starts  *)
(* in the ledger add up to what the resident was seeded with, and the row's*)
(* version counts those starts.                                            *)
(***************************************************************************)
FoodIsConserved ==
  \A x \in Residents :
    /\ food[x].units + Eaten(x) = InitialFood[x]
    /\ food[x].version = Cardinality(Meals(x))

-----------------------------------------------------------------------------
(* Time, leases and wakes *)

\* The ledger tells world time in order and never ahead of the world's clock.
OccurredInOrder ==
  \A i \in 1 .. worldSeq :
    /\ ledger[i].at <= worldTime
    /\ \A j \in i .. worldSeq : ledger[i].at <= ledger[j].at

(***************************************************************************)
(* A driver that lost its lease writes nothing: among the fenced events of *)
(* the ledger the tokens never go down, although acquire, advance, start   *)
(* and complete interleave freely.                                         *)
(***************************************************************************)
FencesNeverGoBack ==
  \A i, j \in 1 .. worldSeq :
    i < j /\ ledger[i].fence # 0 /\ ledger[j].fence # 0
    => ledger[i].fence <= ledger[j].fence

(***************************************************************************)
(* A world that does not run is frozen: no entry point, neither the clock  *)
(* nor a start nor a completion, appends an event or changes a resident.   *)
(***************************************************************************)
PausedWorldIsFrozen ==
  [][status # "RUNNING" => UNCHANGED <<worldTime, ledger, runtime, food>>]_vars

(***************************************************************************)
(* A wake row is a snapshot of one commit: its source_state_version is the *)
(* resident's version as of its source_world_seq, and a boundary wake lies *)
(* strictly after that commit, so acting on it can never re-register the   *)
(* same boundary.  Refreshing a row moves both stamps together.            *)
(***************************************************************************)
WakesDescribeTheirCommit ==
  \A w \in wakes :
    /\ w.seq <= worldSeq
    /\ w.version = Cardinality(LifecycleEvents(w.resident, w.seq))
    /\ w.kind = "BOUNDARY" /\ w.seq > 0 => w.due > ledger[w.seq].at
    /\ \A u \in wakes : WakeKey(u) = WakeKey(w) => u = w

\* the activity of r has ended: its outcome links a COMPLETED event
HasEnded(r) ==
  \E i \in DOMAIN outcomes[r].refs : ledger[outcomes[r].refs[i]].type = "COMPLETED"

(***************************************************************************)
(* A finished activity stays finished: completing it again, with or without*)
(* an expected version and whatever its parties do now, never executes and *)
(* is never told to wait, so a new activity of theirs, be it of the same   *)
(* kind and due, is not touched.                                           *)
(***************************************************************************)
FinishedStaysFinished ==
  \A r \in requests : HasEnded(r) =>
    \A v \in {None} \cup 0 .. runtime[r.actor].version :
      CompletionDisposition(r, v) \in {"REUSED", "INVALID_COMPLETION"}

(***************************************************************************)
(* What ADR-0009, ADR-0012 and 10_FAILURE_REPLAN_SPEC promise of such a    *)
(* call: a duplicate completion is answered from the existing outcome.     *)
(* completeResidentAction does so only while all parties are idle, and     *)
(* throws INVALID_COMPLETION once one of them has gone on.                 *)
(***************************************************************************)
DuplicateCompletionReused ==
  \A r \in requests : HasEnded(r) => CompletionDisposition(r, None) = "REUSED"

=============================================================================
