# Mirror World in TLA+

TLA+ models of the part of Mirror World that decides what is true in a world and
what its residents do next: the world kernel (`packages/world-kernel`), the
tables it owns (`packages/db`), the simulation driver that moves world time and
completes due activities, the life engine that decides for residents
(`packages/life-engine`), and the autonomous loop that joins them
(`apps/api/scripts/m3-lifecycle-story-gate.mjs`).
The modules are translated from the source. TLC checks them on small instances,
TLAPS proves the main properties for every value of the constants.

`PROJECT.json` names, for every definition, the source lines it stands for; for
every checked property, a plausible bug that breaks it; and the hazards of the
code with the properties that watch over them.

## The system

A *world* is a row of PostgreSQL with a time, a status and a sequence number, an
append-only ledger of events, and a few residents with runtime rows (where they
are, what they do), resource rows (food), action requests, durable outcomes and
scheduled wakes. Everything that changes a world goes through the kernel, one
transaction per operation. Residents act by *requests* (MOVE, SLEEP, EAT, WORK,
TALK); a request that passes validation starts an activity with a due time, and
the driver completes it when world time has reached that time.

```
 clients, action loop (life-engine)      operators (API)        drivers
        | request / outcome                   | clock control      | lease, runUntil
        v                                     v                    v
 resident action executor  --------->  world clock store   <--- simulation driver
        |   validator, request and           |                |       |
        |   outcome stores                   |                |       +-- due reader, due wakes
        v                                    v                v
   runtime, resource, request, outcome, wake rows        lease row (fence token)
        \____________________ worlds row + world_events ____________________/
                                    |
                     replay, checkpoints, read models
```

### Inventory

| component (source) | state | operations | what is hard | what makes it correct |
|---|---|---|---|---|
| Resident action executor (`resident-action-executor.ts`, 1472 lines) | runtime, resource rows | execute, complete | checks read rows that other transactions change; a TALK changes two residents; completion re-derives everything from the started rows | an activity holds all its parties from one moment to another; whatever started can be completed; no two activities of one resident |
| Action validator (`action-validator.ts`) | none | validate | optimistic versions over rows read earlier | a stale decision is recognised by the version |
| Request and outcome stores (`action-request-store.ts`, `action-outcome-store.ts`) | requests, outcomes, event links | insert or find, persist outcome, append event link | retries, duplicates, equal keys with different content, two calls at once | one execution per key, outcomes are final and name exactly their events |
| Event ledger (`world-events-store.ts`) | `world_events`, `world_seq` | commit state with events | order against clock changes of other callers | events in world-time order, state and event change together |
| World clock (`world-clock-store.ts`, `world-clock.ts`) | time, status, scale, wall-clock anchor | advance, sync, control | several callers, a late target, pauses | time never goes back, a paused world is frozen |
| Driver lease (`simulation-driver-lease.ts`) | fence token | acquire, assert | a driver goes on after it lost the lease | a driver that lost its lease writes nothing |
| Simulation driver (`simulation-driver.ts`, `scheduler-order.ts`) | one call in memory | runUntil, processDueWork, advanceWorldBy, runForDays | state is read in one transaction and used in later ones; items fail one by one; crash between two items | every completion is reported truthfully, nothing due stays behind, everything due completes eventually |
| Due reader (`due-activity.ts`) | none | readDueActivities | a row limit over rows that belong together in pairs | whole work items |
| Scheduled wakes (`scheduled-wake.ts`, `work-preparation.ts`) | wake rows | register next boundary and preparation, refresh, read due, acknowledge | rows refreshed in place between read and acknowledgement; boundary instants | a wake describes one commit and lies after it; none is lost |
| Seed and bootstrap (`resident-seed.ts`, `resident-runtime-state.ts`) | initial rows | seed | deterministic generation | the initial state of the model |
| Domain replay, world replay, checkpoints (`m3-domain-replay.ts`, `world-replay.ts`, `world-checkpoint-store.ts`) | rebuilt rows, checkpoints | rebuild, compare, save, restore | every effect exists twice, in the executor and in the reducer | the ledger determines the rows |
| Action loop, replan policy (`action-loop.ts`, `replan-policy.ts`) | one decision in memory | observe, decide, submit, reconcile | lost responses, refusals, stale observations | at most one activity per decision; replanning stops |
| Needs, goals, rule decision (`needs.ts`, `goals.ts`, `rule-decision.ts`) | need anchors, kept by the caller | evaluate needs, apply effects, select a goal, list candidates | the planner judges an observation, the executor locked rows; a resident with nothing to do must come back | what is decided can be executed; needs, routines and shifts get their turn |
| Read models and API (`resident-runtime-authority.ts`, `observation-query-store.ts`, `app.ts`, `client-projection.ts`) | none | queries, clock control | staleness | consistent snapshots |
| Story loop (`m3-lifecycle-story-gate.mjs`, `runScenario`) | anchors, decision epochs, one step's wakes, all in memory | bootstrap, drive to the next due instant, settle completions, acknowledge, decide, end | only the actor of a TALK is woken; wakes are acknowledged before the decision; a row limit over all due work; the last hours | nobody is forgotten, nothing due is passed by |
| Web client (`apps/web`) | none | display | none | outside the program's core |

The components interact through rows: client calls and driver calls become
kernel transactions; the driver hands completion wakes and due wakes to its
caller in the result of a call; the caller acknowledges wakes and submits new
requests. There are no callbacks across components and no messages besides
these calls, so concurrency is concurrency of transactions and of what callers
remember between them.

## The modules

| module | what it is |
|---|---|
| `ActivityLifecycle` | abstract specification: activities take, hold and release all their parties at once; never end before they are due; a request has one activity at most |
| `WorldKernel` | the tables of one world and every kernel operation as one atomic action |
| `RowLocks` | the row locks of those transactions, statement by statement: why one atomic action per operation is a fair picture, and where transactions can deadlock |
| `SimulationDriver` | several driver processes on top of `WorldKernel` (`EXTENDS`): a call as a sequence of steps, crashes and takeovers in between |
| `WorldKernel_proofs` | inductive invariant of the kernel and the theorems that follow; outcomes are final; the kernel implements `ActivityLifecycle` |
| `WorldKernelRecords_proofs` | versions, event links, keys, food, wakes and due times: what the rows say of the ledger |
| `SimulationDriver_proofs` | driven worlds implement the kernel and inherit its theorems; what calls report, give up and leave behind |
| `RowLocks_proofs` | operations are atomic, only foreign keys deadlock, a key is decided once |
| `DomainReplay_proofs` | executor and reducers agree: replays, checkpoints and summaries tell the past |
| `DomainReplay` | event sourcing around `WorldKernel` (`EXTENDS`): event payloads, the two reducers, the checkpoint table, a replayer that reads along |
| `WorldClock` | how wall-clock time becomes world time: scale, anchor, status, environment |
| `WorkCalendar` | weekday shifts as the three places of the code compute them |
| `TimeAndCalendar_proofs` | clock and calendar are what `WorldKernel` takes them for |
| `Needs` | need levels, their decay from an anchor, what sleep, meals and talks do to it |
| `Goals` | the goals needs, routines, obligations and context propose, and their order |
| `ReplanPolicy` | the classes of failures, the budget, the directives |
| `ActionLoop` | one decision: observation to goal to candidates to draft, and the replan answer (`EXTENDS Goals, ReplanPolicy`) |
| `StoryLoop` | the autonomous loop (`EXTENDS WorldKernel, ActionLoop`) |
| `StoryLoop_proofs` | stories are behaviours of the kernel; drafts are accepted, anchors follow the ledger, nobody is forgotten, nothing due is passed by, weeks end well; the theorems of the replan policy |
| `ShiftAttendance_proofs` | employees attend their shifts: what goals and planner make of an obligation, and the wakes that ask for it |
| `MCWorldKernel`, `MCRowLocks`, `MCSimulationDriver`, `MCDomainReplay`, `MCStoryLoop` | small instances for TLC |

### WorldKernel

State: `worldTime`, `status` and `ledger` are the `worlds` row and
`world_events` (`world_seq` is the length of the ledger); `lease` is the fence
token of the driver lease; `requests`, `outcomes`, `runtime`, `food` and `wakes`
are the tables of the same names. A request is a record and is identified with
its row, so a fingerprint is equality and `activityInstanceId` is the request.

| action | code |
|---|---|
| `Start`, `Refuse` | `executeResidentActionRequest`: insert or find the request, assert the fence, validate in the order of `Decision`, then commit rows, event, outcome and wakes, or persist the refusal |
| `PersistRequest` | `persistValidatedActionRequest`: the request without an outcome |
| `Complete` | `completeResidentAction` when `CompletionDisposition` is EXECUTED; the other dispositions change nothing |
| `AdvanceWorldTimeTo` | `advanceWorldTimeTo` |
| `UpdateClock` | `syncWorldClock` and `updateWorldClockControl` |
| `AcquireLease` | `acquireSimulationDriverLease` |
| `RegisterNextWakes` | `registerNextWorkBoundaryWakes`, `registerNextWorkPreparationWakes` |
| `AcknowledgeWake` | `acknowledgeScheduledWake` |

An exception rolls its transaction back, so calls that throw, conflict or are
answered from an existing outcome are stutters. Every call may come with any
fence token issued so far, any expected resource version and any expected state
version up to the current one, so callers may be arbitrarily stale.

Abstracted: event payloads (an event keeps type, request, time and the fence
its transaction asserted; `DomainReplay` adds what replay reads of them), wording
of refusal reasons, SHA-256 of keys and seeds. The time `UpdateClock` moves to is
left open and shift starts are a set of instants; `WorldClock` and
`WorkCalendar` are the arithmetic behind both, and their theorems say that it
fits: `ClockObeysKernel` is the guard of `UpdateClock`, `CalendarHolds` the
assumption `CalendarAssumption` and the choice of `NextShift`.

### RowLocks

Each of the eight kinds of transaction is its list of statements that may have
to wait (`Program`): inserts that meet another's unique key, `FOR UPDATE`,
deletes, and the `FOR KEY SHARE` by which a foreign key of a fresh row is
checked. Locks are kept until the end; a cycle of waits is broken by aborting a
victim; any transaction that holds a lock may throw. Three transactions run at
once, each any of eleven calls that together cover all operations, with and
without fence token, food item and wake.

### SimulationDriver

A call goes through `RunUntil` (advance), `AssertLease`, `ReadWorld`,
`ReadDueActivities`, then `CompleteItem` or `FailItem` per work item, and
`ReturnResult` (due wakes fill what is left of the limit). Each is one query or
transaction of the code; between any two of them clients start activities,
operators move or pause the clock, wakes are acknowledged, another driver takes
the lease, or the process crashes. `delivered` keeps what callers were given
and `lost` the fences of calls that crashed; both are history. `call[d]` holds
the local variables of `processDueWork`, `token[d]` the fence the process got
with its lease. The batch is a set: its order is the order of due times and
resident ids, which `IsNext` follows. A driver in `Unleased` was
created without the `lease` option and asserts nothing.

### DomainReplay

`payloads` is the payload column of the ledger, as `buildStartExecution` and the
completion events fill it; fields that come from the request stay in the event's
`req`. `replica` and `failed` are a replayer in memory, `checkpoints` the rows of
`simulation_checkpoints`; `past`, the live projection after every event, is
history.

| definition | code |
|---|---|
| `KernelStep` | a kernel transaction; its event, if any, gets its payload |
| `ReplayEvent` (`Accepts`, `Reduced`, `WellFormed`) | one turn of the loop of `replayM3ResidentProjectionFromProjection`; the array may end here, so the result is checked as `canonicalProjection` does |
| `ReplayFromSeed`, `ReplayFromCheckpoint` | the two entry points |
| `AppliesToSummary`, `SummaryReplays`, `Summary` | `applyEvents` of `world-replay.ts` |
| `PersistWorldCheckpoint` | `persistWorldCheckpoint` answering "created"; "duplicate" and "conflict" change nothing |
| `SaveProjection`, `DeleteCheckpoint` | the gates' `INSERT` of a resident projection, and `DELETE` |

The kernel goes on while the replayer reads, so a replay meets every prefix of
every history. A replay from an array in memory sees a fixed prefix, which is a
behaviour in which the kernel pauses. Abstracted: schema and registry versions,
world identity and the parsing of fields, which the kernel always fills; SHA-256
(a checksum is its snapshot, a digest the number of events it covers).

### Needs, Goals, ReplanPolicy, ActionLoop

Pure operators; what one decision reads comes in as a record, as in the code.
Levels are whole numbers (a point is 120,000 units, so that hourly rates, paces
in percent and minutes stay integral).

| definition | code |
|---|---|
| `EvaluateNeeds`, `AfterSleep`, `AfterEffect` | `evaluateNeeds` and the settling of a completed activity in `needs.ts` |
| `NeedGoals`, `RoutineGoals`, `ObligationGoals`, `ContextGoals`, `SelectGoal` | `evaluateGoals` and the selection of `goals.ts` |
| `CandidatesFor`, `FeasibleCandidates` | `evaluateRuleDecisionV2` with its hard constraints |
| `Draft` | the candidate `runResidentActionLoopStepV2` submits |
| `DecideReplan` (`ClassOf`, `DecideClass`, `DecideTimeout`) | `decideReplan` |
| `IdleAnswer`, `OutcomeAnswer` | the two places where the step asks for a directive |

Scores are left out of `ActionLoop`: the candidates of one decision serve one
goal and score alike, so the actor id decides, which is kept. Version 1 of
decision and step, which the loop no longer calls, condition bands and digests
are not modelled.

### StoryLoop

One process. Its memory (`anchors`, `epochs`, `batch`, `hand`) and the wakes it
registers for its own reasons (`deferred`) stand next to the rows of
`WorldKernel`; `pc` says where it is.

| action | code |
|---|---|
| `Bootstrap`, `TakeLease` | residents are bootstrapped, preparation wakes registered, the lease acquired, an INITIAL_DECISION for everybody |
| `RunUntilNext` | the two queries for the next due instant, `driver.runUntil` |
| `CompleteNext` | one completion of `processDueWork`, in the order of due rows |
| `DeliverStep` | the step returns: due wakes fill what completions left of the limit, all items are sorted (`Arranged`), anchors are settled |
| `Acknowledge` | `acknowledgeScheduledWake`, before the decision |
| `Decide` | `decideResident`: observe, step of the life engine, submit; `StayIdle`, `RefuseAtHorizon` and `Submit` are its three ways out, each with its directive (`After`) |
| `EndStep`, `Finished` | end of the iteration, endpoint check |

With one process and one lease nothing else writes, so a query and the
transaction after it see the same rows, and an observation is never stale.
`Profile`s, routes, durations and the week are the real ones, in minutes.

## The runs

All constants are small sets of model values. In the kernel, replay and driver
runs one time unit stands for a stretch in which nothing of interest happens; an
activity takes one unit, so that completion at, before and after the due time
all occur. In the story runs a unit is a minute.

| run | asks | instance | distinct states |
|---|---|---|---|
| `KernelMeals` | executed once, finished once, resources conserved? | two meals larger together than the larder, a third under the key of the first, a walk to work under the id of the second; wakes for one shift, pauses, a lease | 273,630 |
| `KernelDuplicate` | finding 5 | three residents, two TALKs over one participant, a SLEEP of the participant | violation |
| `ReplayShift` | do shifts, wakes and their replay fit? | commute, two attempts at a shift, boundaries at 1, 3, 5; registration, refresh, acknowledgement; a replayer reads along | about 841,000 |
| `ReplayStory` | do activities live as promised, can residents be rebuilt at any moment? | a meal, a talk, a sleep of whom the talk is with; replays from seed and checkpoints, two checkpoint rows | about 359,000 |
| `ReplayHistory` | finding 4 | as `ReplayStory` | violation |
| `RowLocks` | may operations be atomic? | three transactions (symmetric), eleven calls, the lease row present or not | 45,369 |
| `RowLocksReciprocal` | finding 1 | reciprocal TALKs only | violation |
| `DriverSafety` | do two leased drivers leave rows, ledger and reports whole? | three residents, two TALKs over one participant, a SLEEP of the participant with an expected version, a MOVE to work; pauses, crashes, two leases, limit 2 | 1,008,588 |
| `DriverLiveness` | does everything due complete? | a TALK and a MOVE, one driver with and one without a lease, fairness below | about 332,000 |
| `DriverSmallBatch` | finding 2 | limit 1, a TALK and a SLEEP due together | violation |
| `StoryWeek` | do residents live through the gate's five days? | four residents, two of them employed, five populations; real durations, routes, needs and week | 48,305 |
| `StoryLate` | finding 3 | as `StoryWeek` | violation |

What the properties say is written above each definition. In short:

* `KernelMeals`: `TypeOK`, `KeyStartsOnce`, `OutcomesLinkTheirEvents`,
  `OutcomesAreFinal`, `FoodIsConserved`, `PausedWorldIsFrozen` and
  `FinishedStaysFinished` (a duplicate completion does nothing to whatever its
  resident does next, be it another meal). Before the run TLC evaluates
  `CalendarSample` and `ClockSample`, the theorems of clock and calendar on two
  weeks and on three callers.
* `ReplayShift`: `WakesDescribeTheirCommit`, and `InProgressCompletable` and
  `ReplayEquivalence` for MOVE and WORK.
* `ReplayStory`: `ReplayEquivalence` (no replay throws, and one that has read
  everything holds the live rows), `ReplayYieldsThePast` (a replay cut off
  anywhere holds the rows of that moment), `CheckpointsTellThePast`,
  `HandledHistoryReplays`, what remains of the promise of `world-replay.ts`, and
  `LifecycleSpec`, the refinement of `ActivityLifecycle`. It is asked here rather
  than of the drivers because completions come at any time here, not only when
  a due row was read.
* `RowLocks`: `OperationsAreAtomic` and `KeyDecidedOnce` justify the atomic
  actions of `WorldKernel`; `DeadlockNeedsForeignKey` says which deadlocks
  there are.
* `DriverSafety`: of the kernel under its drivers, clients and operators,
  `TasksIntact`, `InProgressCompletable`, `VersionsCountEvents`,
  `OccurredInOrder` and `FencesNeverGoBack`; of the drivers,
  `CompletionWakesDescribeTheirCommit`,
  `CompletionsAreReported` (what a call has committed it reports, whatever else
  of its batch fails; a call that crashes is excused, and its reports are lost),
  `LeasedDriversSeeNoPoison`, `NothingDueLeftBehind`, `DriverTypeOK`.
* `DriverLiveness`: `EveryActivityCompletes`, and `PoisonMeansDone`: the races
  of a driver without a lease do produce poison items, but of finished
  activities only.
* `StoryWeek`: `NobodyIsForgotten` (every resident leads an activity or has a
  decision registered, also the participant of a TALK, whom no completion
  wakes), `DraftsAreAccepted` (what the planner calls feasible the executor
  commits), `AnchorsFollowLedger` (the memory of needs agrees with the events),
  `ShiftsAreAttended`, `NothingDueIsPassedBy` (world time stops at everything
  due), `EndpointHolds` (the loop drives to no minute that is over, and the
  gate's endpoint check passes) and `DecisionsOnlyPlanAhead` (handling an
  instant adds nothing to that instant). `WakesAreInTime` (no wake is registered
  for a minute that is over) and `EmployeesStir` (no employee stays in one place
  from one shift to the next without working, or is held at nine in a talk
  somebody else began) are what the theorems about the endpoint and the shifts
  suppose; that this street and these residents satisfy them is checked here.

### Bounds, and why they are enough

* Residents: a TALK needs two, a competitor a third. No operation touches more
  than two residents.
* `MaxFence = 2` in the driver runs: one takeover, hence one driver with a stale
  token; a third lease would only add another stale one. It is 1 in
  `KernelMeals`, where calls with and without the token alternate, and 0 where
  leases are not asked about.
* `MaxTime` is 2 (3 in `ReplayShift`, 1 in the driver runs): start and due time,
  with one step beyond where the kernel is alone; in `ReplayShift` a shift
  boundary, the commute before it, and a second boundary at which the first
  shift is due. `CalendarAssumption` asks for a boundary after the last instant,
  so that `NextShift` is defined.
* `MaxCheckpoints = 2`: two positions, or two snapshots that compete for one. It
  is 0 in `ReplayShift`, where the replay from the seed is asked about and the
  wakes make the state space large.
* Requests: each is executed once, so the set bounds the ledger. The sets are
  chosen so that every pair of operations that share a row occurs.
* `Limit = 2` lets a batch hold two items, one of which fails or is lost while
  the other commits; `Limit = 1` is the smallest at which a batch is cut.
* Story runs: the horizon is the gate's own, five days from Monday midnight
  (`Target = MaxTime = 7200`), with the Monday after as the next shift; `Limit`
  is the number of residents, as in the gate. Positions of the generated
  population give an office worker with food, a barista without, and two
  unemployed, one sharing a home, so both kinds of work place, a shared home, a
  missing meal and a TALK at home and at the cafe occur. The five populations
  rotate the five routine profiles and take the need paces at both ends of the
  seed's variation. `MaxActivities = 42` is never reached: a resident that had
  run out of requests would be a deadlock. One lease (`MaxFence = 1`), as one
  process runs.
* Deadlock is checked in every run. A world never stops (its clock can always
  be synchronised again), and `RowLocks` has an explicit `AllEnded` step, so a
  transaction that waits for ever is reported.

### Fairness

`FairDriverSpec` assumes weak fairness of the steps of each call (a process
that runs goes on, PostgreSQL answers), weak fairness of *somebody* acquiring
the lease, and strong fairness of each driver asking for a later world time
whenever it can again and again. The last is what the callers do: the gate
scripts call the driver in a loop until their horizon
(`m3-lifecycle-story-gate.mjs`). Nothing is assumed of clients and operators;
in particular an operator may pause the world for ever, and the property is
conditional on `<>[](status = "RUNNING")`. Crashes are not limited by fairness
but by the bound on leases, since a crashed driver comes back with a new lease.

`StorySpec` states no fairness: the loop is a single process, and its progress
is stated as safety. `DecisionsOnlyPlanAhead` says that work at one instant is
used up, `NothingDueIsPassedBy` and `EndpointHolds` that the next instant is
never behind, and the deadlock check that some step is always possible; so the
story reaches its end.

## What is proved

For all residents, places, requests, durations and bounds that satisfy the
named assumptions of the modules, which TLC evaluates on every instance:

* `WorldKernel`: `NoneAssumption`, `PlaceAssumption`, `TimeAssumption`,
  `CalendarAssumption`, `RequestAssumption` (types of the constants, positive
  durations, a shift after every instant);
* `SimulationDriver`: `DriverAssumption` (a positive limit, finitely many
  residents, whose ids are ordered);
* `DomainReplay`: `CheckpointAssumption`;
* `RowLocks`: `CallAssumption` and `RowAssumption` (finitely many transactions
  and residents; rows are locked in the order of the resident ids);
* `StoryLoop`: `LoopAssumption` (types, finitely many residents, ordered ids),
  `FixtureAssumption` (what a location is good for follows from its fixture
  kind, as in `resident-seed.ts`), `HorizonAssumption` (the gate's table of
  durations: nothing takes longer than a night's sleep), `EndpointAssumption`
  (nothing takes longer than that table says, a step has room for every
  resident, no shift and no way to it falls on the target) and
  `ShiftAssumption` (shifts begin at nine).

The theorems of clock and calendar need no assumption. `LeasesKeepPoisonAway`
has a hypothesis, `Unleased = {}`: without leases the property is false, and
`PoisonMeansDone` says what remains. Two theorems about stories suppose of a
behaviour or a state what depends on how residents happen to live:
`WeeksEndWell` that wakes are registered in time, `ShiftsOfStirringEmployees`
that employees stir (see *Stories*). Both hypotheses are invariants of
`StoryWeek`, each with a mutant of the code that breaks it.

| theorem | statement |
|---|---|
| `TypeCorrect` | `Spec => []TypeOK` |
| `ActivitiesIntact` | `Spec => []TasksIntact` |
| `NoPoisonedActivity` | `Spec => []InProgressCompletable` |
| `LedgerInOrder` | `Spec => []OccurredInOrder` |
| `StaleDriversWriteNothing` | `Spec => []FencesNeverGoBack` |
| `PauseFreezes` | `Spec => PausedWorldIsFrozen` |
| `FinalOutcomes` | `Spec => OutcomesAreFinal` |
| `KernelImplementsLifecycle` | `Spec => LifecycleSpec` |
| `VersionsAreCounters` | `Spec => []VersionsCountEvents` |
| `LinksAreTheEvents` | `Spec => []OutcomesLinkTheirEvents` |
| `KeysStartOnce` | `Spec => []KeyStartsOnce` |
| `FinishedActivitiesStayFinished` | `Spec => []FinishedStaysFinished` |
| `FoodIsNeitherMadeNorLost` | `Spec => []FoodIsConserved` |
| `WakesAreSnapshots` | `Spec => []WakesDescribeTheirCommit` |
| `RowsAreReachedThroughTheWorld` | `RowLocks!Spec => []OperationsAreAtomic` |
| `OnlyForeignKeysDeadlock` | `RowLocks!Spec => []DeadlockNeedsForeignKey` |
| `ConcurrentExecutionsDecideOnce` | `RowLocks!Spec => KeyDecidedOnce` |
| `DriversRunTheKernel` | `DriverSpec => Spec` |
| `DrivenFencesNeverGoBack`, `DrivenActivitiesCompletable` | the same invariants of driven worlds |
| `DrivenWorldsImplementLifecycle` | `DriverSpec => LifecycleSpec` |
| `CallsKeepTheirLimits` | `DriverSpec => []DriverTypeOK` |
| `ReportsAreTrue` | `DriverSpec => []CompletionWakesDescribeTheirCommit` |
| `NoReportIsDropped` | `DriverSpec => []CompletionsAreReported` |
| `OnlyTheDoneIsPoison` | `DriverSpec => []PoisonMeansDone` |
| `LeasesKeepPoisonAway` | `DriverSpec => []LeasedDriversSeeNoPoison`, if every driver uses a lease |
| `DueWorkIsDone` | `DriverSpec => []NothingDueLeftBehind` |
| `ReplaysLeaveTheKernelAlone` | `ReplaySpec => Spec` |
| `ReplaysYieldThePast` | `ReplaySpec => []ReplayYieldsThePast` |
| `ReplaysAreEquivalent` | `ReplaySpec => []ReplayEquivalence` |
| `CheckpointsTellTheTruth` | `ReplaySpec => []CheckpointsTellThePast` |
| `HandledHistoriesReplay` | `ReplaySpec => []HandledHistoryReplays` |
| `StoryRunsTheKernel` | `StorySpec => Spec` |
| `StoryActivitiesCompletable` | `StorySpec => []InProgressCompletable` |
| `PlannerAndKernelAgree` | `StorySpec => []DraftsAreAccepted` |
| `AnchorsAgreeWithLedger` | `StorySpec => []AnchorsFollowLedger` |
| `DecisionsLookAhead` | `StorySpec => DecisionsOnlyPlanAhead` |
| `EverybodyIsWoken` | `StorySpec => []NobodyIsForgotten` |
| `TimeStopsAtEverythingDue` | `StorySpec => []NothingDueIsPassedBy` |
| `WeeksEndWell` | `StorySpec => ([]WakesAreInTime => []EndpointHolds)` |
| `ShiftsOfStirringEmployees` | `StorySpec => [](EmployeesStir => ShiftsAreAttended)` |
| `StoriesImplementLifecycle` | `StorySpec => LifecycleSpec` |
| `RecoveriesAreBounded` | an answer that tries again at once spends exactly one of the budget's recoveries, every other answer none |
| `DeferralsLieAhead` | a deferral is to a time that lies ahead, within an hour unless the signal named it |
| `NotDueComesBack` | a decision without a draft ends in a deferral to a later time |
| `ClockObeysKernel` | no reading of the wall clock and no control moves time back or moves a world that stands still |
| `SyncsCompose` | two synchronisations, in any order, credit what one at the later reading does |
| `PauseIsNotCounted` | a resumed world has not lived through the pause |
| `DrivenTimeComesOnTop` | driven time is added to wall-clock time, not deducted from it |
| `BoundaryIsFirst`, `SearchesAgree` | both searches for the next shift find the first weekday nine o'clock |
| `CalendarHolds`, `ShiftsOpenAtStarts` | the code's calendar is the one the kernel's model assumes |

**The inductive invariant.** `InProgressCompletable` is not inductive: that the
completion checks of a TALK hold for one party says nothing after a step unless
the other party's row is known to be the other half. `TasksIntact` says it for
all parties: each busy resident's request is persisted and committed, names the
resident, and all its parties have halves with the same start, due time and
place, and the checks of completion (`Rederivable`) hold. `TypeOK` and
`TasksIntact` need each other: the row a completion leaves behind is well typed
(a MOVE arrives at a location, a shift obligation is a shift start) only
because the activity was intact, and intactness speaks of typed rows. So
`IInv == TypeOK /\ TasksIntact`, with `InitInv` and `NextInv`. The central
lemma is `DisjointParties`: two intact activities of different requests share
no resident, so a start or a completion leaves the others as they were
(`OtherTasksStay`). Completion dispositions follow from `IInv` in
`NoPoisonedActivity`.

**Ledger and leases.** `LedgerStep` says that a step appends at most one event,
at the world time after the step and under a fence that holds.
`StaleDriversWriteNothing` strengthens to `FencedInv`: tokens of the ledger do
not exceed the lease, and a token that holds equals it.

**Refinement.** `KernelImplementsLifecycle` maps outcome status and number of
event links to the phase of a request, the activity instance of a runtime row
to its holder and its due time to the activity's. It needs `RInv`: besides
`IInv`, committed outcomes have one or two links, and exactly the active ones
are held by some busy row. Each kernel action then is `Begin`, `End`, `Refuse`,
`Tick` or a stutter. Since driven worlds and stories are behaviours of the
kernel, they implement the abstract specification too
(`DrivenWorldsImplementLifecycle`, `StoriesImplementLifecycle`).

**Records.** Every kernel step is a start, a completion, a refusal or something
that leaves rows and links alone (`StepKinds`, `RecordSteps`), and appends at
most one event. `LinksInv` adds to the links of committed outcomes that the
others have none. `KeysInv` says that a key belongs to one persisted request and
that every lifecycle event is of a persisted request; with the links, of which
only the first is a start, a key starts once. `FinishedStaysFinished` follows
from `LinksInv` and `RInv`: the outcome of a finished activity has two links, that
of a busy row's activity has one, so the row a finished request would be
completed on is not its own or is idle.
`FoodIsConserved` sums over the ledger with a recursive function. A `Tally` is any
function that satisfies its equation; `FoodInv` says that there is one and that
every one ends in what is missing from the larder. A step cuts off or continues
a tally by one entry (`TallyAppended`), so no induction over the ledger is needed.
`WakesInv` says of every wake what its own commit was; a step that registers a
wake writes the count of events that includes its own.

**Drivers.** `DriverStepSimulation`: under `TypeOK` every step of a driver or
its environment is a kernel step or leaves the kernel's variables alone. The
work is in the completion: the version an item was read with is one the kernel
ranges over, because the version check of the transaction passed.
On top of the kernel's invariants, `CallsInv` says of every item in a batch that
its row is as it was read or its activity is done; so a poison item is a done
one. `ReportsInv` says that every completion of the ledger is in `delivered`, in
the reports of a call, or under a fence that a crash lost, and that a call's
reports are completions under its own token, so that a crash loses just these.
`LeaseInv` says that tokens are unique and that the row of every item of the
newest leaseholder is as it was read, since nobody else could complete it when
all drivers use leases. For
`NothingDueLeftBehind` (`LeftOK`) the first rows of an order are counted: if the
2 * limit rows read leave out a due one, they hold at least `limit` items,
since each item has at most two rows, so the call has not stayed below its
limit. The counting lemmas (`FirstsCount` and those around it) work for any
finite set of residents and any limit.

**Locks.** The inductive invariant says per transaction that what it still has to
lock fits what it holds (`Sound`: rows below the world only behind the world
row, all others in the order of their levels; an INSERT comes first) and of all
of them that no two hold conflicting locks of a row (`Exclusive`). The levels are
request, lease, world, then the wakes in the order of the residents; rows that
are only ever touched by the owner of the world row need none
(`BelowTheWorld`). In a deadlock without a fresh INSERT every member waits for a
row that another member holds, and not below the world; so the member that waits
at the highest level (`HighestOf`, for any finite number) waits for one that
waits higher still. `KeyDecidedOnce` needs its own `KeysInv`: an open execution
has done nothing but ask for its request row, or owns it, and once its key is
decided it has nothing left to do.

**Replay.** The heart is `EveryStepIsRecorded`: a kernel step either leaves the
ledger and every projected row alone, or it appends an event `e` with
`Records(e)`: the reducer, applied to the projection before the step, accepts
`e` with its payload and makes exactly the projection after the step. It is
proved separately for starts, completions and clock steps
(`StartIsRecorded`, `CompleteIsRecorded`, `AdvanceIsRecorded`). The reducer
checks more than the executor does when it completes (a shift, a pair, an own
food item), and it canonicalises every projection, so `IInv` is strengthened to
`KInv` by `RowWhole`: what a busy row must still show of its request.
`RInvReplay` adds `Recorded` (the past from the seed on is a chain of accepted
events, each projection is well-formed, and the summary's time at every position
is the world time there). Every action of a replayer then only reads one
link of that chain, which is why it never throws wherever it starts. `past` is a
history variable; no action reads it. `SummaryStays` takes the last clock event
among the first `n` from the well-founded order on `Nat`.
`HistoryRebuildsWorld` is not among the theorems: it is refuted (Findings).

**Stories.** `StoryStepSimulation` is the driver's argument for the loop's
steps. What is new is the acknowledgement, which deletes by key: it is a kernel
step because at most one row has the key. So `IInv` is strengthened to `LInv` by
`KeysUnique`, which every kernel step keeps (`NextKeys`): a wake is refreshed in
place, and the wakes of one commit differ in resident or kind. Then, over the
process's own state (`LoopTypes`):

* *Drafts* (`DraftIsAccepted`): the guards of each feasible candidate, read through
  the observation, imply those of `Decision` in their order. It needs `LInv`
  (an idle resident's row is free of any activity, a partner of a TALK is idle
  and near) and `FixtureAssumption`.
* *Anchors*: while a step completes activities the anchors lag behind the
  ledger. `AnchorInv` says by exactly what: a resident with an activity in the
  rest of the batch is idle, and its last relief in the ledger is now if the
  activity is one that relieves, and otherwise where its anchor is.
* *Nobody is forgotten*: `ChainInv` says that every resident has, at every point
  of the loop, a thread it hangs by: an activity it leads, an ended activity in
  `batch` whose item is still to come, an item in `hand` that is consumed, or a
  deferred row. Those without a job have exactly one, which is what lets them
  keep it; to the others work wakes bring more. It holds as long as a night's
  sleep fits before the target (`Early`), since in the last hours the loop drops
  deferrals.
* *Decisions look ahead*: every duration and the idle deferral are positive and
  `NextShift` is later than now.
* *Nothing due is passed by*: `DueInv` adds that the rows are finitely many, so
  that `Min` of the due times exists (`LeastOfFinite`, `NextStopIsFirst`), and
  that a wake registered at an instant bears that instant's time.
* *Weeks end well*: `EndInv` says that decisions are made before the target only,
  what they start ends by then (`FitsHorizon` and the table of durations), what
  they defer lies before it, and no wake falls on it (`WakesMissTarget`). The
  step that reaches the target completes everybody, since its limit is no
  smaller than the number of residents and each activity is one item
  (`BatchIsFree`: an activity in the batch is over and its actor in no other).
  A step back in time is out of the question as long as no wake is registered
  for the past, the hypothesis `WakesAreInTime`. It cannot be dropped: a MOVE
  that ends between the minute to leave for work and the shift registers a
  preparation wake for a minute that is over. The step that completed the MOVE
  hands it out if its limit, which the completions share, leaves room; if not,
  the loop ends in WORLD_TIME_REWIND. No code forbids such MOVEs; the needs and
  routines of the gate's residents do not bring one about.
* *Shifts are attended*: three parts. The planner's: an obligation to be met
  now scores 120 at priority 100, no need and no routine bids more, and none of
  them has that priority in a tie (`BidsAreBounded`), so unless company is wanted
  an employee at its workplace at nine begins its shift (`WorkIsDrafted`), and one
  elsewhere that is asked at the minute to leave sets out (`WalkIsDrafted`); the
  only candidate is feasible in both cases. The instant's
  (`InstantInv`): once a step has returned no activity is due, a wake in hand is
  due, rows keep the shifts they worked, need levels stay in their range. And
  the wakes': `AttendInv` says of every employee and its next shift that
  boundary and preparation wake are registered until they fall due, and that
  from then on the resident is being asked, is busy with what it began before,
  walks to its shift, is lonely, or became free too late. `AttendStep` has one
  case per step of the loop; loneliness only ends by a completion
  (`LonelyStays`), which makes the resident one that became free too late. Only
  WORK and MOVE register the wakes for the next shift, hence the hypothesis
  `EmployeesStir`; without it nobody wakes an employee for its shift that
  spent a day and a night where it is, and one that was drawn into a talk just
  before nine cannot begin.

**Clock and calendar.** The scale is one of three numbers, so products with it
are linear case by case. For the calendar a time is written as a day and a rest
(`DayOf`, `HourOf`); no three days in a row are free (`WorkdayComes`), so the
searches end within three days (`LeastDay`), and a first shift start is unique
(`FirstIsUnique`).

**Replan policy.** `DecideReplan` has no state; the theorems go through the
classes (`TimeoutWithinBudget`, `ClassWithinBudget`), and for deferrals through
the delays of the budgets there are (`DelaysArePositive`). For the two calls the
loop makes, `AnswersOfTheLoop` computes the answer.

Only model-checked:

* `EveryActivityCompletes`, a liveness property under fairness, is beyond the
  prover's reach, as is `ENABLED`;
* `WakesAreInTime` and `EmployeesStir`, the two hypotheses above, are not true of
  every street and population: a walk just before a shift breaks the first, a
  day spent where one is the second. They hold because of the numbers of this
  program (routes of 5 to 15 minutes, needs that wake at the hours they do),
  which only an instance has.

The library's induction schemes cannot be used, since they take an operator as
a parameter. Where a proof needs induction it takes the least counterexample of
the well-founded order on `Nat` instead (`LeastOf`, `SummaryStays`).

## Findings

1. **First submissions can deadlock** (`RowLocksReciprocal`, `NoDeadlock`).
   ADR-0012 says reciprocal TALKs "cannot deadlock due to opposite caller
   order" since both lock the world first. The request row is inserted before
   that (`action-request-store.ts:59`); its foreign key takes FOR KEY SHARE on
   the world row, which both hold when each asks for FOR UPDATE. PostgreSQL
   aborts one of them and nothing retries it. It does not take a TALK.
2. **The due query can cut a TALK in half** (`DriverSmallBatch`,
   `DueBatchIsReadable`). `due-activity.ts` reads twice as many rows as work
   items, since "TALK contributes two runtime rows to one scheduler work item";
   next to other due rows the last row may be one half, and the whole step
   fails instead of yielding a failure item.
3. **A shift that is over still rules the evening** (`StoryLate`,
   `LateShiftIsStopped`). `10_FAILURE_REPLAN_SPEC.md:17` wants a LATE obligation
   to "stop this shift and schedule next `WORK_BOUNDARY`". From 17:00 to
   midnight `resident-runtime-authority.ts:208` reports LATE, whether the shift
   was worked or not; `goals.ts:560` still scores the obligation 130,
   above hunger and rest, and `rule-decision.ts` has no candidate for it. The
   resident stays idle and is asked again every half hour until midnight; of what
   the instance contains only a social opportunity ties with it, and wins the tie.
4. **A world with a meal has no summary replay** (`ReplayHistory`,
   `HistoryRebuildsWorld`). ADR-0006 promises that a world can be rebuilt from
   seed and events and that a new event gets its replay handler first.
   `world-replay.ts` has none for `RESIDENT_EAT_*`, `RESIDENT_WORK_*` and
   `RESIDENT_TALK_*`, and throws; neither can such a history be checkpointed by
   `persistWorldCheckpoint`. The resident reducer (`m3-domain-replay.ts`) has
   them all.

5. **A duplicate completion may be refused** (`KernelDuplicate`,
   `DuplicateCompletionReused`). "An already completed request is `REUSED`"
   (ADR-0012:144), "duplicate completion: existing outcome reuse" (ADR-0012:199),
   "Duplicate completion calls reuse the already completed outcome"
   (ADR-0009:67), "return existing outcome, no side effect"
   (`10_FAILURE_REPLAN_SPEC.md:20`). `completeResidentAction` answers by the
   runtime rows: REUSED only while all parties of the activity are idle
   (`resident-action-executor.ts:1214`). Once the participant of a finished TALK
   is busy again it throws INVALID_COMPLETION at `:1222`, once the actor is, at
   `:1241`. The other half of the promise holds: there is no side effect
   (`FinishedStaysFinished`, checked in `KernelMeals` and proved).

Seen while modelling, and kept here without a run of their own:

* Wakes are acknowledged before the decision they ask for
  (`09_SCHEDULER_AND_DRIVER_SPEC.md:48` has it the other way round), and a
  boundary wake consumed while its resident is busy is not registered again until
  that resident next starts or ends a shift or a walk (`:67`).
* Every decision starts with a fresh budget, so reconsideration delays never grow
  and retries are counted within one decision only; the harness acts on
  deferrals and drops every other directive.
* In `StoryWeek` a social opportunity outbids rest and hunger. The planner eats only
  what the resident owns, which lies at home, so a resident without food stays
  idle when it is hungry.

## Not modelled, and the plan

Done: `ActivityLifecycle`, `WorldKernel`, `RowLocks`, `SimulationDriver`,
`DomainReplay`, the life engine, `StoryLoop`, clock and calendar, in this order:
first the rows everything else reads or drives, then those who decide.

Every safety property a run checks has a theorem, except the two hypotheses
named above. What could follow: assumptions about the hours at which needs wake
from which those two can be derived; a proof that driver calls end, as a variant
function over the steps of a call.

Left out for good: the web client and the API handlers (pure I/O over read
models; what they change goes through `UpdateClock`), the observation queries'
STALE_READ (a read that fails and changes nothing; it takes a second writer,
which the story has not), `nextDueWorldTime` of the driver's result (a hint the
callers query again), a restart of the story loop (its anchors live in memory,
and no code restores them), what the gate does beside its loop (manifests,
coverage statistics, artifacts), the deterministic seed generation (pure data),
and contracts' schema parsing (requests are well formed).
