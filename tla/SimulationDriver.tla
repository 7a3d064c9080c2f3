--------------------------- MODULE SimulationDriver ---------------------------
(***************************************************************************)
(* DeterministicSimulationDriver on top of WorldKernel.  A driver call is  *)
(* not a transaction: it advances the world, asserts its lease, reads the  *)
(* world, reads the due rows, completes them one by one and reads the due  *)
(* wakes in transactions and queries of their own, while clients start     *)
(* activities, operators move the clock and another driver takes the lease *)
(* over.  What a call learns lives in memory until it returns, and a crash *)
(* loses it.                                                               *)
(***************************************************************************)
EXTENDS WorldKernel

CONSTANTS
  Drivers,       \* driver processes
  Unleased,      \* those created without the `lease` option
  Limit,         \* maxWorkItemsPerStep
  Rank           \* [Residents -> Nat], the order of resident ids

ASSUME DriverAssumption ==
  /\ Unleased \subseteq Drivers
  /\ Limit \in Nat \ {0}
  /\ IsFiniteSet(Residents) /\ Rank \in [Residents -> Nat]
  /\ \A x, y \in Residents : Rank[x] = Rank[y] => x = y

VARIABLES
  token,       \* the fence token every driver process holds, 0: none
  call,        \* the call it is in
  delivered,   \* what returned calls gave to their callers
  lost         \* fences of the calls that crashed

dvars == <<token, call, delivered, lost>>
allVars == <<vars, dvars>>

(***************************************************************************)
(* step: idle, then `advanced` (runUntil), `asserted` (assertLease),       *)
(* `reading` (readWorld) and `completing`; todo: work items left; count:   *)
(* work items processed; reports: completion wakes; failures: failure      *)
(* items.                                                                  *)
(***************************************************************************)
NoCall == [step |-> "idle", now |-> 0, todo |-> {}, count |-> 0,
           reports |-> {}, failures |-> {}]

DriverInit ==
  /\ Init
  /\ token = [d \in Drivers |-> 0] /\ call = [d \in Drivers |-> NoCall]
  /\ delivered = {} /\ lost = {}

At(d, step) == (d \in Unleased \/ token[d] # 0) /\ call[d].step = step

Enter(d, next) == call' = [call EXCEPT ![d] = next] /\ UNCHANGED token

\* the call returned its result, or threw before it completed anything
Return(d, result) ==
  /\ Enter(d, NoCall)
  /\ delivered' = delivered \cup result
  /\ UNCHANGED lost

-----------------------------------------------------------------------------
(* Reading due work *)

\* mutant of IsDue: an activity is due after its due time
IsDue_Strictly(x, now) == ~IsIdle(x) /\ runtime[x].task.due < now

\* activity_due_at_world_time <= target
IsDue(x, now) == ~IsIdle(x) /\ runtime[x].task.due <= now

\* the order of due rows, and of the work items made of them
Before(x, y) ==
  \/ runtime[x].task.due < runtime[y].task.due
  \/ runtime[x].task.due = runtime[y].task.due /\ Rank[x] < Rank[y]

\* the first n of the rows in that order
FirstRows(rows, n) == {x \in rows : Cardinality({y \in rows : Before(y, x)}) < n}

\* mutant of DueRows: as many rows as work items
DueRows_OnePerItem(now) == FirstRows({x \in Residents : IsDue(x, now)}, Limit)

\* the rows the due query returns, at most 2 * limit of them
DueRows(now) == FirstRows({x \in Residents : IsDue(x, now)}, 2 * Limit)

\* coalesceTalkRows throws unless both rows of a TALK were returned
BatchReadable(now) ==
  \A x \in DueRows(now) : Parties(runtime[x].task.inst) \subseteq DueRows(now)

\* a TALK is one work item, owned by the resident who asked for it
WorkItem(x) ==
  [req |-> runtime[x].task.inst, resident |-> x, due |-> runtime[x].task.due,
   version |-> runtime[x].version]

Owners(now) == {x \in DueRows(now) : runtime[x].task.inst.actor = x}

DueBatch(now) == {WorkItem(x) : x \in FirstRows(Owners(now), Limit)}

\* orderSchedulerWorkItems: items are worked off by due time, then by resident
IsNext(item, todo) ==
  \A other \in todo \ {item} :
    \/ item.due < other.due
    \/ item.due = other.due /\ Rank[item.resident] < Rank[other.resident]

\* readDueScheduledWakes, up to `room` rows; the last two keys of `earlier` stand for
\* the hashed wakeId, by which two due wakes of one resident are told apart
DueWakes(now, room) ==
  LET earlier(v, w) ==
        \/ v.due < w.due
        \/ v.due = w.due /\ Rank[v.resident] < Rank[w.resident]
        \/ v.due = w.due /\ v.resident = w.resident /\ v.shift < w.shift
        \/ v.due = w.due /\ v.resident = w.resident /\ v.shift = w.shift
             /\ v.kind = "BOUNDARY" /\ w.kind = "PREPARATION"
      rows == {w \in wakes : w.due <= now}
  IN {w \in rows : Cardinality({v \in rows : earlier(v, w)}) < room}

-----------------------------------------------------------------------------
(* Driver steps *)

\* acquireSimulationDriverLease for a driver that is not in a call
Acquire(d) ==
  /\ d \notin Unleased /\ call[d] = NoCall
  /\ AcquireLease
  /\ token' = [token EXCEPT ![d] = lease + 1]
  /\ UNCHANGED <<call, delivered, lost>>

(***************************************************************************)
(* runUntil up to and including advanceWorldTimeTo.  Its own assertLease   *)
(* cannot fail unless the transaction's does; a rewind or a stale fence    *)
(* throws and BLOCKED returns, and nothing has changed then.               *)
(***************************************************************************)
RunUntil(d, t) ==
  /\ At(d, "idle")
  /\ FenceHolds(token[d])
  /\ \/ AdvanceWorldTimeTo(t, token[d])
     \/ t = worldTime /\ UNCHANGED vars
  /\ Enter(d, [NoCall EXCEPT !.step = "advanced"])
  /\ UNCHANGED <<delivered, lost>>

\* processDueWork called by runUntil; a direct call starts here as well
AssertLease(d) ==
  /\ At(d, "idle") \/ At(d, "advanced")
  /\ IF FenceHolds(token[d])
     THEN Enter(d, [NoCall EXCEPT !.step = "asserted"]) /\ UNCHANGED <<delivered, lost>>
     ELSE Return(d, {})
  /\ UNCHANGED vars

\* a world that does not run yields an empty result
ReadWorld(d) ==
  /\ At(d, "asserted")
  /\ IF status = "RUNNING"
     THEN /\ Enter(d, [NoCall EXCEPT !.step = "reading", !.now = worldTime])
          /\ UNCHANGED <<delivered, lost>>
     ELSE Return(d, {})
  /\ UNCHANGED vars

ReadDueActivities(d) ==
  LET now == call[d].now IN
  /\ At(d, "reading")
  /\ IF BatchReadable(now)
     THEN /\ Enter(d, [call[d] EXCEPT !.step = "completing", !.todo = DueBatch(now)])
          /\ UNCHANGED <<delivered, lost>>
     ELSE Return(d, {})
  /\ UNCHANGED vars

\* mutant of ItemResult: the lease is asserted after the rows were checked
ItemResult_FenceLast(d, item) ==
  IF CompletionDisposition(item.req, item.version) = "EXECUTED"
     /\ ~FenceHolds(token[d])
  THEN "EXECUTION_ERROR"
  ELSE CompletionDisposition(item.req, item.version)

\* what completeResidentAction answers the driver; exceptions are caught
ItemResult(d, item) ==
  IF ~FenceHolds(token[d]) THEN "EXECUTION_ERROR"
  ELSE CompletionDisposition(item.req, item.version)

\* mutant of FailureCode: whatever the kernel does not execute is poison
FailureCode_Default(result) ==
  IF result = "EXECUTION_ERROR" THEN result ELSE "INVALID_WORK_ITEM"

\* errorFailureCode, and the dispositions NOT_DUE and REJECTED
FailureCode(result) ==
  CASE result = "INVALID_COMPLETION" -> "INVALID_WORK_ITEM"
    [] result = "NOT_DUE"            -> "STALE_STATE"
    [] result = "REJECTED"           -> "WORLD_NOT_RUNNING"
    [] result = "EXECUTION_ERROR"    -> "EXECUTION_ERROR"

\* mutant of CompletionWake: the version the work item was read with
CompletionWake_OldVersion(item, seq) ==
  [resident |-> item.resident, kind |-> "ACTIVITY_COMPLETED", req |-> item.req,
   due |-> item.due, version |-> item.version, seq |-> seq]

\* completionWakeItem
CompletionWake(item, seq) ==
  [resident |-> item.resident, kind |-> "ACTIVITY_COMPLETED", req |-> item.req,
   due |-> item.due, version |-> item.version + 1, seq |-> seq]

\* mutant of AfterFailure: the exception leaves processDueWork
AfterFailure_Rethrown(old, item, result) == NoCall

\* a failed item becomes a failure item, a reused outcome is only counted
AfterFailure(old, item, result) ==
  [old EXCEPT !.todo = @ \ {item}, !.count = @ + 1,
              !.failures = @ \cup (IF result = "REUSED" THEN {}
                                   ELSE {[req |-> item.req, code |-> FailureCode(result)]})]

\* mutant of AfterCompletion: processedWork is not counted
AfterCompletion_Uncounted(old, item, seq) ==
  [old EXCEPT !.todo = @ \ {item}, !.reports = @ \cup {CompletionWake(item, seq)}]

AfterCompletion(old, item, seq) ==
  [old EXCEPT !.todo = @ \ {item}, !.count = @ + 1,
              !.reports = @ \cup {CompletionWake(item, seq)}]

CompleteItem(d) ==
  \E item \in call[d].todo :
    /\ At(d, "completing") /\ IsNext(item, call[d].todo)
    /\ ItemResult(d, item) = "EXECUTED"
    /\ Complete(item.req, token[d], item.version)
    /\ Enter(d, AfterCompletion(call[d], item, worldSeq + 1))
    /\ UNCHANGED <<delivered, lost>>

FailItem(d) ==
  \E item \in call[d].todo :
    /\ At(d, "completing") /\ IsNext(item, call[d].todo)
    /\ ItemResult(d, item) # "EXECUTED"
    /\ Enter(d, AfterFailure(call[d], item, ItemResult(d, item)))
    /\ UNCHANGED <<vars, delivered, lost>>

\* the registered wakes fill what the completions left of the limit
ReturnResult(d) ==
  /\ At(d, "completing") /\ call[d].todo = {}
  /\ Return(d, call[d].reports \cup DueWakes(call[d].now, Limit - call[d].count))
  /\ UNCHANGED vars

(***************************************************************************)
(* The process dies in the middle of a call; its successor takes a lease.  *)
(* The guard only keeps the bound on leases from leaving nobody to do so.  *)
(***************************************************************************)
Crash(d) ==
  /\ call[d] # NoCall
  /\ d \notin Unleased => lease < MaxFence
  /\ token' = [token EXCEPT ![d] = 0] /\ call' = [call EXCEPT ![d] = NoCall]
  /\ lost' = lost \cup {token[d]}
  /\ UNCHANGED <<vars, delivered>>

CallStep(d) ==
  \/ AssertLease(d) \/ ReadWorld(d) \/ ReadDueActivities(d)
  \/ CompleteItem(d) \/ FailItem(d) \/ ReturnResult(d)

DriverStep(d) == CallStep(d) \/ \E t \in Times : RunUntil(d, t)

Environment ==
  /\ \/ \E r \in Requests : \E rv \in {None} \cup 0 .. food[r.actor].version :
          Start(r, 0, rv) \/ Refuse(r, 0, rv)
     \/ \E t \in Times, s \in Statuses : UpdateClock(t, s)
     \/ \E w \in wakes : AcknowledgeWake(w)
  /\ UNCHANGED dvars

DriverNext ==
  \/ \E d \in Drivers : DriverStep(d) \/ Acquire(d) \/ Crash(d)
  \/ Environment

DriverSpec == DriverInit /\ [][DriverNext]_allVars

(***************************************************************************)
(* A call that runs goes on, somebody always takes the lease, and whoever  *)
(* drives keeps asking for a later world time, as the gate harnesses do    *)
(* until their horizon.  Nothing is assumed of clients and operators.      *)
(***************************************************************************)
Fairness ==
  /\ \A d \in Drivers : WF_allVars(CallStep(d))
  /\ WF_allVars(\E d \in Drivers : Acquire(d))
  /\ \A d \in Drivers : SF_allVars(\E t \in Times : t > worldTime /\ RunUntil(d, t))

FairDriverSpec == DriverSpec /\ Fairness

-----------------------------------------------------------------------------
Reports == delivered \cup UNION {call[d].reports : d \in Drivers}

CompletionReports == {w \in Reports : w.kind = "ACTIVITY_COMPLETED"}

Failures == UNION {call[d].failures : d \in Drivers}

WorkItems == [req : Requests, resident : Residents, due : Nat, version : Nat]

CompletionWakes ==
  [resident : Residents, kind : {"ACTIVITY_COMPLETED"}, req : Requests, due : Nat,
   version : Nat, seq : Nat]

FailureItems ==
  [req : Requests,
   code : {"INVALID_WORK_ITEM", "STALE_STATE", "WORLD_NOT_RUNNING", "EXECUTION_ERROR"}]

Calls ==
  [step : {"idle", "advanced", "asserted", "reading", "completing"}, now : Nat,
   todo : SUBSET WorkItems, count : Nat, reports : SUBSET CompletionWakes,
   failures : SUBSET FailureItems]

(***************************************************************************)
(* Every call is in a known step, with items, wakes and failures of their  *)
(* kinds, and never works off or reports more than its limit.              *)
(***************************************************************************)
DriverTypeOK ==
  /\ token \in [Drivers -> 0 .. lease] /\ call \in [Drivers -> Calls]
  /\ \A d \in Drivers :
       /\ call[d].now <= worldTime
       /\ call[d].count + Cardinality(call[d].todo) <= Limit
       /\ Cardinality(call[d].reports) + Cardinality(call[d].failures) <= call[d].count

(***************************************************************************)
(* A completion wake says what the completion committed: source_world_seq  *)
(* is the COMPLETED event of the resident's own request and                *)
(* source_state_version is the resident's version as of that event, though *)
(* the driver computes it from the row it read before the transaction.     *)
(***************************************************************************)
CompletionWakesDescribeTheirCommit ==
  \A w \in CompletionReports :
    /\ ledger[w.seq].type = "COMPLETED" /\ ledger[w.seq].req = w.req
    /\ w.resident = w.req.actor
    /\ w.version = Cardinality(LifecycleEvents(w.resident, w.seq))

(***************************************************************************)
(* No completion disappears in a call that survives: whatever driver wrote *)
(* a COMPLETED event has reported it or will, even if other items of the   *)
(* same batch fail.  Only a crash loses a report (lost).                   *)
(***************************************************************************)
CompletionsAreReported ==
  \A i \in 1 .. worldSeq : ledger[i].type = "COMPLETED" =>
    \/ ledger[i].fence \in lost
    \/ \E w \in CompletionReports : w.seq = i

(***************************************************************************)
(* Drivers that hold leases of their own never report an activity as       *)
(* poisoned (INVALID_WORK_ITEM, not retryable): between the read and the   *)
(* completion only a driver with a newer lease can have completed it, and  *)
(* then the old one is told EXECUTION_ERROR, which is retryable.           *)
(***************************************************************************)
LeasedDriversSeeNoPoison == \A f \in Failures : f.code # "INVALID_WORK_ITEM"

(***************************************************************************)
(* Without leases the same race is reported as poison, but only of an      *)
(* activity that was completed: nothing that is still in progress is ever  *)
(* given up as not retryable.                                              *)
(***************************************************************************)
PoisonMeansDone ==
  \A f \in Failures : f.code = "INVALID_WORK_ITEM" => PhaseOf(f.req) = "done"

(***************************************************************************)
(* A call that has worked off its batch without failures and below its     *)
(* limit leaves nothing behind: no activity is still in progress that was  *)
(* due at the world time it read, although the due query cuts off rows,    *)
(* two of them may be one item, and others completed some of the items.    *)
(***************************************************************************)
NothingDueLeftBehind ==
  \A d \in Drivers :
    /\ call[d].step = "completing" /\ call[d].todo = {}
    /\ call[d].failures = {} /\ call[d].count < Limit
    => \A x \in Residents : ~IsIdle(x) => runtime[x].task.due > call[d].now

(***************************************************************************)
(* Once the world keeps running, every activity that was started and is    *)
(* due before the horizon of the model is completed, through crashes,      *)
(* takeovers and failed items.                                             *)
(***************************************************************************)
DueWithinHorizon(r) == PhaseOf(r) = "active" /\ runtime[r.actor].task.due <= MaxTime

EveryActivityCompletes ==
  <>[](status = "RUNNING") =>
    \A r \in Requests : DueWithinHorizon(r) ~> PhaseOf(r) = "done"

(***************************************************************************)
(* "TALK contributes two runtime rows to one scheduler work item": the     *)
(* bounded due query always returns whole work items, so a step can make a *)
(* failure item of what it cannot complete instead of failing as a whole.  *)
(***************************************************************************)
DueBatchIsReadable ==
  \A d \in Drivers : At(d, "reading") => BatchReadable(call[d].now)

=============================================================================
