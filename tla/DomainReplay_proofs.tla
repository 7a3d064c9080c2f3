-------------------------- MODULE DomainReplay_proofs --------------------------
(***************************************************************************)
(* The reducer and the executor agree: whatever the kernel commits, a      *)
(* replay from the seed or from any checkpoint accepts every event and     *)
(* rebuilds the rows of that moment.                                       *)
(***************************************************************************)
EXTENDS DomainReplay, WorldKernel_proofs, WellFoundedInduction

(***************************************************************************)
(* What TaskIntact does not say of a busy resident's row and a snapshot of *)
(* it must show: its times are set, only a MOVE has a target, nobody talks *)
(* to himself or eats from another's larder, and the row is not newer than *)
(* the world.                                                              *)
(***************************************************************************)
RowWhole(x) ==
  LET task == runtime[x].task IN
  /\ runtime[x].seq <= worldSeq
  /\ task # Idle =>
       /\ task.started \in Times /\ task.due \in Nat
       /\ task.inst.type # "MOVE" => task.target = None
       /\ task.inst.type = "TALK" => task.inst.arg # task.inst.actor
       /\ task.inst.type = "EAT" => task.inst.arg = task.inst.actor

KInv == IInv /\ \A x \in Residents : RowWhole(x)

-----------------------------------------------------------------------------
(* The kernel's rows *)

\* The activity column tells a MOVE and a TALK from the rest.
LEMMA ActivityKinds ==
  ASSUME NEW type \in ActionTypes
  PROVE  /\ ActivityOf(type) = "TRAVELING" <=> type = "MOVE"
         /\ ActivityOf(type) = "TALKING" <=> type = "TALK"
<1>1. type = "MOVE" => ActivityOf(type) = "TRAVELING"
  BY Zenon DEF ActivityOf
<1>2. type = "SLEEP" => ActivityOf(type) = "SLEEPING"
  BY Zenon DEF ActivityOf
<1>3. type = "EAT" => ActivityOf(type) = "EATING"
  BY Zenon DEF ActivityOf
<1>4. type = "WORK" => ActivityOf(type) = "WORKING"
  BY Zenon DEF ActivityOf
<1>5. type = "TALK" => ActivityOf(type) = "TALKING"
  BY Zenon DEF ActivityOf
<1> QED
  BY <1>1, <1>2, <1>3, <1>4, <1>5 DEF ActionTypes

\* applyLifecycleEvent of world-replay.ts refuses a payload due before its start.
DueAfterStart(e, p) == e.type # "WORLD_TIME_ADVANCED" => p.due >= p.started

\* A step that writes an event writes it with the projection of its time.
Records(e) ==
  /\ ledger' = Append(ledger, e)
  /\ Accepts(Live, e, Payload(e)) /\ DueAfterStart(e, Payload(e))
  /\ Reduced(Live, e, Payload(e)) = Live'

\* The reducer stamps a row exactly as the executor does.
LEMMA SameStamp ==
  ASSUME NEW r, NEW x, NEW row, NEW task
  PROVE  Replayed(Live, r, x, row, task) = Stamped(row, task)
BY DEF Replayed, Stamped, Live

\* The reducer accepts the event of a start and writes the rows it wrote.
LEMMA StartIsRecorded ==
  ASSUME IInv, NEW r \in Requests, NEW f, NEW rv, Start(r, f, rv)
  PROVE  Records(Event("STARTED", r, worldTime, f))
<1> DEFINE e == Event("STARTED", r, worldTime, f)
           p == StartPayload(r)
<1> USE DEF IInv
<1>1. /\ e.type = "STARTED" /\ e.req = r /\ e.at = worldTime /\ Payload(e) = p
  BY DEF Event, Payload
<1>2. /\ p.source = runtime[r.actor].loc /\ p.started = worldTime
      /\ p.due = worldTime + Duration(r)
      /\ p.before = food[r.actor] /\ p.after = FoodAfterStart(r)[r.actor]
      /\ r.type = "MOVE" => p.destination = r.arg
  BY DEF StartPayload
<1>3. /\ Live.time = worldTime /\ Live.seq = worldSeq /\ Live.runtime = runtime
      /\ Live.food = food
  BY DEF Live
<1>4. /\ Possible(r) /\ PartiesIdle(r)
      /\ r.type = "TALK" => r.arg # r.actor
      /\ r.type = "WORK" => ShiftOpen(r.actor)
  BY CommittedDecision DEF Start
<1> HIDE DEF e, p
<1>5. Conserves(Live, r, p)
  <2> SUFFICES ASSUME r.type = "EAT"
               PROVE  /\ food[r.actor].units >= r.quantity
                      /\ p.after.units = food[r.actor].units - r.quantity
                      /\ p.after.version = food[r.actor].version + 1
    BY <1>2, <1>3 DEF Conserves
  <2>1. r.actor \in Residents /\ r.quantity \in Nat
    BY RequestFacts, RequestAssumption
  <2>2. FoodAfterStart(r) = [food EXCEPT ![r.actor].units = @ - r.quantity,
                                         ![r.actor].version = @ + 1]
    BY DEF FoodAfterStart
  <2> QED
    BY <1>2, <1>4, <2>1, <2>2 DEF Possible, InStock, TypeOK
<1>6. TimedAsPlanned(r, p)
  BY <1>2, DurationFacts DEF TimedAsPlanned
<1>7. PairValid(Live, r) /\ ShiftValid(Live, r, p) /\ OwnFood(r)
      /\ (r.type = "WORK" => p.started \notin runtime[r.actor].shifts)
  BY <1>2, <1>3, <1>4 DEF PairValid, ShiftValid, OwnFood, Possible, ShiftOpen
<1>8. \A x \in Parties(r) : Live.runtime[x].task.act = "IDLE"
  BY <1>3, <1>4 DEF PartiesIdle, IsIdle
<1>9. Accepts(Live, e, p)
  BY <1>1, <1>2, <1>3, <1>5, <1>6, <1>7, <1>8 DEF Accepts, AcceptsStart
<1>10. \A x \in Parties(r) : ReplayedRow(Live, e, p, x) = StartedRow(r, x)
  <2> SUFFICES ASSUME NEW x \in Parties(r)
               PROVE  ReplayedRow(Live, e, p, x) = StartedRow(r, x)
    OBVIOUS
  <2>1. ReplayedTask(r, p, x) = StartedTask(r, x)
    BY <1>2 DEF ReplayedTask, StartedTask
  <2> QED
    BY <1>1, <1>3, <2>1, SameStamp DEF ReplayedRow, StartedRow
<1>11. \A x \in Residents \ Parties(r) : ReplayedRow(Live, e, p, x) = runtime[x]
  BY <1>1, <1>3 DEF ReplayedRow
<1>12. [x \in Residents |-> ReplayedRow(Live, e, p, x)] = runtime'
  <2>1. runtime' = [x \in Residents |->
                      IF x \in Parties(r) THEN StartedRow(r, x) ELSE runtime[x]]
    BY DEF Start
  <2> QED
    BY <1>10, <1>11, <2>1
<1>13. (IF e.type = "STARTED" /\ e.req.type = "EAT"
        THEN [Live.food EXCEPT ![e.req.actor] = p.after] ELSE Live.food) = food'
  <2>1. food' = FoodAfterStart(r)
    BY DEF Start
  <2>2. CASE r.type # "EAT"
    BY <1>1, <1>3, <2>1, <2>2 DEF FoodAfterStart
  <2>3. CASE r.type = "EAT"
    <3>1. FoodAfterStart(r) = [food EXCEPT ![r.actor].units = @ - r.quantity,
                                           ![r.actor].version = @ + 1]
      BY <2>3 DEF FoodAfterStart
    <3>2. [food EXCEPT ![r.actor] = FoodAfterStart(r)[r.actor]] = FoodAfterStart(r)
      BY <3>1 DEF TypeOK
    <3> QED
      BY <1>1, <1>2, <1>3, <2>1, <2>3, <3>2
  <2> QED
    BY <2>2, <2>3
<1>14. ledger' = Append(ledger, e) /\ worldTime' = worldTime /\ worldSeq' = worldSeq + 1
  BY DEF Start, Commit, e, worldSeq, TypeOK
<1>15. Reduced(Live, e, p) = Live'
  <2>1. Live' = [time |-> worldTime, seq |-> worldSeq + 1, runtime |-> runtime', food |-> food']
    BY <1>14 DEF Live
  <2> QED
    BY <1>1, <1>3, <1>12, <1>13, <2>1 DEF Reduced
<1>16. DueAfterStart(e, p)
  BY <1>1, <1>2, DurationFacts, TimeAssumption DEF DueAfterStart, TypeOK, Times
<1> QED
  BY <1>1, <1>9, <1>14, <1>15, <1>16 DEF Records, e

\* The reducer derives a completion's effect as the executor does.
LEMMA SameEffect ==
  ASSUME NEW r, NEW x \in Parties(r), NEW e, e.req = r, e.at = worldTime
  PROVE  ReplayedEffect(e, CompletionPayload(r), runtime[x]) = Effect(r, x)
<1> DEFINE p == CompletionPayload(r)
<1>1. /\ p.destination = runtime[r.actor].task.target
      /\ p.started = runtime[r.actor].task.started
  BY DEF CompletionPayload
<1> HIDE DEF p
<1>2. r.type \in {"MOVE", "WORK"} => x = r.actor
  BY DEF Parties
<1>3. (IF r.type = "MOVE" THEN p.destination ELSE runtime[x].loc)
        = (IF r.type = "MOVE" THEN runtime[x].task.target ELSE runtime[x].loc)
  BY <1>1, <1>2
<1>4. ASSUME NEW shifts
      PROVE  (IF r.type = "WORK" THEN shifts \cup {p.started} ELSE shifts)
               = (IF r.type = "WORK" THEN shifts \cup {runtime[x].task.started} ELSE shifts)
  BY <1>1, <1>2
<1> QED
  BY <1>3, <1>4 DEF ReplayedEffect, Effect, p

\* The reducer accepts the event of a completion and writes the rows it wrote.
LEMMA CompleteIsRecorded ==
  ASSUME KInv, NEW r \in requests, NEW f, NEW v, Complete(r, f, v)
  PROVE  Records(Event("COMPLETED", r, worldTime, f))
<1> DEFINE e == Event("COMPLETED", r, worldTime, f)
           p == CompletionPayload(r)
<1> USE DEF KInv, IInv
<1>1. /\ e.type = "COMPLETED" /\ e.req = r /\ e.at = worldTime /\ Payload(e) = p
  BY DEF Event, Payload
<1>2. /\ p.source = runtime[r.actor].loc
      /\ p.started = runtime[r.actor].task.started
      /\ p.due = runtime[r.actor].task.due
  BY DEF CompletionPayload
<1>3. /\ Live.time = worldTime /\ Live.seq = worldSeq /\ Live.runtime = runtime
      /\ Live.food = food
  BY DEF Live
<1>4. /\ r \in Requests /\ CompletionDisposition(r, v) = "EXECUTED"
      /\ \A x \in Parties(r) : x \in Residents /\ Half(r, x)
      /\ Rederivable(r) /\ DueReached(r) /\ ~IsIdle(r.actor) /\ Belongs(r)
  BY CompletedActivity, ExecutedCompletion DEF Complete
<1>5. /\ r.actor \in Residents /\ runtime[r.actor].task # Idle
      /\ r.actor \in Parties(r) /\ (r.type = "TALK" => r.arg \in Parties(r))
  BY <1>4, RequestFacts, FreeIsIdle DEF Parties
<1>6. /\ r.type = "TALK" => r.arg # r.actor
      /\ r.type = "EAT" => r.arg = r.actor
  BY <1>4, <1>5 DEF RowWhole, Belongs
<1> HIDE DEF e, p
<1>7. \A x \in Parties(r) : Releases(Live, r, p, x)
  BY <1>2, <1>3, <1>4 DEF Releases, Half
<1>8. p.source = Live.runtime[r.actor].loc /\ e.at >= p.due
  BY <1>1, <1>2, <1>3, <1>4 DEF DueReached
<1>9. TimedAsPlanned(r, p)
  BY <1>2, <1>4 DEF TimedAsPlanned, Rederivable
<1>10. PairValid(Live, r)
  BY <1>3, <1>4, <1>5, <1>6 DEF PairValid, Half
<1>11. ShiftValid(Live, r, p) /\ OwnFood(r)
  BY <1>2, <1>3, <1>4, <1>6 DEF ShiftValid, OwnFood, Rederivable
<1>12. Accepts(Live, e, p)
  BY <1>1, <1>3, <1>7, <1>8, <1>9, <1>10, <1>11 DEF Accepts, AcceptsCompletion
<1>13. \A x \in Parties(r) : ReplayedRow(Live, e, p, x) = CompletedRow(r, x)
  <2> SUFFICES ASSUME NEW x \in Parties(r)
               PROVE  ReplayedRow(Live, e, p, x) = CompletedRow(r, x)
    OBVIOUS
  <2>1. ReplayedEffect(e, p, runtime[x]) = Effect(r, x)
    BY <1>1, SameEffect DEF p
  <2> QED
    BY <1>1, <1>3, <2>1, SameStamp DEF ReplayedRow, CompletedRow
<1>14. \A x \in Residents \ Parties(r) : ReplayedRow(Live, e, p, x) = runtime[x]
  BY <1>1, <1>3 DEF ReplayedRow
<1>15. [x \in Residents |-> ReplayedRow(Live, e, p, x)] = runtime'
  <2>1. runtime' = [x \in Residents |->
                      IF x \in Parties(r) THEN CompletedRow(r, x) ELSE runtime[x]]
    BY DEF Complete
  <2> QED
    BY <1>13, <1>14, <2>1
<1>16. /\ ledger' = Append(ledger, e) /\ worldTime' = worldTime /\ food' = food
       /\ worldSeq' = worldSeq + 1
  BY DEF Complete, Commit, e, worldSeq, TypeOK
<1>17. Reduced(Live, e, p) = Live'
  <2>1. Live' = [time |-> worldTime, seq |-> worldSeq + 1, runtime |-> runtime', food |-> food]
    BY <1>16 DEF Live
  <2> QED
    BY <1>1, <1>3, <1>15, <2>1 DEF Reduced
<1>18. DueAfterStart(e, p)
  <2>1. runtime[r.actor].task.inst = r
    BY <1>4, <1>5 DEF Half
  <2>2. runtime[r.actor].task.due > runtime[r.actor].task.started
        /\ runtime[r.actor].task.started \in Nat /\ runtime[r.actor].task.due \in Nat
    BY <1>5, <2>1, TimeAssumption DEF TasksIntact, TaskIntact, RowWhole, Times
  <2> QED
    BY <1>2, <2>2 DEF DueAfterStart
<1> QED
  BY <1>1, <1>12, <1>16, <1>17, <1>18 DEF Records, e

\* The reducer accepts the event of a clock step and moves its own clock.
LEMMA AdvanceIsRecorded ==
  ASSUME IInv, NEW t \in Times, NEW f, Commit("WORLD_TIME_ADVANCED", None, t, f),
         t >= worldTime, worldTime' = t, UNCHANGED <<runtime, food>>
  PROVE  Records(Event("WORLD_TIME_ADVANCED", None, t, f))
<1> DEFINE e == Event("WORLD_TIME_ADVANCED", None, t, f)
           p == [from |-> worldTime]
<1> USE DEF IInv
<1>1. e.type = "WORLD_TIME_ADVANCED" /\ e.at = t /\ Payload(e) = p /\ p.from = worldTime
  BY DEF Event, Payload
<1>2. ledger' = Append(ledger, e) /\ worldSeq' = worldSeq + 1
  BY DEF Commit, worldSeq, TypeOK
<1> HIDE DEF e, p
<1>3. Accepts(Live, e, p)
  BY <1>1 DEF Accepts, Live
<1>4. Reduced(Live, e, p) = Live'
  <2>1. Live' = [time |-> t, seq |-> worldSeq + 1, runtime |-> runtime, food |-> food]
    BY <1>2 DEF Live
  <2>2. Reduced(Live, e, p) = [Live EXCEPT !.time = t, !.seq = worldSeq + 1]
    BY <1>1 DEF Reduced, Live
  <2> QED
    BY <2>1, <2>2 DEF Live
<1>5. DueAfterStart(e, p)
  BY <1>1 DEF DueAfterStart
<1> QED
  BY <1>1, <1>2, <1>3, <1>4, <1>5 DEF Records, e

\* A kernel step writes no event and changes no projected row, or records one.
LEMMA EveryStepIsRecorded ==
  ASSUME KInv, [Next]_vars
  PROVE  (ledger' = ledger /\ Live' = Live) \/ \E e \in LedgerEvents : Records(e)
<1> USE DEF KInv, IInv
<1>0. 0 \in 0 .. lease /\ lease \in Nat /\ lease <= MaxFence /\ worldTime \in Times
  BY TimeAssumption DEF TypeOK
<1>1. ASSUME NEW type \in EventTypes, NEW r \in Requests \cup {None}, NEW at \in Times,
             NEW f \in Fences
      PROVE  Event(type, r, at, f) \in LedgerEvents
  BY <1>0, <1>1, TimeAssumption DEF Event, LedgerEvents, Fences
<1>2. ASSUME NEW r \in Requests, NEW f \in Fences, NEW rv, Start(r, f, rv)
      PROVE  \E e \in LedgerEvents : Records(e)
  BY <1>0, <1>1, <1>2, StartIsRecorded DEF EventTypes
<1>3. ASSUME NEW r \in requests, NEW f \in Fences, NEW v, Complete(r, f, v)
      PROVE  \E e \in LedgerEvents : Records(e)
  <2>1. r \in Requests
    BY DEF TypeOK
  <2> QED
    BY <1>0, <1>1, <1>3, <2>1, CompleteIsRecorded DEF EventTypes
<1>4. ASSUME NEW t \in Times, NEW f \in Fences, AdvanceWorldTimeTo(t, f)
      PROVE  \E e \in LedgerEvents : Records(e)
  <2>1. /\ t >= worldTime /\ worldTime' = t /\ UNCHANGED <<runtime, food>>
        /\ Commit("WORLD_TIME_ADVANCED", None, t, f)
    BY <1>0, <1>4, TimeAssumption DEF AdvanceWorldTimeTo, CanAdvance, Times
  <2>2. Records(Event("WORLD_TIME_ADVANCED", None, t, f))
    BY <2>1, AdvanceIsRecorded
  <2> QED
    BY <1>1, <2>2 DEF EventTypes
<1>5. ASSUME NEW t \in Times, NEW st \in Statuses, UpdateClock(t, st)
      PROVE  (ledger' = ledger /\ Live' = Live) \/ \E e \in LedgerEvents : Records(e)
  <2>1. CASE t > worldTime
    <3>1. Records(Event("WORLD_TIME_ADVANCED", None, t, 0))
      BY <1>5, <2>1, AdvanceIsRecorded DEF UpdateClock
    <3> QED
      BY <1>0, <1>1, <3>1 DEF EventTypes, Fences
  <2>2. CASE ~(t > worldTime)
    <3>1. worldTime' = worldTime /\ ledger' = ledger /\ UNCHANGED <<runtime, food>>
      BY <1>0, <1>5, <2>2, TimeAssumption DEF UpdateClock, Times
    <3> QED
      BY <3>1 DEF Live, worldSeq
  <2> QED
    BY <2>1, <2>2
<1>6. ASSUME UNCHANGED <<worldTime, ledger, runtime, food>>
      PROVE  ledger' = ledger /\ Live' = Live
  BY <1>6 DEF Live, worldSeq
<1>7. ASSUME NEW r \in Requests, PersistRequest(r)
      PROVE  ledger' = ledger /\ Live' = Live
  BY <1>6, <1>7 DEF PersistRequest
<1>8. ASSUME NEW r \in Requests, NEW f \in Fences, NEW rv, Refuse(r, f, rv)
      PROVE  ledger' = ledger /\ Live' = Live
  BY <1>6, <1>8 DEF Refuse
<1>9. CASE \/ AcquireLease
           \/ \E prepare \in BOOLEAN : RegisterNextWakes(prepare)
           \/ \E w \in wakes : AcknowledgeWake(w)
           \/ UNCHANGED vars
  BY <1>6, <1>9 DEF AcquireLease, RegisterNextWakes, AcknowledgeWake, vars
<1> QED
  BY <1>2, <1>3, <1>4, <1>5, <1>7, <1>8, <1>9 DEF Next

-----------------------------------------------------------------------------
(* Rows keep what a snapshot of them must show *)

\* A row that no step touches stays whole, since the world only grows newer.
LEMMA UntouchedRowStaysWhole ==
  ASSUME TypeOK, NEW x \in Residents, RowWhole(x), runtime'[x] = runtime[x],
         worldSeq' \in Nat, worldSeq' >= worldSeq
  PROVE  RowWhole(x)'
<1>1. runtime[x].seq \in Nat /\ worldSeq \in Nat
  BY DEF TypeOK, RuntimeRows, worldSeq
<1> QED
  BY <1>1 DEF RowWhole

\* Start writes whole rows.
LEMMA StartedRowsWhole ==
  ASSUME KInv, NEW r \in Requests, NEW f \in 0 .. lease, NEW rv, Start(r, f, rv)
  PROVE  \A x \in Residents : RowWhole(x)'
<1> USE DEF KInv, IInv
<1> SUFFICES ASSUME NEW x \in Residents PROVE RowWhole(x)'
  OBVIOUS
<1>1. worldSeq \in Nat /\ worldSeq' = worldSeq + 1 /\ worldTime \in Times
  BY DEF Start, Commit, worldSeq, TypeOK
<1>2. CASE x \notin Parties(r)
  <2>1. runtime'[x] = runtime[x]
    BY <1>2 DEF Start
  <2> QED
    BY <1>1, <2>1, UntouchedRowStaysWhole
<1>3. CASE x \in Parties(r)
  <2>1. runtime'[x] = StartedRow(r, x)
    BY <1>3 DEF Start
  <2>2. StartedTask(r, x) \in Tasks /\ runtime[x] \in RuntimeRows
    BY <1>3, StartedTaskTypes DEF TypeOK
  <2>3. runtime'[x].task = StartedTask(r, x) /\ runtime'[x].seq = worldSeq + 1
    BY <2>1, <2>2, StampedFacts DEF StartedRow
  <2>4. /\ runtime'[x].task.started \in Times /\ runtime'[x].task.due \in Nat
        /\ runtime'[x].task.inst = r
        /\ r.type # "MOVE" => runtime'[x].task.target = None
    <3>1. worldTime + Duration(r) \in Nat
      BY <1>1, DurationFacts, TimeAssumption DEF Times
    <3>2. r.type # "MOVE" => StartedTask(r, x).target = None
      BY DEF StartedTask
    <3> QED
      BY <1>1, <2>3, <3>1, <3>2, StartedTaskFields
  <2>5. /\ r.type = "TALK" => r.arg # r.actor
        /\ r.type = "EAT" => r.arg = r.actor
    BY CommittedDecision DEF Start, Possible
  <2> QED
    BY <1>1, <2>3, <2>4, <2>5 DEF RowWhole
<1> QED
  BY <1>2, <1>3

\* Complete writes whole rows.
LEMMA CompletedRowsWhole ==
  ASSUME KInv, NEW r \in requests, NEW f \in 0 .. lease, NEW v, Complete(r, f, v)
  PROVE  \A x \in Residents : RowWhole(x)'
<1> USE DEF KInv, IInv
<1> SUFFICES ASSUME NEW x \in Residents PROVE RowWhole(x)'
  OBVIOUS
<1>1. worldSeq \in Nat /\ worldSeq' = worldSeq + 1
  BY DEF Complete, Commit, worldSeq, TypeOK
<1>2. CASE x \notin Parties(r)
  <2>1. runtime'[x] = runtime[x]
    BY <1>2 DEF Complete
  <2> QED
    BY <1>1, <2>1, UntouchedRowStaysWhole
<1>3. CASE x \in Parties(r)
  <2>1. runtime'[x] = CompletedRow(r, x)
    BY <1>3 DEF Complete
  <2>2. Effect(r, x) \in RuntimeRows
    BY <1>3, CompletedActivity, EffectTypes DEF Complete
  <2>3. runtime'[x].task = Idle /\ runtime'[x].seq = worldSeq + 1
    BY <2>1, <2>2, IdleIsTask, StampedFacts DEF CompletedRow
  <2> QED
    BY <1>1, <2>3 DEF RowWhole
<1> QED
  BY <1>2, <1>3

\* A seeded world has whole rows.
LEMMA InitKInv == Init => KInv
<1> SUFFICES ASSUME Init PROVE KInv
  OBVIOUS
<1>1. \A x \in Residents : runtime[x].task = Idle /\ runtime[x].seq = 0 /\ worldSeq = 0
  BY DEF Init, worldSeq
<1> QED
  BY <1>1, InitInv DEF KInv, RowWhole

\* Whole rows stay whole: only Start and Complete write one.
LEMMA NextKInv == KInv /\ [Next]_vars => KInv'
<1> SUFFICES ASSUME KInv, [Next]_vars PROVE KInv'
  OBVIOUS
<1>0. IInv /\ IInv' /\ TypeOK
  BY NextInv DEF KInv, IInv
<1>1. ASSUME NEW r \in Requests, NEW f \in Fences, NEW rv, Start(r, f, rv)
      PROVE  \A x \in Residents : RowWhole(x)'
  BY <1>1, StartedRowsWhole DEF Fences
<1>2. ASSUME NEW r \in requests, NEW f \in Fences, NEW v, Complete(r, f, v)
      PROVE  \A x \in Residents : RowWhole(x)'
  BY <1>2, CompletedRowsWhole DEF Fences
<1>3. ASSUME UNCHANGED runtime PROVE \A x \in Residents : RowWhole(x)'
  <2>1. worldSeq \in Nat /\ worldSeq' \in Nat /\ worldSeq' >= worldSeq
    <3>1. CASE ledger' = ledger
      BY <1>0, <3>1, LedgerEntries DEF worldSeq
    <3>2. ASSUME NEW type, NEW r, NEW at, NEW f, Commit(type, r, at, f)
          PROVE  worldSeq' = worldSeq + 1 /\ worldSeq \in Nat
      BY <1>0, <3>2, AppendFacts
    <3> QED
      BY <1>0, <3>1, <3>2, LedgerStep
  <2> QED
    BY <1>0, <1>3, <2>1, UntouchedRowStaysWhole DEF KInv
<1>4. ASSUME \/ UNCHANGED vars \/ AcquireLease
             \/ \E r \in Requests : PersistRequest(r)
             \/ \E t \in Times, f \in Fences : AdvanceWorldTimeTo(t, f)
             \/ \E t \in Times, st \in Statuses : UpdateClock(t, st)
             \/ \E prepare \in BOOLEAN : RegisterNextWakes(prepare)
             \/ \E w \in wakes : AcknowledgeWake(w)
      PROVE  \A x \in Residents : RowWhole(x)'
  BY <1>3, <1>4 DEF vars, AcquireLease, PersistRequest, AdvanceWorldTimeTo, UpdateClock,
                    RegisterNextWakes, AcknowledgeWake
<1>5. ASSUME NEW r \in Requests, NEW f \in Fences, NEW rv, Refuse(r, f, rv)
      PROVE  \A x \in Residents : RowWhole(x)'
  BY <1>3, <1>5 DEF Refuse
<1>6. \A x \in Residents : RowWhole(x)'
  BY <1>1, <1>2, <1>4, <1>5 DEF Next
<1> QED
  BY <1>0, <1>6 DEF KInv

\* The live rows always pass assertProjectionShape.
LEMMA LiveWellFormed ==
  ASSUME KInv
  PROVE  WellFormed(Live)
<1> USE DEF KInv, IInv
<1> SUFFICES ASSUME NEW x \in Residents PROVE RowWellFormed(Live, x)
  BY DEF WellFormed
<1>1. /\ Live.seq = worldSeq /\ Live.runtime = runtime /\ Live.food = food
  BY DEF Live
<1>2. runtime[x].seq <= worldSeq /\ food[x].units >= 0
  BY DEF RowWhole, TypeOK
<1>3. CASE runtime[x].task = Idle
  <2>1. runtime[x].task.act = "IDLE"
    BY <1>3 DEF Idle
  <2> QED
    BY <1>1, <1>2, <1>3, <2>1 DEF RowWellFormed
<1>4. CASE runtime[x].task # Idle
  <2> DEFINE task == runtime[x].task
             r == task.inst
  <2>1. /\ r \in Requests /\ x \in Parties(r) /\ Rederivable(r)
        /\ \A y \in Parties(r) : Half(r, y)
        /\ runtime[r.actor].task.due > runtime[r.actor].task.started
        /\ r.type = "MOVE" => runtime[r.actor].task.target = r.arg
    BY <1>4 DEF TasksIntact, TaskIntact, TypeOK
  <2>2. /\ task.started \in Times /\ task.due \in Nat
        /\ r.type # "MOVE" => task.target = None
        /\ r.type = "TALK" => r.arg # r.actor
    BY <1>4 DEF RowWhole
  <2>3. /\ task.act = ActivityOf(r.type) /\ task.with = Partner(r, x)
        /\ task.started = runtime[r.actor].task.started
        /\ task.due = runtime[r.actor].task.due
    BY <2>1 DEF Half
  <2>4. /\ r # None /\ r.type \in ActionTypes /\ r.actor \in Residents
        /\ task.act # "IDLE"
        /\ task.act = "TRAVELING" <=> r.type = "MOVE"
        /\ task.act = "TALKING" <=> r.type = "TALK"
    BY <2>1, <2>3, RequestFacts, ActivityFacts, ActivityKinds
  <2>5. None \notin Residents \cup Locations /\ None \notin Int
    BY NoneAssumption
  <2>6. None \notin {r, task.started, task.due} /\ task.due >= task.started
    BY <2>1, <2>2, <2>3, <2>4, <2>5, TimeAssumption DEF Times
  <2>7. task.target # None <=> task.act = "TRAVELING"
    <3>1. r.type = "MOVE" => x = r.actor /\ r.arg \in Locations
      BY <2>1, RequestAssumption DEF Parties
    <3> QED
      BY <2>1, <2>2, <2>4, <2>5, <3>1
  <2>8. task.with # None <=> task.act = "TALKING"
    <3>1. r.type = "TALK" => r.arg \in Residents
      BY <2>1, RequestAssumption
    <3> QED
      BY <2>3, <2>4, <2>5, <3>1 DEF Partner
  <2>9. ASSUME task.act = "TALKING"
        PROVE  LET other == runtime[task.with].task IN
               /\ other.act = "TALKING" /\ other.with = x /\ other.inst = r
               /\ other.started = task.started /\ other.due = task.due
    <3>1. r.type = "TALK" /\ r.arg # r.actor /\ Parties(r) = {r.actor, r.arg}
      BY <2>2, <2>4, <2>9 DEF Parties
    <3>2. task.with \in Parties(r) /\ Partner(r, task.with) = x
      BY <2>1, <2>3, <3>1 DEF Partner
    <3> QED
      BY <2>1, <2>3, <2>9, <3>2 DEF Half
  <2> QED
    BY <1>1, <1>2, <2>4, <2>6, <2>7, <2>8, <2>9 DEF RowWellFormed
<1> QED
  BY <1>3, <1>4

-----------------------------------------------------------------------------
(* The recorded past *)

\* A sequence of anything.
Listed(s) == \E S : s \in Seq(S)

\* An append adds one last entry.
LEMMA AppendListed ==
  ASSUME NEW s, Listed(s), NEW a
  PROVE  /\ Len(s) \in Nat /\ Listed(Append(s, a)) /\ Len(Append(s, a)) = Len(s) + 1
         /\ Append(s, a)[Len(s) + 1] = a
         /\ \A i \in 1 .. Len(s) : Append(s, a)[i] = s[i]
<1>1. PICK S : s \in Seq(S)
  BY DEF Listed
<1>2. s \in Seq(S \cup {a})
  BY <1>1
<1> QED
  BY <1>2 DEF Listed

(***************************************************************************)
(* The past as the ledger tells it: the projection after n - 1 events is   *)
(* well-formed, the reducer accepts event n on it and makes the next of it.*)
(***************************************************************************)
Recorded ==
  /\ Listed(payloads) /\ Len(payloads) = worldSeq
  /\ Listed(past) /\ Len(past) = worldSeq + 1
  /\ past[1] = Genesis /\ past[worldSeq + 1] = Live
  /\ \A n \in 1 .. worldSeq + 1 : WellFormed(past[n]) /\ past[n].seq = n - 1
  /\ \A n \in 1 .. worldSeq : /\ Accepts(past[n], ledger[n], payloads[n])
                             /\ DueAfterStart(ledger[n], payloads[n])
                             /\ Reduced(past[n], ledger[n], payloads[n]) = past[n + 1]
  /\ \A n \in 0 .. worldSeq : SummaryTime(n) = past[n + 1].time

\* The strengthening of the replay properties.
RInvReplay ==
  /\ KInv /\ Recorded /\ ~failed
  /\ ReplayYieldsThePast /\ CheckpointsTellThePast

\* A clock event sets the summary's time, any other event leaves it.
SummaryFolds ==
  \A n \in Nat : SummaryTime(n + 1) = IF ledger[n + 1].type = "WORLD_TIME_ADVANCED"
                                      THEN ledger[n + 1].at ELSE SummaryTime(n)

\* By what Max returns on the positions of the clock events.
LEMMA SummaryStep == SummaryFolds
<1> SUFFICES ASSUME NEW n \in Nat
             PROVE  SummaryTime(n + 1) = IF ledger[n + 1].type = "WORLD_TIME_ADVANCED"
                                         THEN ledger[n + 1].at ELSE SummaryTime(n)
  BY DEF SummaryFolds
<1> DEFINE Advances(k) == {i \in 1 .. k : ledger[i].type = "WORLD_TIME_ADVANCED"}
<1>1. CASE ledger[n + 1].type = "WORLD_TIME_ADVANCED"
  <2>1. n + 1 \in Advances(n + 1) /\ \A i \in Advances(n + 1) : i \in Nat /\ i <= n + 1
    BY <1>1
  <2>2. Max(Advances(n + 1)) = n + 1
    <3> HIDE DEF Advances
    <3>1. \A i \in Advances(n + 1) :
            (\A j \in Advances(n + 1) : i >= j) <=> i = n + 1
      BY <2>1
    <3> QED
      BY <2>1, <3>1 DEF Max
  <2> QED
    BY <1>1, <2>1, <2>2 DEF SummaryTime
<1>2. CASE ledger[n + 1].type # "WORLD_TIME_ADVANCED"
  <2>1. Advances(n + 1) = Advances(n)
    BY <1>2
  <2> QED
    BY <1>2, <2>1 DEF SummaryTime
<1> QED
  BY <1>1, <1>2

\* A nonempty set of positions has a last one.
LEMMA LastOf ==
  ASSUME NEW n \in Nat, NEW S \in SUBSET (1 .. n), S # {}
  PROVE  \E i \in S : \A j \in S : i >= j
<1> DEFINE T == {n - i : i \in S}
           R == OpToRel(<, Nat)
<1>1. T \subseteq Nat /\ T # {}
  <2>1. S \subseteq Int /\ \A i \in S : n - i \in Nat
    OBVIOUS
  <2> QED
    BY <2>1
<1>2. PICK t \in T : \A u \in T : ~(<<u, t>> \in R)
  <2>1. IsWellFoundedOn(R, Nat)
    BY NatLessThanWellFounded
  <2> HIDE DEF T, R
  <2> QED
    BY <1>1, <2>1, WFMin
<1>3. \A u \in T : ~(u < t)
  BY <1>1, <1>2 DEF OpToRel
<1>4. PICK i \in S : t = n - i
  BY <1>2
<1>5. ASSUME NEW j \in S PROVE i >= j
  <2>1. n - j \in T /\ i \in Nat /\ j \in Nat
    OBVIOUS
  <2> QED
    BY <1>3, <1>4, <2>1
<1> QED
  BY <1>5

\* A summary reads only the events it covers.
LEMMA SummaryStays ==
  ASSUME NEW n \in Nat, \A i \in 1 .. n : ledger'[i] = ledger[i]
  PROVE  SummaryTime(n)' = SummaryTime(n)
<1>1. {i \in 1 .. n : ledger'[i].type = "WORLD_TIME_ADVANCED"}
        = {i \in 1 .. n : ledger[i].type = "WORLD_TIME_ADVANCED"}
  OBVIOUS
<1> DEFINE S == {i \in 1 .. n : ledger[i].type = "WORLD_TIME_ADVANCED"}
<1>2. S # {} => Max(S) \in 1 .. n
  BY LastOf DEF Max
<1> QED
  BY <1>1, <1>2 DEF SummaryTime

\* Before the first event there is the seed and nothing else.
LEMMA InitRecorded == ReplayInit => RInvReplay
<1> SUFFICES ASSUME ReplayInit PROVE RInvReplay
  OBVIOUS
<1>1. KInv /\ worldSeq = 0
  BY InitKInv DEF ReplayInit, Init, worldSeq
<1>2. Live = Genesis
  BY <1>1 DEF Live, Genesis, ReplayInit, Init
<1>3. Genesis.seq = 0
  BY DEF Genesis
<1>4. WellFormed(Genesis)
  BY <1>1, <1>2, LiveWellFormed
<1>5. /\ payloads = <<>> /\ past = <<Genesis>> /\ replica = Genesis /\ ~failed
      /\ checkpoints = {}
  BY DEF ReplayInit
<1> HIDE DEF Genesis
<1>6. Listed(payloads) /\ Len(payloads) = 0 /\ Listed(past) /\ Len(past) = 1
      /\ past[1] = Genesis
  <2>1. payloads \in Seq({}) /\ past \in Seq({Genesis})
    BY <1>5
  <2> QED
    BY <1>5, <2>1 DEF Listed
<1>7. Recorded
  <2>1. SummaryTime(0) = 0 /\ Genesis.time = 0
    BY DEF SummaryTime, Genesis
  <2> QED
    BY <1>1, <1>2, <1>3, <1>4, <1>6, <2>1 DEF Recorded
<1>8. ReplayYieldsThePast /\ CheckpointsTellThePast
  BY <1>1, <1>2, <1>3, <1>5, <1>6 DEF ReplayYieldsThePast, CheckpointsTellThePast
<1> QED
  BY <1>1, <1>5, <1>7, <1>8 DEF RInvReplay

\* A step that records an event lengthens the past by the live projection.
LEMMA RecordingStep ==
  ASSUME RInvReplay, KInv', NEW e \in LedgerEvents, Records(e),
         payloads' = Append(payloads, Payload(e)), past' = Append(past, Live')
  PROVE  /\ Recorded' /\ worldSeq \in Nat /\ worldSeq' = worldSeq + 1
         /\ \A n \in 1 .. worldSeq + 1 : past'[n] = past[n]
<1> USE DEF RInvReplay, Recorded
<1>1. worldSeq \in Nat /\ worldSeq' = worldSeq + 1 /\ ledger'[worldSeq + 1] = e
      /\ \A n \in 1 .. worldSeq : ledger'[n] = ledger[n]
  <2>1. ledger \in Seq(LedgerEvents) /\ ledger' = Append(ledger, e)
    BY DEF Records, KInv, IInv, TypeOK
  <2> QED
    BY <2>1 DEF worldSeq
<1>2. /\ Listed(payloads') /\ Len(payloads') = worldSeq + 1
      /\ payloads'[worldSeq + 1] = Payload(e)
      /\ \A n \in 1 .. worldSeq : payloads'[n] = payloads[n]
  BY AppendListed
<1>3. /\ Listed(past') /\ Len(past') = worldSeq + 2 /\ past'[worldSeq + 2] = Live'
      /\ \A n \in 1 .. worldSeq + 1 : past'[n] = past[n]
  <2>1. /\ Listed(past') /\ Len(past') = Len(past) + 1 /\ past'[Len(past) + 1] = Live'
        /\ \A n \in 1 .. Len(past) : past'[n] = past[n]
    BY AppendListed
  <2> QED
    BY <1>1, <2>1
<1>4. WellFormed(Live') /\ Live'.seq = worldSeq + 1
  <2>1. WellFormed(Live)'
    BY LiveWellFormed, PTL
  <2>2. Live.seq' = worldSeq'
    BY DEF Live
  <2> QED
    BY <1>1, <2>1, <2>2 DEF WellFormed
<1>5. \A n \in 1 .. worldSeq + 2 : WellFormed(past'[n]) /\ past'[n].seq = n - 1
  BY <1>1, <1>3, <1>4
<1>6. \A n \in 1 .. worldSeq + 1 :
        /\ Accepts(past'[n], ledger'[n], payloads'[n])
        /\ DueAfterStart(ledger'[n], payloads'[n])
        /\ Reduced(past'[n], ledger'[n], payloads'[n]) = past'[n + 1]
  <2> SUFFICES ASSUME NEW n \in 1 .. worldSeq + 1
               PROVE  /\ Accepts(past'[n], ledger'[n], payloads'[n])
                      /\ DueAfterStart(ledger'[n], payloads'[n])
                      /\ Reduced(past'[n], ledger'[n], payloads'[n]) = past'[n + 1]
    OBVIOUS
  <2>1. CASE n = worldSeq + 1
    <3>1. past'[n] = Live /\ ledger'[n] = e /\ payloads'[n] = Payload(e)
          /\ past'[n + 1] = Live'
      BY <1>1, <1>2, <1>3, <2>1
    <3> QED
      BY <3>1 DEF Records
  <2>2. CASE n \in 1 .. worldSeq
    <3>1. past'[n] = past[n] /\ past'[n + 1] = past[n + 1]
          /\ ledger'[n] = ledger[n] /\ payloads'[n] = payloads[n]
      BY <1>1, <1>2, <1>3, <2>2
    <3> QED
      BY <2>2, <3>1
  <2> QED
    BY <1>1, <2>1, <2>2
<1>7. ASSUME NEW n \in 0 .. worldSeq
      PROVE  SummaryTime(n)' = past'[n + 1].time
  <2>1. n \in Nat /\ \A i \in 1 .. n : ledger'[i] = ledger[i]
    BY <1>1
  <2>2. SummaryTime(n)' = SummaryTime(n)
    BY <2>1, SummaryStays
  <2> QED
    BY <1>1, <1>3, <2>2
<1>8. ASSUME NEW n \in Nat, n = worldSeq
      PROVE  SummaryTime(n + 1)' = past'[n + 2].time
  <2>1. SummaryFolds'
    BY SummaryStep, PTL
  <2>2. SummaryTime(n + 1)' = IF e.type = "WORLD_TIME_ADVANCED" THEN e.at
                              ELSE SummaryTime(n)'
    BY <1>1, <1>8, <2>1 DEF SummaryFolds
  <2>3. SummaryTime(n)' = Live.time
    BY <1>1, <1>3, <1>7, <1>8
  <2>4. Live'.time = IF e.type = "WORLD_TIME_ADVANCED" THEN e.at ELSE Live.time
    <3>1. Live' = Reduced(Live, e, Payload(e))
      BY DEF Records
    <3> QED
      BY <3>1 DEF Reduced, Live
  <2> QED
    BY <1>3, <1>8, <2>2, <2>3, <2>4
<1>9. \A n \in 0 .. worldSeq + 1 : SummaryTime(n)' = past'[n + 1].time
  <2> SUFFICES ASSUME NEW n \in 0 .. worldSeq + 1
               PROVE  SummaryTime(n)' = past'[n + 1].time
    OBVIOUS
  <2>1. CASE n \in 0 .. worldSeq
    BY <1>7, <2>1
  <2>2. ASSUME NEW m \in Nat, m = worldSeq, n = m + 1
        PROVE  SummaryTime(n)' = past'[n + 1].time
    BY <1>8, <2>2
  <2> QED
    BY <1>1, <2>1, <2>2
<1> QED
  <2>1. Genesis' = Genesis
    BY DEF Genesis
  <2>2. past'[1] = Genesis' /\ past'[worldSeq' + 1] = Live'
    BY <1>1, <1>3, <2>1
  <2>3. /\ Listed(payloads') /\ Len(payloads') = worldSeq'
        /\ Listed(past') /\ Len(past') = worldSeq' + 1
    BY <1>1, <1>2, <1>3
  <2>4. \A n \in 0 .. worldSeq' : SummaryTime(n)' = past'[n + 1].time
    BY <1>1, <1>9
  <2>5. \A n \in 1 .. worldSeq' + 1 : WellFormed(past'[n]) /\ past'[n].seq = n - 1
    BY <1>1, <1>5
  <2>6. Recorded'
    BY <1>1, <1>6, <2>2, <2>3, <2>4, <2>5
  <2> QED
    BY <1>1, <1>3, <2>6

\* A kernel transaction leaves the replayer alone and the past as it was.
LEMMA KernelStepRInv == RInvReplay /\ KernelStep => RInvReplay'
<1> SUFFICES ASSUME RInvReplay, KernelStep PROVE RInvReplay'
  OBVIOUS
<1>1. Next /\ UNCHANGED <<replica, failed, checkpoints>>
  BY DEF KernelStep
<1>2. KInv /\ KInv' /\ Recorded /\ worldSeq \in Nat
  <2>1. KInv /\ Recorded
    BY DEF RInvReplay
  <2>2. KInv'
    BY <1>1, <2>1, NextKInv
  <2>3. worldSeq \in Nat
    BY <2>1 DEF KInv, IInv, TypeOK, worldSeq
  <2> QED
    BY <2>1, <2>2, <2>3
<1>3. ASSUME ledger' = ledger, Live' = Live
      PROVE  Recorded' /\ worldSeq' = worldSeq /\ past' = past
  <2>1. payloads' = payloads /\ past' = past
    BY <1>3 DEF KernelStep
  <2>2. worldSeq' = worldSeq
    BY <1>3 DEF worldSeq
  <2>3. Genesis' = Genesis /\ \A n \in 0 .. worldSeq : SummaryTime(n)' = SummaryTime(n)
    BY <1>2, <1>3, SummaryStays DEF Genesis
  <2> QED
    BY <1>2, <1>3, <2>1, <2>2, <2>3 DEF Recorded
<1>4. ASSUME NEW e \in LedgerEvents, Records(e)
      PROVE  /\ Recorded' /\ worldSeq' = worldSeq + 1
             /\ \A n \in 1 .. worldSeq + 1 : past'[n] = past[n]
  <2>1. ledger' # ledger /\ ledger'[worldSeq + 1] = e
    <3>1. ledger \in Seq(LedgerEvents) /\ ledger' = Append(ledger, e)
      BY <1>2, <1>4 DEF Records, KInv, IInv, TypeOK
    <3>2. Len(ledger') = Len(ledger) + 1 /\ ledger'[Len(ledger) + 1] = e
          /\ Len(ledger) \in Nat
      BY <3>1
    <3> QED
      BY <3>2 DEF worldSeq
  <2>2. payloads' = Append(payloads, Payload(e)) /\ past' = Append(past, Live')
    BY <2>1 DEF KernelStep
  <2> QED
    BY <1>2, <1>4, <2>2, RecordingStep
<1>5. /\ Recorded' /\ worldSeq' \in Nat /\ worldSeq' >= worldSeq
      /\ \A n \in 1 .. worldSeq + 1 : past'[n] = past[n]
  <2>1. CASE ledger' = ledger /\ Live' = Live
    BY <1>2, <1>3, <2>1
  <2>2. CASE \E e \in LedgerEvents : Records(e)
    BY <1>2, <1>4, <2>2
  <2> QED
    BY <1>1, <1>2, <2>1, <2>2, EveryStepIsRecorded
<1>6. ReplayYieldsThePast' /\ ~failed'
  <2>1. replica.seq \in 0 .. worldSeq /\ replica = past[replica.seq + 1] /\ ~failed
    BY DEF RInvReplay, ReplayYieldsThePast
  <2>2. replica.seq + 1 \in 1 .. worldSeq + 1 /\ replica.seq \in 0 .. worldSeq'
    BY <1>2, <1>5, <2>1
  <2>3. Len(past)' = worldSeq' + 1 /\ past'[worldSeq' + 1] = Live'
    BY <1>5 DEF Recorded
  <2> QED
    BY <1>1, <1>5, <2>1, <2>2, <2>3 DEF ReplayYieldsThePast
<1>7. CheckpointsTellThePast'
  <2> SUFFICES ASSUME NEW c \in checkpoints
               PROVE  /\ c.seq \in 0 .. worldSeq'
                      /\ c.kind = "residents" => c.snapshot = past'[c.seq + 1]
                      /\ c.kind = "summary" => c.snapshot.time = past'[c.seq + 1].time
                      /\ \A d \in checkpoints : d.seq = c.seq => d = c
    BY <1>1 DEF CheckpointsTellThePast
  <2>1. c.seq + 1 \in 1 .. worldSeq + 1
    BY <1>2 DEF RInvReplay, CheckpointsTellThePast
  <2> QED
    BY <1>2, <1>5, <2>1 DEF RInvReplay, CheckpointsTellThePast
<1> QED
  BY <1>2, <1>5, <1>6, <1>7 DEF RInvReplay

\* What RInvReplay says of the kernel and the past stays with them.
LEMMA PastStays ==
  ASSUME RInvReplay, UNCHANGED <<vars, payloads, past>>
  PROVE  KInv' /\ Recorded' /\ worldSeq' = worldSeq /\ Live' = Live /\ worldSeq \in Nat
<1>1. KInv /\ Recorded
  BY DEF RInvReplay
<1>2. KInv'
  BY <1>1, NextKInv
<1>3. UNCHANGED <<ledger, worldTime, runtime, food>>
  BY DEF vars
<1>4. worldSeq' = worldSeq /\ Live' = Live /\ Genesis' = Genesis
  BY <1>3 DEF worldSeq, Live, Genesis
<1>5. worldSeq \in Nat
  BY <1>1 DEF KInv, IInv, TypeOK, worldSeq
<1>6. \A n \in 0 .. worldSeq : SummaryTime(n)' = SummaryTime(n)
  BY <1>3, <1>5, SummaryStays
<1> QED
  BY <1>1, <1>2, <1>3, <1>4, <1>5, <1>6 DEF Recorded

\* The replayer's own turns: it accepts the next event, or starts over.
LEMMA ReplayerRInv ==
  ASSUME RInvReplay, UNCHANGED <<vars, payloads, checkpoints, past>>,
         \/ ReplayEvent \/ ReplayFromSeed \/ UNCHANGED <<replica, failed>>
         \/ \E c \in checkpoints : ReplayFromCheckpoint(c)
  PROVE  RInvReplay'
<1>1. /\ KInv' /\ Recorded' /\ worldSeq' = worldSeq /\ Live' = Live /\ worldSeq \in Nat
      /\ past' = past /\ checkpoints' = checkpoints /\ Recorded /\ ~failed
      /\ CheckpointsTellThePast
  BY PastStays DEF RInvReplay
<1>2. CheckpointsTellThePast'
  BY <1>1 DEF CheckpointsTellThePast
<1>3. /\ replica.seq \in 0 .. worldSeq /\ replica = past[replica.seq + 1]
  BY DEF RInvReplay, ReplayYieldsThePast
<1>4. ASSUME NEW n \in 0 .. worldSeq, replica' = past[n + 1], ~failed'
      PROVE  RInvReplay'
  <2>1. replica'.seq = n
    BY <1>1, <1>4 DEF Recorded
  <2>2. Len(past) = worldSeq + 1 /\ past[worldSeq + 1] = Live
    BY <1>1 DEF Recorded
  <2>3. ReplayYieldsThePast'
    BY <1>1, <1>4, <2>1, <2>2 DEF ReplayYieldsThePast
  <2> QED
    BY <1>1, <1>2, <1>4, <2>3 DEF RInvReplay
<1>5. CASE UNCHANGED <<replica, failed>>
  BY <1>1, <1>3, <1>4, <1>5
<1>6. CASE ReplayEvent
  <2> DEFINE n == replica.seq + 1
  <2>1. n \in 1 .. worldSeq /\ replica = past[n]
    BY <1>1, <1>3, <1>6 DEF ReplayEvent
  <2>2. /\ Accepts(replica, ledger[n], payloads[n])
        /\ Reduced(replica, ledger[n], payloads[n]) = past[n + 1]
        /\ WellFormed(past[n + 1])
    BY <1>1, <2>1 DEF Recorded
  <2>3. replica' = past[n + 1] /\ ~failed'
    BY <1>1, <1>6, <2>2 DEF ReplayEvent
  <2> QED
    BY <1>4, <2>1, <2>3
<1>7. CASE ReplayFromSeed
  <2>1. replica' = past[0 + 1] /\ ~failed'
    BY <1>1, <1>7 DEF ReplayFromSeed, Recorded
  <2> QED
    BY <1>1, <1>4, <2>1
<1>8. ASSUME NEW c \in checkpoints, ReplayFromCheckpoint(c) PROVE RInvReplay'
  <2>1. c.seq \in 0 .. worldSeq /\ c.snapshot = past[c.seq + 1]
    BY <1>1, <1>8 DEF ReplayFromCheckpoint, CheckpointsTellThePast
  <2>2. c.snapshot.seq = c.seq /\ WellFormed(c.snapshot)
    BY <1>1, <2>1 DEF Recorded
  <2>3. replica' = past[c.seq + 1] /\ ~failed'
    BY <1>8, <2>1, <2>2 DEF ReplayFromCheckpoint
  <2> QED
    BY <1>4, <2>1, <2>3
<1> QED
  BY <1>5, <1>6, <1>7, <1>8

\* Only a replica or a summary is saved, and at a free position.
LEMMA CheckpointRInv ==
  ASSUME RInvReplay,
         \/ \E n \in 0 .. worldSeq : PersistWorldCheckpoint(n)
         \/ SaveProjection
         \/ \E c \in checkpoints : DeleteCheckpoint(c)
  PROVE  RInvReplay'
<1>1. UNCHANGED <<vars, payloads, replica, failed, past>>
  BY DEF PersistWorldCheckpoint, SaveProjection, DeleteCheckpoint
<1>2. /\ KInv' /\ Recorded' /\ worldSeq' = worldSeq /\ Live' = Live /\ worldSeq \in Nat
      /\ Recorded /\ CheckpointsTellThePast /\ ~failed /\ ReplayYieldsThePast
  BY <1>1, PastStays DEF RInvReplay
<1>3. ReplayYieldsThePast'
  BY <1>1, <1>2 DEF ReplayYieldsThePast
<1>4. ASSUME NEW row, checkpoints' = checkpoints \cup {row},
             \A c \in checkpoints : c.seq # row.seq, row.seq \in 0 .. worldSeq,
             row.kind = "residents" => row.snapshot = past[row.seq + 1],
             row.kind = "summary" => row.snapshot.time = past[row.seq + 1].time
      PROVE  CheckpointsTellThePast'
  BY <1>1, <1>2, <1>4 DEF CheckpointsTellThePast
<1>5. ASSUME NEW n \in 0 .. worldSeq, PersistWorldCheckpoint(n)
      PROVE  CheckpointsTellThePast'
  <2> DEFINE row == Row("summary", n, Summary(n))
  <2>1. /\ row.seq = n /\ row.kind = "summary" /\ row.snapshot.time = SummaryTime(n)
        /\ \A c \in checkpoints : c.seq # n
    BY <1>5 DEF PersistWorldCheckpoint, Row, Summary, Vacant
  <2>2. checkpoints' = checkpoints \cup {row}
    BY <1>5 DEF PersistWorldCheckpoint
  <2>3. SummaryTime(n) = past[n + 1].time
    BY <1>2 DEF Recorded
  <2> HIDE DEF row
  <2> QED
    BY <1>4, <2>1, <2>2, <2>3
<1>6. ASSUME SaveProjection PROVE CheckpointsTellThePast'
  <2> DEFINE row == Row("residents", replica.seq, replica)
  <2>1. /\ row.seq = replica.seq /\ row.kind = "residents" /\ row.snapshot = replica
        /\ \A c \in checkpoints : c.seq # replica.seq
    BY <1>6 DEF SaveProjection, Row, Vacant
  <2>2. checkpoints' = checkpoints \cup {row}
    BY <1>6 DEF SaveProjection
  <2>3. replica.seq \in 0 .. worldSeq /\ replica = past[replica.seq + 1]
    BY <1>2 DEF ReplayYieldsThePast
  <2> HIDE DEF row
  <2> QED
    BY <1>4, <2>1, <2>2, <2>3
<1>7. ASSUME NEW c \in checkpoints, DeleteCheckpoint(c)
      PROVE  CheckpointsTellThePast'
  <2>1. checkpoints' \subseteq checkpoints
    BY <1>7 DEF DeleteCheckpoint
  <2> QED
    BY <1>1, <1>2, <2>1 DEF CheckpointsTellThePast
<1>8. CheckpointsTellThePast'
  BY <1>5, <1>6, <1>7
<1> QED
  BY <1>1, <1>2, <1>3, <1>8 DEF RInvReplay

\* Every step of the world, its replayers and its checkpoint writers keeps the invariant.
LEMMA ReplayNextRInv == RInvReplay /\ [ReplayNext]_replayVars => RInvReplay'
<1> SUFFICES ASSUME RInvReplay, [ReplayNext]_replayVars PROVE RInvReplay'
  OBVIOUS
<1>1. CASE KernelStep
  BY <1>1, KernelStepRInv
<1>2. CASE \/ ReplayEvent \/ ReplayFromSeed
           \/ \E c \in checkpoints : ReplayFromCheckpoint(c)
  <2>1. UNCHANGED <<vars, payloads, checkpoints, past>>
    BY <1>2 DEF ReplayEvent, ReplayFromSeed, ReplayFromCheckpoint
  <2> QED
    BY <1>2, <2>1, ReplayerRInv
<1>3. CASE \/ \E n \in 0 .. worldSeq : PersistWorldCheckpoint(n)
           \/ SaveProjection
           \/ \E c \in checkpoints : DeleteCheckpoint(c)
  BY <1>3, CheckpointRInv
<1>4. CASE UNCHANGED replayVars
  <2>1. UNCHANGED <<vars, payloads, checkpoints, past, replica, failed>>
    BY <1>4 DEF replayVars, rvars
  <2> QED
    BY <2>1, ReplayerRInv
<1> QED
  BY <1>1, <1>2, <1>3, <1>4 DEF ReplayNext

-----------------------------------------------------------------------------
(* The theorems *)

(***************************************************************************)
(* Replays and snapshots only read: whatever a replayer does beside it,    *)
(* the kernel behaves as WorldKernel says, so every theorem about Spec     *)
(* holds of the replayed world too.                                        *)
(***************************************************************************)
THEOREM ReplaysLeaveTheKernelAlone == ReplaySpec => Spec
<1>1. ReplayInit => Init
  BY DEF ReplayInit
<1>2. [ReplayNext]_replayVars => [Next]_vars
  BY DEF ReplayNext, replayVars, KernelStep, ReplayEvent, ReplayFromSeed,
         ReplayFromCheckpoint, PersistWorldCheckpoint, SaveProjection, DeleteCheckpoint
<1> QED
  BY <1>1, <1>2, PTL DEF ReplaySpec, Spec

(***************************************************************************)
(* ReplayYieldsThePast for every instance: m3-domain-replay.ts, cut off    *)
(* after any event and started from the seed or from any resident          *)
(* checkpoint, holds the rows of that moment.                              *)
(***************************************************************************)
THEOREM ReplaysYieldThePast == ReplaySpec => []ReplayYieldsThePast
<1>1. RInvReplay => ReplayYieldsThePast
  BY DEF RInvReplay
<1> QED
  BY <1>1, InitRecorded, ReplayNextRInv, PTL DEF ReplaySpec

(***************************************************************************)
(* ReplayEquivalence for every instance: no committed history makes the    *)
(* reducer throw, and a replay of all of it is the live projection.        *)
(***************************************************************************)
THEOREM ReplaysAreEquivalent == ReplaySpec => []ReplayEquivalence
<1>1. RInvReplay => ReplayEquivalence
  BY DEF RInvReplay, ReplayEquivalence, ReplayYieldsThePast
<1> QED
  BY <1>1, InitRecorded, ReplayNextRInv, PTL DEF ReplaySpec

(***************************************************************************)
(* CheckpointsTellThePast for every instance: no checkpoint is ahead of    *)
(* the world or beside another, and each, however its replayer started,    *)
(* tells the world at its position.                                        *)
(***************************************************************************)
THEOREM CheckpointsTellTheTruth == ReplaySpec => []CheckpointsTellThePast
<1>1. RInvReplay => CheckpointsTellThePast
  BY DEF RInvReplay
<1> QED
  BY <1>1, InitRecorded, ReplayNextRInv, PTL DEF ReplaySpec

\* world-replay.ts takes a recorded history event by event, if it knows them all.
LEMMA HandledEventsApply ==
  ASSUME RInvReplay, NEW i \in 1 .. worldSeq, HandledByWorldReplay(ledger[i])
  PROVE  AppliesToSummary(i)
<1>1. /\ Accepts(past[i], ledger[i], payloads[i])
      /\ DueAfterStart(ledger[i], payloads[i])
      /\ SummaryTime(i - 1) = past[(i - 1) + 1].time /\ (i - 1) + 1 = i
  BY DEF RInvReplay, KInv, IInv, TypeOK, worldSeq, Recorded
<1>2. ledger[i].type = "WORLD_TIME_ADVANCED" =>
        payloads[i].from = past[i].time /\ ledger[i].at >= past[i].time
  BY <1>1 DEF Accepts
<1>3. ledger[i].type = "STARTED" => payloads[i].started = ledger[i].at
  BY <1>1 DEF Accepts, AcceptsStart
<1> QED
  BY <1>1, <1>2, <1>3 DEF AppliesToSummary, DueAfterStart

(***************************************************************************)
(* HandledHistoryReplays for every instance: clock, MOVE and SLEEP events, *)
(* interleaved as the kernel may commit them, always replay, and to the    *)
(* world time of the prefix replayed.                                      *)
(***************************************************************************)
THEOREM HandledHistoriesReplay == ReplaySpec => []HandledHistoryReplays
<1>1. RInvReplay => HandledHistoryReplays
  <2> SUFFICES ASSUME RInvReplay, NEW n \in 0 .. worldSeq,
                      \A i \in 1 .. n : HandledByWorldReplay(ledger[i])
               PROVE  SummaryReplays(n) /\ SummaryTime(n) = past[n + 1].time
    BY DEF HandledHistoryReplays
  <2>1. 1 .. n \subseteq 1 .. worldSeq
    BY DEF RInvReplay, KInv, IInv, TypeOK, worldSeq
  <2> QED
    BY <2>1, HandledEventsApply DEF SummaryReplays, RInvReplay, Recorded
<1> QED
  BY <1>1, InitRecorded, ReplayNextRInv, PTL DEF ReplaySpec

=============================================================================
