-------------------------- MODULE WorldKernel_proofs --------------------------
(***************************************************************************)
(* Theorems about WorldKernel for every population, street, calendar and   *)
(* pool of requests that satisfies its assumptions.                        *)
(***************************************************************************)
EXTENDS WorldKernel, TLAPS

-----------------------------------------------------------------------------
(* Operators *)

\* A boundary strictly after every time of the calendar exists and is chosen.
LEMMA NextShiftLater ==
  ASSUME NEW t \in Times
  PROVE  NextShift(t) \in ShiftStarts /\ NextShift(t) \in Nat /\ NextShift(t) > t
<1> DEFINE P(s) == s > t /\ \A u \in ShiftStarts : u > t => s <= u
<1>1. \E s \in ShiftStarts : P(s)
  BY CalendarAssumption
<1>2. NextShift(t) = CHOOSE s \in ShiftStarts : P(s)
  BY DEF NextShift
<1>3. NextShift(t) \in ShiftStarts /\ P(NextShift(t))
  <2> HIDE DEF P
  <2> QED BY <1>1, <1>2
<1> QED
  BY <1>3, CalendarAssumption

\* What an activity of a request is called and whom it takes.
LEMMA RequestFacts ==
  ASSUME NEW r \in Requests
  PROVE  /\ r # None /\ r.actor \in Residents
         /\ r.type \in ActionTypes
         /\ r.actor \in Parties(r) /\ Parties(r) \subseteq Residents
         /\ \A x \in Parties(r) : Partner(r, x) \in Residents \cup {None}
         /\ r.type # "TALK" => Parties(r) = {r.actor}
BY RequestAssumption, NoneAssumption DEF Parties, Partner, ActionTypes

\* Activities are named, and none is called IDLE.
LEMMA ActivityFacts ==
  ASSUME NEW type \in ActionTypes
  PROVE  /\ ActivityOf(type) # "IDLE"
         /\ ActivityOf(type) \in {ActivityOf(u) : u \in ActionTypes}
BY DEF ActionTypes, ActivityOf

\* The free task is a well-formed task.
LEMMA IdleIsTask == Idle \in Tasks
BY NoneAssumption DEF Idle, Tasks

\* Every activity takes a positive whole number of time units.
LEMMA DurationFacts ==
  ASSUME TypeOK, NEW r \in Requests
  PROVE  /\ Duration(r) \in Nat \ {0}
         /\ r.type = "EAT"  => Duration(r) = EatTime
         /\ r.type = "WORK" => Duration(r) = ShiftTime
         /\ r.type = "TALK" => Duration(r) = TalkTime
<1>1. r.actor \in Residents /\ runtime[r.actor].loc \in Locations
  BY RequestFacts DEF TypeOK, RuntimeRows
<1>2. r.type \in ActionTypes /\ (r.type = "MOVE" => r.arg \in Locations)
  BY RequestAssumption
<1>3. r.type = "MOVE" => Duration(r) = TravelTime[runtime[r.actor].loc][r.arg]
  BY Zenon DEF Duration
<1>4. r.type = "SLEEP" => Duration(r) = SleepTime
  BY Zenon DEF Duration
<1>5. r.type = "EAT" => Duration(r) = EatTime
  BY Zenon DEF Duration
<1>6. r.type = "WORK" => Duration(r) = ShiftTime
  BY Zenon DEF Duration
<1>7. r.type = "TALK" => Duration(r) = TalkTime
  BY Zenon DEF Duration
<1> QED
  BY <1>1, <1>2, <1>3, <1>4, <1>5, <1>6, <1>7, PlaceAssumption, TimeAssumption
  DEF ActionTypes

\* A request is only started in a running world, with every party free.
LEMMA CommittedDecision ==
  ASSUME NEW r \in Requests, NEW rv, Decision(r, rv) = "COMMITTED"
  PROVE  /\ status = "RUNNING"
         /\ Possible(r) /\ PartiesIdle(r)
         /\ r.type = "TALK" => r.arg # r.actor
         /\ r.type = "WORK" => ShiftOpen(r.actor)
BY DEF Decision

\* A completion is only executed for the actor's own, due activity.
LEMMA ExecutedCompletion ==
  ASSUME NEW r, NEW v, CompletionDisposition(r, v) = "EXECUTED"
  PROVE  /\ r \in requests /\ outcomes[r].status = "COMMITTED"
         /\ ~IsIdle(r.actor) /\ Belongs(r) /\ Rederivable(r)
         /\ status = "RUNNING" /\ DueReached(r)
BY DEF CompletionDisposition

-----------------------------------------------------------------------------
(* Type correctness and intact activities *)

\* The inductive invariant: the typing needs intact activities, and they need it.
IInv == TypeOK /\ TasksIntact

\* An activity whose parties' rows a step leaves alone stays intact.
LEMMA OtherTasksStay ==
  ASSUME NEW x \in Residents, TaskIntact(x), runtime[x].task # Idle,
         requests \in SUBSET Requests,
         runtime[x].task.inst \in requests',
         outcomes'[runtime[x].task.inst].status = "COMMITTED",
         \A y \in Parties(runtime[x].task.inst) : runtime'[y] = runtime[y]
  PROVE  TaskIntact(x)'
<1> DEFINE q == runtime[x].task.inst
<1>1. q \in requests /\ x \in Parties(q)
  BY DEF TaskIntact
<1>2. q.actor \in Parties(q) /\ (q.type = "TALK" => q.arg \in Parties(q))
  BY <1>1, RequestFacts DEF Parties
<1>3. runtime'[x] = runtime[x]
  BY <1>1
<1>4. \A y \in Parties(q) : Half(q, y)'
  BY <1>2 DEF TaskIntact, Half
<1>5. Rederivable(q)'
  BY <1>2 DEF TaskIntact, Rederivable, PairIntact
<1>6. /\ runtime'[q.actor].task.due > runtime'[q.actor].task.started
      /\ q.type = "MOVE" => runtime'[q.actor].task.target = q.arg
  BY <1>2 DEF TaskIntact
<1> QED
  BY <1>1, <1>3, <1>4, <1>5, <1>6 DEF TaskIntact

\* Steps that change no runtime row keep every activity intact.
LEMMA QuietStep ==
  ASSUME TypeOK, TasksIntact, UNCHANGED runtime, requests \subseteq requests',
         \A r \in requests : outcomes[r].status = "COMMITTED"
                               => outcomes'[r].status = "COMMITTED"
  PROVE  TasksIntact'
<1> SUFFICES ASSUME NEW x \in Residents PROVE TaskIntact(x)'
  BY DEF TasksIntact
<1>1. CASE runtime[x].task = Idle
  BY <1>1 DEF TaskIntact
<1>2. CASE runtime[x].task # Idle
  <2>1. TaskIntact(x) /\ requests \in SUBSET Requests
    BY DEF TasksIntact, TypeOK
  <2> QED
    BY <1>2, <2>1, OtherTasksStay DEF TaskIntact
<1> QED
  BY <1>1, <1>2

\* No two activities in progress share a resident.
LEMMA DisjointParties ==
  ASSUME TypeOK, TasksIntact, NEW x \in Residents, runtime[x].task # Idle,
         NEW y \in Parties(runtime[x].task.inst)
  PROVE  /\ y \in Residents
         /\ runtime[y].task.inst = runtime[x].task.inst
         /\ runtime[y].task.act # "IDLE"
<1>1. TaskIntact(x)
  BY DEF TasksIntact
<1>2. runtime[x].task.inst \in Requests /\ Half(runtime[x].task.inst, y)
  BY <1>1 DEF TaskIntact, TypeOK
<1> QED
  BY <1>2, RequestFacts, ActivityFacts DEF Half

-----------------------------------------------------------------------------
(* Typing of what the steps write *)

\* The wakes a commit registers are well-formed rows.
LEMMA WakeTypes ==
  ASSUME TypeOK, NEW x \in Residents, NEW loc \in Locations,
         NEW version \in Nat, NEW seq \in Nat
  PROVE  /\ BoundaryWake(x, version, seq) \in SUBSET WakeRows
         /\ PreparationWake(x, loc, version, seq) \in SUBSET WakeRows
<1>1. NextShift(worldTime) \in ShiftStarts /\ NextShift(worldTime) \in Nat
  BY NextShiftLater DEF TypeOK
<1>2. BoundaryWake(x, version, seq) \in SUBSET WakeRows
  BY <1>1 DEF BoundaryWake, Wake, WakeRows
<1>3. CASE Workplace[x] = None \/ loc = Workplace[x]
  BY <1>2, <1>3 DEF PreparationWake
<1>4. CASE ~(Workplace[x] = None \/ loc = Workplace[x])
  <2>1. Workplace[x] \in Locations
    BY <1>4, PlaceAssumption
  <2>2. TravelTime[loc][Workplace[x]] \in Nat
    BY <2>1, PlaceAssumption
  <2> QED
    BY <1>1, <1>2, <1>4, <2>2 DEF PreparationWake, Wake, WakeRows
<1> QED
  BY <1>3, <1>4

\* Refreshing rows by their dedupe key keeps the wake table well-formed.
LEMMA UpsertTypes ==
  ASSUME NEW rows \in SUBSET WakeRows, NEW new \in SUBSET WakeRows
  PROVE  Upsert(rows, new) \in SUBSET WakeRows
BY DEF Upsert

\* Appending a well-formed event keeps the ledger well-formed.
LEMMA CommitTypes ==
  ASSUME TypeOK, NEW type \in EventTypes, NEW r \in Requests \cup {None},
         NEW at \in Times, NEW f \in 0 .. lease, Commit(type, r, at, f)
  PROVE  ledger' \in Seq(LedgerEvents) /\ worldSeq' = worldSeq + 1
<1>1. Event(type, r, at, f) \in LedgerEvents
  BY TimeAssumption DEF TypeOK, Event, LedgerEvents
<1> QED
  BY <1>1 DEF TypeOK, Commit, worldSeq

\* A stamped row differs from the row in task, version and seq only.
LEMMA StampedFacts ==
  ASSUME TypeOK, NEW row \in RuntimeRows, NEW task \in Tasks
  PROVE  /\ Stamped(row, task) \in RuntimeRows
         /\ Stamped(row, task).task = task
         /\ Stamped(row, task).loc = row.loc
         /\ Stamped(row, task).shifts = row.shifts
         /\ Stamped(row, task).version = row.version + 1
         /\ Stamped(row, task).seq = worldSeq + 1
<1> DEFINE one == [row EXCEPT !.task = task]
           two == [one EXCEPT !.version = @ + 1]
           three == [two EXCEPT !.seq = worldSeq + 1]
<1>1. one \in RuntimeRows /\ one.task = task /\ one.loc = row.loc
      /\ one.shifts = row.shifts /\ one.version = row.version
  BY DEF RuntimeRows
<1> HIDE DEF one
<1>2. two \in RuntimeRows /\ two.task = task /\ two.loc = row.loc
      /\ two.shifts = row.shifts /\ two.version = row.version + 1
  BY <1>1 DEF RuntimeRows
<1> HIDE DEF two
<1>3. worldSeq + 1 \in Nat
  BY DEF TypeOK, worldSeq
<1>4. three \in RuntimeRows /\ three.task = task /\ three.loc = row.loc
      /\ three.shifts = row.shifts /\ three.version = row.version + 1
      /\ three.seq = worldSeq + 1
  BY <1>2, <1>3 DEF RuntimeRows
<1>5. Stamped(row, task) = three
  BY DEF Stamped, one, two
<1> QED
  BY <1>4, <1>5

\* The task a start writes is well-formed.
LEMMA StartedTaskTypes ==
  ASSUME TypeOK, NEW r \in Requests, NEW x \in Parties(r)
  PROVE  StartedTask(r, x) \in Tasks
<1>1. worldTime \in Times /\ worldTime + Duration(r) \in Nat
  BY DurationFacts, TimeAssumption DEF Times, TypeOK
<1>2. r.type = "MOVE" => r.arg \in Locations
  BY RequestAssumption
<1> QED
  BY <1>1, <1>2, RequestFacts, ActivityFacts DEF StartedTask, Tasks

\* The columns of the task a start writes, one by one.
LEMMA StartedTaskFields ==
  ASSUME NEW r, NEW x
  PROVE  /\ StartedTask(r, x).act = ActivityOf(r.type)
         /\ StartedTask(r, x).inst = r
         /\ StartedTask(r, x).with = Partner(r, x)
         /\ StartedTask(r, x).started = worldTime
         /\ StartedTask(r, x).due = worldTime + Duration(r)
         /\ StartedTask(r, x).target = IF r.type = "MOVE" THEN r.arg ELSE None
BY DEF StartedTask

\* The row a completion leaves behind is well-formed.
LEMMA EffectTypes ==
  ASSUME TypeOK, NEW r \in Requests, NEW x \in Parties(r), Rederivable(r),
         r.type = "MOVE" => runtime[r.actor].task.target = r.arg
  PROVE  Effect(r, x) \in RuntimeRows
<1> DEFINE row == runtime[x]
           one == [row EXCEPT !.loc = IF r.type = "MOVE" THEN row.task.target ELSE @]
           two == [one EXCEPT !.lastAte = IF r.type = "EAT" THEN worldTime ELSE @]
           three == [two EXCEPT !.lastSocial = IF r.type = "TALK" THEN worldTime ELSE @]
           four == [three EXCEPT !.shifts = IF r.type = "WORK"
                                            THEN @ \cup {row.task.started} ELSE @]
<1>1. x \in Residents /\ row \in RuntimeRows /\ worldTime \in Times
  BY RequestFacts DEF TypeOK
<1>2. r.type = "MOVE" => row.task.target \in Locations
  BY RequestFacts, RequestAssumption
<1>3. r.type = "WORK" => row.task.started \in ShiftStarts
  BY RequestFacts DEF Rederivable
<1>4. one \in RuntimeRows
  BY <1>1, <1>2 DEF RuntimeRows
<1> HIDE DEF one
<1>5. two \in RuntimeRows
  BY <1>1, <1>4 DEF RuntimeRows
<1> HIDE DEF two
<1>6. three \in RuntimeRows
  BY <1>1, <1>5 DEF RuntimeRows
<1> HIDE DEF three
<1>7. four \in RuntimeRows
  BY <1>3, <1>6 DEF RuntimeRows
<1>8. Effect(r, x) = four
  BY DEF Effect, one, two, three
<1> QED
  BY <1>7, <1>8

-----------------------------------------------------------------------------
(* Every action preserves types and intact activities *)

\* A free resident's row says so in its activity column.
LEMMA FreeIsIdle ==
  ASSUME TypeOK, TasksIntact, NEW x \in Residents
  PROVE  IsIdle(x) <=> runtime[x].task = Idle
<1>1. CASE runtime[x].task = Idle
  BY <1>1 DEF IsIdle, Idle
<1>2. CASE runtime[x].task # Idle
  <2>1. x \in Parties(runtime[x].task.inst)
    BY <1>2 DEF TasksIntact, TaskIntact
  <2> QED
    BY <1>2, <2>1, DisjointParties DEF IsIdle
<1> QED
  BY <1>1, <1>2

\* Start keeps every table well-formed: the food it debits was in stock.
LEMMA StartTypes ==
  ASSUME IInv, NEW r \in Requests, NEW f \in 0 .. lease, NEW rv, Start(r, f, rv)
  PROVE  TypeOK'
<1> USE DEF IInv
<1>1. ledger' \in Seq(LedgerEvents)
  BY CommitTypes DEF Start, TypeOK, EventTypes
<1>2. requests' \in SUBSET Requests
  BY DEF Start, TypeOK
<1>3. outcomes' \in [Requests ->
        [status : {"NONE", "COMMITTED", "REJECTED", "CONFLICT"}, refs : Seq(Nat)]]
  <2>1. worldSeq + 1 \in Nat
    BY DEF TypeOK, worldSeq
  <2>2. <<worldSeq + 1>> \in Seq(Nat)
    BY <2>1
  <2> QED
    BY <2>2 DEF Start, TypeOK
<1>4. runtime' \in [Residents -> RuntimeRows]
  <2>1. \A x \in Parties(r) : StartedRow(r, x) \in RuntimeRows
    BY StartedTaskTypes, StampedFacts, RequestFacts DEF StartedRow, TypeOK
  <2> QED
    BY <2>1 DEF Start, TypeOK
<1>5. food' \in [Residents -> [units : Nat, version : Nat]]
  <2>1. CASE r.type # "EAT"
    BY <2>1 DEF Start, FoodAfterStart, TypeOK
  <2>2. CASE r.type = "EAT"
    <3>1. r.quantity \in Nat /\ food[r.actor].units >= r.quantity
      BY <2>2, CommittedDecision, RequestAssumption DEF Start, Possible, InStock
    <3>2. food' = [food EXCEPT ![r.actor].units = @ - r.quantity,
                               ![r.actor].version = @ + 1]
      BY <2>2 DEF Start, FoodAfterStart
    <3>3. r.actor \in Residents
      BY RequestFacts
    <3> QED
      BY <3>1, <3>2, <3>3 DEF TypeOK
  <2> QED
    BY <2>1, <2>2
<1>6. wakes' \in SUBSET WakeRows
  <2>1. runtime[r.actor].version + 1 \in Nat /\ worldSeq + 1 \in Nat
        /\ runtime[r.actor].loc \in Locations
    BY RequestFacts DEF TypeOK, RuntimeRows, worldSeq
  <2>2. BoundaryWake(r.actor, runtime[r.actor].version + 1, worldSeq + 1) \in SUBSET WakeRows
    BY <2>1, WakeTypes, RequestFacts
  <2> QED
    BY <2>2, UpsertTypes DEF Start, WakesAfterStart, TypeOK
<1> QED
  BY <1>1, <1>2, <1>3, <1>4, <1>5, <1>6 DEF Start, TypeOK

\* Start takes free residents only, so every activity stays intact.
LEMMA StartTasks ==
  ASSUME IInv, NEW r \in Requests, NEW f \in 0 .. lease, NEW rv, Start(r, f, rv)
  PROVE  TasksIntact'
<1> USE DEF IInv
<1> SUFFICES ASSUME NEW x \in Residents PROVE TaskIntact(x)'
  BY DEF TasksIntact
<1>1. /\ outcomes[r].status = "NONE" /\ outcomes'[r].status = "COMMITTED"
      /\ requests' = requests \cup {r}
      /\ \A q \in Requests \ {r} : outcomes'[q] = outcomes[q]
      /\ \A y \in Residents : runtime'[y] = IF y \in Parties(r) THEN StartedRow(r, y)
                                            ELSE runtime[y]
  BY DEF Start, Executable, TypeOK
<1>2. CASE x \in Parties(r)
  <2>1. \A y \in Parties(r) :
          /\ runtime'[y].task = StartedTask(r, y)
          /\ runtime'[y].loc = runtime[y].loc /\ runtime'[y].shifts = runtime[y].shifts
    BY <1>1, StartedTaskTypes, StampedFacts, RequestFacts DEF StartedRow, TypeOK
  <2>2. r.actor \in Parties(r) /\ (r.type = "TALK" => r.arg \in Parties(r))
    BY RequestFacts DEF Parties
  <2>3. \A y \in Parties(r) : runtime[y].loc = runtime[r.actor].loc
    BY CommittedDecision, RequestFacts DEF Start, Possible, Parties
  <2>4. \A y \in Parties(r) : Half(r, y)'
    BY <2>1, <2>2, <2>3, StartedTaskFields DEF Half
  <2>5. runtime'[r.actor].task.started = worldTime
        /\ runtime'[r.actor].task.due = worldTime + Duration(r)
    BY <2>1, <2>2, StartedTaskFields
  <2>6. Duration(r) \in Nat \ {0} /\ worldTime \in Nat
    BY DurationFacts, TimeAssumption DEF TypeOK, Times
  <2>7. r.type = "MOVE" => runtime'[r.actor].task.target = r.arg
    BY <2>1, <2>2, StartedTaskFields
  <2>8. Rederivable(r)'
    <3>1. r.type = "TALK" => PairIntact(r)'
      <4> SUFFICES ASSUME r.type = "TALK" PROVE PairIntact(r)'
        OBVIOUS
      <4>1. r.arg # r.actor
        BY CommittedDecision DEF Start
      <4>2. Partner(r, r.actor) = r.arg /\ Partner(r, r.arg) = r.actor
        BY <4>1 DEF Partner
      <4>3. Half(r, r.arg)' /\ Half(r, r.actor)' /\ ActivityOf(r.type) = "TALKING"
        BY <2>2, <2>4, Zenon DEF ActivityOf
      <4>4. runtime'[r.arg].task.target = None
        BY <2>1, <2>2, StartedTaskFields
      <4> QED
        BY <4>2, <4>3, <4>4 DEF Half, PairIntact
    <3>2. r.type = "WORK" => /\ runtime[r.actor].loc = r.arg /\ Workplace[r.actor] = r.arg
                             /\ worldTime \in ShiftStarts
                             /\ worldTime \notin runtime[r.actor].shifts
      BY CommittedDecision DEF Start, Possible, ShiftOpen
    <3> QED
      BY <2>1, <2>2, <2>5, <3>1, <3>2, DurationFacts DEF Rederivable
  <2> QED
    BY <1>1, <1>2, <2>4, <2>5, <2>6, <2>7, <2>8 DEF TaskIntact, Half
<1>3. CASE x \notin Parties(r)
  <2>1. runtime'[x] = runtime[x] /\ TaskIntact(x)
    BY <1>1, <1>3 DEF TasksIntact
  <2>2. CASE runtime[x].task = Idle
    BY <2>1, <2>2 DEF TaskIntact
  <2>3. CASE runtime[x].task # Idle
    <3> DEFINE q == runtime[x].task.inst
    <3>1. q \in requests /\ q \in Requests /\ q # r /\ outcomes[q].status = "COMMITTED"
      BY <1>1, <2>1, <2>3 DEF TaskIntact, TypeOK
    <3>2. \A y \in Parties(q) : y \notin Parties(r)
      BY <2>3, DisjointParties, CommittedDecision DEF Start, PartiesIdle, IsIdle
    <3>3. \A y \in Parties(q) : runtime'[y] = runtime[y]
      BY <1>1, <3>1, <3>2, RequestFacts
    <3> QED
      BY <1>1, <2>1, <2>3, <3>1, <3>3, OtherTasksStay DEF TypeOK
  <2> QED
    BY <2>2, <2>3
<1> QED
  BY <1>2, <1>3

\* The request being completed holds all of its parties.
LEMMA CompletedActivity ==
  ASSUME IInv, NEW r \in requests, NEW v, CompletionDisposition(r, v) = "EXECUTED"
  PROVE  /\ r \in Requests /\ outcomes[r].status = "COMMITTED"
         /\ \A y \in Parties(r) : y \in Residents /\ Half(r, y)
         /\ r.type = "MOVE" => runtime[r.actor].task.target = r.arg
         /\ Rederivable(r)
<1> USE DEF IInv
<1>1. r \in Requests /\ r.actor \in Residents /\ Parties(r) \subseteq Residents
  BY RequestFacts DEF TypeOK
<1>2. TaskIntact(r.actor) /\ runtime[r.actor].task # Idle
  BY <1>1, ExecutedCompletion, FreeIsIdle DEF TasksIntact
<1>3. runtime[r.actor].task.inst = r
  BY ExecutedCompletion DEF Belongs
<1> QED
  BY <1>1, <1>2, <1>3, ExecutedCompletion DEF TaskIntact

\* Complete keeps every table well-formed.
LEMMA CompleteTypes ==
  ASSUME IInv, NEW r \in requests, NEW f \in 0 .. lease, NEW v, Complete(r, f, v)
  PROVE  TypeOK'
<1> USE DEF IInv
<1>1. r \in Requests /\ CompletionDisposition(r, v) = "EXECUTED"
  BY DEF Complete, TypeOK
<1>2. ledger' \in Seq(LedgerEvents)
  BY <1>1, CommitTypes DEF Complete, TypeOK, EventTypes
<1>3. outcomes' \in [Requests ->
        [status : {"NONE", "COMMITTED", "REJECTED", "CONFLICT"}, refs : Seq(Nat)]]
  <2>1. worldSeq + 1 \in Nat /\ outcomes[r].refs \in Seq(Nat)
    BY <1>1 DEF TypeOK, worldSeq
  <2>2. Append(outcomes[r].refs, worldSeq + 1) \in Seq(Nat)
    BY <2>1
  <2>3. outcomes' = [outcomes EXCEPT ![r].refs = Append(@, worldSeq + 1)]
    BY DEF Complete
  <2> QED
    BY <1>1, <2>2, <2>3 DEF TypeOK
<1>4. runtime' \in [Residents -> RuntimeRows]
  <2>1. \A x \in Parties(r) : CompletedRow(r, x) \in RuntimeRows
    BY <1>1, CompletedActivity, EffectTypes, IdleIsTask, StampedFacts DEF CompletedRow
  <2> QED
    BY <2>1 DEF Complete, TypeOK
<1>5. wakes' \in SUBSET WakeRows
  <2>1. runtime[r.actor].version + 1 \in Nat /\ worldSeq + 1 \in Nat
        /\ r.actor \in Residents
    BY <1>1, RequestFacts DEF TypeOK, RuntimeRows, worldSeq
  <2>2. r.type = "MOVE" => runtime[r.actor].task.target \in Locations
    BY <1>1, CompletedActivity, RequestAssumption
  <2>5. runtime[r.actor].loc \in Locations
    BY <2>1 DEF TypeOK, RuntimeRows
  <2>3. BoundaryWake(r.actor, runtime[r.actor].version + 1, worldSeq + 1) \in SUBSET WakeRows
    BY <2>1, <2>5, WakeTypes
  <2>4. r.type = "MOVE" =>
          PreparationWake(r.actor, runtime[r.actor].task.target,
                          runtime[r.actor].version + 1, worldSeq + 1) \in SUBSET WakeRows
    BY <2>1, <2>2, WakeTypes
  <2> QED
    BY <2>3, <2>4, UpsertTypes DEF Complete, WakesAfterCompletion, TypeOK
<1> QED
  BY <1>2, <1>3, <1>4, <1>5 DEF Complete, TypeOK

\* Complete frees exactly the parties of one activity and touches no other.
LEMMA CompleteTasks ==
  ASSUME IInv, NEW r \in requests, NEW f \in 0 .. lease, NEW v, Complete(r, f, v)
  PROVE  TasksIntact'
<1> USE DEF IInv
<1> SUFFICES ASSUME NEW x \in Residents PROVE TaskIntact(x)'
  BY DEF TasksIntact
<1>1. /\ r \in Requests /\ CompletionDisposition(r, v) = "EXECUTED"
      /\ requests' = requests
      /\ \A q \in Requests : outcomes'[q].status = outcomes[q].status
      /\ \A y \in Residents : runtime'[y] = IF y \in Parties(r) THEN CompletedRow(r, y)
                                            ELSE runtime[y]
  BY DEF Complete, TypeOK
<1>2. CASE x \in Parties(r)
  <2>1. Effect(r, x) \in RuntimeRows
    BY <1>1, <1>2, CompletedActivity, EffectTypes
  <2>2. CompletedRow(r, x).task = Idle
    BY <2>1, IdleIsTask, StampedFacts DEF CompletedRow
  <2> QED
    BY <1>1, <1>2, <2>2 DEF TaskIntact
<1>3. CASE x \notin Parties(r)
  <2>1. runtime'[x] = runtime[x] /\ TaskIntact(x)
    BY <1>1, <1>3 DEF TasksIntact
  <2>2. CASE runtime[x].task = Idle
    BY <2>1, <2>2 DEF TaskIntact
  <2>3. CASE runtime[x].task # Idle
    <3> DEFINE q == runtime[x].task.inst
    <3>1. q \in requests /\ q \in Requests /\ outcomes[q].status = "COMMITTED"
          /\ x \in Parties(q)
      BY <2>1, <2>3 DEF TaskIntact, TypeOK
    <3>2. \A y \in Parties(q) : y \notin Parties(r)
      <4> SUFFICES ASSUME NEW y \in Parties(q), y \in Parties(r) PROVE FALSE
        OBVIOUS
      <4>1. runtime[y].task.inst = q
        BY <2>3, DisjointParties
      <4>2. runtime[y].task.inst = r
        BY <1>1, CompletedActivity DEF Half
      <4> QED
        BY <1>3, <3>1, <4>1, <4>2
    <3>3. \A y \in Parties(q) : runtime'[y] = runtime[y]
      BY <1>1, <3>1, <3>2, RequestFacts
    <3> QED
      BY <1>1, <2>1, <2>3, <3>1, <3>3, OtherTasksStay DEF TypeOK
  <2> QED
    BY <2>2, <2>3
<1> QED
  BY <1>2, <1>3

-----------------------------------------------------------------------------
(* The remaining actions *)

\* Persisting or refusing a request changes no activity.
LEMMA RequestSteps ==
  ASSUME IInv, NEW r \in Requests,
         \/ PersistRequest(r)
         \/ \E f \in Fences, rv \in {None} \cup 0 .. food[r.actor].version : Refuse(r, f, rv)
  PROVE  IInv'
<1> USE DEF IInv
<1>1. CASE PersistRequest(r)
  <2>1. TypeOK'
    BY <1>1 DEF PersistRequest, TypeOK, WakeRows
  <2> QED
    BY <1>1, <2>1, QuietStep DEF PersistRequest
<1>2. ASSUME NEW f, NEW rv, Refuse(r, f, rv) PROVE IInv'
  <2>1. outcomes' = [outcomes EXCEPT ![r].status = Decision(r, rv)]
        /\ outcomes[r].status = "NONE" /\ requests' = requests \cup {r}
    BY <1>2 DEF Refuse, Executable
  <2>2. Decision(r, rv) \in {"COMMITTED", "REJECTED", "CONFLICT"}
    BY DEF Decision
  <2>3. TypeOK'
    BY <1>2, <2>1, <2>2 DEF Refuse, TypeOK, WakeRows
  <2>4. \A q \in requests : outcomes[q].status = "COMMITTED"
                              => outcomes'[q].status = "COMMITTED"
    BY <2>1 DEF TypeOK
  <2> QED
    BY <1>2, <2>1, <2>3, <2>4, QuietStep DEF Refuse
<1> QED
  BY <1>1, <1>2

\* The clock appends events of the new world time and changes no activity.
LEMMA ClockSteps ==
  ASSUME IInv,
         \/ \E t \in Times, f \in Fences : AdvanceWorldTimeTo(t, f)
         \/ \E t \in Times, s \in Statuses : UpdateClock(t, s)
  PROVE  IInv'
<1> USE DEF IInv
<1>1. ASSUME NEW t \in Times, NEW f \in Fences, AdvanceWorldTimeTo(t, f) PROVE IInv'
  <2>1. ledger' \in Seq(LedgerEvents)
    BY <1>1, CommitTypes DEF AdvanceWorldTimeTo, EventTypes, Fences
  <2> QED
    BY <1>1, <2>1, QuietStep DEF AdvanceWorldTimeTo, TypeOK, WakeRows
<1>2. ASSUME NEW t \in Times, NEW s \in Statuses, UpdateClock(t, s) PROVE IInv'
  <2>1. 0 \in 0 .. lease
    BY DEF TypeOK
  <2>2. ledger' \in Seq(LedgerEvents)
    BY <1>2, <2>1, CommitTypes DEF UpdateClock, EventTypes, TypeOK
  <2> QED
    BY <1>2, <2>2, QuietStep DEF UpdateClock, TypeOK, WakeRows
<1> QED
  BY <1>1, <1>2

\* Leases and wakes change no activity.
LEMMA LeaseAndWakeSteps ==
  ASSUME IInv,
         \/ AcquireLease
         \/ \E prepare \in BOOLEAN : RegisterNextWakes(prepare)
         \/ \E w \in wakes : AcknowledgeWake(w)
  PROVE  IInv'
<1> USE DEF IInv
<1>1. CASE AcquireLease
  <2>1. lease + 1 \in 0 .. MaxFence
    BY <1>1, TimeAssumption DEF AcquireLease, TypeOK
  <2> QED
    BY <1>1, <2>1, QuietStep DEF AcquireLease, TypeOK, WakeRows
<1>2. ASSUME NEW prepare \in BOOLEAN, RegisterNextWakes(prepare) PROVE IInv'
  <2> DEFINE New(x) == BoundaryWake(x, runtime[x].version, worldSeq) \cup
                (IF prepare
                 THEN PreparationWake(x, runtime[x].loc, runtime[x].version, worldSeq)
                 ELSE {})
  <2>1. \A x \in Residents : New(x) \in SUBSET WakeRows
    <3> SUFFICES ASSUME NEW x \in Residents PROVE New(x) \in SUBSET WakeRows
      OBVIOUS
    <3>1. runtime[x].version \in Nat /\ runtime[x].loc \in Locations /\ worldSeq \in Nat
      BY DEF TypeOK, RuntimeRows, worldSeq
    <3> QED
      BY <3>1, WakeTypes
  <2>2. wakes' = Upsert(wakes, UNION {New(x) : x \in Residents})
    BY <1>2 DEF RegisterNextWakes
  <2> HIDE DEF New
  <2>3. UNION {New(x) : x \in Residents} \in SUBSET WakeRows
    BY <2>1
  <2>4. wakes' \in SUBSET WakeRows
    BY <2>2, <2>3, UpsertTypes DEF TypeOK
  <2> QED
    BY <1>2, <2>4, QuietStep DEF RegisterNextWakes, TypeOK
<1>3. ASSUME NEW w \in wakes, AcknowledgeWake(w) PROVE IInv'
  BY <1>3, QuietStep DEF AcknowledgeWake, TypeOK
<1> QED
  BY <1>1, <1>2, <1>3

-----------------------------------------------------------------------------
(* Theorems *)

\* A seeded world is well-formed and everybody is free.
LEMMA InitInv == Init => IInv
<1> SUFFICES ASSUME Init PROVE IInv
  OBVIOUS
<1>1. 0 \in Times /\ 0 \in 0 .. MaxFence
  BY TimeAssumption DEF Times
<1>2. \A x \in Residents : Home[x] \in Locations
  BY PlaceAssumption
<1>3. TypeOK
  BY <1>1, <1>2, IdleIsTask, PlaceAssumption DEF Init, TypeOK, Statuses, RuntimeRows
<1>4. TasksIntact
  BY DEF Init, TasksIntact, TaskIntact
<1> QED
  BY <1>3, <1>4 DEF IInv

\* The invariant is inductive: every action keeps types and intact activities.
LEMMA NextInv == IInv /\ [Next]_vars => IInv'
<1> SUFFICES ASSUME IInv, [Next]_vars PROVE IInv'
  OBVIOUS
<1>1. ASSUME NEW r \in Requests, NEW f \in Fences, NEW rv, Start(r, f, rv) PROVE IInv'
  BY <1>1, StartTypes, StartTasks DEF IInv, Fences
<1>2. ASSUME NEW r \in requests, NEW f \in Fences, NEW v, Complete(r, f, v) PROVE IInv'
  BY <1>2, CompleteTypes, CompleteTasks DEF IInv, Fences
<1>3. CASE UNCHANGED vars
  <2>1. TypeOK'
    BY <1>3 DEF IInv, vars, TypeOK, WakeRows
  <2> QED
    BY <1>3, <2>1, QuietStep DEF IInv, vars
<1> QED
  BY <1>1, <1>2, <1>3, RequestSteps, ClockSteps, LeaseAndWakeSteps DEF Next

\* The tables keep their schemas, whatever the population, calendar and requests.
THEOREM TypeCorrect == Spec => []TypeOK
<1>1. IInv => TypeOK
  BY DEF IInv
<1> QED
  BY <1>1, InitInv, NextInv, PTL DEF Spec

\* Every activity in progress holds all parties of a committed request.
THEOREM ActivitiesIntact == Spec => []TasksIntact
<1>1. IInv => TasksIntact
  BY DEF IInv
<1> QED
  BY <1>1, InitInv, NextInv, PTL DEF Spec

\* No activity that was started is ever beyond completion.
THEOREM NoPoisonedActivity == Spec => []InProgressCompletable
<1>1. IInv => InProgressCompletable
  <2> SUFFICES ASSUME IInv, NEW x \in Residents, ~IsIdle(x),
                      NEW r, r = runtime[x].task.inst
               PROVE  /\ x \in Parties(r)
                      /\ CompletionDisposition(r, None) \in {"EXECUTED", "NOT_DUE", "REJECTED"}
    BY DEF InProgressCompletable
  <2>1. TaskIntact(x) /\ runtime[x].task # Idle
    BY FreeIsIdle DEF IInv, TasksIntact
  <2>2. /\ r \in requests /\ r \in Requests /\ outcomes[r].status = "COMMITTED"
        /\ x \in Parties(r) /\ Half(r, r.actor) /\ Rederivable(r)
    BY <2>1, RequestFacts DEF TaskIntact, IInv, TypeOK
  <2>3. Belongs(r) /\ ~IsIdle(r.actor)
    BY <2>2, RequestFacts, ActivityFacts DEF Half, Belongs, IsIdle
  <2> QED
    BY <2>2, <2>3 DEF CompletionDisposition, StateVersionHolds
<1> QED
  BY <1>1, InitInv, NextInv, PTL DEF Spec

-----------------------------------------------------------------------------
(* Ledger, leases and pauses *)

\* What one step may do to the ledger: nothing, or append one event at the new
\* world time by a holder of the lease (or without a fence).
LEMMA LedgerStep ==
  ASSUME IInv, [Next]_vars
  PROVE  /\ worldTime' >= worldTime
         /\ \/ ledger' = ledger /\ lease' >= lease
            \/ /\ \E type \in EventTypes, r \in Requests \cup {None}, f \in Fences :
                    Commit(type, r, worldTime', f) /\ FenceHolds(f)
               /\ lease' = lease
<1> USE DEF IInv
<1>0. worldTime \in Nat /\ worldTime' \in Nat /\ lease \in Nat /\ 0 \in Fences
  BY NextInv, TimeAssumption DEF TypeOK, Times, Fences
<1>1. CASE \E r \in Requests : PersistRequest(r)
  BY <1>0, <1>1 DEF PersistRequest
<1>2. ASSUME NEW r \in Requests, NEW f \in Fences, NEW rv, Start(r, f, rv)
      PROVE  Commit("STARTED", r, worldTime', f) /\ FenceHolds(f) /\ UNCHANGED <<worldTime, lease>>
  BY <1>2 DEF Start, Commit
<1>3. ASSUME NEW r \in Requests, NEW f \in Fences, NEW rv, Refuse(r, f, rv)
      PROVE  UNCHANGED <<ledger, worldTime, lease>>
  BY <1>3 DEF Refuse
<1>4. ASSUME NEW r \in requests, NEW f \in Fences, NEW v, Complete(r, f, v)
      PROVE  /\ Commit("COMPLETED", r, worldTime', f) /\ FenceHolds(f)
             /\ UNCHANGED <<worldTime, lease>> /\ r \in Requests
  BY <1>4 DEF Complete, Commit, TypeOK
<1>5. ASSUME NEW t \in Times, NEW f \in Fences, AdvanceWorldTimeTo(t, f)
      PROVE  /\ Commit("WORLD_TIME_ADVANCED", None, worldTime', f) /\ FenceHolds(f)
             /\ lease' = lease /\ worldTime' > worldTime
  BY <1>5 DEF AdvanceWorldTimeTo, Commit, CanAdvance
<1>6. ASSUME NEW t \in Times, NEW s \in Statuses, UpdateClock(t, s)
      PROVE  /\ worldTime' >= worldTime /\ lease' = lease /\ FenceHolds(0)
             /\ ledger' = ledger \/ Commit("WORLD_TIME_ADVANCED", None, worldTime', 0)
  BY <1>6 DEF UpdateClock, Commit, FenceHolds
<1>7. CASE AcquireLease
  BY <1>0, <1>7 DEF AcquireLease
<1>8. CASE \/ \E prepare \in BOOLEAN : RegisterNextWakes(prepare)
           \/ \E w \in wakes : AcknowledgeWake(w)
  <2>1. UNCHANGED <<worldTime, ledger, lease>>
    BY <1>8 DEF RegisterNextWakes, AcknowledgeWake
  <2> QED
    BY <1>0, <2>1
<1>9. CASE UNCHANGED vars
  BY <1>0, <1>9 DEF vars
<1>10. CASE \E r \in Requests, f \in Fences :
              \E rv \in {None} \cup 0 .. food[r.actor].version : Start(r, f, rv)
  BY <1>0, <1>2, <1>10 DEF EventTypes
<1>11. CASE \E r \in Requests, f \in Fences :
              \E rv \in {None} \cup 0 .. food[r.actor].version : Refuse(r, f, rv)
  BY <1>0, <1>3, <1>11
<1>12. CASE \E r \in requests, f \in Fences :
              \E v \in {None} \cup 0 .. runtime[r.actor].version : Complete(r, f, v)
  BY <1>0, <1>4, <1>12 DEF EventTypes
<1>13. CASE \E t \in Times, f \in Fences : AdvanceWorldTimeTo(t, f)
  BY <1>0, <1>5, <1>13 DEF EventTypes
<1>14. CASE \E t \in Times, s \in Statuses : UpdateClock(t, s)
  BY <1>0, <1>6, <1>14 DEF EventTypes
<1> QED
  BY <1>1, <1>7, <1>8, <1>9, <1>10, <1>11, <1>12, <1>13, <1>14 DEF Next

\* The time and the fence of every ledger entry are numbers.
LEMMA LedgerEntries ==
  ASSUME TypeOK
  PROVE  /\ worldSeq \in Nat
         /\ \A i \in 1 .. worldSeq :
              ledger[i] \in LedgerEvents /\ ledger[i].at \in Nat /\ ledger[i].fence \in Nat
<1>1. \A e \in LedgerEvents : e.at \in Nat /\ e.fence \in Nat
  BY TimeAssumption DEF LedgerEvents, Times
<1>2. worldSeq \in Nat /\ \A i \in 1 .. worldSeq : ledger[i] \in LedgerEvents
  BY DEF TypeOK, worldSeq
<1> QED
  BY <1>1, <1>2

\* An append leaves the old events alone and puts the new one last.
LEMMA AppendFacts ==
  ASSUME TypeOK, NEW type, NEW r, NEW at, NEW f, Commit(type, r, at, f)
  PROVE  /\ worldSeq \in Nat /\ worldSeq' = worldSeq + 1
         /\ \A i \in 1 .. worldSeq : ledger'[i] = ledger[i]
         /\ ledger'[worldSeq + 1].at = at /\ ledger'[worldSeq + 1].fence = f
BY DEF TypeOK, Commit, Event, worldSeq

\* The ledger is a history: its times are in order and not in the future.
THEOREM LedgerInOrder == Spec => []OccurredInOrder
<1>1. Init => OccurredInOrder
  BY DEF Init, OccurredInOrder, worldSeq
<1>2. IInv /\ OccurredInOrder /\ [Next]_vars => OccurredInOrder'
  <2> SUFFICES ASSUME IInv, OccurredInOrder, [Next]_vars PROVE OccurredInOrder'
    OBVIOUS
  <2>1. /\ worldTime \in Nat /\ worldTime' >= worldTime /\ worldTime' \in Nat
        /\ worldSeq \in Nat
        /\ \A i \in 1 .. worldSeq : ledger[i].at \in Nat
    BY LedgerStep, NextInv, LedgerEntries, TimeAssumption DEF IInv, TypeOK, Times
  <2>2. CASE ledger' = ledger
    BY <2>1, <2>2 DEF OccurredInOrder, worldSeq
  <2>3. ASSUME NEW type, NEW r, NEW f, Commit(type, r, worldTime', f)
        PROVE  OccurredInOrder'
    BY <2>1, <2>3, AppendFacts DEF OccurredInOrder, IInv
  <2> QED
    BY <2>2, <2>3, LedgerStep
<1> QED
  BY <1>1, <1>2, InitInv, NextInv, PTL DEF Spec

\* The strengthening for fences: no event carries a token not yet issued.
FencedInv ==
  /\ FencesNeverGoBack
  /\ \A i \in 1 .. worldSeq : ledger[i].fence <= lease

\* A superseded driver never writes after its successor.
THEOREM StaleDriversWriteNothing == Spec => []FencesNeverGoBack
<1>1. Init => FencedInv
  BY DEF Init, FencedInv, FencesNeverGoBack, worldSeq
<1>2. IInv /\ FencedInv /\ [Next]_vars => FencedInv'
  <2> SUFFICES ASSUME IInv, FencedInv, [Next]_vars PROVE FencedInv'
    OBVIOUS
  <2>1. /\ lease \in Nat /\ lease' \in Nat /\ worldSeq \in Nat
        /\ \A i \in 1 .. worldSeq : ledger[i].fence \in Nat
    BY NextInv, LedgerEntries, TimeAssumption DEF IInv, TypeOK
  <2>2. CASE ledger' = ledger /\ lease' >= lease
    BY <2>1, <2>2 DEF FencedInv, FencesNeverGoBack, worldSeq
  <2>3. ASSUME NEW type, NEW r, NEW f \in Fences, Commit(type, r, worldTime', f),
               FenceHolds(f), lease' = lease
        PROVE  FencedInv'
    BY <2>1, <2>3, AppendFacts DEF FencedInv, FencesNeverGoBack, IInv, Fences, FenceHolds
  <2> QED
    BY <2>2, <2>3, LedgerStep
<1>3. FencedInv => FencesNeverGoBack
  BY DEF FencedInv
<1> QED
  BY <1>1, <1>2, <1>3, InitInv, NextInv, PTL DEF Spec

\* A paused or maintained world neither ages nor changes.
THEOREM PauseFreezes == Spec => PausedWorldIsFrozen
<1>1. [Next]_vars => [status # "RUNNING" => UNCHANGED <<worldTime, ledger, runtime, food>>]_vars
  <2> SUFFICES ASSUME Next, status # "RUNNING"
               PROVE  UNCHANGED <<worldTime, ledger, runtime, food>>
    OBVIOUS
  <2>1. ASSUME NEW r \in Requests, NEW f, NEW rv, Start(r, f, rv) PROVE FALSE
    BY <2>1, CommittedDecision DEF Start
  <2>2. ASSUME NEW r, NEW f, NEW v, Complete(r, f, v) PROVE FALSE
    BY <2>2, ExecutedCompletion DEF Complete
  <2>3. ASSUME NEW t, NEW f, AdvanceWorldTimeTo(t, f) PROVE FALSE
    BY <2>3 DEF AdvanceWorldTimeTo, CanAdvance
  <2>4. ASSUME NEW t \in Times, NEW s, UpdateClock(t, s)
        PROVE  UNCHANGED <<worldTime, ledger, runtime, food>>
    BY <2>4, TimeAssumption DEF UpdateClock, Times
  <2> QED
    BY <2>1, <2>2, <2>3, <2>4
    DEF Next, PersistRequest, Refuse, AcquireLease, RegisterNextWakes, AcknowledgeWake
<1> QED
  BY <1>1, PTL DEF Spec, PausedWorldIsFrozen

-----------------------------------------------------------------------------
(* Steps of callers *)

\* A fence that holds is one that the kernel's next-state relation ranges over.
LEMMA HeldFence ==
  ASSUME TypeOK, NEW f, FenceHolds(f)
  PROVE  f \in Fences
BY TimeAssumption DEF TypeOK, FenceHolds, Fences

\* A completion that is executed is one the kernel offers, whoever read the item.
LEMMA CompletionIsKernelStep ==
  ASSUME TypeOK, NEW r, NEW f, NEW v, Complete(r, f, v)
  PROVE  Next
<1>1. CompletionDisposition(r, v) = "EXECUTED" /\ FenceHolds(f)
  BY DEF Complete
<1>2. r \in requests /\ StateVersionHolds(r, v)
  BY <1>1 DEF CompletionDisposition
<1>3. r.actor \in Residents
  BY <1>2, RequestAssumption DEF TypeOK
<1>4. runtime[r.actor].version \in Nat
  BY <1>3 DEF TypeOK, RuntimeRows
<1>5. v \in {None} \cup 0 .. runtime[r.actor].version
  BY <1>2, <1>4 DEF StateVersionHolds
<1>6. f \in Fences
  BY <1>1, HeldFence
<1> QED
  BY <1>2, <1>5, <1>6 DEF Next

-----------------------------------------------------------------------------
(* The kernel implements ActivityLifecycle, and outcomes are final *)

\* An activity in progress has its STARTED link only.
OpenOutcomes ==
  \A x \in Residents :
    runtime[x].task # Idle => Len(outcomes[runtime[x].task.inst].refs) = 1

\* The invariant under which the kernel implements the lifecycle.
RInv == IInv /\ OpenOutcomes

-----------------------------------------------------------------------------
\* A step that touches neither rows nor links keeps OpenOutcomes.
LEMMA QuietOutcomes ==
  ASSUME OpenOutcomes, IInv, UNCHANGED runtime,
         \A r \in Requests : outcomes'[r].refs = outcomes[r].refs
  PROVE  OpenOutcomes'
<1>1. \A x \in Residents : runtime[x].task # Idle => runtime[x].task.inst \in Requests
  BY DEF IInv, TypeOK, TasksIntact, TaskIntact
<1> QED
  BY <1>1 DEF OpenOutcomes

\* What Start writes, as the abstract specification sees it.
LEMMA StartWrites ==
  ASSUME RInv, NEW r \in Requests, NEW f, NEW rv, Start(r, f, rv)
  PROVE  /\ outcomes[r].status = "NONE"
         /\ outcomes' = [outcomes EXCEPT ![r] = [status |-> "COMMITTED",
                                                 refs |-> <<worldSeq + 1>>]]
         /\ outcomes'[r].status = "COMMITTED" /\ Len(outcomes'[r].refs) = 1
         /\ \A q \in Requests \ {r} : outcomes'[q] = outcomes[q]
         /\ \A x \in Parties(r) : /\ x \in Residents /\ runtime[x].task = Idle
                                  /\ runtime'[x].task.inst = r
                                  /\ runtime'[x].task.due = worldTime + Duration(r)
         /\ \A x \in Residents \ Parties(r) : runtime'[x] = runtime[x]
         /\ worldTime' = worldTime
<1> USE DEF RInv, IInv
<1>1. /\ outcomes[r].status = "NONE" /\ worldTime' = worldTime
      /\ outcomes' = [outcomes EXCEPT ![r] = [status |-> "COMMITTED",
                                              refs |-> <<worldSeq + 1>>]]
      /\ \A y \in Residents : runtime'[y] = IF y \in Parties(r) THEN StartedRow(r, y)
                                            ELSE runtime[y]
  BY DEF Start, Executable
<1>2. outcomes'[r] = [status |-> "COMMITTED", refs |-> <<worldSeq + 1>>]
      /\ \A q \in Requests \ {r} : outcomes'[q] = outcomes[q]
  BY <1>1 DEF TypeOK
<1>3. \A x \in Parties(r) : StartedRow(r, x).task = StartedTask(r, x)
  BY StartedTaskTypes, StampedFacts, RequestFacts DEF StartedRow, TypeOK
<1>4. \A x \in Parties(r) : x \in Residents /\ runtime[x].task = Idle
  BY CommittedDecision, RequestFacts, FreeIsIdle DEF Start, PartiesIdle
<1> QED
  BY <1>1, <1>2, <1>3, <1>4, StartedTaskFields

\* What Complete writes, as the abstract specification sees it.
LEMMA CompleteWrites ==
  ASSUME RInv, NEW r \in requests, NEW f, NEW v, Complete(r, f, v)
  PROVE  /\ r \in Requests
         /\ outcomes[r].status = "COMMITTED" /\ Len(outcomes[r].refs) = 1
         /\ outcomes'[r].status = "COMMITTED" /\ Len(outcomes'[r].refs) = 2
         /\ outcomes'[r].refs[1] = outcomes[r].refs[1]
         /\ \A q \in Requests \ {r} : outcomes'[q] = outcomes[q]
         /\ \A x \in Parties(r) : /\ x \in Residents
                                  /\ runtime[x].task.inst = r
                                  /\ worldTime >= runtime[x].task.due
                                  /\ runtime'[x].task = Idle
         /\ \A x \in Residents \ Parties(r) : runtime'[x] = runtime[x]
         /\ worldTime' = worldTime
<1> USE DEF RInv, IInv
<1>1. /\ CompletionDisposition(r, v) = "EXECUTED" /\ worldTime' = worldTime
      /\ outcomes' = [outcomes EXCEPT ![r].refs = Append(@, worldSeq + 1)]
      /\ \A y \in Residents : runtime'[y] = IF y \in Parties(r) THEN CompletedRow(r, y)
                                            ELSE runtime[y]
  BY DEF Complete
<1>2. /\ r \in Requests /\ outcomes[r].status = "COMMITTED"
      /\ \A y \in Parties(r) : y \in Residents /\ Half(r, y)
      /\ r.actor \in Residents
  BY <1>1, CompletedActivity, RequestFacts
<1>3. runtime[r.actor].task # Idle /\ runtime[r.actor].task.inst = r
      /\ worldTime >= runtime[r.actor].task.due
  BY <1>1, <1>2, ExecutedCompletion, FreeIsIdle DEF Belongs, DueReached
<1>4. Len(outcomes[r].refs) = 1 /\ outcomes[r].refs \in Seq(Nat) /\ worldSeq + 1 \in Nat
  BY <1>2, <1>3 DEF OpenOutcomes, TypeOK, worldSeq
<1>5. /\ outcomes'[r].status = outcomes[r].status
      /\ outcomes'[r].refs = Append(outcomes[r].refs, worldSeq + 1)
      /\ \A q \in Requests \ {r} : outcomes'[q] = outcomes[q]
  BY <1>1, <1>2 DEF TypeOK
<1>6. Len(outcomes'[r].refs) = 2 /\ outcomes'[r].refs[1] = outcomes[r].refs[1]
  BY <1>4, <1>5
<1>7. \A x \in Parties(r) : CompletedRow(r, x).task = Idle
  BY <1>1, <1>2, CompletedActivity, EffectTypes, IdleIsTask, StampedFacts DEF CompletedRow
<1> QED
  BY <1>1, <1>2, <1>3, <1>4, <1>5, <1>6, <1>7 DEF Half

\* What Refuse writes, as the abstract specification sees it.
LEMMA RefuseWrites ==
  ASSUME RInv, NEW r \in Requests, NEW f, NEW rv, Refuse(r, f, rv)
  PROVE  /\ outcomes[r].status = "NONE"
         /\ outcomes'[r].status \in {"REJECTED", "CONFLICT"}
         /\ \A q \in Requests : outcomes'[q].refs = outcomes[q].refs
         /\ \A q \in Requests \ {r} : outcomes'[q] = outcomes[q]
         /\ UNCHANGED <<worldTime, runtime>>
<1>1. /\ outcomes[r].status = "NONE" /\ UNCHANGED <<worldTime, runtime>>
      /\ outcomes' = [outcomes EXCEPT ![r].status = Decision(r, rv)]
      /\ Decision(r, rv) # "COMMITTED"
  BY DEF Refuse, Executable
<1>2. Decision(r, rv) \in {"COMMITTED", "REJECTED", "CONFLICT"}
  BY DEF Decision
<1> QED
  BY <1>1, <1>2 DEF RInv, IInv, TypeOK

\* Every other step leaves activities alone; only the clock may advance.
OtherStep ==
  /\ UNCHANGED <<outcomes, runtime>>
  /\ worldTime' = worldTime \/ worldTime' > worldTime

\* A step starts, completes or refuses, or leaves rows and outcomes alone.
LEMMA StepKinds ==
  ASSUME RInv, [Next]_vars
  PROVE  \/ \E r \in Requests : \E f, rv : Start(r, f, rv)
         \/ \E r \in Requests : \E f, rv : Refuse(r, f, rv)
         \/ \E r \in requests : \E f, v : Complete(r, f, v)
         \/ OtherStep
<1>1. CASE \E r \in Requests : PersistRequest(r)
  BY <1>1 DEF PersistRequest, OtherStep
<1>2. CASE \E t \in Times, f \in Fences : AdvanceWorldTimeTo(t, f)
  BY <1>2 DEF AdvanceWorldTimeTo, CanAdvance, OtherStep
<1>3. CASE \E t \in Times, s \in Statuses : UpdateClock(t, s)
  <2>1. worldTime \in Nat /\ \A t \in Times : t \in Nat
    BY TimeAssumption DEF RInv, IInv, TypeOK, Times
  <2> QED
    BY <1>3, <2>1 DEF UpdateClock, OtherStep
<1>4. CASE AcquireLease \/ UNCHANGED vars
  BY <1>4 DEF AcquireLease, vars, OtherStep
<1>5. CASE \/ \E prepare \in BOOLEAN : RegisterNextWakes(prepare)
           \/ \E w \in wakes : AcknowledgeWake(w)
  <2>1. UNCHANGED <<outcomes, runtime, worldTime>>
    BY <1>5 DEF RegisterNextWakes, AcknowledgeWake
  <2> QED
    BY <2>1 DEF OtherStep
<1> QED
  BY <1>1, <1>2, <1>3, <1>4, <1>5 DEF Next

\* Every step keeps the STARTED link of an activity in progress the only one.
LEMMA OpenOutcomesStep ==
  ASSUME RInv, [Next]_vars
  PROVE  RInv'
<1> USE DEF RInv
<1>0. IInv'
  BY NextInv
<1>1. ASSUME NEW r \in Requests, NEW f, NEW rv, Start(r, f, rv) PROVE OpenOutcomes'
  <2> SUFFICES ASSUME NEW x \in Residents, runtime'[x].task # Idle
               PROVE  Len(outcomes'[runtime'[x].task.inst].refs) = 1
    BY DEF OpenOutcomes
  <2>1. CASE x \in Parties(r)
    BY <1>1, <2>1, StartWrites
  <2>2. CASE x \notin Parties(r)
    <3>1. runtime'[x] = runtime[x] /\ runtime[x].task # Idle
      BY <1>1, <2>2, StartWrites
    <3>2. /\ runtime[x].task.inst \in Requests
          /\ outcomes[runtime[x].task.inst].status = "COMMITTED"
      BY <3>1 DEF IInv, TypeOK, TasksIntact, TaskIntact
    <3>3. outcomes'[runtime[x].task.inst] = outcomes[runtime[x].task.inst]
      BY <1>1, <3>2, StartWrites
    <3> QED
      BY <3>1, <3>3 DEF OpenOutcomes
  <2> QED
    BY <2>1, <2>2
<1>2. ASSUME NEW r \in requests, NEW f, NEW v, Complete(r, f, v) PROVE OpenOutcomes'
  <2> SUFFICES ASSUME NEW x \in Residents, runtime'[x].task # Idle
               PROVE  Len(outcomes'[runtime'[x].task.inst].refs) = 1
    BY DEF OpenOutcomes
  <2>1. x \notin Parties(r) /\ runtime'[x] = runtime[x] /\ runtime[x].task # Idle
    BY <1>2, CompleteWrites
  <2>2. runtime[x].task.inst \in Requests /\ x \in Parties(runtime[x].task.inst)
    BY <2>1 DEF IInv, TypeOK, TasksIntact, TaskIntact
  <2>3. outcomes'[runtime[x].task.inst] = outcomes[runtime[x].task.inst]
    BY <1>2, <2>1, <2>2, CompleteWrites
  <2> QED
    BY <2>1, <2>3 DEF OpenOutcomes
<1>3. ASSUME NEW r \in Requests, NEW f, NEW rv, Refuse(r, f, rv) PROVE OpenOutcomes'
  BY <1>3, RefuseWrites, QuietOutcomes
<1>4. CASE OtherStep
  BY <1>0, <1>4, QuietOutcomes DEF OtherStep
<1> QED
  BY <1>0, <1>1, <1>2, <1>3, <1>4, StepKinds

\* A seeded world satisfies the refinement invariant.
LEMMA InitRInv == Init => RInv
BY InitInv DEF Init, RInv, OpenOutcomes

-----------------------------------------------------------------------------
(* Outcomes *)

\* A decided outcome is never revised, only completed by one more event.
THEOREM FinalOutcomes == Spec => OutcomesAreFinal
<1> DEFINE Kept(r) ==
      outcomes[r].status # "NONE" =>
        /\ outcomes'[r].status = outcomes[r].status
        /\ \E extra \in 0 .. 1 : Len(outcomes'[r].refs) = Len(outcomes[r].refs) + extra
        /\ \A i \in DOMAIN outcomes[r].refs : outcomes'[r].refs[i] = outcomes[r].refs[i]
<1>1. RInv /\ [Next]_vars => [\A r \in Requests : Kept(r)]_vars
  <2> SUFFICES ASSUME RInv, [Next]_vars, NEW q \in Requests PROVE Kept(q)
    OBVIOUS
  <2>1. outcomes[q].refs \in Seq(Nat) /\ Len(outcomes[q].refs) \in Nat
    BY DEF RInv, IInv, TypeOK
  <2>2. outcomes'[q] = outcomes[q] => Kept(q)
    BY <2>1
  <2>3. ASSUME NEW r \in Requests, NEW f, NEW rv, Start(r, f, rv) PROVE Kept(q)
    BY <2>2, <2>3, StartWrites
  <2>4. ASSUME NEW r \in Requests, NEW f, NEW rv, Refuse(r, f, rv) PROVE Kept(q)
    BY <2>2, <2>4, RefuseWrites
  <2>5. ASSUME NEW r \in requests, NEW f, NEW v, Complete(r, f, v) PROVE Kept(q)
    <3>1. CASE q # r
      BY <2>2, <2>5, <3>1, CompleteWrites
    <3>2. CASE q = r
      <4>1. DOMAIN outcomes[q].refs = {1} /\ 1 \in 0 .. 1 /\ 2 = 1 + 1
        BY <2>1, <2>5, <3>2, CompleteWrites
      <4> QED
        BY <2>5, <3>2, <4>1, CompleteWrites
    <3> QED
      BY <3>1, <3>2
  <2>6. CASE OtherStep
    BY <2>2, <2>6 DEF OtherStep
  <2> QED
    BY <2>3, <2>4, <2>5, <2>6, StepKinds
<1>2. RInv /\ [Next]_vars => RInv'
  BY OpenOutcomesStep
<1> QED
  BY <1>1, <1>2, InitRInv, PTL DEF Spec, OutcomesAreFinal

-----------------------------------------------------------------------------
(* Refinement *)

\* How an outcome is read as a phase.
LEMMA PhaseFacts ==
  ASSUME NEW r
  PROVE  /\ outcomes[r].status = "NONE" => PhaseOf(r) = "new"
         /\ outcomes[r].status \in {"REJECTED", "CONFLICT"} => PhaseOf(r) = "refused"
         /\ outcomes[r].status = "COMMITTED" /\ Len(outcomes[r].refs) = 1
              => PhaseOf(r) = "active"
         /\ outcomes[r].status = "COMMITTED" /\ Len(outcomes[r].refs) = 2
              => PhaseOf(r) = "done"
<1>1. outcomes[r].status = "NONE" => PhaseOf(r) = "new"
  BY Zenon DEF PhaseOf
<1>2. outcomes[r].status \in {"REJECTED", "CONFLICT"} => PhaseOf(r) = "refused"
  BY Zenon DEF PhaseOf
<1>3. outcomes[r].status = "COMMITTED" =>
        PhaseOf(r) = IF Len(outcomes[r].refs) = 1 THEN "active" ELSE "done"
  BY Zenon DEF PhaseOf
<1> QED
  BY <1>1, <1>2, <1>3

\* A request whose outcome is untouched keeps its phase.
LEMMA PhaseKept ==
  ASSUME NEW r, outcomes'[r] = outcomes[r]
  PROVE  PhaseOf(r)' = PhaseOf(r)
BY DEF PhaseOf

\* The kernel implements the abstract activity lifecycle.
THEOREM KernelImplementsLifecycle == Spec => LifecycleSpec
<1>1. Init => Lifecycle!Init
  <2> SUFFICES ASSUME Init PROVE Lifecycle!Init
    OBVIOUS
  <2>1. \A r \in Requests : PhaseOf(r) = "new"
    BY PhaseFacts DEF Init
  <2>2. \A x \in Residents : runtime[x].task.inst = None /\ runtime[x].task.due = None
    BY DEF Init, Idle
  <2> QED
    BY <2>1, <2>2 DEF Init, Lifecycle!Init
<1>2. RInv /\ [Next]_vars => [Lifecycle!Next]_(Lifecycle!vars)
  <2> SUFFICES ASSUME RInv, [Next]_vars
               PROVE  Lifecycle!Next \/ UNCHANGED Lifecycle!vars
    OBVIOUS
  <2>1. ASSUME NEW r \in Requests, NEW f, NEW rv, Start(r, f, rv) PROVE Lifecycle!Begin(r)
    <3>1. PhaseOf(r) = "new" /\ PhaseOf(r)' = "active"
          /\ \A q \in Requests \ {r} : PhaseOf(q)' = PhaseOf(q)
      <4>1. PhaseOf(r)' = "active"
        BY <2>1, StartWrites, Zenon DEF PhaseOf
      <4> QED
        BY <2>1, <4>1, StartWrites, PhaseFacts, PhaseKept
    <3>2. r.actor \in Parties(r) /\ Duration(r) \in Nat \ {0} /\ worldTime \in Nat
          /\ Parties(r) \subseteq Residents
      BY RequestFacts, DurationFacts, TimeAssumption DEF RInv, IInv, TypeOK, Times
    <3>3. \A x \in Parties(r) : runtime[x].task.inst = None
      BY <2>1, StartWrites DEF Idle
    <3>4. \A x \in Residents :
            /\ runtime'[x].task.inst = IF x \in Parties(r) THEN r ELSE runtime[x].task.inst
            /\ runtime'[x].task.due = IF x \in Parties(r) THEN worldTime + Duration(r)
                                      ELSE runtime[x].task.due
      BY <2>1, StartWrites
    <3>5. worldTime' = worldTime /\ worldTime + Duration(r) > worldTime
      BY <2>1, <3>2, StartWrites
    <3>6. runtime'[r.actor].task.due = worldTime + Duration(r) /\ r.actor \in Residents
      BY <3>2, <3>4
    <3> DEFINE dueOf == [x \in Residents |-> runtime[x].task.due]
    <3>7. [q \in Requests |-> PhaseOf(q)]'
            = [[q \in Requests |-> PhaseOf(q)] EXCEPT ![r] = "active"]
      BY <3>1
    <3>8. [x \in Residents |-> runtime[x].task.inst]'
            = [x \in Residents |-> IF x \in Parties(r) THEN r ELSE runtime[x].task.inst]
      BY <3>4
    <3>9. /\ dueOf'[r.actor] > worldTime
          /\ dueOf' = [y \in Residents |-> IF y \in Parties(r) THEN dueOf'[r.actor] ELSE dueOf[y]]
      BY <3>4, <3>5, <3>6
    <3>10. \E x \in Parties(r) :
             /\ dueOf'[x] > worldTime
             /\ dueOf' = [y \in Residents |-> IF y \in Parties(r) THEN dueOf'[x] ELSE dueOf[y]]
      BY <3>2, <3>9
    <3> QED
      BY <3>1, <3>2, <3>3, <3>5, <3>7, <3>8, <3>10 DEF Lifecycle!Begin
  <2>2. ASSUME NEW r \in Requests, NEW f, NEW rv, Refuse(r, f, rv) PROVE Lifecycle!Refuse(r)
    <3>1. PhaseOf(r) = "new"
      BY <2>2, RefuseWrites, PhaseFacts
    <3>2. PhaseOf(r)' = "refused"
      BY <2>2, RefuseWrites, Zenon DEF PhaseOf
    <3>3. \A q \in Requests \ {r} : PhaseOf(q)' = PhaseOf(q)
      BY <2>2, RefuseWrites, PhaseKept
    <3>4. UNCHANGED <<worldTime, runtime>>
      BY <2>2, RefuseWrites
    <3> QED
      BY <3>1, <3>2, <3>3, <3>4 DEF Lifecycle!Refuse
  <2>3. ASSUME NEW r \in requests, NEW f, NEW v, Complete(r, f, v) PROVE Lifecycle!End(r)
    <3>1. PhaseOf(r) = "active" /\ r \in Requests
      BY <2>3, CompleteWrites, PhaseFacts
    <3>2. PhaseOf(r)' = "done"
      <4>1. outcomes'[r].status = "COMMITTED" /\ Len(outcomes'[r].refs) # 1
        BY <2>3, CompleteWrites
      <4> QED
        BY <4>1, Zenon DEF PhaseOf
    <3>3. \A q \in Requests \ {r} : PhaseOf(q)' = PhaseOf(q)
      BY <2>3, CompleteWrites, PhaseKept
    <3>4. \A x \in Parties(r) : x \in Residents /\ runtime[x].task.inst = r
                                /\ worldTime >= runtime[x].task.due
      BY <2>3, CompleteWrites
    <3>5. \A x \in Residents :
            /\ runtime'[x].task.inst = IF x \in Parties(r) THEN None ELSE runtime[x].task.inst
            /\ runtime'[x].task.due = IF x \in Parties(r) THEN None ELSE runtime[x].task.due
      BY <2>3, CompleteWrites DEF Idle
    <3>6. worldTime' = worldTime
      BY <2>3, CompleteWrites
    <3>7. [q \in Requests |-> PhaseOf(q)]'
            = [[q \in Requests |-> PhaseOf(q)] EXCEPT ![r] = "done"]
      BY <3>1, <3>2, <3>3
    <3>8. [x \in Residents |-> runtime[x].task.inst]'
            = [x \in Residents |-> IF x \in Parties(r) THEN None ELSE runtime[x].task.inst]
      BY <3>5
    <3>9. [x \in Residents |-> runtime[x].task.due]'
            = [x \in Residents |-> IF x \in Parties(r) THEN None ELSE runtime[x].task.due]
      BY <3>5
    <3> QED
      BY <3>1, <3>4, <3>6, <3>7, <3>8, <3>9 DEF Lifecycle!End
  <2>4. CASE OtherStep
    <3>1. \A r \in Requests : PhaseOf(r)' = PhaseOf(r)
      BY <2>4, PhaseKept DEF OtherStep
    <3>2. UNCHANGED runtime
      BY <2>4 DEF OtherStep
    <3>3. CASE worldTime' > worldTime
      BY <3>1, <3>2, <3>3 DEF Lifecycle!Next, Lifecycle!Tick
    <3>4. CASE worldTime' = worldTime
      BY <3>1, <3>2, <3>4 DEF Lifecycle!vars
    <3> QED
      BY <2>4, <3>3, <3>4 DEF OtherStep
  <2>5. requests \in SUBSET Requests
    BY DEF RInv, IInv, TypeOK
  <2> QED
    BY <2>1, <2>2, <2>3, <2>4, <2>5, StepKinds DEF Lifecycle!Next
<1>3. RInv /\ [Next]_vars => RInv'
  BY OpenOutcomesStep
<1> QED
  BY <1>1, <1>2, <1>3, InitRInv, PTL DEF Spec, LifecycleSpec, Lifecycle!Spec
=============================================================================
