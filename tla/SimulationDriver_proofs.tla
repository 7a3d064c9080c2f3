------------------------ MODULE SimulationDriver_proofs ------------------------
(***************************************************************************)
(* Theorems about SimulationDriver: whatever its calls, crashes and races  *)
(* do, the rows of the world only ever change by steps of WorldKernel, and *)
(* what calls have read, reported and given up stays true of the world.    *)
(***************************************************************************)
EXTENDS SimulationDriver, WorldKernelRecords_proofs

\* A step of a driver or of its environment is a step of the kernel or none.
LEMMA DriverStepSimulation ==
  ASSUME TypeOK, [DriverNext]_allVars
  PROVE  [Next]_vars
<1>1. CASE \E d \in Drivers : DriverStep(d)
  <2>1. PICK d \in Drivers : DriverStep(d)
    BY <1>1
  <2>2. CASE CompleteItem(d)
    BY <2>2, CompletionIsKernelStep DEF CompleteItem
  <2>3. CASE \E t \in Times : RunUntil(d, t)
    <3>1. PICK t \in Times : RunUntil(d, t)
      BY <2>3
    <3>2. CASE AdvanceWorldTimeTo(t, token[d])
      <4>1. FenceHolds(token[d])
        BY <3>2 DEF AdvanceWorldTimeTo
      <4> QED
        BY <3>2, <4>1, HeldFence DEF Next
    <3> QED
      BY <3>1, <3>2 DEF RunUntil
  <2>4. CASE AssertLease(d) \/ ReadWorld(d) \/ ReadDueActivities(d)
             \/ FailItem(d) \/ ReturnResult(d)
    BY <2>4 DEF AssertLease, ReadWorld, ReadDueActivities, FailItem, ReturnResult
  <2> QED
    BY <2>1, <2>2, <2>3, <2>4 DEF DriverStep, CallStep
<1>2. CASE \E d \in Drivers : Acquire(d)
  BY <1>2 DEF Acquire, Next
<1>3. CASE \E d \in Drivers : Crash(d)
  BY <1>3 DEF Crash
<1>4. CASE Environment
  <2>1. 0 \in Fences
    BY HeldFence DEF FenceHolds
  <2> QED
    BY <1>4, <2>1 DEF Environment, Next
<1>5. CASE UNCHANGED allVars
  BY <1>5 DEF allVars
<1> QED
  BY <1>1, <1>2, <1>3, <1>4, <1>5 DEF DriverNext

(***************************************************************************)
(* Drivers implement the kernel: every behaviour of drivers, clients and   *)
(* operators is, on the rows of the world, a behaviour of WorldKernel.     *)
(* The kernel's theorems therefore hold in a driven world as well.         *)
(***************************************************************************)
THEOREM DriversRunTheKernel == DriverSpec => Spec
<1>1. DriverInit => Init
  BY DEF DriverInit
<1>2. IInv => TypeOK
  BY DEF IInv
<1>3. IInv /\ [DriverNext]_allVars => [Next]_vars
  BY <1>2, DriverStepSimulation
<1> QED
  BY <1>1, <1>3, InitInv, NextInv, PTL DEF DriverSpec, Spec

(***************************************************************************)
(* In a world driven by several drivers, with crashes and takeovers at any *)
(* point of a call, a driver that lost its lease writes nothing.           *)
(***************************************************************************)
THEOREM DrivenFencesNeverGoBack == DriverSpec => []FencesNeverGoBack
BY DriversRunTheKernel, StaleDriversWriteNothing, PTL

(***************************************************************************)
(* No activity of a driven world is poisoned, so the item that reports one *)
(* as INVALID_WORK_ITEM is out of date, not the activity.                  *)
(***************************************************************************)
THEOREM DrivenActivitiesCompletable == DriverSpec => []InProgressCompletable
BY DriversRunTheKernel, NoPoisonedActivity, PTL

(***************************************************************************)
(* Drivers, clients and operators together implement ActivityLifecycle:    *)
(* however their calls interleave, crash or lose the lease, an activity    *)
(* takes, holds and releases all of its parties at one moment each.        *)
(***************************************************************************)
THEOREM DrivenWorldsImplementLifecycle == DriverSpec => LifecycleSpec
BY DriversRunTheKernel, KernelImplementsLifecycle, PTL

-----------------------------------------------------------------------------
(* Counting the first rows of an order *)

\* R orders the finite set S strictly and totally.
Orders(R, S) ==
  /\ IsFiniteSet(S)
  /\ \A x \in S : <<x, x>> \notin R
  /\ \A x, y \in S : x # y => <<x, y>> \in R \/ <<y, x>> \in R
  /\ \A x, y, z \in S : <<x, y>> \in R /\ <<y, z>> \in R => <<x, z>> \in R

\* the elements of S before x
Preceding(R, S, x) == {y \in S : <<y, x>> \in R}

\* Who comes earlier has fewer before it.
LEMMA RanksGrow ==
  ASSUME NEW R, NEW S, Orders(R, S), NEW x \in S, NEW y \in S
  PROVE  /\ Cardinality(Preceding(R, S, x)) \in Nat
         /\ <<x, y>> \in R
              => Cardinality(Preceding(R, S, x)) < Cardinality(Preceding(R, S, y))
<1> DEFINE before(z) == Preceding(R, S, z)
<1>1. \A z \in S : IsFiniteSet(before(z)) /\ Cardinality(before(z)) \in Nat
  <2> SUFFICES ASSUME NEW z \in S
               PROVE  IsFiniteSet(before(z)) /\ Cardinality(before(z)) \in Nat
    OBVIOUS
  <2>1. before(z) \in SUBSET S /\ IsFiniteSet(S)
    BY DEF Preceding, Orders
  <2>2. IsFiniteSet(before(z))
    BY <2>1, FS_Subset
  <2> QED
    BY <2>2, FS_CardinalityType
<1>2. ASSUME <<x, y>> \in R
      PROVE  Cardinality(before(x)) < Cardinality(before(y))
  <2>1. before(x) \in SUBSET before(y)
    BY <1>2 DEF Preceding, Orders
  <2>2. x \in before(y) /\ x \notin before(x)
    BY <1>2 DEF Preceding, Orders
  <2>3. Cardinality(before(x)) <= Cardinality(before(y))
    BY <1>1, <2>1, FS_Subset
  <2>4. Cardinality(before(x)) # Cardinality(before(y))
    BY <1>1, <2>1, <2>2, FS_Subset
  <2> HIDE DEF before
  <2> QED
    BY <1>1, <2>3, <2>4
<1> QED
  BY <1>1, <1>2

\* The first n of an order are at most n, and exactly n if that leaves some out.
LEMMA FirstsCount ==
  ASSUME NEW R, NEW S, Orders(R, S), NEW n \in Nat,
         NEW F, F = {x \in S : Cardinality(Preceding(R, S, x)) < n}
  PROVE  /\ F \subseteq S /\ IsFiniteSet(F) /\ Cardinality(F) \in Nat
         /\ Cardinality(F) <= n
         /\ F # S => Cardinality(F) >= n
<1> DEFINE rank(x) == Cardinality(Preceding(R, S, x))
<1>1. /\ \A x \in S : rank(x) \in Nat
      /\ \A x, y \in S : <<x, y>> \in R => rank(x) < rank(y)
  BY RanksGrow
<1>2. F \in SUBSET S /\ IsFiniteSet(S)
  BY DEF Orders
<1>3. IsFiniteSet(F)
  BY <1>2, FS_Subset
<1>4. Cardinality(F) \in Nat
  BY <1>3, FS_CardinalityType
<1>5. Cardinality(F) <= n
  <2> DEFINE places == 0 .. n - 1
             f == [x \in F |-> rank(x)]
  <2>1. IsFiniteSet(places) /\ Cardinality(places) = n
    <3>1. 0 \in Int /\ n - 1 \in Int
      OBVIOUS
    <3>2. IsFiniteSet(places)
      BY <3>1, FS_Interval
    <3>3. Cardinality(places) = IF 0 > n - 1 THEN 0 ELSE n - 1 - 0 + 1
      BY <3>1, FS_Interval
    <3> QED
      BY <3>2, <3>3
  <2>2. f \in [F -> places]
    <3>1. \A x \in F : rank(x) \in Nat /\ rank(x) < n
      BY <1>1
    <3> HIDE DEF rank
    <3> QED
      BY <3>1
  <2> SUFFICES ASSUME n < Cardinality(F) PROVE FALSE
    BY <1>4
  <2>3. PICK x \in F, y \in F : x # y /\ f[x] = f[y]
    <3> HIDE DEF places, f
    <3> QED
      BY <1>3, <2>1, <2>2, FS_PigeonHole
  <2>4. rank(x) = rank(y) /\ x \in S /\ y \in S
    BY <1>2, <2>3
  <2>5. <<x, y>> \in R \/ <<y, x>> \in R
    BY <2>3, <2>4 DEF Orders
  <2> HIDE DEF rank
  <2> QED
    BY <1>1, <2>4, <2>5
<1>6. ASSUME F # S
      PROVE  Cardinality(F) >= n
  <2> DEFINE T == {rank(x) : x \in S \ F}
  <2>1. T \in SUBSET Nat /\ T # {}
    BY <1>1, <1>2, <1>6
  <2>2. PICK t \in T : \A u \in T : t <= u
    BY <2>1, LeastOf
  <2>3. PICK y \in S \ F : t = rank(y)
    BY <2>2
  <2>4. rank(y) \in Nat /\ rank(y) >= n
    BY <1>1, <2>3
  <2>5. Preceding(R, S, y) \in SUBSET F
    <3> SUFFICES ASSUME NEW z \in S, <<z, y>> \in R PROVE z \in F
      BY DEF Preceding
    <3>1. rank(z) < rank(y) /\ rank(z) \in Nat
      BY <1>1, <2>3
    <3>2. ~(rank(z) \in T)
      <4> HIDE DEF T, rank
      <4> QED
        BY <2>2, <2>3, <2>4, <3>1
    <3> QED
      BY <3>2
  <2>6. rank(y) <= Cardinality(F)
    BY <1>3, <2>5, FS_Subset
  <2> HIDE DEF rank
  <2> QED
    BY <1>4, <2>4, <2>6
<1> QED
  BY <1>2, <1>3, <1>4, <1>5, <1>6

-----------------------------------------------------------------------------
(* Activities and work items over a step of the kernel *)

\* What a driver may take for granted of the world it drives.
World == RInv /\ VersionsCountEvents /\ DuesAreTimes

\* It holds of every driven world.
LEMMA WorldHolds == DriverSpec => []World
BY DuesAreAlwaysTimes, VersionsAreCounters, DriversRunTheKernel, PTL DEF World

\* The activity of the request has been completed.
Done(r) == outcomes[r].status = "COMMITTED" /\ Len(outcomes[r].refs) = 2

\* The row of the item is as it was read.
Fits(item) ==
  /\ runtime[item.req.actor].task.inst = item.req
  /\ runtime[item.req.actor].version = item.version

\* An item is of a committed activity of its resident, unless it is out of date.
ItemOK(item) ==
  /\ item.req \in requests /\ outcomes[item.req].status = "COMMITTED"
  /\ item.resident = item.req.actor
  /\ Fits(item) \/ Done(item.req)

\* What is done stays done.
LEMMA DoneStays ==
  ASSUME RInv, [Next]_vars, NEW q \in Requests, Done(q)
  PROVE  Done(q)'
<1>1. ASSUME NEW r \in Requests, NEW f, NEW rv, Start(r, f, rv) PROVE Done(q)'
  BY <1>1, StartWrites DEF Done
<1>2. ASSUME NEW r \in Requests, NEW f, NEW rv, Refuse(r, f, rv) PROVE Done(q)'
  BY <1>2, RefuseWrites DEF Done
<1>3. ASSUME NEW r \in requests, NEW f, NEW v, Complete(r, f, v) PROVE Done(q)'
  <2>1. q # r
    BY <1>3, CompleteWrites DEF Done
  <2> QED
    BY <1>3, <2>1, CompleteWrites DEF Done
<1>4. CASE OtherStep
  BY <1>4 DEF OtherStep, Done
<1> QED
  BY <1>1, <1>2, <1>3, <1>4, StepKinds

\* A fitting item goes on to fit unless its own activity is completed.
LEMMA FittingKept ==
  ASSUME RInv, NEW item \in WorkItems, Fits(item)
  PROVE  /\ UNCHANGED runtime => Fits(item)'
         /\ \A r \in Requests : \A f, rv :
              Start(r, f, rv) \/ Refuse(r, f, rv) => Fits(item)'
         /\ \A r \in requests : \A f, v :
              Complete(r, f, v) =>
                IF r = item.req THEN Done(item.req)' ELSE Fits(item)'
<1> DEFINE x == item.req.actor
<1>1. item.req \in Requests /\ x \in Residents /\ runtime[x].task # Idle
  BY RequestFacts DEF WorkItems, Fits, Idle
<1>2. runtime'[x] = runtime[x] => Fits(item)'
  BY DEF Fits
<1>3. ASSUME NEW r \in Requests, NEW f, NEW rv, Start(r, f, rv) PROVE Fits(item)'
  BY <1>1, <1>2, <1>3, StartWrites
<1>4. ASSUME NEW r \in Requests, NEW f, NEW rv, Refuse(r, f, rv) PROVE Fits(item)'
  BY <1>2, <1>4, RefuseWrites
<1>5. ASSUME NEW r \in requests, NEW f, NEW v, Complete(r, f, v), r # item.req
      PROVE  Fits(item)'
  <2>1. x \notin Parties(r)
    BY <1>5, CompleteWrites DEF Fits
  <2> QED
    BY <1>1, <1>2, <1>5, <2>1, CompleteWrites
<1>6. ASSUME NEW r \in requests, NEW f, NEW v, Complete(r, f, v), r = item.req
      PROVE  Done(item.req)'
  BY <1>6, CompleteWrites DEF Done
<1> QED
  BY <1>2, <1>3, <1>4, <1>5, <1>6

\* Every step keeps items what they are.
LEMMA ItemKept ==
  ASSUME RInv, [Next]_vars, NEW item \in WorkItems, ItemOK(item)
  PROVE  ItemOK(item)'
<1>1. item.req \in Requests
  BY DEF WorkItems
<1>2. item.req \in requests'
  BY RequestsStep DEF ItemOK
<1>3. outcomes'[item.req].status = "COMMITTED"
  <2>1. ASSUME NEW r \in Requests, NEW f, NEW rv, Start(r, f, rv) \/ Refuse(r, f, rv)
        PROVE  outcomes'[item.req].status = "COMMITTED"
    BY <1>1, <2>1, StartWrites, RefuseWrites DEF ItemOK
  <2>2. ASSUME NEW r \in requests, NEW f, NEW v, Complete(r, f, v)
        PROVE  outcomes'[item.req].status = "COMMITTED"
    BY <1>1, <2>2, CompleteWrites DEF ItemOK
  <2> QED
    BY <2>1, <2>2, StepKinds DEF OtherStep, ItemOK
<1>4. Fits(item)' \/ Done(item.req)'
  <2>1. CASE Done(item.req)
    BY <1>1, <2>1, DoneStays
  <2>2. CASE Fits(item)
    BY <2>2, FittingKept, StepKinds DEF OtherStep
  <2> QED
    BY <2>1, <2>2 DEF ItemOK
<1> QED
  BY <1>2, <1>3, <1>4 DEF ItemOK

\* The kernel never answers a fitting item with an exception or a reused outcome.
LEMMA FittingItem ==
  ASSUME RInv, NEW item \in WorkItems, ItemOK(item), Fits(item)
  PROVE  CompletionDisposition(item.req, item.version) \in {"EXECUTED", "NOT_DUE", "REJECTED"}
<1> DEFINE x == item.req.actor
<1>1. item.req \in Requests /\ x \in Residents /\ runtime[x].task # Idle
  BY RequestFacts DEF WorkItems, Fits, Idle
<1>2. TaskIntact(x) /\ ~IsIdle(x)
  BY <1>1, FreeIsIdle DEF RInv, IInv, TasksIntact
<1>3. Belongs(item.req) /\ Rederivable(item.req)
  BY <1>1, <1>2, RequestFacts DEF TaskIntact, Half, Belongs, Fits
<1> QED
  BY <1>2, <1>3 DEF CompletionDisposition, StateVersionHolds, ItemOK, Fits

-----------------------------------------------------------------------------
(* Kinds of driver steps *)

\* a call that has read nothing yet
Blank(step, now) == [step |-> step, now |-> now, todo |-> {}, count |-> 0,
                     reports |-> {}, failures |-> {}]

\* The driver goes from one such call to another.
Opens(d) ==
  /\ call[d].step # "completing"
  /\ \E step \in {"idle", "advanced", "asserted", "reading"}, now \in {0, worldTime} :
       call' = [call EXCEPT ![d] = Blank(step, now)]
  /\ UNCHANGED <<token, delivered, lost>>

\* The driver reads its batch of due work.
Reads(d) ==
  /\ call[d].step = "reading" /\ BatchReadable(call[d].now)
  /\ call' = [call EXCEPT ![d] = [call[d] EXCEPT !.step = "completing",
                                                 !.todo = DueBatch(call[d].now)]]
  /\ UNCHANGED <<vars, token, delivered, lost>>

\* A step that completes nothing.
Uncompleting ==
  /\ \/ ledger' = ledger
     \/ \E type \in {"STARTED", "WORLD_TIME_ADVANCED"} :
          \E r, at, f : Commit(type, r, at, f)
  /\ \/ UNCHANGED <<outcomes, runtime>>
     \/ \E r \in Requests : \E f, rv : Start(r, f, rv) \/ Refuse(r, f, rv)

\* What may happen in a driven world.
LEMMA DriverKinds ==
  ASSUME [DriverNext]_allVars
  PROVE  \/ \E d \in Drivers : CompleteItem(d)
         \/ /\ Uncompleting
            /\ \/ UNCHANGED dvars
               \/ \E d \in Drivers :
                    \/ Opens(d) \/ Reads(d) \/ FailItem(d) \/ ReturnResult(d)
                    \/ Acquire(d) \/ Crash(d)
<1> DEFINE Steps(d) == \/ Opens(d) \/ Reads(d) \/ FailItem(d) \/ ReturnResult(d)
                       \/ Acquire(d) \/ Crash(d)
<1>0. NoCall = Blank("idle", 0) /\ delivered \cup {} = delivered
  BY DEF NoCall, Blank
<1>1. UNCHANGED vars => Uncompleting
  BY DEF vars, Uncompleting
<1>2. ASSUME NEW d \in Drivers, NEW t \in Times, RunUntil(d, t)
      PROVE  Uncompleting /\ Opens(d)
  <2>1. Uncompleting
    <3>1. CASE AdvanceWorldTimeTo(t, token[d])
      BY <3>1 DEF AdvanceWorldTimeTo, Uncompleting
    <3>2. CASE UNCHANGED vars
      BY <1>1, <3>2
    <3> QED
      BY <1>2, <3>1, <3>2 DEF RunUntil
  <2>2. [NoCall EXCEPT !.step = "advanced"] = Blank("advanced", 0)
    BY DEF NoCall, Blank
  <2> QED
    BY <1>2, <2>1, <2>2 DEF RunUntil, At, Enter, Opens
<1>3. ASSUME NEW d \in Drivers, AssertLease(d)
      PROVE  Uncompleting /\ Opens(d)
  <2>1. [NoCall EXCEPT !.step = "asserted"] = Blank("asserted", 0)
    BY DEF NoCall, Blank
  <2> QED
    BY <1>0, <1>1, <1>3, <2>1 DEF AssertLease, At, Enter, Return, Opens
<1>4. ASSUME NEW d \in Drivers, ReadWorld(d)
      PROVE  Uncompleting /\ Opens(d)
  <2> DEFINE one == [NoCall EXCEPT !.step = "reading"]
  <2>1. [NoCall EXCEPT !.step = "reading", !.now = worldTime] = Blank("reading", worldTime)
    <3>1. one = Blank("reading", 0)
      BY DEF NoCall, Blank
    <3>2. [one EXCEPT !.now = worldTime] = Blank("reading", worldTime)
      <4> HIDE DEF one
      <4> QED
        BY <3>1 DEF Blank
    <3>3. [NoCall EXCEPT !.step = "reading", !.now = worldTime] = [one EXCEPT !.now = worldTime]
      OBVIOUS
    <3> QED
      BY <3>2, <3>3
  <2> QED
    BY <1>0, <1>1, <1>4, <2>1 DEF ReadWorld, At, Enter, Return, Opens
<1>5. ASSUME NEW d \in Drivers, ReadDueActivities(d)
      PROVE  Uncompleting /\ (Opens(d) \/ Reads(d))
  BY <1>0, <1>1, <1>5 DEF ReadDueActivities, At, Enter, Return, Opens, Reads
<1>6. ASSUME NEW d \in Drivers, FailItem(d) \/ ReturnResult(d) \/ Crash(d)
      PROVE  Uncompleting
  BY <1>1, <1>6 DEF FailItem, ReturnResult, Crash
<1>7. ASSUME NEW d \in Drivers, Acquire(d)
      PROVE  Uncompleting
  BY <1>7 DEF Acquire, AcquireLease, Uncompleting
<1>8. CASE Environment
  <2>1. ASSUME NEW r \in Requests, NEW rv, Start(r, 0, rv) \/ Refuse(r, 0, rv)
        PROVE  Uncompleting
    BY <2>1 DEF Start, Refuse, Uncompleting
  <2>2. ASSUME NEW t, NEW s, UpdateClock(t, s)
        PROVE  Uncompleting
    BY <2>2 DEF UpdateClock, Uncompleting
  <2>3. ASSUME NEW w, AcknowledgeWake(w)
        PROVE  Uncompleting
    BY <2>3 DEF AcknowledgeWake, Uncompleting
  <2> QED
    BY <1>8, <2>1, <2>2, <2>3 DEF Environment
<1>9. CASE UNCHANGED allVars
  BY <1>1, <1>9 DEF allVars
<1>10. CASE \E d \in Drivers : DriverStep(d)
  <2>1. PICK d \in Drivers : DriverStep(d)
    BY <1>10
  <2>2. CompleteItem(d) \/ (Uncompleting /\ Steps(d))
    BY <1>2, <1>3, <1>4, <1>5, <1>6, <2>1 DEF DriverStep, CallStep
  <2> HIDE DEF Steps
  <2>3. \/ \E e \in Drivers : CompleteItem(e)
        \/ Uncompleting /\ \E e \in Drivers : Steps(e)
    BY <2>2
  <2> QED
    BY <2>3 DEF Steps
<1>11. CASE \E d \in Drivers : Acquire(d) \/ Crash(d)
  <2>1. Uncompleting /\ \E e \in Drivers : Acquire(e) \/ Crash(e)
    BY <1>6, <1>7, <1>11
  <2> QED
    BY <2>1
<1>12. Environment => UNCHANGED dvars
  BY DEF Environment
<1>13. UNCHANGED allVars => UNCHANGED dvars
  BY DEF allVars
<1> QED
  BY <1>8, <1>9, <1>10, <1>11, <1>12, <1>13 DEF DriverNext

-----------------------------------------------------------------------------
(* The batch of due work *)

\* the order of due rows, as a relation
RowOrder == {p \in Residents \X Residents : Before(p[1], p[2])}

\* Busy rows are ordered by due time and resident, and counted by FirstsCount.
LEMMA FirstRowsCount ==
  ASSUME World, NEW S \in SUBSET Residents, \A x \in S : ~IsIdle(x), NEW n \in Nat
  PROVE  /\ FirstRows(S, n) \subseteq S /\ IsFiniteSet(FirstRows(S, n))
         /\ Cardinality(FirstRows(S, n)) \in Nat
         /\ Cardinality(FirstRows(S, n)) <= n
         /\ FirstRows(S, n) # S => Cardinality(FirstRows(S, n)) >= n
<1> USE DEF World, RInv
<1>1. \A x \in S : runtime[x].task.due \in Nat /\ Rank[x] \in Nat
  BY FreeIsIdle, DriverAssumption DEF DuesAreTimes, IInv
<1>2. \A x, y \in S : Rank[x] = Rank[y] => x = y
  BY DriverAssumption
<1>3. IsFiniteSet(S)
  BY DriverAssumption, FS_Subset
<1>4. \A x, y \in S : <<x, y>> \in RowOrder <=> Before(x, y)
  BY DEF RowOrder
<1>5. Orders(RowOrder, S)
  <2>1. \A x \in S : ~Before(x, x)
    BY <1>1 DEF Before
  <2>2. \A x, y \in S : x # y => Before(x, y) \/ Before(y, x)
    BY <1>1, <1>2 DEF Before
  <2>3. \A x, y, z \in S : Before(x, y) /\ Before(y, z) => Before(x, z)
    BY <1>1 DEF Before
  <2> QED
    BY <1>3, <1>4, <2>1, <2>2, <2>3 DEF Orders
<1>6. \A x \in S : Preceding(RowOrder, S, x) = {y \in S : Before(y, x)}
  BY <1>4 DEF Preceding
<1>7. FirstRows(S, n) = {x \in S : Cardinality(Preceding(RowOrder, S, x)) < n}
  BY <1>6 DEF FirstRows
<1> QED
  BY <1>5, <1>7, FirstsCount

\* An activity in progress is the owner's, whose row says the same of it.
LEMMA BusyRow ==
  ASSUME World, NEW x \in Residents, ~IsIdle(x), NEW r, r = runtime[x].task.inst
  PROVE  /\ r \in requests /\ r \in Requests /\ outcomes[r].status = "COMMITTED"
         /\ x \in Parties(r) /\ r.actor \in Residents /\ ~IsIdle(r.actor)
         /\ runtime[r.actor].task.inst = r
         /\ runtime[r.actor].task.due = runtime[x].task.due
         /\ runtime[x].task.due \in Nat /\ runtime[x].version \in Nat
<1> USE DEF World, RInv
<1>1. runtime[x].task # Idle /\ TaskIntact(x)
  BY FreeIsIdle DEF IInv, TasksIntact
<1>2. r \in requests /\ outcomes[r].status = "COMMITTED" /\ x \in Parties(r) /\ Half(r, x)
  BY <1>1 DEF TaskIntact
<1>3. r \in Requests /\ r.actor \in Residents /\ r.actor \in Parties(r)
  BY <1>2, RequestFacts DEF IInv, TypeOK
<1>4. runtime[r.actor].task.inst = r /\ runtime[r.actor].task.act # "IDLE"
  BY <1>1, <1>3, DisjointParties DEF IInv
<1>5. runtime[x].task.due \in Nat /\ runtime[x].version \in Nat
  BY <1>1 DEF DuesAreTimes, IInv, TypeOK, RuntimeRows
<1> QED
  BY <1>2, <1>3, <1>4, <1>5 DEF IsIdle, Half

\* items of one batch are told apart by their requests
ReqsDiffer(todo) == \A i, j \in todo : i.req = j.req => i = j

\* A batch is at most a limit of items, which all fit, one for each of its rows.
LEMMA BatchFacts ==
  ASSUME World, NEW now
  PROVE  /\ DueBatch(now) \in SUBSET WorkItems
         /\ \A item \in DueBatch(now) : ItemOK(item) /\ Fits(item)
         /\ ReqsDiffer(DueBatch(now))
         /\ IsFiniteSet(DueBatch(now)) /\ Cardinality(DueBatch(now)) \in Nat
         /\ Cardinality(DueBatch(now)) <= Limit
         /\ Cardinality(DueBatch(now)) = Cardinality(FirstRows(Owners(now), Limit))
<1> DEFINE O == Owners(now)
           F == FirstRows(O, Limit)
           B == DueBatch(now)
<1>1. /\ O \in SUBSET Residents
      /\ \A x \in O : ~IsIdle(x) /\ runtime[x].task.inst.actor = x
  BY DEF Owners, DueRows, FirstRows, IsDue
<1>2. /\ F \subseteq O /\ IsFiniteSet(F) /\ Cardinality(F) \in Nat /\ Cardinality(F) <= Limit
  <2> HIDE DEF O
  <2> QED
    BY <1>1, FirstRowsCount, DriverAssumption
<1>3. B = {WorkItem(x) : x \in F}
  BY DEF DueBatch
<1> HIDE DEF O, F, B
<1>4. ASSUME NEW x \in F
      PROVE  /\ WorkItem(x) \in WorkItems
             /\ ItemOK(WorkItem(x)) /\ Fits(WorkItem(x)) /\ WorkItem(x).req.actor = x
  <2>1. x \in Residents /\ ~IsIdle(x) /\ runtime[x].task.inst.actor = x
    BY <1>1, <1>2, <1>4
  <2> DEFINE r == runtime[x].task.inst
  <2>2. /\ r \in requests /\ r \in Requests /\ outcomes[r].status = "COMMITTED"
        /\ runtime[x].task.due \in Nat /\ runtime[x].version \in Nat
    BY <2>1, BusyRow
  <2>3. WorkItem(x) \in WorkItems
    BY <2>1, <2>2 DEF WorkItem, WorkItems
  <2>4. Fits(WorkItem(x))
    BY <2>1 DEF WorkItem, Fits
  <2> QED
    BY <2>1, <2>2, <2>3, <2>4 DEF WorkItem, ItemOK
<1>5. ReqsDiffer(B)
  BY <1>3, <1>4 DEF ReqsDiffer
<1>6. IsFiniteSet(B) /\ Cardinality(B) = Cardinality(F)
  <2> DEFINE f == [x \in F |-> WorkItem(x)]
  <2>1. \A x, y \in F : WorkItem(x) = WorkItem(y) => x = y
    BY DEF WorkItem
  <2>2. f \in Bijection(F, B)
    BY <1>3, <2>1 DEF Bijection, Injection, Surjection, IsInjective
  <2>3. ExistsBijection(F, B)
    BY <2>2 DEF ExistsBijection
  <2> QED
    BY <1>2, <2>3, FS_Bijection
<1> QED
  BY <1>2, <1>3, <1>4, <1>5, <1>6 DEF F, O, B

-----------------------------------------------------------------------------
(* What calls hold *)

\* What the kernel's answer to an item says of the item's activity.
LEMMA ItemAnswers ==
  ASSUME World, NEW d, NEW item \in WorkItems, ItemOK(item),
         NEW result, result = ItemResult(d, item)
  PROVE  /\ result \in {"EXECUTED", "REUSED", "INVALID_COMPLETION", "NOT_DUE", "REJECTED",
                        "EXECUTION_ERROR"}
         /\ result \in {"REUSED", "INVALID_COMPLETION"} => Done(item.req)
         /\ FenceHolds(token[d]) /\ Fits(item)
              => result \in {"EXECUTED", "NOT_DUE", "REJECTED"}
<1>1. CASE ~FenceHolds(token[d])
  BY <1>1 DEF ItemResult
<1>2. CASE FenceHolds(token[d])
  <2>1. result = CompletionDisposition(item.req, item.version)
    BY <1>2 DEF ItemResult
  <2>2. result \in {"EXECUTED", "REUSED", "INVALID_COMPLETION", "NOT_DUE", "REJECTED"}
    BY <2>1 DEF CompletionDisposition
  <2>3. Fits(item) => result \in {"EXECUTED", "NOT_DUE", "REJECTED"}
    BY <2>1, FittingItem DEF World
  <2> QED
    BY <2>2, <2>3 DEF ItemOK
<1> QED
  BY <1>1, <1>2

\* Poison is what the kernel answers with an exception.
LEMMA FailureCodes ==
  ASSUME NEW result \in {"INVALID_COMPLETION", "NOT_DUE", "REJECTED", "EXECUTION_ERROR"}
  PROVE  /\ FailureCode(result) \in {"INVALID_WORK_ITEM", "STALE_STATE", "WORLD_NOT_RUNNING",
                                     "EXECUTION_ERROR"}
         /\ FailureCode(result) = "INVALID_WORK_ITEM" => result = "INVALID_COMPLETION"
<1>1. CASE result = "INVALID_COMPLETION"
  <2>1. FailureCode(result) = "INVALID_WORK_ITEM"
    BY <1>1, Zenon DEF FailureCode
  <2> QED
    BY <1>1, <2>1
<1>2. CASE result = "NOT_DUE"
  <2>1. FailureCode(result) = "STALE_STATE"
    BY <1>2, Zenon DEF FailureCode
  <2> QED
    BY <2>1
<1>3. CASE result = "REJECTED"
  <2>1. FailureCode(result) = "WORLD_NOT_RUNNING"
    BY <1>3, Zenon DEF FailureCode
  <2> QED
    BY <2>1
<1>4. CASE result = "EXECUTION_ERROR"
  <2>1. FailureCode(result) = "EXECUTION_ERROR"
    BY <1>4, Zenon DEF FailureCode
  <2> QED
    BY <2>1
<1> QED
  BY <1>1, <1>2, <1>3, <1>4

(***************************************************************************)
(* One call c: what it has read is still true of the world or done, what   *)
(* it counts is what it holds, and before it reads it holds nothing.       *)
(***************************************************************************)
CallOK(c) ==
  /\ c \in Calls /\ c.now <= worldTime
  /\ IsFiniteSet(c.todo) /\ IsFiniteSet(c.reports) /\ IsFiniteSet(c.failures)
  /\ c.count + Cardinality(c.todo) <= Limit
  /\ Cardinality(c.reports) + Cardinality(c.failures) <= c.count
  /\ c.step # "completing"
       => c.todo = {} /\ c.count = 0 /\ c.reports = {} /\ c.failures = {}
  /\ \A item \in c.todo : ItemOK(item)
  /\ ReqsDiffer(c.todo)
  /\ \A f \in c.failures : f.code = "INVALID_WORK_ITEM" => Done(f.req)

\* The inductive invariant of tokens and calls.
CallsInv ==
  /\ token \in [Drivers -> 0 .. lease]
  /\ call \in [Drivers -> Calls]
  /\ \A d \in Drivers : CallOK(call[d])

\* A blank call holds nothing, so everything it holds is in order.
LEMMA BlankOK ==
  ASSUME NEW step \in {"idle", "advanced", "asserted", "reading"}, NEW now \in {0, worldTime},
         TypeOK
  PROVE  CallOK(Blank(step, now))
<1>1. worldTime \in Nat
  BY TimeAssumption DEF TypeOK, Times
<1>2. IsFiniteSet({}) /\ Cardinality({}) = 0
  BY FS_EmptySet
<1>3. Blank(step, now) \in Calls /\ Blank(step, now).now <= worldTime
  BY <1>1 DEF Blank, Calls
<1>4. /\ Blank(step, now).todo = {} /\ Blank(step, now).reports = {}
      /\ Blank(step, now).failures = {} /\ Blank(step, now).count = 0
  BY DEF Blank
<1> QED
  BY <1>2, <1>3, <1>4, DriverAssumption DEF CallOK, ReqsDiffer

\* A call that a step leaves alone stays in order.
LEMMA CallKept ==
  ASSUME RInv, [Next]_vars, NEW c, CallOK(c)
  PROVE  CallOK(c)'
<1>1. c.todo \in SUBSET WorkItems /\ c.failures \in SUBSET FailureItems /\ c.now \in Nat
  BY DEF CallOK, Calls
<1>2. worldTime' >= worldTime /\ worldTime \in Nat /\ worldTime' \in Nat
  BY LedgerStep, OpenOutcomesStep, TimeAssumption DEF RInv, IInv, TypeOK, Times
<1>3. c.now <= worldTime'
  BY <1>1, <1>2 DEF CallOK
<1>4. \A item \in c.todo : ItemOK(item)'
  BY <1>1, ItemKept DEF CallOK
<1>5. \A f \in c.failures : f.code = "INVALID_WORK_ITEM" => Done(f.req)'
  BY <1>1, DoneStays DEF CallOK, FailureItems
<1> QED
  BY <1>3, <1>4, <1>5 DEF CallOK, ReqsDiffer

\* The call that has read its batch.
LEMMA ReadCallOK ==
  ASSUME World, NEW c, CallOK(c), c.step = "reading", NEW new,
         new = [c EXCEPT !.step = "completing", !.todo = DueBatch(c.now)]
  PROVE  CallOK(new)
<1>1. c \in Calls
  BY DEF CallOK
<1>2. /\ DueBatch(c.now) \in SUBSET WorkItems
      /\ IsFiniteSet(DueBatch(c.now)) /\ Cardinality(DueBatch(c.now)) \in Nat
      /\ Cardinality(DueBatch(c.now)) <= Limit
      /\ \A item \in DueBatch(c.now) : ItemOK(item)
      /\ ReqsDiffer(DueBatch(c.now))
  BY BatchFacts
<1> DEFINE B == DueBatch(c.now)
<1>3. /\ new.step = "completing" /\ new.now = c.now /\ new.todo = B /\ new.count = c.count
      /\ new.reports = c.reports /\ new.failures = c.failures
      /\ new \in Calls
  BY <1>1, <1>2 DEF Calls
<1>4. c.count = 0
  BY DEF CallOK
<1>5. new.count + Cardinality(new.todo) <= Limit
  BY <1>2, <1>3, <1>4, DriverAssumption
<1> QED
  BY <1>2, <1>3, <1>5 DEF CallOK

\* a set of one element at most
OneAtMost(T) == T = {} \/ \E x : T = {x}

\* A set that may have got one element more is at most one larger.
LEMMA AtMostOneMore ==
  ASSUME NEW S, IsFiniteSet(S), NEW T, OneAtMost(T), NEW U, U = S \cup T
  PROVE  /\ IsFiniteSet(U) /\ Cardinality(U) \in Nat
         /\ Cardinality(U) <= Cardinality(S) + 1
<1>1. Cardinality(S) \in Nat
  BY FS_CardinalityType
<1>2. CASE T = {}
  <2>1. U = S
    BY <1>2
  <2>2. IsFiniteSet(U) /\ Cardinality(U) = Cardinality(S)
    BY <2>1, Zenon
  <2> QED
    BY <1>1, <2>2
<1>3. ASSUME NEW x, T = {x}
      PROVE  /\ IsFiniteSet(U) /\ Cardinality(U) \in Nat
             /\ Cardinality(U) <= Cardinality(S) + 1
  <2>1. /\ IsFiniteSet(S \cup {x})
        /\ Cardinality(S \cup {x}) = IF x \in S THEN Cardinality(S) ELSE Cardinality(S) + 1
    BY FS_AddElement
  <2>2. U = S \cup {x}
    BY <1>3
  <2> QED
    BY <1>1, <2>1, <2>2
<1> QED
  BY <1>2, <1>3 DEF OneAtMost

\* new is c after item was worked off, with `reports` and `failures` instead of its own.
WorkedOff(new, c, item, reports, failures) ==
  /\ new \in Calls /\ new.step = c.step /\ new.now = c.now
  /\ new.todo = c.todo \ {item} /\ new.count = c.count + 1
  /\ new.reports = reports /\ new.failures = failures

\* new is c with three of its fields replaced.
FailedForm(new, c, todo, count, failures) ==
  new = [c EXCEPT !.todo = todo, !.count = count, !.failures = failures]

CompletedForm(new, c, todo, count, reports) ==
  new = [c EXCEPT !.todo = todo, !.count = count, !.reports = reports]

\* A call with three of its fields replaced is a call with these fields.
LEMMA FailedFields ==
  ASSUME NEW c \in Calls, NEW todo \in SUBSET WorkItems, NEW count \in Nat,
         NEW failures \in SUBSET FailureItems, NEW new,
         FailedForm(new, c, todo, count, failures)
  PROVE  /\ new \in Calls /\ new.step = c.step /\ new.now = c.now /\ new.todo = todo
         /\ new.count = count /\ new.reports = c.reports /\ new.failures = failures
<1> DEFINE one == [c EXCEPT !.todo = todo]
           two == [one EXCEPT !.count = count]
<1>1. /\ one \in Calls /\ one.step = c.step /\ one.now = c.now /\ one.todo = todo
      /\ one.reports = c.reports /\ one.failures = c.failures
  BY DEF Calls
<1> HIDE DEF one
<1>2. /\ two \in Calls /\ two.step = c.step /\ two.now = c.now /\ two.todo = todo
      /\ two.count = count /\ two.reports = c.reports /\ two.failures = c.failures
  BY <1>1 DEF Calls
<1>3. new = [two EXCEPT !.failures = failures]
  BY DEF one, FailedForm
<1> HIDE DEF two
<1> QED
  BY <1>2, <1>3 DEF Calls

\* The same for a completed item.
LEMMA CompletedFields ==
  ASSUME NEW c \in Calls, NEW todo \in SUBSET WorkItems, NEW count \in Nat,
         NEW reports \in SUBSET CompletionWakes, NEW new,
         CompletedForm(new, c, todo, count, reports)
  PROVE  /\ new \in Calls /\ new.step = c.step /\ new.now = c.now /\ new.todo = todo
         /\ new.count = count /\ new.reports = reports /\ new.failures = c.failures
<1> DEFINE one == [c EXCEPT !.todo = todo]
           two == [one EXCEPT !.count = count]
<1>1. /\ one \in Calls /\ one.step = c.step /\ one.now = c.now /\ one.todo = todo
      /\ one.reports = c.reports /\ one.failures = c.failures
  BY DEF Calls
<1> HIDE DEF one
<1>2. /\ two \in Calls /\ two.step = c.step /\ two.now = c.now /\ two.todo = todo
      /\ two.count = count /\ two.reports = c.reports /\ two.failures = c.failures
  BY <1>1 DEF Calls
<1>3. new = [two EXCEPT !.reports = reports]
  BY DEF one, CompletedForm
<1> HIDE DEF two
<1> QED
  BY <1>2, <1>3 DEF Calls

\* extra is new, in one of the two sets.
Gained(c, reports, failures, extra) ==
  \/ reports = c.reports /\ failures = c.failures \cup extra
  \/ reports = c.reports \cup extra /\ failures = c.failures

\* What working an item off does to the counts of a call.
LEMMA WorkedOffCounts ==
  ASSUME NEW c, CallOK(c), c.step = "completing", NEW item \in c.todo, NEW new,
         NEW reports, NEW failures, WorkedOff(new, c, item, reports, failures),
         NEW extra, OneAtMost(extra), Gained(c, reports, failures, extra)
  PROVE  /\ new.count + Cardinality(new.todo) = c.count + Cardinality(c.todo)
         /\ IsFiniteSet(new.todo) /\ IsFiniteSet(new.reports) /\ IsFiniteSet(new.failures)
         /\ Cardinality(new.reports) + Cardinality(new.failures) <= new.count
<1>1. /\ c.count \in Nat /\ IsFiniteSet(c.todo) /\ IsFiniteSet(c.reports)
      /\ IsFiniteSet(c.failures)
  BY DEF CallOK, Calls
<1>2. /\ IsFiniteSet(new.todo) /\ Cardinality(c.todo) \in Nat
      /\ Cardinality(new.todo) = Cardinality(c.todo) - 1
      /\ new.count = c.count + 1
  <2>1. new.todo = c.todo \ {item} /\ new.count = c.count + 1
    BY DEF WorkedOff
  <2>2. /\ IsFiniteSet(c.todo \ {item}) /\ Cardinality(c.todo) \in Nat
        /\ Cardinality(c.todo \ {item}) = Cardinality(c.todo) - 1
    BY <1>1, FS_RemoveElement, FS_CardinalityType
  <2> QED
    BY <2>1, <2>2, Zenon
<1>3. /\ Cardinality(c.reports) \in Nat /\ Cardinality(c.failures) \in Nat
      /\ Cardinality(c.reports) + Cardinality(c.failures) <= c.count
  BY <1>1, FS_CardinalityType DEF CallOK
<1>4. /\ IsFiniteSet(reports) /\ IsFiniteSet(failures)
      /\ Cardinality(reports) + Cardinality(failures) <= c.count + 1
  <2>1. CASE reports = c.reports /\ failures = c.failures \cup extra
    <3>1. /\ IsFiniteSet(failures) /\ Cardinality(failures) \in Nat
          /\ Cardinality(failures) <= Cardinality(c.failures) + 1
      BY <1>1, <2>1, AtMostOneMore
    <3>2. IsFiniteSet(reports) /\ Cardinality(reports) = Cardinality(c.reports)
      BY <1>1, <2>1, Zenon
    <3> QED
      BY <1>1, <1>3, <3>1, <3>2
  <2>2. CASE reports = c.reports \cup extra /\ failures = c.failures
    <3>1. /\ IsFiniteSet(reports) /\ Cardinality(reports) \in Nat
          /\ Cardinality(reports) <= Cardinality(c.reports) + 1
      BY <1>1, <2>2, AtMostOneMore
    <3>2. IsFiniteSet(failures) /\ Cardinality(failures) = Cardinality(c.failures)
      BY <1>1, <2>2, Zenon
    <3> QED
      BY <1>1, <1>3, <3>1, <3>2
  <2> QED
    BY <2>1, <2>2 DEF Gained
<1>5. new.reports = reports /\ new.failures = failures
  BY DEF WorkedOff
<1>6. /\ IsFiniteSet(new.reports) /\ IsFiniteSet(new.failures)
      /\ Cardinality(new.reports) + Cardinality(new.failures) <= c.count + 1
  BY <1>4, <1>5, Zenon
<1> QED
  BY <1>1, <1>2, <1>6

\* Working an item off keeps a call in order.
LEMMA WorkedOffOK ==
  ASSUME NEW c, CallOK(c), c.step = "completing", NEW item \in c.todo, NEW new,
         NEW reports, NEW failures, WorkedOff(new, c, item, reports, failures),
         \A f \in failures : f.code = "INVALID_WORK_ITEM" => Done(f.req),
         /\ new.count + Cardinality(new.todo) = c.count + Cardinality(c.todo)
         /\ IsFiniteSet(new.todo) /\ IsFiniteSet(new.reports) /\ IsFiniteSet(new.failures)
         /\ Cardinality(new.reports) + Cardinality(new.failures) <= new.count
  PROVE  CallOK(new)
<1>1. /\ \A i \in new.todo : ItemOK(i)
      /\ ReqsDiffer(new.todo)
  BY DEF CallOK, ReqsDiffer, WorkedOff
<1>2. new.now <= worldTime /\ c.count + Cardinality(c.todo) <= Limit
  BY DEF CallOK, WorkedOff
<1>3. new.count + Cardinality(new.todo) <= Limit
  BY <1>2
<1>4. new.step = "completing" /\ new \in Calls
  BY DEF WorkedOff
<1>5. \A f \in new.failures : f.code = "INVALID_WORK_ITEM" => Done(f.req)
  BY DEF WorkedOff
<1> QED
  BY <1>1, <1>2, <1>3, <1>4, <1>5 DEF CallOK

\* What a failed item makes of its call.
LEMMA FailedCall ==
  ASSUME World, NEW c, CallOK(c), c.step = "completing", NEW item \in c.todo, NEW d,
         NEW result, result = ItemResult(d, item), result # "EXECUTED",
         NEW new, new = AfterFailure(c, item, result)
  PROVE  /\ CallOK(new)
         /\ new.count + Cardinality(new.todo) = c.count + Cardinality(c.todo)
         /\ WorkedOff(new, c, item, c.reports,
                      c.failures \cup
                        (IF result = "REUSED" THEN {}
                         ELSE {[req |-> item.req, code |-> FailureCode(result)]}))
<1> DEFINE extra == IF result = "REUSED" THEN {}
                    ELSE {[req |-> item.req, code |-> FailureCode(result)]}
<1>1. PICK todo, count, failures :
        todo = c.todo \ {item} /\ count = c.count + 1 /\ failures = c.failures \cup extra
  OBVIOUS
<1>2. /\ c \in Calls /\ c.count \in Nat /\ item \in WorkItems /\ ItemOK(item)
      /\ c.failures \in SUBSET FailureItems
      /\ c.todo \in SUBSET WorkItems /\ item.req \in Requests
  BY DEF CallOK, Calls, WorkItems
<1>3. /\ result \in {"REUSED", "INVALID_COMPLETION", "NOT_DUE", "REJECTED", "EXECUTION_ERROR"}
      /\ result = "INVALID_COMPLETION" => Done(item.req)
  BY <1>2, ItemAnswers
<1>4. result # "REUSED" =>
        /\ FailureCode(result) \in {"INVALID_WORK_ITEM", "STALE_STATE", "WORLD_NOT_RUNNING",
                                    "EXECUTION_ERROR"}
        /\ FailureCode(result) = "INVALID_WORK_ITEM" => Done(item.req)
  BY <1>3, FailureCodes
<1>5. OneAtMost(extra) /\ Gained(c, c.reports, failures, extra)
  BY <1>1 DEF OneAtMost, Gained
<1>6. /\ extra \in SUBSET FailureItems
      /\ \A f \in extra : f.code = "INVALID_WORK_ITEM" => Done(f.req)
  BY <1>2, <1>4 DEF FailureItems
<1>7. FailedForm(new, c, todo, count, failures)
  BY <1>1, Zenon DEF AfterFailure, FailedForm
<1>8. WorkedOff(new, c, item, c.reports, failures)
  <2>1. c \in Calls /\ todo \in SUBSET WorkItems /\ count \in Nat
    BY <1>1, <1>2
  <2>2. failures \in SUBSET FailureItems
    BY <1>1, <1>2, <1>6
  <2>3. /\ new \in Calls /\ new.step = c.step /\ new.now = c.now /\ new.todo = todo
        /\ new.count = count /\ new.reports = c.reports /\ new.failures = failures
    BY <1>7, <2>1, <2>2, FailedFields
  <2> QED
    BY <1>1, <2>3 DEF WorkedOff
<1>9. \A f \in failures : f.code = "INVALID_WORK_ITEM" => Done(f.req)
  BY <1>1, <1>6 DEF CallOK
<1> HIDE DEF extra
<1>10. /\ new.count + Cardinality(new.todo) = c.count + Cardinality(c.todo)
       /\ IsFiniteSet(new.todo) /\ IsFiniteSet(new.reports) /\ IsFiniteSet(new.failures)
       /\ Cardinality(new.reports) + Cardinality(new.failures) <= new.count
  BY <1>1, <1>5, <1>8, WorkedOffCounts
<1>11. CallOK(new)
  BY <1>8, <1>9, <1>10, WorkedOffOK
<1>12. WorkedOff(new, c, item, c.reports, c.failures \cup extra)
  BY <1>1, <1>8, Zenon
<1> QED
  BY <1>10, <1>11, <1>12, Zenon DEF extra

\* What a completed item makes of its call.
LEMMA CompletedCall ==
  ASSUME NEW c, CallOK(c), c.step = "completing", NEW item \in c.todo,
         NEW seq \in Nat, NEW new, new = AfterCompletion(c, item, seq)
  PROVE  /\ CallOK(new)
         /\ new.count + Cardinality(new.todo) = c.count + Cardinality(c.todo)
         /\ WorkedOff(new, c, item, c.reports \cup {CompletionWake(item, seq)}, c.failures)
<1> DEFINE extra == {CompletionWake(item, seq)}
<1>1. PICK todo, count, reports :
        todo = c.todo \ {item} /\ count = c.count + 1 /\ reports = c.reports \cup extra
  OBVIOUS
<1>2. /\ c \in Calls /\ c.count \in Nat /\ item \in WorkItems
      /\ c.reports \in SUBSET CompletionWakes /\ c.todo \in SUBSET WorkItems
  BY DEF CallOK, Calls
<1>3. extra \in SUBSET CompletionWakes
  BY <1>2 DEF CompletionWake, CompletionWakes, WorkItems
<1>4. OneAtMost(extra) /\ Gained(c, reports, c.failures, extra)
  BY <1>1 DEF OneAtMost, Gained
<1>5. CompletedForm(new, c, todo, count, reports)
  BY <1>1, Zenon DEF AfterCompletion, CompletedForm
<1> HIDE DEF extra
<1>6. WorkedOff(new, c, item, reports, c.failures)
  <2>1. c \in Calls /\ todo \in SUBSET WorkItems /\ count \in Nat
    BY <1>1, <1>2
  <2>2. reports \in SUBSET CompletionWakes
    BY <1>1, <1>2, <1>3
  <2>3. /\ new \in Calls /\ new.step = c.step /\ new.now = c.now /\ new.todo = todo
        /\ new.count = count /\ new.reports = reports /\ new.failures = c.failures
    BY <1>5, <2>1, <2>2, CompletedFields
  <2> QED
    BY <1>1, <2>3 DEF WorkedOff
<1>7. \A f \in c.failures : f.code = "INVALID_WORK_ITEM" => Done(f.req)
  BY DEF CallOK
<1>8. /\ new.count + Cardinality(new.todo) = c.count + Cardinality(c.todo)
      /\ IsFiniteSet(new.todo) /\ IsFiniteSet(new.reports) /\ IsFiniteSet(new.failures)
      /\ Cardinality(new.reports) + Cardinality(new.failures) <= new.count
  BY <1>1, <1>4, <1>6, WorkedOffCounts
<1>9. CallOK(new)
  BY <1>6, <1>7, <1>8, WorkedOffOK
<1>10. WorkedOff(new, c, item, c.reports \cup extra, c.failures)
  BY <1>1, <1>6, Zenon
<1> QED
  BY <1>8, <1>9, <1>10, Zenon DEF extra

\* What an item in an orderly call is.
LEMMA CallItems ==
  ASSUME NEW c, CallOK(c), NEW item \in c.todo
  PROVE  /\ item \in WorkItems /\ item.req \in Requests /\ item.version \in Nat
         /\ ItemOK(item)
BY DEF CallOK, Calls, WorkItems

\* Calls that a step leaves alone stay in order, and so do tokens.
LEMMA CallsKept ==
  ASSUME World, CallsInv, [Next]_vars
  PROVE  /\ \A d \in Drivers : call'[d] = call[d] => CallOK(call[d])'
         /\ lease \in Nat /\ lease' \in Nat /\ lease' >= lease
         /\ token' = token => token' \in [Drivers -> 0 .. lease']
<1>1. ASSUME NEW d \in Drivers, call'[d] = call[d] PROVE CallOK(call[d])'
  <2>1. PICK c : c = call[d]
    OBVIOUS
  <2>2. CallOK(c)
    BY <2>1 DEF CallsInv
  <2>3. CallOK(c)'
    BY <2>2, CallKept DEF World
  <2> QED
    BY <1>1, <2>1, <2>3
<1>2. lease \in Nat /\ lease' \in Nat /\ lease' >= lease
  BY LedgerStep, OpenOutcomesStep, TimeAssumption DEF World, RInv, IInv, TypeOK
<1>3. token' = token => token' \in [Drivers -> 0 .. lease']
  BY <1>2 DEF CallsInv
<1> QED
  BY <1>1, <1>2, <1>3

\* One driver gets an orderly call.
LEMMA NewCall ==
  ASSUME World, CallsInv, [Next]_vars, NEW d \in Drivers, NEW new, CallOK(new),
         call' = [call EXCEPT ![d] = new]
  PROVE  /\ call' \in [Drivers -> Calls] /\ call'[d] = new
         /\ \A e \in Drivers \ {d} : call'[e] = call[e]
         /\ \A e \in Drivers : CallOK(call[e])'
<1>1. new \in Calls
  BY DEF CallOK
<1>2. /\ call' \in [Drivers -> Calls] /\ call'[d] = new
      /\ \A e \in Drivers \ {d} : call'[e] = call[e]
  BY <1>1 DEF CallsInv
<1>3. CallOK(new)'
  BY CallKept DEF World
<1>4. CallOK(call[d])'
  BY <1>2, <1>3
<1>5. \A e \in Drivers \ {d} : CallOK(call[e])'
  BY <1>2, CallsKept
<1> QED
  BY <1>2, <1>4, <1>5

\* A driver that works on an item.
LEMMA ItemStep ==
  ASSUME World, CallsInv, [Next]_vars, NEW d \in Drivers,
         CompleteItem(d) \/ FailItem(d)
  PROVE  /\ token' = token
         /\ \E c \in Calls, new \in Calls : \E item \in c.todo :
              /\ c = call[d] /\ CallOK(c) /\ c.step = "completing"
              /\ CallOK(new) /\ call' = [call EXCEPT ![d] = new]
              /\ new.count + Cardinality(new.todo) = c.count + Cardinality(c.todo)
              /\ \/ /\ Complete(item.req, token[d], item.version)
                    /\ WorkedOff(new, c, item,
                                 c.reports \cup {CompletionWake(item, worldSeq + 1)}, c.failures)
                 \/ /\ ItemResult(d, item) # "EXECUTED" /\ UNCHANGED vars
                    /\ WorkedOff(new, c, item, c.reports,
                         c.failures \cup
                           (IF ItemResult(d, item) = "REUSED" THEN {}
                            ELSE {[req |-> item.req, code |-> FailureCode(ItemResult(d, item))]}))
<1>1. PICK c : c = call[d]
  OBVIOUS
<1>2. CallOK(c) /\ c \in Calls
  BY <1>1 DEF CallsInv, CallOK
<1>3. ASSUME NEW item \in c.todo, c.step = "completing",
             Complete(item.req, token[d], item.version),
             NEW new, new = AfterCompletion(c, item, worldSeq + 1)
      PROVE  /\ CallOK(new) /\ new \in Calls
             /\ new.count + Cardinality(new.todo) = c.count + Cardinality(c.todo)
             /\ WorkedOff(new, c, item,
                          c.reports \cup {CompletionWake(item, worldSeq + 1)}, c.failures)
  <2>1. PICK seq : seq = worldSeq + 1
    OBVIOUS
  <2>2. seq \in Nat
    BY <2>1, LedgerEntries DEF World, RInv, IInv
  <2>3. /\ CallOK(new)
        /\ new.count + Cardinality(new.todo) = c.count + Cardinality(c.todo)
        /\ WorkedOff(new, c, item, c.reports \cup {CompletionWake(item, seq)}, c.failures)
    <3>1. new = AfterCompletion(c, item, seq)
      BY <1>3, <2>1, Zenon
    <3> QED
      BY <1>2, <1>3, <2>2, <3>1, CompletedCall
  <2>4. new \in Calls
    BY <2>3 DEF CallOK
  <2> QED
    BY <2>1, <2>3, <2>4, Zenon
<1>4. ASSUME NEW item \in c.todo, c.step = "completing",
             NEW result, result = ItemResult(d, item), result # "EXECUTED",
             NEW new, new = AfterFailure(c, item, result)
      PROVE  /\ CallOK(new) /\ new \in Calls
             /\ new.count + Cardinality(new.todo) = c.count + Cardinality(c.todo)
             /\ WorkedOff(new, c, item, c.reports,
                          c.failures \cup
                            (IF result = "REUSED" THEN {}
                             ELSE {[req |-> item.req, code |-> FailureCode(result)]}))
  <2>1. /\ CallOK(new)
        /\ new.count + Cardinality(new.todo) = c.count + Cardinality(c.todo)
        /\ WorkedOff(new, c, item, c.reports,
                     c.failures \cup
                       (IF result = "REUSED" THEN {}
                        ELSE {[req |-> item.req, code |-> FailureCode(result)]}))
    BY <1>2, <1>4, FailedCall
  <2> QED
    BY <2>1 DEF CallOK
<1>5. CASE CompleteItem(d)
  <2>1. PICK item \in c.todo :
          /\ c.step = "completing" /\ Complete(item.req, token[d], item.version)
          /\ call' = [call EXCEPT ![d] = AfterCompletion(c, item, worldSeq + 1)]
          /\ token' = token
    BY <1>1, <1>5 DEF CompleteItem, At, Enter
  <2>2. PICK new : new = AfterCompletion(c, item, worldSeq + 1)
    OBVIOUS
  <2>3. /\ CallOK(new) /\ new \in Calls
        /\ new.count + Cardinality(new.todo) = c.count + Cardinality(c.todo)
        /\ WorkedOff(new, c, item,
                     c.reports \cup {CompletionWake(item, worldSeq + 1)}, c.failures)
    BY <1>3, <2>1, <2>2, Zenon
  <2>4. call' = [call EXCEPT ![d] = new]
    BY <2>1, <2>2, Zenon
  <2> QED
    BY <1>1, <1>2, <2>1, <2>3, <2>4, Zenon
<1>6. CASE FailItem(d)
  <2>1. PICK item \in c.todo :
          /\ c.step = "completing" /\ ItemResult(d, item) # "EXECUTED"
          /\ call' = [call EXCEPT ![d] = AfterFailure(c, item, ItemResult(d, item))]
          /\ token' = token /\ UNCHANGED vars
    BY <1>1, <1>6 DEF FailItem, At, Enter
  <2>2. PICK result : result = ItemResult(d, item)
    OBVIOUS
  <2>3. PICK new : new = AfterFailure(c, item, result)
    OBVIOUS
  <2> QED
    BY <1>1, <1>2, <1>4, <2>1, <2>2, <2>3
<1> QED
  BY <1>5, <1>6

\* Every step keeps tokens and calls in order.
LEMMA CallsStep ==
  ASSUME World, CallsInv, [DriverNext]_allVars
  PROVE  CallsInv'
<1>0. [Next]_vars /\ TypeOK
  BY DriverStepSimulation DEF World, RInv, IInv
<1>1. token' = token => token' \in [Drivers -> 0 .. lease']
  BY <1>0, CallsKept
<1>2. ASSUME NEW d \in Drivers, NEW new, CallOK(new), call' = [call EXCEPT ![d] = new],
             token' \in [Drivers -> 0 .. lease']
      PROVE  CallsInv'
  BY <1>0, <1>2, NewCall DEF CallsInv
<1>3. ASSUME NEW d \in Drivers, CompleteItem(d) \/ FailItem(d)
      PROVE  CallsInv'
  BY <1>0, <1>1, <1>2, <1>3, ItemStep
<1>4. CallOK(NoCall)
  <2>1. NoCall = Blank("idle", 0)
    BY DEF NoCall, Blank
  <2> QED
    BY <1>0, <2>1, BlankOK
<1>5. ASSUME NEW d \in Drivers, Opens(d)
      PROVE  CallsInv'
  <2>1. PICK step \in {"idle", "advanced", "asserted", "reading"}, now \in {0, worldTime} :
          call' = [call EXCEPT ![d] = Blank(step, now)]
    BY <1>5 DEF Opens
  <2>2. CallOK(Blank(step, now))
    BY <1>0, BlankOK
  <2> QED
    BY <1>1, <1>2, <1>5, <2>1, <2>2 DEF Opens
<1>6. ASSUME NEW d \in Drivers, Reads(d)
      PROVE  CallsInv'
  <2>1. PICK c : c = call[d]
    OBVIOUS
  <2>2. PICK new : new = [c EXCEPT !.step = "completing", !.todo = DueBatch(c.now)]
    OBVIOUS
  <2>3. CallOK(c) /\ c.step = "reading" /\ call' = [call EXCEPT ![d] = new] /\ token' = token
    BY <1>6, <2>1, <2>2 DEF Reads, CallsInv
  <2>4. CallOK(new)
    BY <2>2, <2>3, ReadCallOK
  <2> QED
    BY <1>1, <1>2, <2>3, <2>4
<1>7. ASSUME NEW d \in Drivers, ReturnResult(d)
      PROVE  CallsInv'
  BY <1>1, <1>2, <1>4, <1>7 DEF ReturnResult, Return, Enter
<1>8. ASSUME NEW d \in Drivers, Acquire(d)
      PROVE  CallsInv'
  <2>1. call' = call /\ lease' = lease + 1 /\ token' = [token EXCEPT ![d] = lease + 1]
    BY <1>8 DEF Acquire, AcquireLease
  <2>2. token' \in [Drivers -> 0 .. lease']
    BY <1>0, <2>1, CallsKept DEF CallsInv
  <2> QED
    BY <1>0, <2>1, <2>2, CallsKept DEF CallsInv
<1>9. ASSUME NEW d \in Drivers, Crash(d)
      PROVE  CallsInv'
  <2>1. token' = [token EXCEPT ![d] = 0] /\ call' = [call EXCEPT ![d] = NoCall]
    BY <1>9 DEF Crash
  <2>2. token' \in [Drivers -> 0 .. lease']
    BY <1>0, <2>1, CallsKept DEF CallsInv
  <2> QED
    BY <1>2, <1>4, <2>1, <2>2
<1>10. CASE UNCHANGED dvars
  BY <1>0, <1>1, <1>10, CallsKept DEF CallsInv, dvars
<1> QED
  BY <1>3, <1>5, <1>6, <1>7, <1>8, <1>9, <1>10, DriverKinds

\* Nobody is in a call when the drivers are created.
LEMMA InitCalls == DriverInit => CallsInv
<1> SUFFICES ASSUME DriverInit PROVE CallsInv
  OBVIOUS
<1>1. TypeOK /\ lease = 0
  BY InitInv DEF DriverInit, Init, IInv
<1>2. NoCall = Blank("idle", 0)
  BY DEF NoCall, Blank
<1>3. CallOK(NoCall)
  BY <1>1, <1>2, BlankOK
<1>4. NoCall \in Calls
  BY <1>3 DEF CallOK
<1>5. token = [d \in Drivers |-> 0] /\ call = [d \in Drivers |-> NoCall]
  BY DEF DriverInit
<1> QED
  BY <1>1, <1>3, <1>4, <1>5 DEF CallsInv

\* Tokens and calls are always in order.
LEMMA CallsHold == DriverSpec => [](World /\ CallsInv)
<1>1. World /\ CallsInv /\ [DriverNext]_allVars => CallsInv'
  BY CallsStep
<1> QED
  BY <1>1, InitCalls, WorldHolds, PTL DEF DriverSpec

(***************************************************************************)
(* Whatever other drivers and clients do meanwhile, a call never works off *)
(* or reports more than its limit, even though two due rows may be one     *)
(* item and registered wakes fill up what completions leave.               *)
(***************************************************************************)
THEOREM CallsKeepTheirLimits == DriverSpec => []DriverTypeOK
<1>1. CallsInv => DriverTypeOK
  BY DEF CallsInv, CallOK, DriverTypeOK
<1> QED
  BY <1>1, CallsHold, PTL

(***************************************************************************)
(* What is given up as not retryable was completed: an activity that is    *)
(* still in progress is never poisoned, with leases or without.            *)
(***************************************************************************)
THEOREM OnlyTheDoneIsPoison == DriverSpec => []PoisonMeansDone
<1>1. CallsInv => PoisonMeansDone
  BY PhaseFacts DEF CallsInv, CallOK, PoisonMeansDone, Failures, Done
<1> QED
  BY <1>1, CallsHold, PTL

-----------------------------------------------------------------------------
(* What is reported *)

\* The wake says what the completion at its position committed.
ReportOK(w) ==
  /\ w.seq \in 1 .. worldSeq
  /\ ledger[w.seq].type = "COMPLETED" /\ ledger[w.seq].req = w.req
  /\ w.resident = w.req.actor
  /\ w.version = Cardinality(LifecycleEvents(w.resident, w.seq))

\* The ledger goes on, but what it said it goes on to say.
LEMMA ReportStays ==
  ASSUME TypeOK, NEW w, ReportOK(w),
         ledger' = ledger \/ \E type, r, at, f : Commit(type, r, at, f)
  PROVE  ReportOK(w)' /\ ledger'[w.seq] = ledger[w.seq]
<1>1. CASE ledger' = ledger
  BY <1>1 DEF ReportOK, LifecycleEvents, worldSeq
<1>2. ASSUME NEW type, NEW r, NEW at, NEW f, Commit(type, r, at, f)
      PROVE  ReportOK(w)' /\ ledger'[w.seq] = ledger[w.seq]
  <2>1. worldSeq \in Nat /\ worldSeq' = worldSeq + 1 /\ w.seq \in 1 .. worldSeq
    BY <1>2, AppendEntries DEF ReportOK
  <2>2. w.seq \in 0 .. worldSeq /\ w.seq \in 1 .. worldSeq'
    BY <2>1
  <2>3. ledger'[w.seq] = ledger[w.seq]
    BY <1>2, <2>1, AppendEntries
  <2>4. LifecycleEvents(w.resident, w.seq)' = LifecycleEvents(w.resident, w.seq)
    BY <1>2, <2>2, EventsAppended
  <2> QED
    BY <2>2, <2>3, <2>4 DEF ReportOK
<1> QED
  BY <1>1, <1>2

\* The wake of a completion says what that completion commits.
LEMMA ReportMade ==
  ASSUME World, NEW item \in WorkItems, ItemOK(item), NEW f,
         Complete(item.req, f, item.version),
         NEW w, w = CompletionWake(item, worldSeq + 1)
  PROVE  /\ ReportOK(w)' /\ w.seq = worldSeq + 1 /\ w.kind = "ACTIVITY_COMPLETED"
         /\ ledger'[w.seq].fence = f
<1> USE DEF World, RInv, IInv
<1> DEFINE x == item.req.actor
<1>0. PICK n : n = worldSeq
  OBVIOUS
<1>1. /\ item.req \in requests /\ item.req \in Requests /\ x \in Residents /\ x \in Parties(item.req)
      /\ item.version \in Nat /\ item.resident = x
  BY RequestFacts DEF ItemOK, WorkItems
<1>2. runtime[x].version = item.version
  <2>1. CompletionDisposition(item.req, item.version) = "EXECUTED"
    BY DEF Complete
  <2>2. StateVersionHolds(item.req, item.version)
    BY <2>1 DEF CompletionDisposition
  <2> QED
    BY <1>1, <2>2, NoneAssumption DEF StateVersionHolds
<1>3. Commit("COMPLETED", item.req, worldTime, f)
  BY DEF Complete
<1>4. /\ n \in Nat /\ worldSeq' = n + 1
      /\ ledger'[n + 1].type = "COMPLETED" /\ ledger'[n + 1].req = item.req
      /\ ledger'[n + 1].fence = f
  BY <1>0, <1>3, AppendEntries, AppendFacts
<1>5. LifecycleEvents(x, n + 1)' = LifecycleEvents(x, n) \cup {n + 1}
  <2>1. LifecycleEvents(x, n + 1)' = LifecycleEvents(x, n) \cup
          (IF "COMPLETED" # "WORLD_TIME_ADVANCED" /\ x \in Parties(item.req) THEN {n + 1} ELSE {})
    BY <1>0, <1>3, EventsAppended
  <2> QED
    BY <1>1, <2>1
<1>6. /\ LifecycleEvents(x, n) \in SUBSET (1 .. n)
      /\ item.version = Cardinality(LifecycleEvents(x, n))
  BY <1>0, <1>1, <1>2 DEF VersionsCountEvents, LifecycleEvents
<1>7. Cardinality(LifecycleEvents(x, n) \cup {n + 1}) = item.version + 1
  BY <1>4, <1>6, OneMore
<1>8. /\ w.seq = n + 1 /\ w.req = item.req /\ w.resident = x /\ w.version = item.version + 1
      /\ w.kind = "ACTIVITY_COMPLETED"
  BY <1>0, <1>1 DEF CompletionWake
<1>9. LifecycleEvents(w.resident, w.seq)' = LifecycleEvents(x, n + 1)'
  BY <1>8 DEF LifecycleEvents
<1>10. w.version = Cardinality(LifecycleEvents(w.resident, w.seq))'
  BY <1>5, <1>7, <1>8, <1>9
<1>11. w.seq \in 1 .. worldSeq'
  BY <1>4, <1>8
<1> HIDE DEF x
<1> QED
  BY <1>0, <1>4, <1>8, <1>10, <1>11 DEF ReportOK, x

\* A completion of the ledger is reported, will be, or was lost in a crash.
Accounted(i) ==
  \/ ledger[i].fence \in lost
  \/ \E w \in delivered : w.kind = "ACTIVITY_COMPLETED" /\ w.seq = i
  \/ \E d \in Drivers : \E w \in call[d].reports : w.seq = i

(***************************************************************************)
(* What was delivered and what calls will deliver describe completions;    *)
(* what a call will deliver it completed itself, under the token it holds, *)
(* so a crash that loses the call puts just its fence into `lost`.         *)
(***************************************************************************)
ReportsInv ==
  /\ \A w \in delivered : w.kind = "ACTIVITY_COMPLETED" => ReportOK(w)
  /\ \A d \in Drivers : \A w \in call[d].reports :
       ReportOK(w) /\ ledger[w.seq].fence = token[d]
  /\ \A i \in 1 .. worldSeq : ledger[i].type = "COMPLETED" => Accounted(i)

\* Registered wakes are no reports of completions.
LEMMA DueWakesAreOthers ==
  ASSUME TypeOK, NEW now, NEW room, NEW w \in DueWakes(now, room)
  PROVE  w.kind # "ACTIVITY_COMPLETED"
BY DEF TypeOK, WakeRows, DueWakes

\* The wakes a call holds are wakes of completions.
LEMMA ReportKinds ==
  ASSUME CallsInv, NEW d \in Drivers, NEW w \in call[d].reports
  PROVE  w.kind = "ACTIVITY_COMPLETED"
BY DEF CallsInv, Calls, CompletionWakes

\* A step that completes nothing keeps what is reported, and what is accounted for.
LEMMA UncompletingReports ==
  ASSUME World, CallsInv, ReportsInv, [Next]_vars, Uncompleting
  PROVE  /\ \A w : ReportOK(w) => ReportOK(w)' /\ ledger'[w.seq] = ledger[w.seq]
         /\ \A i \in 1 .. worldSeq' : ledger'[i].type = "COMPLETED" =>
              i \in 1 .. worldSeq /\ ledger'[i] = ledger[i] /\ Accounted(i)
<1>1. TypeOK /\ (ledger' = ledger \/ \E type, r, at, f : Commit(type, r, at, f))
  BY DEF World, RInv, IInv, Uncompleting
<1>2. \A w : ReportOK(w) => ReportOK(w)' /\ ledger'[w.seq] = ledger[w.seq]
  BY <1>1, ReportStays
<1>3. ASSUME NEW i \in 1 .. worldSeq', ledger'[i].type = "COMPLETED"
      PROVE  i \in 1 .. worldSeq /\ ledger'[i] = ledger[i] /\ Accounted(i)
  <2>1. CASE ledger' = ledger
    BY <1>3, <2>1 DEF ReportsInv, worldSeq
  <2>2. ASSUME NEW type \in {"STARTED", "WORLD_TIME_ADVANCED"}, NEW r, NEW at, NEW f,
               Commit(type, r, at, f)
        PROVE  i \in 1 .. worldSeq /\ ledger'[i] = ledger[i] /\ Accounted(i)
    <3>1. /\ worldSeq \in Nat /\ worldSeq' = worldSeq + 1
          /\ \A k \in 1 .. worldSeq : ledger'[k] = ledger[k]
          /\ ledger'[worldSeq + 1].type = type
      BY <1>1, <2>2, AppendEntries
    <3>2. type # "COMPLETED"
      OBVIOUS
    <3>3. i \in 1 .. worldSeq
      BY <1>3, <3>1, <3>2
    <3> QED
      BY <1>3, <3>1, <3>3 DEF ReportsInv
  <2> QED
    BY <2>1, <2>2 DEF Uncompleting
<1> QED
  BY <1>2, <1>3

\* Every step keeps reports true and accounts for completions.
LEMMA ReportsStep ==
  ASSUME World, CallsInv, ReportsInv, [DriverNext]_allVars
  PROVE  ReportsInv'
<1>0. [Next]_vars /\ TypeOK
  BY DriverStepSimulation DEF World, RInv, IInv
\* calls that keep their reports, or hand them over, or lose them with their token
<1>1. ASSUME Uncompleting, NEW gone \in SUBSET Drivers,
             \A d \in Drivers : call'[d].reports = IF d \in gone THEN {} ELSE call[d].reports,
             \A d \in Drivers : call'[d].reports # {} => token'[d] = token[d],
             lost \subseteq lost',
             \A d \in gone : \/ call[d].reports \subseteq delivered'
                             \/ token[d] \in lost',
             delivered \subseteq delivered',
             \A w \in delivered' : \/ w \in delivered \/ w.kind # "ACTIVITY_COMPLETED"
                                   \/ \E d \in gone : w \in call[d].reports
      PROVE  ReportsInv'
  <2>1. /\ \A w : ReportOK(w) => ReportOK(w)' /\ ledger'[w.seq] = ledger[w.seq]
        /\ \A i \in 1 .. worldSeq' : ledger'[i].type = "COMPLETED" =>
             i \in 1 .. worldSeq /\ ledger'[i] = ledger[i] /\ Accounted(i)
    BY <1>0, <1>1, UncompletingReports
  <2>2. \A w \in delivered' : w.kind = "ACTIVITY_COMPLETED" => ReportOK(w)'
    BY <1>1, <2>1 DEF ReportsInv
  <2>3. \A d \in Drivers : \A w \in call'[d].reports :
          ReportOK(w)' /\ ledger'[w.seq].fence = token'[d]
    BY <1>1, <2>1 DEF ReportsInv
  <2>4. ASSUME NEW i \in 1 .. worldSeq', ledger'[i].type = "COMPLETED"
        PROVE  Accounted(i)'
    <3>1. i \in 1 .. worldSeq /\ ledger'[i] = ledger[i] /\ Accounted(i)
      BY <2>1, <2>4
    <3>2. CASE ledger[i].fence \in lost
      BY <1>1, <3>1, <3>2 DEF Accounted
    <3>3. CASE \E w \in delivered : w.kind = "ACTIVITY_COMPLETED" /\ w.seq = i
      BY <1>1, <3>3 DEF Accounted
    <3>4. ASSUME NEW d \in Drivers, NEW w \in call[d].reports, w.seq = i
          PROVE  Accounted(i)'
      <4>1. ledger'[i].fence = token[d] /\ w.kind = "ACTIVITY_COMPLETED"
        BY <3>1, <3>4, ReportKinds DEF ReportsInv
      <4> QED
        BY <1>1, <3>4, <4>1 DEF Accounted
    <3> QED
      BY <3>1, <3>2, <3>3, <3>4 DEF Accounted
  <2> QED
    BY <2>2, <2>3, <2>4 DEF ReportsInv
<1>2. \A d \in Drivers : call[d].step # "completing" => call[d].reports = {}
  BY DEF CallsInv, CallOK
<1>3. ASSUME NEW d \in Drivers, NEW new, call' = [call EXCEPT ![d] = new]
      PROVE  call'[d] = new /\ \A e \in Drivers \ {d} : call'[e] = call[e]
  BY <1>3 DEF CallsInv
<1>4. ASSUME NEW d \in Drivers, Opens(d), Uncompleting
      PROVE  ReportsInv'
  <2>1. PICK step, now : call' = [call EXCEPT ![d] = Blank(step, now)]
    BY <1>4 DEF Opens
  <2>2. call'[d] = Blank(step, now) /\ \A e \in Drivers \ {d} : call'[e] = call[e]
    BY <1>3, <2>1
  <2>3. call'[d].reports = {} /\ call[d].reports = {}
    BY <1>2, <1>4, <2>2 DEF Opens, Blank
  <2> QED
    BY <1>1, <1>4, <2>2, <2>3 DEF Opens
<1>5. ASSUME NEW d \in Drivers, Reads(d), Uncompleting
      PROVE  ReportsInv'
  <2>1. \A e \in Drivers : call'[e].reports = call[e].reports
    BY <1>5 DEF Reads, CallsInv, Calls
  <2> QED
    BY <1>1, <1>5, <2>1 DEF Reads
<1>6. ASSUME NEW d \in Drivers, FailItem(d), Uncompleting
      PROVE  ReportsInv'
  <2>1. token' = token /\ delivered' = delivered /\ lost' = lost
    BY <1>6 DEF FailItem, Enter
  <2>2. call'[d].reports = call[d].reports /\ \A e \in Drivers \ {d} : call'[e] = call[e]
    BY <1>6 DEF FailItem, Enter, AfterFailure, CallsInv, Calls
  <2> QED
    BY <1>1, <1>6, <2>1, <2>2
<1>7. ASSUME NEW d \in Drivers, ReturnResult(d), Uncompleting
      PROVE  ReportsInv'
  <2>1. PICK others : /\ delivered' = delivered \cup (call[d].reports \cup others)
                      /\ \A w \in others : w.kind # "ACTIVITY_COMPLETED"
    BY <1>0, <1>7, DueWakesAreOthers DEF ReturnResult, Return
  <2>2. call' = [call EXCEPT ![d] = NoCall] /\ token' = token /\ lost' = lost
    BY <1>7 DEF ReturnResult, Return, Enter
  <2>3. \A e \in Drivers : call'[e].reports = IF e \in {d} THEN {} ELSE call[e].reports
    <3>1. call'[d] = NoCall /\ \A e \in Drivers \ {d} : call'[e] = call[e]
      BY <1>3, <2>2
    <3>2. call'[d].reports = {}
      BY <3>1 DEF NoCall
    <3> QED
      BY <3>1, <3>2
  <2> QED
    BY <1>1, <1>7, <2>1, <2>2, <2>3
<1>8. ASSUME NEW d \in Drivers, Acquire(d), Uncompleting
      PROVE  ReportsInv'
  <2>1. call[d].reports = {} /\ call' = call /\ delivered' = delivered /\ lost' = lost
    BY <1>8 DEF Acquire, NoCall
  <2>2. \A e \in Drivers \ {d} : token'[e] = token[e]
    BY <1>8 DEF Acquire, CallsInv
  <2> QED
    BY <1>1, <1>8, <2>1, <2>2
<1>9. ASSUME NEW d \in Drivers, Crash(d), Uncompleting
      PROVE  ReportsInv'
  <2>1. /\ call' = [call EXCEPT ![d] = NoCall] /\ token' = [token EXCEPT ![d] = 0]
        /\ lost' = lost \cup {token[d]} /\ delivered' = delivered
    BY <1>9 DEF Crash
  <2>2. \A e \in Drivers : call'[e].reports = IF e \in {d} THEN {} ELSE call[e].reports
    <3>1. call'[d] = NoCall /\ \A e \in Drivers \ {d} : call'[e] = call[e]
      BY <1>3, <2>1
    <3>2. call'[d].reports = {}
      BY <3>1 DEF NoCall
    <3> QED
      BY <3>1, <3>2
  <2>3. \A e \in Drivers \ {d} : token'[e] = token[e]
    BY <2>1 DEF CallsInv
  <2> QED
    BY <1>1, <1>9, <2>1, <2>2, <2>3
<1>10. CASE UNCHANGED dvars /\ Uncompleting
  BY <1>1, <1>10 DEF dvars

<1>11. ASSUME NEW d \in Drivers, CompleteItem(d)
       PROVE  ReportsInv'
  <2>1. PICK item \in call[d].todo :
          /\ Complete(item.req, token[d], item.version)
          /\ call' = [call EXCEPT ![d] = AfterCompletion(call[d], item, worldSeq + 1)]
          /\ token' = token /\ delivered' = delivered /\ lost' = lost
    BY <1>11 DEF CompleteItem, Enter
  <2>2. PICK wake : wake = CompletionWake(item, worldSeq + 1)
    OBVIOUS
  <2>3. item \in WorkItems /\ ItemOK(item)
    BY <2>1 DEF CallsInv, CallOK, Calls
  <2>4. /\ ReportOK(wake)' /\ wake.seq = worldSeq + 1
        /\ ledger'[wake.seq].fence = token'[d]
    BY <2>1, <2>2, <2>3, ReportMade
  <2>5. Commit("COMPLETED", item.req, worldTime, token[d])
    BY <2>1 DEF Complete
  <2>6. /\ worldSeq \in Nat /\ worldSeq' = worldSeq + 1
        /\ \A i \in 1 .. worldSeq : ledger'[i] = ledger[i]
    BY <1>0, <2>5, AppendEntries
  <2>7. \A w : ReportOK(w) => ReportOK(w)' /\ ledger'[w.seq] = ledger[w.seq]
    BY <1>0, <2>5, ReportStays
  <2>8. call'[d].reports = call[d].reports \cup {wake}
    BY <2>1, <2>2 DEF AfterCompletion, CallsInv, Calls
  <2>9. \A e \in Drivers \ {d} : call'[e].reports = call[e].reports
    BY <1>3, <2>1
  <2>10. \A w \in delivered' : w.kind = "ACTIVITY_COMPLETED" => ReportOK(w)'
    BY <2>1, <2>7 DEF ReportsInv
  <2>11. \A e \in Drivers : \A w \in call'[e].reports :
           ReportOK(w)' /\ ledger'[w.seq].fence = token'[e]
    <3>1. ASSUME NEW e \in Drivers, NEW w \in call'[e].reports
          PROVE  (w \in call[e].reports) \/ (e = d /\ w = wake)
      BY <2>8, <2>9, <3>1
    <3>2. \A e \in Drivers : \A w \in call[e].reports :
            ReportOK(w)' /\ ledger'[w.seq].fence = token'[e]
      BY <2>1, <2>7 DEF ReportsInv
    <3> QED
      BY <2>4, <3>1, <3>2
  <2>12. \A i \in 1 .. worldSeq' : ledger'[i].type = "COMPLETED" => Accounted(i)'
    <3>1. ASSUME NEW i \in 1 .. worldSeq, ledger'[i].type = "COMPLETED"
          PROVE  Accounted(i)'
      <4>1. Accounted(i) /\ ledger'[i] = ledger[i]
        BY <2>6, <3>1 DEF ReportsInv
      <4>2. \A e \in Drivers : call[e].reports \subseteq call'[e].reports
        BY <2>8, <2>9
      <4> QED
        BY <2>1, <4>1, <4>2 DEF Accounted
    <3>2. \A i \in 1 .. worldSeq' : i \in 1 .. worldSeq \/ i = worldSeq + 1
      BY <2>6
    <3> QED
      BY <2>4, <2>8, <3>1, <3>2 DEF Accounted
  <2> QED
    BY <2>10, <2>11, <2>12 DEF ReportsInv
<1> QED
  BY <1>4, <1>5, <1>6, <1>7, <1>8, <1>9, <1>10, <1>11, DriverKinds

(***************************************************************************)
(* Every completion wake a caller gets says what its completion committed, *)
(* although the driver computed it from a row read before the transaction. *)
(***************************************************************************)
THEOREM ReportsAreTrue == DriverSpec => []CompletionWakesDescribeTheirCommit
<1>1. DriverInit => ReportsInv
  BY DEF DriverInit, Init, NoCall, ReportsInv, worldSeq
<1>2. World /\ CallsInv /\ ReportsInv /\ [DriverNext]_allVars => ReportsInv'
  BY ReportsStep
<1>3. ReportsInv => CompletionWakesDescribeTheirCommit
  BY DEF ReportsInv, ReportOK, CompletionWakesDescribeTheirCommit, CompletionReports, Reports
<1> QED
  BY <1>1, <1>2, <1>3, CallsHold, PTL DEF DriverSpec

(***************************************************************************)
(* A completion that the world has recorded is reported by the call that   *)
(* made it, now or when it returns, unless that call crashed.              *)
(***************************************************************************)
THEOREM NoReportIsDropped == DriverSpec => []CompletionsAreReported
<1>1. DriverInit => ReportsInv
  BY DEF DriverInit, Init, NoCall, ReportsInv, worldSeq
<1>2. World /\ CallsInv /\ ReportsInv /\ [DriverNext]_allVars => ReportsInv'
  BY ReportsStep
<1>3. CallsInv /\ ReportsInv => CompletionsAreReported
  BY ReportKinds DEF ReportsInv, Accounted, CompletionsAreReported, CompletionReports, Reports
<1> QED
  BY <1>1, <1>2, <1>3, CallsHold, PTL DEF DriverSpec

-----------------------------------------------------------------------------
(* Leases *)

\* the driver whose lease is the newest
Leads(d) == token[d] # 0 /\ token[d] = lease

(***************************************************************************)
(* No two drivers hold one lease, what the newest one has read still fits, *)
(* and so far nobody was told that an item is poison.                      *)
(***************************************************************************)
LeaseInv ==
  /\ \A d, e \in Drivers : token[d] # 0 /\ token[d] = token[e] => d = e
  /\ \A d \in Drivers : Leads(d) => \A item \in call[d].todo : Fits(item)
  /\ \A d \in Drivers : \A f \in call[d].failures : f.code # "INVALID_WORK_ITEM"

\* Without a new token nobody becomes the newest leaseholder.
LEMMA LeadsKept ==
  ASSUME World, CallsInv, [Next]_vars, NEW d \in Drivers, token'[d] = token[d], Leads(d)'
  PROVE  Leads(d)
<1>1. lease \in Nat /\ lease' \in Nat /\ lease' >= lease
  BY CallsKept
<1>2. token[d] \in 0 .. lease
  BY DEF CallsInv
<1> QED
  BY <1>1, <1>2 DEF Leads

\* An item that does not fail at a fence does not turn out poison in the newest lease.
LEMMA NoPoison ==
  ASSUME World, LeaseInv, NEW d \in Drivers, token[d] # 0,
         NEW item \in call[d].todo, item \in WorkItems, ItemOK(item),
         NEW result, result = ItemResult(d, item), result \notin {"EXECUTED", "REUSED"}
  PROVE  FailureCode(result) # "INVALID_WORK_ITEM"
<1>1. CASE FenceHolds(token[d])
  <2>1. Fits(item)
    BY <1>1 DEF FenceHolds, Leads, LeaseInv
  <2>2. result \in {"NOT_DUE", "REJECTED"}
    BY <1>1, <2>1, ItemAnswers
  <2> QED
    BY <2>2, FailureCodes
<1>2. CASE ~FenceHolds(token[d])
  <2>1. result = "EXECUTION_ERROR"
    BY <1>2 DEF ItemResult
  <2> QED
    BY <2>1, FailureCodes
<1> QED
  BY <1>1, <1>2

\* Every step keeps leases apart and the items of the newest one fitting.
LEMMA LeaseStep ==
  ASSUME Unleased = {}, World, CallsInv, LeaseInv, [DriverNext]_allVars
  PROVE  LeaseInv'
<1>0. [Next]_vars /\ RInv
  BY DriverStepSimulation DEF World, RInv, IInv
<1>1. ASSUME Uncompleting, NEW d \in Drivers, token'[d] = token[d], call'[d] = call[d], Leads(d)'
      PROVE  \A item \in call'[d].todo : Fits(item)'
  <2>1. SUFFICES ASSUME NEW item \in call[d].todo
                 PROVE  Fits(item)'
    BY <1>1
  <2>2. item \in WorkItems
    BY DEF CallsInv, Calls
  <2>3. Fits(item)
    BY <1>0, <1>1, LeadsKept DEF LeaseInv
  <2> QED
    BY <1>0, <1>1, <2>2, <2>3, FittingKept DEF Uncompleting
\* one driver's call changes, and with its tokens nothing is wrong
<1>2. ASSUME NEW d \in Drivers, NEW new, call' = [call EXCEPT ![d] = new], Uncompleting,
             \A e \in Drivers \ {d} : token'[e] = token[e],
             token'[d] \in {0, token[d]},
             \A f \in new.failures : f.code # "INVALID_WORK_ITEM",
             Leads(d)' => \A item \in new.todo : Fits(item)'
      PROVE  LeaseInv'
  <2>1. call'[d] = new /\ \A e \in Drivers \ {d} : call'[e] = call[e]
    BY <1>2 DEF CallsInv
  <2>2. \A e, g \in Drivers : token'[e] # 0 /\ token'[e] = token'[g] => e = g
    BY <1>2 DEF LeaseInv
  <2>3. \A e \in Drivers : Leads(e)' => \A item \in call'[e].todo : Fits(item)'
    <3>1. ASSUME NEW e \in Drivers \ {d}, Leads(e)'
          PROVE  \A item \in call'[e].todo : Fits(item)'
      BY <1>1, <1>2, <2>1, <3>1
    <3>2. ASSUME Leads(d)'
          PROVE  \A item \in call'[d].todo : Fits(item)'
      BY <1>2, <2>1, <3>2
    <3> QED
      BY <3>1, <3>2
  <2>4. \A e \in Drivers : \A f \in call'[e].failures : f.code # "INVALID_WORK_ITEM"
    BY <1>2, <2>1 DEF LeaseInv
  <2> QED
    BY <2>2, <2>3, <2>4 DEF LeaseInv
<1>3. ASSUME Uncompleting, UNCHANGED dvars
      PROVE  LeaseInv'
  <2>1. token' = token /\ call' = call
    BY <1>3 DEF dvars
  <2>2. \A e \in Drivers : Leads(e)' => \A item \in call'[e].todo : Fits(item)'
    BY <1>1, <1>3, <2>1
  <2> QED
    BY <2>1, <2>2 DEF LeaseInv
<1>4. ASSUME Uncompleting, NEW d \in Drivers, Opens(d)
      PROVE  LeaseInv'
  <2>1. PICK step \in {"idle", "advanced", "asserted", "reading"}, now \in {0, worldTime} :
          call' = [call EXCEPT ![d] = Blank(step, now)]
    BY <1>4 DEF Opens
  <2>2. Blank(step, now).failures = {} /\ Blank(step, now).todo = {}
    BY DEF Blank
  <2>3. token' = token
    BY <1>4 DEF Opens
  <2> QED
    BY <1>2, <1>4, <2>1, <2>2, <2>3
<1>5. ASSUME Uncompleting, NEW d \in Drivers, Reads(d)
      PROVE  LeaseInv'
  <2>1. PICK c : c = call[d]
    OBVIOUS
  <2>2. PICK todo : todo = DueBatch(c.now)
    OBVIOUS
  <2>3. PICK new : new = [c EXCEPT !.step = "completing", !.todo = todo]
    OBVIOUS
  <2>4. call' = [call EXCEPT ![d] = new] /\ token' = token /\ UNCHANGED vars
    BY <1>5, <2>1, <2>2, <2>3, Zenon DEF Reads
  <2>5. c \in Calls /\ \A f \in c.failures : f.code # "INVALID_WORK_ITEM"
    BY <2>1 DEF CallsInv, LeaseInv
  <2>6. new.failures = c.failures /\ new.todo = todo
    BY <2>3, <2>5 DEF Calls
  <2>7. \A item \in todo : item \in WorkItems /\ Fits(item)
    BY <2>2, BatchFacts
  <2>8. \A item \in todo : Fits(item)'
    BY <1>0, <2>4, <2>7, FittingKept DEF vars
  <2> QED
    BY <1>2, <1>5, <2>4, <2>5, <2>6, <2>8
<1>6. ASSUME NEW d \in Drivers, CompleteItem(d) \/ FailItem(d)
      PROVE  LeaseInv'
  <2>1. PICK c \in Calls, new \in Calls : \E item \in c.todo :
          /\ c = call[d] /\ CallOK(c) /\ c.step = "completing"
          /\ CallOK(new) /\ call' = [call EXCEPT ![d] = new]
          /\ \/ /\ Complete(item.req, token[d], item.version)
                /\ WorkedOff(new, c, item,
                             c.reports \cup {CompletionWake(item, worldSeq + 1)}, c.failures)
             \/ /\ ItemResult(d, item) # "EXECUTED" /\ UNCHANGED vars
                /\ WorkedOff(new, c, item, c.reports,
                     c.failures \cup
                       (IF ItemResult(d, item) = "REUSED" THEN {}
                        ELSE {[req |-> item.req, code |-> FailureCode(ItemResult(d, item))]}))
    BY <1>0, <1>6, ItemStep
  <2>2. PICK item \in c.todo :
          /\ c = call[d] /\ CallOK(c) /\ c.step = "completing"
          /\ CallOK(new) /\ call' = [call EXCEPT ![d] = new]
          /\ \/ /\ Complete(item.req, token[d], item.version)
                /\ WorkedOff(new, c, item,
                             c.reports \cup {CompletionWake(item, worldSeq + 1)}, c.failures)
             \/ /\ ItemResult(d, item) # "EXECUTED" /\ UNCHANGED vars
                /\ WorkedOff(new, c, item, c.reports,
                     c.failures \cup
                       (IF ItemResult(d, item) = "REUSED" THEN {}
                        ELSE {[req |-> item.req, code |-> FailureCode(ItemResult(d, item))]}))
    BY <2>1
  <2>3. token[d] # 0 /\ token' = token
    BY <1>6 DEF CompleteItem, FailItem, At, Enter
  <2>4. item \in WorkItems /\ ItemOK(item) /\ item.req \in Requests
    BY <2>2, CallItems
  <2>5. CASE /\ Complete(item.req, token[d], item.version)
             /\ WorkedOff(new, c, item,
                          c.reports \cup {CompletionWake(item, worldSeq + 1)}, c.failures)
    <3>1. Leads(d)
      BY <2>3, <2>5 DEF Complete, FenceHolds, Leads
    <3>2. call'[d] = new /\ \A e \in Drivers \ {d} : call'[e] = call[e]
      BY <2>2 DEF CallsInv
    <3>3. ASSUME NEW e \in Drivers, Leads(e)', NEW other \in call'[e].todo
          PROVE  Fits(other)'
      <4>1. Leads(e)
        BY <1>0, <2>3, <3>3, LeadsKept
      <4>2. e = d
        BY <3>1, <4>1 DEF Leads, LeaseInv
      <4>3. other \in c.todo /\ other # item
        BY <2>5, <3>2, <3>3, <4>2 DEF WorkedOff
      <4>4. other \in WorkItems /\ Fits(other) /\ other.req # item.req
        BY <2>2, <3>1, <4>3, CallItems DEF LeaseInv, CallOK, ReqsDiffer
      <4> QED
        BY <1>0, <2>4, <2>5, <4>4, FittingKept DEF ItemOK
    <3>4. \A e \in Drivers : \A f \in call'[e].failures : f.code # "INVALID_WORK_ITEM"
      BY <2>2, <2>5, <3>2 DEF WorkedOff, LeaseInv
    <3> QED
      BY <2>3, <3>3, <3>4 DEF LeaseInv
  <2>6. ASSUME ItemResult(d, item) # "EXECUTED", UNCHANGED vars,
               NEW more,
               more = (IF ItemResult(d, item) = "REUSED" THEN {}
                       ELSE {[req |-> item.req, code |-> FailureCode(ItemResult(d, item))]}),
               WorkedOff(new, c, item, c.reports, c.failures \cup more)
        PROVE  LeaseInv'
    <3>1. \A f \in more : f.code # "INVALID_WORK_ITEM"
      <4>1. PICK result : result = ItemResult(d, item)
        OBVIOUS
      <4>2. CASE result = "REUSED"
        BY <2>6, <4>1, <4>2
      <4>3. CASE result # "REUSED"
        <5>1. FailureCode(result) # "INVALID_WORK_ITEM"
          BY <2>2, <2>3, <2>4, <2>6, <4>1, <4>3, NoPoison
        <5> QED
          BY <2>6, <4>1, <4>3, <5>1
      <4> QED
        BY <4>2, <4>3
    <3>2. \A f \in new.failures : f.code # "INVALID_WORK_ITEM"
      BY <2>2, <2>6, <3>1 DEF WorkedOff, LeaseInv
    <3>3. new.todo \subseteq c.todo
      BY <2>6 DEF WorkedOff
    <3>4. ASSUME Leads(d)', NEW other \in new.todo
          PROVE  Fits(other)'
      <4>1. Leads(d)
        BY <1>0, <2>3, <3>4, LeadsKept
      <4>2. other \in WorkItems /\ Fits(other)
        BY <2>2, <3>3, <3>4, <4>1, CallItems DEF LeaseInv
      <4> QED
        BY <1>0, <2>6, <4>2, FittingKept DEF vars
    <3>5. Uncompleting
      BY <2>6 DEF vars, Uncompleting
    <3> QED
      BY <1>2, <2>2, <2>3, <3>2, <3>4, <3>5
  <2> QED
    BY <2>2, <2>5, <2>6
<1>7. NoCall.todo = {} /\ NoCall.failures = {}
  BY DEF NoCall
<1>8. ASSUME Uncompleting, NEW d \in Drivers, ReturnResult(d) \/ Crash(d)
      PROVE  LeaseInv'
  <2>1. /\ call' = [call EXCEPT ![d] = NoCall]
        /\ token' = token \/ token' = [token EXCEPT ![d] = 0]
    BY <1>8 DEF ReturnResult, Crash, Return, Enter
  <2>2. token'[d] \in {0, token[d]} /\ \A e \in Drivers \ {d} : token'[e] = token[e]
    BY <2>1 DEF CallsInv
  <2> QED
    BY <1>2, <1>7, <1>8, <2>1, <2>2
<1>9. ASSUME NEW d \in Drivers, Acquire(d)
      PROVE  LeaseInv'
  <2>1. /\ call' = call /\ lease' = lease + 1 /\ token' = [token EXCEPT ![d] = lease + 1]
        /\ call[d] = NoCall
    BY <1>9 DEF Acquire, AcquireLease
  <2>2. lease \in Nat /\ \A e \in Drivers : token[e] \in 0 .. lease
    BY <1>0, CallsKept DEF CallsInv
  <2>3. token'[d] = lease + 1 /\ \A e \in Drivers \ {d} : token'[e] = token[e]
    BY <2>1 DEF CallsInv
  <2>4. \A e, g \in Drivers : token'[e] # 0 /\ token'[e] = token'[g] => e = g
    BY <2>2, <2>3 DEF LeaseInv
  <2>5. \A e \in Drivers : Leads(e)' => e = d
    BY <2>1, <2>2, <2>3 DEF Leads
  <2> QED
    BY <1>7, <2>1, <2>4, <2>5 DEF LeaseInv
<1> QED
  BY <1>3, <1>4, <1>5, <1>6, <1>8, <1>9, DriverKinds

(***************************************************************************)
(* When all drivers use leases, whatever fences and clients do meanwhile,  *)
(* none of them is ever told that an item it has read is poison: whoever   *)
(* could have completed it has fenced the reader off.                      *)
(***************************************************************************)
THEOREM LeasesKeepPoisonAway ==
  ASSUME Unleased = {}
  PROVE  DriverSpec => []LeasedDriversSeeNoPoison
<1>1. DriverInit => LeaseInv
  BY DEF DriverInit, NoCall, LeaseInv
<1>2. World /\ CallsInv /\ LeaseInv /\ [DriverNext]_allVars => LeaseInv'
  BY LeaseStep
<1>3. LeaseInv => LeasedDriversSeeNoPoison
  BY DEF LeaseInv, LeasedDriversSeeNoPoison, Failures
<1> QED
  BY <1>1, <1>2, <1>3, CallsHold, PTL DEF DriverSpec

-----------------------------------------------------------------------------
(* What a call leaves behind *)

(***************************************************************************)
(* A call that is not going to use up its limit, and has not failed at     *)
(* anything, has an item for every activity that was due when it read.     *)
(***************************************************************************)
LeftOK(c) ==
  c.step = "completing" /\ c.failures = {} /\ c.count + Cardinality(c.todo) < Limit
  => \A x \in Residents : runtime[x].task # Idle /\ runtime[x].task.due <= c.now
       => \E item \in c.todo : item.req = runtime[x].task.inst

\* Nothing that a step starts was due when the call read.
LEMMA LeftKept ==
  ASSUME World, [Next]_vars, NEW c, CallOK(c), LeftOK(c)
  PROVE  LeftOK(c)'
<1> SUFFICES ASSUME c.step = "completing", c.failures = {},
                    c.count + Cardinality(c.todo) < Limit,
                    NEW x \in Residents, runtime'[x].task # Idle,
                    runtime'[x].task.due <= c.now
             PROVE  \E item \in c.todo : item.req = runtime'[x].task.inst
  BY DEF LeftOK
<1>1. c.now \in Nat /\ worldTime \in Nat /\ c.now <= worldTime
  BY TimeAssumption DEF CallOK, Calls, World, RInv, IInv, TypeOK, Times
<1>2. runtime'[x] = runtime[x]
  BY <1>1, BusyKept DEF World
<1> QED
  BY <1>2 DEF LeftOK

\* A due activity for which no item is left was completed, by this call or another.
LEMMA LeftWorkedOff ==
  ASSUME World, CallsInv, [Next]_vars, NEW d \in Drivers,
         CompleteItem(d) \/ FailItem(d), LeftOK(call[d])
  PROVE  \E new : CallOK(new) /\ LeftOK(new)' /\ call' = [call EXCEPT ![d] = new]
<1>1. PICK c \in Calls, new \in Calls : \E item \in c.todo :
        /\ c = call[d] /\ CallOK(c) /\ c.step = "completing"
        /\ CallOK(new) /\ call' = [call EXCEPT ![d] = new]
        /\ new.count + Cardinality(new.todo) = c.count + Cardinality(c.todo)
        /\ \/ /\ Complete(item.req, token[d], item.version)
              /\ WorkedOff(new, c, item,
                           c.reports \cup {CompletionWake(item, worldSeq + 1)}, c.failures)
           \/ /\ ItemResult(d, item) # "EXECUTED" /\ UNCHANGED vars
              /\ WorkedOff(new, c, item, c.reports,
                   c.failures \cup
                     (IF ItemResult(d, item) = "REUSED" THEN {}
                      ELSE {[req |-> item.req, code |-> FailureCode(ItemResult(d, item))]}))
  BY ItemStep
<1>2. PICK item \in c.todo :
        \/ /\ Complete(item.req, token[d], item.version)
           /\ WorkedOff(new, c, item,
                        c.reports \cup {CompletionWake(item, worldSeq + 1)}, c.failures)
        \/ /\ ItemResult(d, item) # "EXECUTED" /\ UNCHANGED vars
           /\ WorkedOff(new, c, item, c.reports,
                c.failures \cup
                  (IF ItemResult(d, item) = "REUSED" THEN {}
                   ELSE {[req |-> item.req, code |-> FailureCode(ItemResult(d, item))]}))
  BY <1>1
<1>3. item \in WorkItems /\ ItemOK(item) /\ item.req \in Requests /\ item.req \in requests
  BY <1>1, CallItems DEF ItemOK
<1>4. LeftOK(c)'
  <2>1. LeftOK(c)
    BY <1>1
  <2> QED
    BY <1>1, <2>1, LeftKept
<1>5. /\ new.step = c.step /\ new.now = c.now /\ new.todo = c.todo \ {item}
      /\ c.failures \subseteq new.failures
  BY <1>2 DEF WorkedOff
<1>6. ASSUME new.failures = {},
             NEW x \in Residents, runtime'[x].task # Idle,
             runtime'[x].task.inst = item.req
      PROVE  FALSE
  <2>1. RInv /\ RInv'
    BY OpenOutcomesStep DEF World
  <2>2. Len(outcomes'[item.req].refs) = 1
    BY <1>6, <2>1 DEF RInv, OpenOutcomes
  <2>3. CASE Complete(item.req, token[d], item.version)
    BY <1>3, <2>1, <2>2, <2>3, CompleteWrites
  <2>4. ASSUME ItemResult(d, item) # "EXECUTED", UNCHANGED vars,
               NEW more,
               more = (IF ItemResult(d, item) = "REUSED" THEN {}
                       ELSE {[req |-> item.req, code |-> FailureCode(ItemResult(d, item))]}),
               WorkedOff(new, c, item, c.reports, c.failures \cup more)
        PROVE  FALSE
    <3>1. more = {}
      BY <1>6, <2>4 DEF WorkedOff
    <3>2. ItemResult(d, item) = "REUSED"
      BY <2>4, <3>1
    <3>3. Done(item.req)
      BY <1>3, <3>2, ItemAnswers
    <3> QED
      BY <2>2, <2>4, <3>3 DEF Done, vars
  <2> QED
    BY <1>2, <2>3, <2>4
<1>7. LeftOK(new)'
  <2> SUFFICES ASSUME new.step = "completing", new.failures = {},
                      new.count + Cardinality(new.todo) < Limit,
                      NEW x \in Residents, runtime'[x].task # Idle,
                      runtime'[x].task.due <= new.now
               PROVE  \E other \in new.todo : other.req = runtime'[x].task.inst
    BY DEF LeftOK
  <2>1. c.failures = {} /\ c.count + Cardinality(c.todo) < Limit
    BY <1>1, <1>5
  <2>2. PICK other \in c.todo : other.req = runtime'[x].task.inst
    BY <1>1, <1>4, <1>5, <2>1 DEF LeftOK
  <2>3. other # item
    BY <1>6, <2>2
  <2> QED
    BY <1>5, <2>2, <2>3
<1> QED
  BY <1>1, <1>7

\* A readable batch that stays below the limit has an item for everything due.
LEMMA BatchComplete ==
  ASSUME World, NEW now \in Nat, BatchReadable(now), Cardinality(DueBatch(now)) < Limit,
         NEW x \in Residents, runtime[x].task # Idle, runtime[x].task.due <= now
  PROVE  \E item \in DueBatch(now) : item.req = runtime[x].task.inst
<1> DEFINE S == {y \in Residents : IsDue(y, now)}
           F == DueRows(now)
           O == Owners(now)
           G == FirstRows(O, Limit)
           inst(y) == runtime[y].task.inst
<1>1. F = FirstRows(S, 2 * Limit)
  BY DEF DueRows
<1>2. S \in SUBSET Residents /\ \A y \in S : ~IsIdle(y)
  BY DEF IsDue
<1>3. /\ F \subseteq S /\ IsFiniteSet(F) /\ Cardinality(F) \in Nat
      /\ F # S => Cardinality(F) >= 2 * Limit
  <2>1. 2 * Limit \in Nat
    BY DriverAssumption
  <2> HIDE DEF S, F
  <2> QED
    BY <1>1, <1>2, <2>1, FirstRowsCount
<1>4. O \in SUBSET F /\ \A y \in F : y \in O <=> inst(y).actor = y
  BY DEF Owners
<1>5. /\ G \subseteq O
      /\ G # O => Cardinality(G) >= Limit
  <2>1. O \in SUBSET Residents /\ \A y \in O : ~IsIdle(y)
    BY <1>2, <1>3, <1>4
  <2> HIDE DEF O
  <2> QED
    BY <2>1, FirstRowsCount, DriverAssumption
<1>6. DueBatch(now) = {WorkItem(y) : y \in G}
  BY DEF DueBatch
<1>7. /\ Cardinality(DueBatch(now)) = Cardinality(G)
      /\ Cardinality(DueBatch(now)) \in Nat
  BY BatchFacts
<1>8. \A y \in F : Parties(inst(y)) \subseteq F
  BY DEF BatchReadable
<1> HIDE DEF S, F, O, G
<1>9. G = O /\ Cardinality(O) < Limit
  BY <1>5, <1>7, DriverAssumption
<1>10. ASSUME NEW y \in F
       PROVE  /\ inst(y).actor \in O /\ inst(inst(y).actor) = inst(y)
              /\ y \in Parties(inst(y))
  <2>1. y \in Residents /\ ~IsIdle(y)
    BY <1>2, <1>3
  <2>2. /\ y \in Parties(inst(y)) /\ inst(y) \in Requests
        /\ inst(inst(y).actor) = inst(y)
    BY <2>1, BusyRow
  <2>3. inst(y).actor \in Parties(inst(y))
    BY <2>2, RequestFacts
  <2>4. inst(y).actor \in F
    BY <1>8, <2>3
  <2> QED
    BY <1>4, <2>2, <2>4
<1>11. F = S
  <2> DEFINE P == F \ O
             owner == [y \in P |-> inst(y).actor]
  <2>1. IsFiniteSet(O) /\ IsFiniteSet(P)
    <3>1. IsFiniteSet(O)
      BY <1>3, <1>4, FS_Subset
    <3>2. P \in SUBSET F
      OBVIOUS
    <3>3. IsFiniteSet(P)
      <4> HIDE DEF P
      <4> QED
        BY <1>3, <3>2, FS_Subset
    <3> QED
      BY <3>1, <3>3
  <2>2. owner \in Injection(P, O)
    <3>1. owner \in [P -> O]
      BY <1>10
    <3>2. ASSUME NEW y \in P, NEW z \in P, inst(y).actor = inst(z).actor
          PROVE  y = z
      <4>1. inst(y) = inst(z)
        BY <1>10, <3>2
      <4>2. y # inst(y).actor /\ z # inst(z).actor
        BY <1>4
      <4>3. y \in Parties(inst(y)) /\ z \in Parties(inst(z))
        BY <1>10
      <4> QED
        BY <4>1, <4>2, <4>3 DEF Parties
    <3> QED
      BY <3>1, <3>2 DEF Injection, IsInjective
  <2>3. Cardinality(P) <= Cardinality(O)
    <3> HIDE DEF P, owner
    <3> QED
      BY <2>1, <2>2, FS_Injection
  <2>4. Cardinality(P) = Cardinality(F) - Cardinality(O)
    <3>1. Cardinality(P) = Cardinality(F) - Cardinality(F \cap O)
      BY <1>3, FS_Difference
    <3>2. F \cap O = O
      BY <1>4
    <3> QED
      BY <3>1, <3>2, Zenon
  <2>5. Cardinality(P) \in Nat /\ Cardinality(O) \in Nat
    <3> HIDE DEF P
    <3> QED
      BY <2>1, FS_CardinalityType
  <2> HIDE DEF P
  <2> QED
    BY <1>3, <1>9, <2>3, <2>4, <2>5, DriverAssumption
<1>12. x \in F
  <2>1. ~IsIdle(x)
    BY FreeIsIdle DEF World, RInv, IInv
  <2>2. x \in S
    BY <2>1 DEF IsDue, S
  <2> QED
    BY <1>11, <2>2
<1>13. inst(x).actor \in G /\ inst(inst(x).actor) = inst(x)
  BY <1>9, <1>10, <1>12
<1>14. WorkItem(inst(x).actor).req = inst(x)
  BY <1>13 DEF WorkItem
<1> QED
  BY <1>6, <1>13, <1>14

\* Every step keeps what calls leave behind.
LEMMA LeftStep ==
  ASSUME World, CallsInv, \A d \in Drivers : LeftOK(call[d]), [DriverNext]_allVars
  PROVE  \A d \in Drivers : LeftOK(call[d])'
<1>0. [Next]_vars
  BY DriverStepSimulation DEF World, RInv, IInv
<1>1. ASSUME NEW e \in Drivers, call'[e] = call[e]
      PROVE  LeftOK(call[e])'
  <2>1. PICK c : c = call[e]
    OBVIOUS
  <2>2. CallOK(c) /\ LeftOK(c)
    BY <2>1 DEF CallsInv
  <2>3. LeftOK(c)'
    BY <1>0, <2>2, LeftKept
  <2> QED
    BY <1>1, <2>1, <2>3
<1>2. ASSUME NEW d \in Drivers, NEW new, LeftOK(new)', call' = [call EXCEPT ![d] = new]
      PROVE  \A e \in Drivers : LeftOK(call[e])'
  <2>1. call'[d] = new /\ \A e \in Drivers \ {d} : call'[e] = call[e]
    BY <1>2 DEF CallsInv
  <2>2. LeftOK(call[d])'
    BY <1>2, <2>1
  <2> QED
    BY <1>1, <2>1, <2>2
<1>3. ASSUME NEW d \in Drivers, CompleteItem(d) \/ FailItem(d)
      PROVE  \A e \in Drivers : LeftOK(call[e])'
  BY <1>0, <1>2, <1>3, LeftWorkedOff
<1>4. ASSUME NEW d \in Drivers, Opens(d)
      PROVE  \A e \in Drivers : LeftOK(call[e])'
  <2>1. PICK step \in {"idle", "advanced", "asserted", "reading"}, now \in {0, worldTime} :
          call' = [call EXCEPT ![d] = Blank(step, now)]
    BY <1>4 DEF Opens
  <2>2. Blank(step, now).step # "completing"
    BY DEF Blank
  <2>3. PICK new : new = Blank(step, now)
    OBVIOUS
  <2>4. LeftOK(new)'
    BY <2>2, <2>3 DEF LeftOK
  <2> QED
    BY <1>2, <2>1, <2>3, <2>4
<1>5. ASSUME NEW d \in Drivers, Reads(d)
      PROVE  \A e \in Drivers : LeftOK(call[e])'
  <2>1. PICK c : c = call[d]
    OBVIOUS
  <2>2. PICK todo : todo = DueBatch(c.now)
    OBVIOUS
  <2>3. PICK new : new = [c EXCEPT !.step = "completing", !.todo = todo]
    OBVIOUS
  <2>4. call' = [call EXCEPT ![d] = new] /\ UNCHANGED vars
    BY <1>5, <2>1, <2>2, <2>3, Zenon DEF Reads
  <2>5. CallOK(c) /\ c.step = "reading" /\ BatchReadable(c.now)
    BY <1>5, <2>1 DEF Reads, CallsInv
  <2>6. c \in Calls /\ c.count = 0 /\ c.now \in Nat
    BY <2>5 DEF CallOK, Calls
  <2>7. new.todo = todo /\ new.count = c.count /\ new.now = c.now
    BY <2>3, <2>6 DEF Calls
  <2>8. LeftOK(new)
    <3> SUFFICES ASSUME new.count + Cardinality(new.todo) < Limit,
                        NEW x \in Residents, runtime[x].task # Idle,
                        runtime[x].task.due <= new.now
                 PROVE  \E item \in new.todo : item.req = runtime[x].task.inst
      BY DEF LeftOK
    <3>1. new.todo = DueBatch(c.now)
      BY <2>2, <2>7, Zenon
    <3>2. Cardinality(new.todo) \in Nat
      BY <3>1, BatchFacts, Zenon
    <3>3. Cardinality(new.todo) < Limit
      BY <2>6, <2>7, <3>2, DriverAssumption
    <3>4. Cardinality(DueBatch(c.now)) < Limit
      BY <3>1, <3>3, Zenon
    <3> QED
      BY <2>5, <2>6, <2>7, <3>1, <3>4, BatchComplete
  <2>9. LeftOK(new)'
    BY <2>4, <2>8 DEF LeftOK, vars
  <2> QED
    BY <1>2, <2>4, <2>9
<1>6. ASSUME NEW d \in Drivers, ReturnResult(d) \/ Crash(d)
      PROVE  \A e \in Drivers : LeftOK(call[e])'
  <2>1. PICK new : new = NoCall
    OBVIOUS
  <2>2. LeftOK(new)'
    BY <2>1 DEF LeftOK, NoCall
  <2> QED
    BY <1>2, <1>6, <2>1, <2>2 DEF ReturnResult, Crash, Return, Enter
<1>7. ASSUME NEW d \in Drivers, Acquire(d)
      PROVE  \A e \in Drivers : LeftOK(call[e])'
  BY <1>1, <1>7 DEF Acquire
<1>8. CASE UNCHANGED dvars
  BY <1>1, <1>8 DEF dvars
<1> QED
  BY <1>3, <1>4, <1>5, <1>6, <1>7, <1>8, DriverKinds

(***************************************************************************)
(* A call that worked off its batch without failures and below its limit   *)
(* leaves nothing in progress that was due when it read the world, for any *)
(* number of residents and whatever limit cuts the due query off.          *)
(***************************************************************************)
THEOREM DueWorkIsDone == DriverSpec => []NothingDueLeftBehind
<1> DEFINE Left == \A d \in Drivers : LeftOK(call[d])
<1>1. DriverInit => Left
  BY DEF DriverInit, NoCall, LeftOK
<1>2. World /\ CallsInv /\ Left /\ [DriverNext]_allVars => Left'
  BY LeftStep
<1>3. World /\ CallsInv /\ Left => NothingDueLeftBehind
  <2> SUFFICES ASSUME World, CallsInv, Left, NEW d \in Drivers,
                      call[d].step = "completing", call[d].todo = {},
                      call[d].failures = {}, call[d].count < Limit,
                      NEW x \in Residents, ~IsIdle(x)
               PROVE  runtime[x].task.due > call[d].now
    BY DEF NothingDueLeftBehind
  <2>1. PICK c : c = call[d]
    OBVIOUS
  <2>2. c \in Calls /\ LeftOK(c) /\ c.count \in Nat /\ c.now \in Nat
    BY <2>1 DEF CallsInv, Calls
  <2>3. c.count + Cardinality(c.todo) < Limit
    <3>1. Cardinality(c.todo) = 0
      BY <2>1, FS_EmptySet, Zenon
    <3> QED
      BY <2>1, <2>2, <3>1
  <2>4. runtime[x].task # Idle /\ runtime[x].task.due \in Nat
    BY FreeIsIdle DEF World, RInv, IInv, DuesAreTimes
  <2> QED
    BY <2>1, <2>2, <2>3, <2>4 DEF LeftOK
<1> HIDE DEF Left
<1> QED
  BY <1>1, <1>2, <1>3, CallsHold, PTL DEF DriverSpec

=============================================================================
