----------------------- MODULE WorldKernelRecords_proofs -----------------------
(***************************************************************************)
(* What the rows of WorldKernel say of the ledger, and the ledger of them: *)
(* versions, event links, keys, food and wakes, for every population,      *)
(* street, calendar and pool of requests.                                  *)
(***************************************************************************)
EXTENDS WorldKernel_proofs, FiniteSetTheorems, SequenceTheorems,
        WellFoundedInduction

-----------------------------------------------------------------------------
(* Kinds of steps *)

(***************************************************************************)
(* A step that starts and completes nothing: it leaves rows and event      *)
(* links alone and appends at most a clock event.                          *)
(***************************************************************************)
Aside ==
  /\ UNCHANGED <<runtime, food>>
  /\ \A r \in Requests :
       /\ outcomes'[r].refs = outcomes[r].refs
       /\ outcomes'[r].status = "COMMITTED" <=> outcomes[r].status = "COMMITTED"
  /\ \/ ledger' = ledger
     \/ \E at, f : Commit("WORLD_TIME_ADVANCED", None, at, f)

\* Every step starts something, completes something or stands aside.
LEMMA RecordSteps ==
  ASSUME RInv, [Next]_vars
  PROVE  \/ \E r \in Requests : \E f, rv : Start(r, f, rv)
         \/ \E r \in requests : \E f, v : Complete(r, f, v)
         \/ Aside
<1>1. CASE \E r \in Requests : PersistRequest(r)
  BY <1>1 DEF PersistRequest, Aside
<1>2. ASSUME NEW r \in Requests, NEW f, NEW rv, Refuse(r, f, rv)
      PROVE  Aside
  <2>1. UNCHANGED <<runtime, food, ledger>>
    BY <1>2 DEF Refuse
  <2>2. /\ outcomes[r].status = "NONE" /\ outcomes'[r].status # "COMMITTED"
        /\ \A q \in Requests : outcomes'[q].refs = outcomes[q].refs
        /\ \A q \in Requests \ {r} : outcomes'[q] = outcomes[q]
    BY <1>2, RefuseWrites
  <2> QED
    BY <2>1, <2>2 DEF Aside
<1>3. CASE \E t \in Times, f \in Fences : AdvanceWorldTimeTo(t, f)
  BY <1>3 DEF AdvanceWorldTimeTo, Aside
<1>4. CASE \E t \in Times, s \in Statuses : UpdateClock(t, s)
  BY <1>4 DEF UpdateClock, Aside
<1>5. CASE AcquireLease \/ UNCHANGED vars
  BY <1>5 DEF AcquireLease, vars, Aside
<1>6. CASE \/ \E prepare \in BOOLEAN : RegisterNextWakes(prepare)
           \/ \E w \in wakes : AcknowledgeWake(w)
  <2>1. UNCHANGED <<runtime, food, outcomes, ledger>>
    BY <1>6 DEF RegisterNextWakes, AcknowledgeWake
  <2> QED
    BY <2>1 DEF Aside
<1> QED
  BY <1>1, <1>2, <1>3, <1>4, <1>5, <1>6 DEF Next

\* What an append does to the ledger, entry by entry.
LEMMA AppendEntries ==
  ASSUME TypeOK, NEW type, NEW r, NEW at, NEW f, Commit(type, r, at, f)
  PROVE  /\ worldSeq \in Nat /\ worldSeq' = worldSeq + 1
         /\ \A i \in 1 .. worldSeq : ledger'[i] = ledger[i]
         /\ ledger'[worldSeq + 1] = Event(type, r, at, f)
         /\ ledger'[worldSeq + 1].type = type /\ ledger'[worldSeq + 1].req = r
         /\ ledger'[worldSeq + 1].at = at
BY DEF TypeOK, Commit, Event, worldSeq

-----------------------------------------------------------------------------
(* Versions *)

\* A set of positions of the ledger is finite.
LEMMA PositionsFinite ==
  ASSUME NEW n \in Nat, NEW S \in SUBSET (1 .. n)
  PROVE  IsFiniteSet(S) /\ Cardinality(S) \in Nat
<1>1. 1 \in Int /\ n \in Int
  OBVIOUS
<1>2. IsFiniteSet(1 .. n)
  BY <1>1, FS_Interval
<1>3. IsFiniteSet(S)
  BY <1>2, FS_Subset
<1> QED
  BY <1>3, FS_CardinalityType

\* One position more counts one more.
LEMMA OneMore ==
  ASSUME NEW n \in Nat, NEW S \in SUBSET (1 .. n)
  PROVE  Cardinality(S \cup {n + 1}) = Cardinality(S) + 1
BY PositionsFinite, FS_AddElement

\* An append adds its own position to the lifecycle events of its parties.
LEMMA EventsAppended ==
  ASSUME TypeOK, NEW type, NEW r, NEW at, NEW f, Commit(type, r, at, f),
         NEW x, NEW n, n = worldSeq
  PROVE  /\ \A k \in 0 .. n : LifecycleEvents(x, k)' = LifecycleEvents(x, k)
         /\ LifecycleEvents(x, n + 1)' = LifecycleEvents(x, n) \cup
              (IF type # "WORLD_TIME_ADVANCED" /\ x \in Parties(r) THEN {n + 1} ELSE {})
<1>1. /\ n \in Nat /\ \A i \in 1 .. n : ledger'[i] = ledger[i]
      /\ ledger'[n + 1].type = type /\ ledger'[n + 1].req = r
  BY AppendEntries
<1>2. \A k \in 0 .. n : LifecycleEvents(x, k)' = LifecycleEvents(x, k)
  BY <1>1 DEF LifecycleEvents
<1>3. 1 .. n + 1 = (1 .. n) \cup {n + 1}
  BY <1>1
<1>4. LifecycleEvents(x, n + 1)' = LifecycleEvents(x, n) \cup
        (IF type # "WORLD_TIME_ADVANCED" /\ x \in Parties(r) THEN {n + 1} ELSE {})
  BY <1>1, <1>3 DEF LifecycleEvents
<1> QED
  BY <1>2, <1>4

\* The rows a start and a completion write carry the next version and position.
LEMMA RowsStamped ==
  ASSUME RInv, NEW r \in Requests, NEW x \in Residents,
         \/ \E f, rv : Start(r, f, rv)
         \/ r \in requests /\ \E f, v : Complete(r, f, v)
  PROVE  /\ x \in Parties(r) => /\ runtime'[x].version = runtime[x].version + 1
                                /\ runtime'[x].seq = worldSeq + 1
         /\ x \notin Parties(r) => runtime'[x] = runtime[x]
         /\ \E type \in {"STARTED", "COMPLETED"} : \E f : Commit(type, r, worldTime, f)
<1> USE DEF RInv, IInv
<1>1. ASSUME NEW f, NEW rv, Start(r, f, rv), x \in Parties(r)
      PROVE  runtime'[x].version = runtime[x].version + 1 /\ runtime'[x].seq = worldSeq + 1
  <2>1. runtime'[x] = Stamped(runtime[x], StartedTask(r, x))
    BY <1>1 DEF Start, StartedRow
  <2> QED
    BY <1>1, <2>1, StartedTaskTypes, StampedFacts DEF TypeOK
<1>2. ASSUME NEW f, NEW v, Complete(r, f, v), x \in Parties(r), r \in requests
      PROVE  runtime'[x].version = runtime[x].version + 1 /\ runtime'[x].seq = worldSeq + 1
  <2>1. runtime'[x] = Stamped(Effect(r, x), Idle) /\ CompletionDisposition(r, v) = "EXECUTED"
    BY <1>2 DEF Complete, CompletedRow
  <2>2. Effect(r, x) \in RuntimeRows
    BY <1>2, <2>1, CompletedActivity, EffectTypes
  <2>3. Effect(r, x).version = runtime[x].version
    BY DEF Effect
  <2> QED
    BY <2>1, <2>2, <2>3, IdleIsTask, StampedFacts
<1>3. ASSUME NEW f, NEW rv, Start(r, f, rv)
      PROVE  /\ x \notin Parties(r) => runtime'[x] = runtime[x]
             /\ Commit("STARTED", r, worldTime, f)
  BY <1>3 DEF Start
<1>4. ASSUME NEW f, NEW v, Complete(r, f, v)
      PROVE  /\ x \notin Parties(r) => runtime'[x] = runtime[x]
             /\ Commit("COMPLETED", r, worldTime, f)
  BY <1>4 DEF Complete
<1> QED
  BY <1>1, <1>2, <1>3, <1>4

\* Versions count and stamps name the lifecycle events after every step.
LEMMA VersionsStep ==
  ASSUME RInv, VersionsCountEvents, [Next]_vars
  PROVE  VersionsCountEvents'
<1> USE DEF RInv, IInv
<1> SUFFICES ASSUME NEW x \in Residents
             PROVE  /\ runtime'[x].version = Cardinality(LifecycleEvents(x, worldSeq)')
                    /\ runtime'[x].seq \in LifecycleEvents(x, worldSeq)' \cup {0}
                    /\ \A i \in LifecycleEvents(x, worldSeq)' : i <= runtime'[x].seq
  BY DEF VersionsCountEvents
<1> DEFINE n == worldSeq
           E == LifecycleEvents(x, n)
<1>1. /\ n \in Nat /\ E \in SUBSET (1 .. n)
      /\ runtime[x].version = Cardinality(E)
      /\ runtime[x].seq \in E \cup {0} /\ \A i \in E : i <= runtime[x].seq
      /\ runtime[x].version \in Nat
  BY LedgerEntries DEF VersionsCountEvents, LifecycleEvents, TypeOK, RuntimeRows
<1>2. ASSUME NEW r \in Requests,
             \/ \E f, rv : Start(r, f, rv)
             \/ r \in requests /\ \E f, v : Complete(r, f, v)
      PROVE  /\ runtime'[x].version = Cardinality(LifecycleEvents(x, worldSeq)')
             /\ runtime'[x].seq \in LifecycleEvents(x, worldSeq)' \cup {0}
             /\ \A i \in LifecycleEvents(x, worldSeq)' : i <= runtime'[x].seq
  <2>0. PICK type \in {"STARTED", "COMPLETED"} : \E f : Commit(type, r, worldTime, f)
    BY <1>2, RowsStamped
  <2>1. PICK f : Commit(type, r, worldTime, f)
    BY <2>0
  <2>2. /\ LifecycleEvents(x, worldSeq)' = E \cup (IF x \in Parties(r) THEN {n + 1} ELSE {})
    BY <2>1, EventsAppended, AppendEntries
  <2>3. CASE x \in Parties(r)
    <3>1. runtime'[x].version = runtime[x].version + 1 /\ runtime'[x].seq = n + 1
      BY <1>2, <2>3, RowsStamped
    <3>2. Cardinality(E \cup {n + 1}) = Cardinality(E) + 1
      BY <1>1, OneMore
    <3>3. \A i \in E \cup {n + 1} : i <= n + 1
      BY <1>1
    <3> HIDE DEF n, E
    <3> QED
      BY <1>1, <2>2, <2>3, <3>1, <3>2, <3>3
  <2>4. CASE x \notin Parties(r)
    <3>1. runtime'[x] = runtime[x] /\ LifecycleEvents(x, worldSeq)' = E
      BY <1>2, <2>2, <2>4, RowsStamped
    <3> QED
      BY <1>1, <3>1
  <2> QED
    BY <2>3, <2>4
<1>3. CASE Aside
  <2>1. LifecycleEvents(x, worldSeq)' = E
    <3>1. CASE ledger' = ledger
      BY <3>1 DEF LifecycleEvents, worldSeq
    <3>2. ASSUME NEW at, NEW f, Commit("WORLD_TIME_ADVANCED", None, at, f)
          PROVE  LifecycleEvents(x, worldSeq)' = E
      BY <3>2, EventsAppended, AppendEntries
    <3> QED
      BY <1>3, <3>1, <3>2 DEF Aside
  <2> QED
    BY <1>1, <1>3, <2>1 DEF Aside
<1>4. requests \in SUBSET Requests
  BY DEF TypeOK
<1> QED
  BY <1>2, <1>3, <1>4, RecordSteps

(***************************************************************************)
(* A resident's state version counts the lifecycle events it took part in, *)
(* so a decision made on an older row is always recognised.                *)
(***************************************************************************)
THEOREM VersionsAreCounters == Spec => []VersionsCountEvents
<1>1. Init => VersionsCountEvents
  <2> SUFFICES ASSUME Init, NEW x \in Residents
               PROVE  /\ LifecycleEvents(x, worldSeq) = {}
                      /\ runtime[x].version = 0 /\ runtime[x].seq = 0
    BY FS_EmptySet DEF VersionsCountEvents
  <2> QED
    BY DEF Init, LifecycleEvents, worldSeq
<1>2. RInv /\ [Next]_vars => RInv'
  BY OpenOutcomesStep
<1>3. RInv /\ VersionsCountEvents /\ [Next]_vars => VersionsCountEvents'
  BY VersionsStep
<1> QED
  BY <1>1, <1>2, <1>3, InitRInv, PTL DEF Spec

-----------------------------------------------------------------------------
(* Event links *)

\* A request that was not committed has no event: nothing was ever started for it.
LinksInv ==
  /\ OutcomesLinkTheirEvents
  /\ \A r \in Requests : outcomes[r].status # "COMMITTED" => outcomes[r].refs = <<>>

\* An append adds its own position to the events of its request, and to no other.
LEMMA EventsOfAppended ==
  ASSUME TypeOK, NEW type, NEW r, NEW at, NEW f, Commit(type, r, at, f), NEW q,
         NEW n, n = worldSeq
  PROVE  EventsOf(q)' = EventsOf(q) \cup (IF q = r THEN {n + 1} ELSE {})
<1>1. /\ n \in Nat /\ worldSeq' = n + 1 /\ \A i \in 1 .. n : ledger'[i] = ledger[i]
      /\ ledger'[n + 1].req = r
  BY AppendEntries
<1>2. 1 .. n + 1 = (1 .. n) \cup {n + 1}
  BY <1>1
<1> QED
  BY <1>1, <1>2 DEF EventsOf

\* What the links of one request say of its events.
Linked(r) ==
  LET refs == outcomes[r].refs IN
  /\ Len(refs) <= 2
  /\ {refs[i] : i \in DOMAIN refs} = EventsOf(r)
  /\ \A i, j \in DOMAIN refs : i < j => refs[i] < refs[j]
  /\ \A i \in DOMAIN refs : ledger[refs[i]].type = <<"STARTED", "COMPLETED">>[i]

\* Links that a step leaves alone keep describing the events of their request.
LEMMA LinksKept ==
  ASSUME TypeOK, NEW q \in Requests, Linked(q), outcomes'[q].refs = outcomes[q].refs,
         \/ ledger' = ledger
         \/ \E type, r, at, f : r # q /\ Commit(type, r, at, f)
  PROVE  Linked(q)'
<1>1. CASE ledger' = ledger
  BY <1>1 DEF Linked, EventsOf, worldSeq
<1>2. ASSUME NEW type, NEW r, NEW at, NEW f, r # q, Commit(type, r, at, f)
      PROVE  Linked(q)'
  <2>1. EventsOf(q)' = EventsOf(q) /\ EventsOf(q) \subseteq 1 .. worldSeq
    BY <1>2, EventsOfAppended DEF EventsOf
  <2>2. \A i \in DOMAIN outcomes[q].refs : outcomes[q].refs[i] \in 1 .. worldSeq
    BY <2>1 DEF Linked
  <2>3. \A i \in 1 .. worldSeq : ledger'[i] = ledger[i]
    BY <1>2, AppendEntries
  <2> QED
    BY <2>1, <2>2, <2>3 DEF Linked
<1> QED
  BY <1>1, <1>2

\* Appending to a list of one.
LEMMA AppendToOne ==
  ASSUME NEW one \in Seq(Nat), Len(one) = 1, NEW b \in Nat
  PROVE  /\ Len(Append(one, b)) = 2 /\ DOMAIN Append(one, b) = {1, 2}
         /\ Append(one, b)[1] = one[1] /\ Append(one, b)[2] = b
<1>1. /\ Append(one, b) \in Seq(Nat) /\ Len(Append(one, b)) = 1 + 1
      /\ \A i \in 1 .. 1 : Append(one, b)[i] = one[i]
      /\ Append(one, b)[1 + 1] = b
  <2>1. Append(one, b) \in Seq(Nat)
    BY AppendProperties
  <2>2. Len(Append(one, b)) = Len(one) + 1
    BY AppendProperties
  <2>3. \A i \in 1 .. Len(one) : Append(one, b)[i] = one[i]
    BY AppendProperties
  <2>4. Append(one, b)[Len(one) + 1] = b
    BY AppendProperties, Zenon
  <2> QED
    BY <2>1, <2>2, <2>3, <2>4
<1>2. DOMAIN Append(one, b) = {1, 2}
  BY <1>1
<1> QED
  BY <1>1, <1>2

\* Every step keeps links and events together.
LEMMA LinksStep ==
  ASSUME RInv, LinksInv, [Next]_vars
  PROVE  LinksInv'
<1> USE DEF RInv, IInv
<1> DEFINE n == worldSeq
<1>0. n \in Nat /\ requests \in SUBSET Requests
      /\ \A q \in Requests : Linked(q) /\ outcomes[q].refs \in Seq(Nat)
  BY LedgerEntries DEF LinksInv, OutcomesLinkTheirEvents, Linked, TypeOK
<1> SUFFICES ASSUME NEW q \in Requests
             PROVE  Linked(q)' /\ (outcomes'[q].status # "COMMITTED" => outcomes'[q].refs = <<>>)
  BY DEF LinksInv, OutcomesLinkTheirEvents, Linked
<1>1. ASSUME NEW r \in Requests, NEW f, NEW rv, Start(r, f, rv)
      PROVE  Linked(q)' /\ (outcomes'[q].status # "COMMITTED" => outcomes'[q].refs = <<>>)
  <2>1. Commit("STARTED", r, worldTime, f)
    BY <1>1 DEF Start
  <2>2. CASE q # r
    <3>1. outcomes'[q] = outcomes[q]
      BY <1>1, <2>2, StartWrites
    <3> QED
      BY <1>0, <2>1, <2>2, <3>1, LinksKept DEF LinksInv
  <2>3. CASE q = r
    <3>1. outcomes[r].refs = <<>>
      BY <1>1, StartWrites DEF LinksInv
    <3>2. EventsOf(r) = {}
      BY <1>0, <3>1 DEF Linked
    <3>3. EventsOf(r)' = {n + 1} /\ ledger'[n + 1].type = "STARTED"
      BY <2>1, <3>2, EventsOfAppended, AppendEntries
    <3>4. outcomes'[r] = [status |-> "COMMITTED", refs |-> <<n + 1>>]
      BY <1>1, StartWrites DEF TypeOK
    <3> HIDE DEF n
    <3>5. outcomes'[r].refs = <<n + 1>> /\ outcomes'[r].status = "COMMITTED"
      BY <3>4
    <3> QED
      BY <2>3, <3>3, <3>5 DEF Linked
  <2> QED
    BY <2>2, <2>3
<1>2. ASSUME NEW r \in requests, NEW f, NEW v, Complete(r, f, v)
      PROVE  Linked(q)' /\ (outcomes'[q].status # "COMMITTED" => outcomes'[q].refs = <<>>)
  <2>1. Commit("COMPLETED", r, worldTime, f) /\ r \in Requests
    BY <1>0, <1>2 DEF Complete
  <2>2. CASE q # r
    <3>1. outcomes'[q] = outcomes[q]
      BY <1>2, <2>2, CompleteWrites
    <3> QED
      BY <1>0, <2>1, <2>2, <3>1, LinksKept DEF LinksInv
  <2>3. CASE q = r
    <3>1. PICK s \in Nat : outcomes[r].refs = <<s>>
      <4>1. Len(outcomes[r].refs) = 1 /\ outcomes[r].refs \in Seq(Nat)
        BY <1>0, <1>2, <2>1, CompleteWrites
      <4>2. outcomes[r].refs[1] \in Nat /\ outcomes[r].refs = <<outcomes[r].refs[1]>>
        BY <4>1
      <4> QED
        BY <4>2
    <3>2. EventsOf(r) = {s} /\ ledger[s].type = "STARTED"
      BY <1>0, <2>1, <3>1 DEF Linked
    <3>3. s \in 1 .. n
      BY <3>2 DEF EventsOf
    <3>4. /\ EventsOf(r)' = {s, n + 1} /\ ledger'[n + 1].type = "COMPLETED"
          /\ ledger'[s].type = "STARTED"
      BY <2>1, <3>2, <3>3, EventsOfAppended, AppendEntries
    <3>5. /\ Len(outcomes'[r].refs) = 2 /\ DOMAIN outcomes'[r].refs = {1, 2}
          /\ outcomes'[r].refs[1] = s /\ outcomes'[r].refs[2] = n + 1
      <4>1. outcomes'[r].refs = Append(outcomes[r].refs, n + 1)
        BY <1>2, <2>1 DEF Complete, TypeOK
      <4>2. n + 1 \in Nat /\ outcomes[r].refs \in Seq(Nat) /\ Len(outcomes[r].refs) = 1
            /\ outcomes[r].refs[1] = s
        BY <1>0, <2>1, <3>1
      <4> QED
        BY <4>1, <4>2, AppendToOne
    <3>6. outcomes'[r].status = "COMMITTED"
      BY <1>2, CompleteWrites
    <3> HIDE DEF n
    <3> QED
      BY <1>0, <2>3, <3>3, <3>4, <3>5, <3>6 DEF Linked
  <2> QED
    BY <2>2, <2>3
<1>3. CASE Aside
  <2>1. None # q
    BY NoneAssumption
  <2>2. Linked(q)'
    BY <1>0, <1>3, <2>1, LinksKept DEF Aside
  <2> QED
    BY <1>3, <2>2 DEF Aside, LinksInv
<1> QED
  BY <1>1, <1>2, <1>3, RecordSteps

\* A seeded world has neither links nor events.
LEMMA InitLinks == Init => LinksInv
<1> SUFFICES ASSUME Init, NEW r \in Requests
             PROVE  outcomes[r].refs = <<>> /\ EventsOf(r) = {}
  BY DEF LinksInv, OutcomesLinkTheirEvents
<1> QED
  BY DEF Init, EventsOf, worldSeq

(***************************************************************************)
(* The event links of an outcome are exactly the events of its request, in *)
(* their order: one that started it, then at most one that completed it.   *)
(***************************************************************************)
THEOREM LinksAreTheEvents == Spec => []OutcomesLinkTheirEvents
<1>1. LinksInv => OutcomesLinkTheirEvents
  BY DEF LinksInv
<1>2. RInv /\ [Next]_vars => RInv'
  BY OpenOutcomesStep
<1>3. RInv /\ LinksInv /\ [Next]_vars => LinksInv'
  BY LinksStep
<1> QED
  BY <1>1, <1>2, <1>3, InitLinks, InitRInv, PTL DEF Spec

-----------------------------------------------------------------------------
(* Keys *)

\* (world, idempotency key) is unique, and only persisted requests have events.
KeysInv ==
  /\ \A r, q \in requests : r.key = q.key => r = q
  /\ \A i \in 1 .. worldSeq : ledger[i].type # "WORLD_TIME_ADVANCED"
                               => ledger[i].req \in requests

\* A request that may be inserted or executed has its key to itself.
LEMMA KeyIsFree ==
  ASSUME NEW r, EnsureStatus(r) # "conflict", \A p, q \in requests : p.key = q.key => p = q
  PROVE  \A p, q \in requests \cup {r} : p.key = q.key => p = q
BY DEF EnsureStatus

\* A step inserts a request under a free key or leaves the requests alone.
LEMMA RequestsStep ==
  ASSUME [Next]_vars
  PROVE  \/ requests' = requests
         \/ \E r \in Requests : requests' = requests \cup {r} /\ EnsureStatus(r) # "conflict"
<1>1. ASSUME NEW r, NEW f, NEW rv, Start(r, f, rv) \/ Refuse(r, f, rv)
      PROVE  requests' = requests \cup {r} /\ EnsureStatus(r) # "conflict"
  BY <1>1 DEF Start, Refuse, Executable
<1>2. ASSUME NEW r, PersistRequest(r)
      PROVE  requests' = requests \cup {r} /\ EnsureStatus(r) # "conflict"
  BY <1>2 DEF PersistRequest
<1>3. ASSUME NEW r, NEW f, NEW v, Complete(r, f, v)
      PROVE  requests' = requests
  BY <1>3 DEF Complete
<1>4. ASSUME \/ \E t, f : AdvanceWorldTimeTo(t, f)
             \/ \E t, s : UpdateClock(t, s)
             \/ AcquireLease \/ UNCHANGED vars
             \/ \E prepare : RegisterNextWakes(prepare)
             \/ \E w : AcknowledgeWake(w)
      PROVE  requests' = requests
  BY <1>4 DEF AdvanceWorldTimeTo, UpdateClock, AcquireLease, vars, RegisterNextWakes,
              AcknowledgeWake
<1> QED
  BY <1>1, <1>2, <1>3, <1>4 DEF Next

\* Every step keeps keys unique and events to persisted requests.
LEMMA KeysStep ==
  ASSUME RInv, KeysInv, [Next]_vars
  PROVE  KeysInv'
<1> USE DEF RInv, IInv
<1>1. \A r, q \in requests' : r.key = q.key => r = q
  BY RequestsStep, KeyIsFree DEF KeysInv
<1>2. requests \subseteq requests' /\ requests \in SUBSET Requests /\ worldSeq \in Nat
  BY RequestsStep, LedgerEntries DEF TypeOK
<1>3. ASSUME NEW type, NEW r, NEW at, NEW f, Commit(type, r, at, f),
             type = "WORLD_TIME_ADVANCED" \/ r \in requests'
      PROVE  \A i \in 1 .. worldSeq' : ledger'[i].type # "WORLD_TIME_ADVANCED"
                                       => ledger'[i].req \in requests'
  BY <1>2, <1>3, AppendEntries DEF KeysInv
<1>4. ASSUME NEW r \in Requests, NEW f, NEW rv, Start(r, f, rv)
      PROVE  Commit("STARTED", r, worldTime, f) /\ r \in requests'
  BY <1>4 DEF Start
<1>5. ASSUME NEW r \in requests, NEW f, NEW v, Complete(r, f, v)
      PROVE  Commit("COMPLETED", r, worldTime, f) /\ r \in requests'
  BY <1>2, <1>5 DEF Complete
<1>6. CASE ledger' = ledger
  BY <1>1, <1>2, <1>6 DEF KeysInv, worldSeq
<1> QED
  BY <1>1, <1>3, <1>4, <1>5, <1>6, RecordSteps DEF KeysInv, Aside

(***************************************************************************)
(* However often and in whatever order a key is persisted, executed and    *)
(* repeated, at most one activity is started under it: the events of a key *)
(* are those of one request, and only the first of its links is a start.   *)
(***************************************************************************)
THEOREM KeysStartOnce == Spec => []KeyStartsOnce
<1>1. RInv /\ LinksInv /\ KeysInv => KeyStartsOnce
  <2> SUFFICES ASSUME RInv, LinksInv, KeysInv,
                      NEW i \in 1 .. worldSeq, NEW j \in 1 .. worldSeq,
                      ledger[i].type = "STARTED", ledger[j].type = "STARTED",
                      ledger[i].req.key = ledger[j].req.key
               PROVE  i = j
    BY DEF KeyStartsOnce
  <2> DEFINE r == ledger[i].req
             refs == outcomes[r].refs
  <2>1. r \in Requests /\ ledger[j].req = r
    BY DEF KeysInv, RInv, IInv, TypeOK
  <2>2. refs \in Seq(Nat) /\ Linked(r)
    BY <2>1 DEF RInv, IInv, TypeOK, LinksInv, OutcomesLinkTheirEvents, Linked
  <2>3. i \in EventsOf(r) /\ j \in EventsOf(r)
    BY <2>1 DEF EventsOf
  <2>4. PICK k \in DOMAIN refs, l \in DOMAIN refs : refs[k] = i /\ refs[l] = j
    BY <2>2, <2>3 DEF Linked
  <2>5. DOMAIN refs \subseteq {1, 2}
    BY <2>2 DEF Linked
  <2>6. \A m \in DOMAIN refs : ledger[refs[m]].type = "STARTED" => m = 1
    BY <2>2, <2>5 DEF Linked
  <2> QED
    BY <2>4, <2>6
<1>2. Init => KeysInv
  BY DEF Init, KeysInv, worldSeq
<1>3. RInv /\ [Next]_vars => RInv'
  BY OpenOutcomesStep
<1>4. RInv /\ LinksInv /\ [Next]_vars => LinksInv'
  BY LinksStep
<1>5. RInv /\ KeysInv /\ [Next]_vars => KeysInv'
  BY KeysStep
<1> QED
  BY <1>1, <1>2, <1>3, <1>4, <1>5, InitLinks, InitRInv, PTL DEF Spec

(***************************************************************************)
(* Completing a finished activity again, with whatever expected version,   *)
(* is never executed and never told to wait, whatever its parties have     *)
(* gone on to: a row that is busy is busy with a request whose outcome has *)
(* one link, and that of a finished request has two.                       *)
(***************************************************************************)
THEOREM FinishedActivitiesStayFinished == Spec => []FinishedStaysFinished
<1>1. RInv /\ LinksInv => FinishedStaysFinished
  <2> SUFFICES ASSUME RInv, LinksInv, NEW r \in requests, NEW i \in DOMAIN outcomes[r].refs,
                      ledger[outcomes[r].refs[i]].type = "COMPLETED",
                      NEW v \in {None} \cup 0 .. runtime[r.actor].version
               PROVE  CompletionDisposition(r, v) \in {"REUSED", "INVALID_COMPLETION"}
    BY DEF FinishedStaysFinished, HasEnded
  <2>1. r \in Requests /\ outcomes[r].refs \in Seq(Nat) /\ Linked(r)
        /\ r.actor \in Parties(r) /\ r.actor \in Residents
    BY RequestFacts DEF RInv, IInv, TypeOK, LinksInv, OutcomesLinkTheirEvents, Linked
  <2>2. Len(outcomes[r].refs) = 2
    <3>1. i \in {1, 2} /\ i <= Len(outcomes[r].refs) /\ Len(outcomes[r].refs) \in Nat
      BY <2>1 DEF Linked
    <3>2. i = 2
      BY <2>1, <3>1 DEF Linked
    <3> QED
      BY <2>1, <3>1, <3>2 DEF Linked
  <2>3. outcomes[r].status = "COMMITTED"
    BY <2>1, <2>2 DEF LinksInv
  <2>4. ~Belongs(r) \/ IsIdle(r.actor)
    <3> SUFFICES ASSUME Belongs(r), ~IsIdle(r.actor) PROVE FALSE
      OBVIOUS
    <3>1. runtime[r.actor].task # Idle
      BY DEF IsIdle, Idle
    <3>2. runtime[r.actor].task.inst = r
      BY DEF Belongs
    <3>3. Len(outcomes[r].refs) = 1
      BY <2>1, <3>1, <3>2 DEF RInv, OpenOutcomes
    <3> QED
      BY <2>2, <3>3
  <2> QED
    BY <2>3, <2>4 DEF CompletionDisposition
<1>2. RInv /\ [Next]_vars => RInv'
  BY OpenOutcomesStep
<1>3. RInv /\ LinksInv /\ [Next]_vars => LinksInv'
  BY LinksStep
<1> QED
  BY <1>1, <1>2, <1>3, InitLinks, InitRInv, PTL DEF Spec

-----------------------------------------------------------------------------
(* Food *)

\* s adds up, event by event, what was taken out of x's larder.
Tally(s, x) ==
  s = [n \in 0 .. worldSeq |-> IF n = 0 THEN 0 ELSE s[n - 1] + UnitsEaten(x, n)]

(***************************************************************************)
(* Food is conserved by every tally, and there is one.  Eaten(x) is the    *)
(* last entry of a tally, so nothing needs to be known of recursion.       *)
(***************************************************************************)
FoodInv ==
  \A x \in Residents :
    /\ food[x].version = Cardinality(Meals(x))
    /\ \E s : Tally(s, x)
    /\ \A s : Tally(s, x) => /\ s[worldSeq] \in Nat
                            /\ food[x].units + s[worldSeq] = InitialFood[x]

\* What a ledger entry takes out of x's larder.
Portion(type, r, x) ==
  IF type = "STARTED" /\ r.type = "EAT" /\ r.actor = x THEN r.quantity ELSE 0

\* An append is one meal more, or the meals are what they were.
LEMMA MealsAppended ==
  ASSUME TypeOK, NEW type, NEW r, NEW at, NEW f, Commit(type, r, at, f),
         NEW x, NEW n, n = worldSeq
  PROVE  /\ Meals(x)' = Meals(x) \cup
              (IF type = "STARTED" /\ r.type = "EAT" /\ r.actor = x THEN {n + 1} ELSE {})
         /\ \A i \in 1 .. n : UnitsEaten(x, i)' = UnitsEaten(x, i)
         /\ UnitsEaten(x, n + 1)' = Portion(type, r, x)
<1>1. /\ n \in Nat /\ worldSeq' = n + 1 /\ \A i \in 1 .. n : ledger'[i] = ledger[i]
      /\ ledger'[n + 1].type = type /\ ledger'[n + 1].req = r
  BY AppendEntries
<1>2. 1 .. n + 1 = (1 .. n) \cup {n + 1}
  BY <1>1
<1>3. Meals(x)' = Meals(x) \cup
        (IF type = "STARTED" /\ r.type = "EAT" /\ r.actor = x THEN {n + 1} ELSE {})
  BY <1>1, <1>2 DEF Meals
<1>4. Meals(x) \subseteq 1 .. n
  BY DEF Meals
<1>5. \A i \in 1 .. n : UnitsEaten(x, i)' = UnitsEaten(x, i)
  <2> SUFFICES ASSUME NEW i \in 1 .. n PROVE UnitsEaten(x, i)' = UnitsEaten(x, i)
    OBVIOUS
  <2>1. i \in Meals(x)' <=> i \in Meals(x)
    BY <1>1, <1>3
  <2> QED
    BY <1>1, <2>1 DEF UnitsEaten
<1>6. UnitsEaten(x, n + 1)' = Portion(type, r, x)
  <2>1. n + 1 \notin Meals(x)
    BY <1>1, <1>4
  <2> QED
    BY <1>1, <1>3, <2>1 DEF UnitsEaten, Portion
<1> QED
  BY <1>3, <1>5, <1>6

\* A tally is cut off at the old end of the ledger, or continued to the new one.
LEMMA TallyAppended ==
  ASSUME TypeOK, NEW type, NEW r, NEW at, NEW f, Commit(type, r, at, f),
         NEW x, NEW n, n = worldSeq
  PROVE  /\ (\E s : Tally(s, x)) => (\E s : Tally(s, x)')
         /\ \A s : Tally(s, x)' =>
              /\ s[n + 1] = s[n] + Portion(type, r, x)
              /\ \E old : Tally(old, x) /\ old[n] = s[n]
<1>1. n \in Nat /\ worldSeq' = n + 1
  BY AppendEntries
<1>2. /\ \A i \in 1 .. n : UnitsEaten(x, i)' = UnitsEaten(x, i)
      /\ UnitsEaten(x, n + 1)' = Portion(type, r, x)
  BY MealsAppended
<1> DEFINE Units(i) == UnitsEaten(x, i)
           Later(i) == UnitsEaten(x, i)'
<1>3. ASSUME NEW s, Tally(s, x)
      PROVE  \E t : Tally(t, x)'
  <2> DEFINE t == [i \in 0 .. n + 1 |-> IF i = n + 1 THEN s[n] + Portion(type, r, x) ELSE s[i]]
  <2>1. s = [i \in 0 .. n |-> IF i = 0 THEN 0 ELSE s[i - 1] + Units(i)]
    BY <1>3 DEF Tally
  <2>2. /\ \A i \in 1 .. n : Later(i) = Units(i)
        /\ Later(n + 1) = Portion(type, r, x)
    BY <1>2
  <2> HIDE DEF Units, Later
  <2>3. ASSUME NEW i \in 0 .. n + 1
        PROVE  t[i] = IF i = 0 THEN 0 ELSE t[i - 1] + Later(i)
    <3>1. CASE i = 0
      BY <1>1, <2>1, <3>1
    <3>2. CASE i \in 1 .. n
      <4>1. t[i] = s[i] /\ t[i - 1] = s[i - 1] /\ i # 0
        BY <1>1, <3>2
      <4>2. s[i] = s[i - 1] + Units(i)
        BY <1>1, <2>1, <3>2
      <4> QED
        BY <2>2, <3>2, <4>1, <4>2
    <3>3. CASE i = n + 1
      <4>1. t[i] = s[n] + Portion(type, r, x) /\ t[i - 1] = s[n] /\ i # 0
        BY <1>1, <3>3
      <4> QED
        BY <2>2, <3>3, <4>1
    <3> QED
      BY <1>1, <3>1, <3>2, <3>3
  <2>4. t = [i \in 0 .. n + 1 |-> IF i = 0 THEN 0 ELSE t[i - 1] + Later(i)]
    BY <2>3
  <2>5. Tally(t, x)'
    BY <1>1, <2>4 DEF Tally, Later
  <2> QED
    BY <2>5
<1>4. ASSUME NEW s, Tally(s, x)'
      PROVE  /\ s[n + 1] = s[n] + Portion(type, r, x)
             /\ \E old : Tally(old, x) /\ old[n] = s[n]
  <2> DEFINE old == [i \in 0 .. n |-> s[i]]
  <2>1. s = [i \in 0 .. n + 1 |-> IF i = 0 THEN 0 ELSE s[i - 1] + Later(i)]
    BY <1>1, <1>4 DEF Tally
  <2>2. /\ \A i \in 1 .. n : Later(i) = Units(i)
        /\ Later(n + 1) = Portion(type, r, x)
    BY <1>2
  <2> HIDE DEF Units, Later
  <2>3. s[n + 1] = s[n] + Portion(type, r, x)
    <3>1. n + 1 \in 0 .. n + 1 /\ n + 1 # 0 /\ n + 1 - 1 = n
      BY <1>1
    <3>2. \A i \in 0 .. n + 1 : s[i] = IF i = 0 THEN 0 ELSE s[i - 1] + Later(i)
      BY <2>1
    <3> DEFINE m == n + 1
    <3>3. s[m] = IF m = 0 THEN 0 ELSE s[m - 1] + Later(m)
      <4> HIDE DEF m, Later
      <4> QED
        BY <3>1, <3>2 DEF m
    <3>4. m # 0 /\ m - 1 = n
      BY <1>1
    <3>5. s[m] = s[m - 1] + Later(m)
      <4> HIDE DEF m, Later
      <4> QED
        BY <3>3, <3>4
    <3> QED
      BY <2>2, <3>4, <3>5
  <2>4. ASSUME NEW i \in 0 .. n
        PROVE  s[i] = IF i = 0 THEN 0 ELSE old[i - 1] + Units(i)
    <3>1. CASE i = 0
      BY <1>1, <2>1, <3>1
    <3>2. CASE i # 0
      <4>1. i \in 1 .. n /\ i \in 0 .. n + 1 /\ i - 1 \in 0 .. n
        BY <1>1, <3>2
      <4>2. s[i] = s[i - 1] + Later(i)
        BY <2>1, <3>2, <4>1
      <4> QED
        BY <2>2, <3>2, <4>1, <4>2
    <3> QED
      BY <3>1, <3>2
  <2>5. old = [i \in 0 .. n |-> IF i = 0 THEN 0 ELSE old[i - 1] + Units(i)]
    BY <2>4
  <2>6. Tally(old, x) /\ old[n] = s[n]
    BY <1>1, <2>5 DEF Tally, Units
  <2> QED
    BY <2>3, <2>6
<1> QED
  BY <1>3, <1>4

\* Every step that takes food out of a larder writes it down.
LEMMA FoodStep ==
  ASSUME RInv, FoodInv, [Next]_vars
  PROVE  FoodInv'
<1> USE DEF RInv, IInv
<1> SUFFICES ASSUME NEW x \in Residents
             PROVE  /\ food'[x].version = Cardinality(Meals(x)')
                    /\ \E s : Tally(s, x)'
                    /\ \A s : Tally(s, x)' =>
                         s[worldSeq'] \in Nat /\ food'[x].units + s[worldSeq'] = InitialFood[x]
  BY DEF FoodInv
<1> DEFINE n == worldSeq
           Goal == /\ food'[x].version = Cardinality(Meals(x)')
                   /\ \E s : Tally(s, x)'
                   /\ \A s : Tally(s, x)' =>
                        s[worldSeq'] \in Nat /\ food'[x].units + s[worldSeq'] = InitialFood[x]
<1>1. /\ n \in Nat /\ Meals(x) \in SUBSET (1 .. n)
      /\ food[x].version = Cardinality(Meals(x)) /\ food[x].units \in Nat
      /\ \E s : Tally(s, x)
      /\ \A s : Tally(s, x) => s[n] \in Nat /\ food[x].units + s[n] = InitialFood[x]
      /\ InitialFood[x] \in Nat
  BY LedgerEntries, PlaceAssumption DEF FoodInv, Meals, TypeOK
<1>2. ASSUME NEW type, NEW r, NEW at, NEW f, Commit(type, r, at, f),
             Portion(type, r, x) \in Nat,
             food'[x].units = food[x].units - Portion(type, r, x),
             food'[x].version = IF type = "STARTED" /\ r.type = "EAT" /\ r.actor = x
                                THEN food[x].version + 1 ELSE food[x].version
      PROVE  Goal
  <2>1. worldSeq' = n + 1
    BY <1>2, AppendEntries
  <2>2. food'[x].version = Cardinality(Meals(x)')
    <3>1. CASE type = "STARTED" /\ r.type = "EAT" /\ r.actor = x
      <4>1. Meals(x)' = Meals(x) \cup {n + 1}
        BY <1>2, <3>1, MealsAppended
      <4>2. Cardinality(Meals(x) \cup {n + 1}) = Cardinality(Meals(x)) + 1
        BY <1>1, OneMore
      <4> QED
        BY <1>1, <1>2, <3>1, <4>1, <4>2
    <3>2. CASE ~(type = "STARTED" /\ r.type = "EAT" /\ r.actor = x)
      <4>1. Meals(x)' = Meals(x)
        BY <1>2, <3>2, MealsAppended
      <4> QED
        BY <1>1, <1>2, <3>2, <4>1
    <3> QED
      BY <3>1, <3>2
  <2>3. ASSUME NEW s, Tally(s, x)'
        PROVE  s[n + 1] \in Nat /\ food'[x].units + s[n + 1] = InitialFood[x]
    <3>1. s[n + 1] = s[n] + Portion(type, r, x)
      BY <1>2, <2>3, TallyAppended
    <3>2. s[n] \in Nat /\ food[x].units + s[n] = InitialFood[x]
      <4>1. PICK old : Tally(old, x) /\ old[n] = s[n]
        BY <1>2, <2>3, TallyAppended
      <4> QED
        BY <1>1, <4>1
    <3> QED
      BY <1>1, <1>2, <3>1, <3>2
  <2>4. \E s : Tally(s, x)'
    BY <1>1, <1>2, TallyAppended
  <2> QED
    BY <2>1, <2>2, <2>3, <2>4
<1>3. ASSUME Aside, ledger' = ledger PROVE Goal
  <2>1. \A s : Tally(s, x)' <=> Tally(s, x)
    BY <1>3 DEF Tally, worldSeq, UnitsEaten, Meals
  <2>2. Meals(x)' = Meals(x) /\ worldSeq' = worldSeq /\ food' = food
    BY <1>3 DEF Meals, worldSeq, Aside
  <2> QED
    BY <1>1, <2>1, <2>2
<1> HIDE DEF Goal
<1>4. ASSUME NEW r \in Requests, NEW f, NEW rv, Start(r, f, rv)
      PROVE  Goal
  <2>1. Commit("STARTED", r, worldTime, f) /\ food' = FoodAfterStart(r)
    BY <1>4 DEF Start
  <2>2. CASE r.type = "EAT" /\ r.actor = x
    <3>1. r.quantity \in Nat /\ Portion("STARTED", r, x) = r.quantity
      BY <2>2, RequestAssumption DEF Portion
    <3>2. food'[x].units = food[x].units - r.quantity /\ food'[x].version = food[x].version + 1
      BY <2>1, <2>2 DEF FoodAfterStart, TypeOK
    <3> QED
      BY <1>2, <2>1, <2>2, <3>1, <3>2
  <2>3. CASE ~(r.type = "EAT" /\ r.actor = x)
    <3>1. Portion("STARTED", r, x) = 0 /\ food'[x] = food[x]
      BY <2>1, <2>3, RequestFacts DEF Portion, FoodAfterStart, TypeOK
    <3>2. food'[x].units = food[x].units - 0
      BY <1>1, <3>1
    <3> QED
      BY <1>2, <2>1, <2>3, <3>1, <3>2
  <2> QED
    BY <2>2, <2>3
<1>5. ASSUME NEW type, NEW r, NEW at, NEW f, Commit(type, r, at, f), type # "STARTED",
             food' = food
      PROVE  Goal
  <2>1. Portion(type, r, x) = 0 /\ food'[x].units = food[x].units - 0
    BY <1>1, <1>5 DEF Portion
  <2> QED
    BY <1>2, <1>5, <2>1
<1>6. ASSUME NEW r \in requests, NEW f, NEW v, Complete(r, f, v)
      PROVE  Goal
  <2>1. Commit("COMPLETED", r, worldTime, f) /\ food' = food
    BY <1>6 DEF Complete
  <2> QED
    BY <1>5, <2>1
<1>7. ASSUME Aside, ledger' # ledger PROVE Goal
  <2>1. PICK at, f : Commit("WORLD_TIME_ADVANCED", None, at, f)
    BY <1>7 DEF Aside
  <2>2. food' = food
    BY <1>7 DEF Aside
  <2> QED
    BY <1>5, <2>1, <2>2
<1>8. Aside => Goal
  BY <1>3, <1>7
<1>9. Goal
  <2>1. \/ \E r \in Requests : \E f, rv : Start(r, f, rv)
        \/ \E r \in requests : \E f, v : Complete(r, f, v)
        \/ Aside
    BY RecordSteps
  <2> QED
    BY <1>4, <1>6, <1>8, <2>1, Zenon
<1> QED
  BY <1>9 DEF Goal

\* A seeded larder is full and nothing was eaten.
LEMMA InitFood == Init => FoodInv
<1> SUFFICES ASSUME Init, NEW x \in Residents
             PROVE  /\ food[x].version = Cardinality(Meals(x))
                    /\ \E s : Tally(s, x)
                    /\ \A s : Tally(s, x) => s[worldSeq] \in Nat
                                            /\ food[x].units + s[worldSeq] = InitialFood[x]
  BY DEF FoodInv
<1>1. worldSeq = 0 /\ Meals(x) = {} /\ food[x].units = InitialFood[x] /\ food[x].version = 0
      /\ InitialFood[x] \in Nat
  BY PlaceAssumption DEF Init, worldSeq, Meals
<1>2. \A s : Tally(s, x) => s[0] = 0
  BY <1>1 DEF Tally
<1>3. \E s : Tally(s, x)
  <2> DEFINE s == [n \in 0 .. 0 |-> 0]
  <2>1. \A n \in 0 .. 0 : n = 0
    OBVIOUS
  <2>2. s = [n \in 0 .. 0 |-> IF n = 0 THEN 0 ELSE s[n - 1] + UnitsEaten(x, n)]
    BY <2>1
  <2>3. Tally(s, x)
    BY <1>1, <2>2 DEF Tally
  <2> QED
    BY <2>3
<1> QED
  BY <1>1, <1>2, <1>3, FS_EmptySet

(***************************************************************************)
(* Food is conserved: what is left in a larder and what all its meals took *)
(* add up to what the resident was seeded with.                            *)
(***************************************************************************)
THEOREM FoodIsNeitherMadeNorLost == Spec => []FoodIsConserved
<1>1. FoodInv => FoodIsConserved
  <2> SUFFICES ASSUME FoodInv, NEW x \in Residents
               PROVE  food[x].units + Eaten(x) = InitialFood[x]
    BY DEF FoodInv, FoodIsConserved
  <2> DEFINE s == CHOOSE t : Tally(t, x)
  <2>1. Tally(s, x)
    BY DEF FoodInv
  <2>2. Eaten(x) = s[worldSeq]
    BY DEF Eaten, Tally
  <2> QED
    BY <2>1, <2>2 DEF FoodInv
<1>2. RInv /\ [Next]_vars => RInv'
  BY OpenOutcomesStep
<1>3. RInv /\ FoodInv /\ [Next]_vars => FoodInv'
  BY FoodStep
<1> QED
  BY <1>1, <1>2, <1>3, InitFood, InitRInv, PTL DEF Spec

-----------------------------------------------------------------------------
(* Wakes *)

\* scheduled_wake_registrations is unique by (world, dedupe key)
UniqueKeys(rows) == \A u, w \in rows : WakeKey(u) = WakeKey(w) => u = w

KeysUnique == UniqueKeys(wakes)

\* Rows refreshed in place keep their keys apart.
LEMMA UpsertKeys ==
  ASSUME NEW rows, NEW new, UniqueKeys(rows), UniqueKeys(new)
  PROVE  UniqueKeys(Upsert(rows, new))
BY DEF UniqueKeys, Upsert

\* The wakes of one resident and commit are told apart by their kind.
LEMMA WakeFields ==
  ASSUME NEW x, NEW loc, NEW version, NEW seq
  PROVE  /\ UniqueKeys(BoundaryWake(x, version, seq))
         /\ UniqueKeys(BoundaryWake(x, version, seq) \cup
                         PreparationWake(x, loc, version, seq))
         /\ \A w \in BoundaryWake(x, version, seq) \cup
                       PreparationWake(x, loc, version, seq) : w.resident = x
BY DEF UniqueKeys, BoundaryWake, PreparationWake, Wake, WakeKey

\* Every kernel step keeps the keys of wakes apart.
LEMMA NextKeys ==
  ASSUME KeysUnique, [Next]_vars
  PROVE  KeysUnique'
<1>1. UniqueKeys({})
  BY DEF UniqueKeys
<1>2. ASSUME NEW r, NEW f, NEW rv, Start(r, f, rv)
      PROVE  KeysUnique'
  <2>1. UniqueKeys(WakesAfterStart(r))
    BY UpsertKeys, WakeFields DEF WakesAfterStart, KeysUnique
  <2> QED
    BY <1>2, <2>1 DEF Start, KeysUnique
<1>3. ASSUME NEW r, NEW f, NEW v, Complete(r, f, v)
      PROVE  KeysUnique'
  <2> DEFINE version == runtime[r.actor].version + 1
             boundary == BoundaryWake(r.actor, version, worldSeq + 1)
             preparation == PreparationWake(r.actor, runtime[r.actor].task.target,
                                            version, worldSeq + 1)
  <2>1. UniqueKeys(boundary \cup preparation) /\ UniqueKeys(boundary \cup {})
    BY WakeFields
  <2>2. \/ wakes' = wakes
        \/ wakes' = Upsert(wakes, boundary \cup preparation)
        \/ wakes' = Upsert(wakes, boundary \cup {})
    BY <1>3 DEF Complete, WakesAfterCompletion
  <2> HIDE DEF boundary, preparation
  <2>3. UniqueKeys(wakes')
    BY <2>1, <2>2, UpsertKeys DEF KeysUnique
  <2> QED
    BY <2>3 DEF KeysUnique
<1>4. ASSUME NEW prepare, RegisterNextWakes(prepare)
      PROVE  KeysUnique'
  <2> DEFINE mine(x) == BoundaryWake(x, runtime[x].version, worldSeq) \cup
                (IF prepare
                 THEN PreparationWake(x, runtime[x].loc, runtime[x].version, worldSeq)
                 ELSE {})
             all == UNION {mine(x) : x \in Residents}
  <2>1. ASSUME NEW x \in Residents
        PROVE  UniqueKeys(mine(x)) /\ \A w \in mine(x) : w.resident = x
    <3> DEFINE boundary == BoundaryWake(x, runtime[x].version, worldSeq)
               preparation == PreparationWake(x, runtime[x].loc, runtime[x].version, worldSeq)
    <3>1. /\ UniqueKeys(boundary) /\ UniqueKeys(boundary \cup preparation)
          /\ \A w \in boundary \cup preparation : w.resident = x
      BY WakeFields
    <3>2. mine(x) = boundary \cup preparation \/ mine(x) = boundary
      OBVIOUS
    <3> HIDE DEF boundary, preparation, mine
    <3> QED
      BY <3>1, <3>2
  <2>2. wakes' = Upsert(wakes, all)
    BY <1>4 DEF RegisterNextWakes
  <2> HIDE DEF mine
  <2>3. UniqueKeys(all)
    <3>1. SUFFICES ASSUME NEW x \in Residents, NEW y \in Residents,
                          NEW u \in mine(x), NEW w \in mine(y), WakeKey(u) = WakeKey(w)
                   PROVE  u = w
      BY DEF UniqueKeys
    <3>2. x = y
      BY <2>1, <3>1 DEF WakeKey
    <3> QED
      BY <2>1, <3>1, <3>2 DEF UniqueKeys
  <2> HIDE DEF all
  <2> QED
    BY <2>2, <2>3, UpsertKeys DEF KeysUnique
<1>5. ASSUME NEW w, AcknowledgeWake(w)
      PROVE  KeysUnique'
  BY <1>5 DEF AcknowledgeWake, KeysUnique, UniqueKeys
<1>6. CASE wakes' = wakes
  BY <1>6 DEF KeysUnique, UniqueKeys
<1> QED
  BY <1>2, <1>3, <1>4, <1>5, <1>6
  DEF Next, vars, PersistRequest, Refuse, AdvanceWorldTimeTo, UpdateClock, AcquireLease

\* What a wake says of the commit it was registered with.
Described(w) ==
  /\ w.seq <= worldSeq
  /\ w.version = Cardinality(LifecycleEvents(w.resident, w.seq))
  /\ w.kind = "BOUNDARY" /\ w.seq > 0 => w.due > ledger[w.seq].at

\* The inductive form of WakesDescribeTheirCommit.
WakesInv == KeysUnique /\ \A w \in wakes : Described(w)

\* A history that goes on changes nothing of what a wake says.
LEMMA DescribedStays ==
  ASSUME TypeOK, NEW w \in WakeRows, Described(w),
         ledger' = ledger \/ \E type, r, at, f : Commit(type, r, at, f)
  PROVE  Described(w)'
<1>1. CASE ledger' = ledger
  BY <1>1 DEF Described, LifecycleEvents, worldSeq
<1>2. ASSUME NEW type, NEW r, NEW at, NEW f, Commit(type, r, at, f)
      PROVE  Described(w)'
  <2>1. w.seq \in Nat /\ w.seq <= worldSeq
    BY DEF WakeRows, Described
  <2>2. worldSeq \in Nat /\ worldSeq' = worldSeq + 1 /\ w.seq \in 0 .. worldSeq
    BY <1>2, <2>1, AppendEntries
  <2>3. LifecycleEvents(w.resident, w.seq)' = LifecycleEvents(w.resident, w.seq)
    BY <1>2, <2>2, EventsAppended
  <2>4. w.seq > 0 => ledger'[w.seq] = ledger[w.seq]
    BY <1>2, <2>2, AppendEntries
  <2> QED
    BY <2>1, <2>2, <2>3, <2>4 DEF Described
<1> QED
  BY <1>1, <1>2

\* What is written on the wakes of one resident and commit.
LEMMA WakeStamps ==
  ASSUME TypeOK, NEW x, NEW loc, NEW version, NEW seq,
         NEW w \in BoundaryWake(x, version, seq) \cup PreparationWake(x, loc, version, seq)
  PROVE  /\ w.resident = x /\ w.version = version /\ w.seq = seq
         /\ w.kind = "BOUNDARY" => w.due > worldTime
<1>1. NextShift(worldTime) > worldTime
  BY NextShiftLater DEF TypeOK
<1> QED
  BY <1>1 DEF BoundaryWake, PreparationWake, Wake

\* The wakes that a start or a completion registers describe that event.
LEMMA CommitDescribed ==
  ASSUME RInv, VersionsCountEvents, NEW type \in {"STARTED", "COMPLETED"},
         NEW r \in Requests, NEW f, Commit(type, r, worldTime, f),
         NEW x \in Parties(r), x \in Residents, NEW loc,
         NEW w \in BoundaryWake(x, runtime[x].version + 1, worldSeq + 1) \cup
                     PreparationWake(x, loc, runtime[x].version + 1, worldSeq + 1)
  PROVE  Described(w)'
<1> USE DEF RInv, IInv
<1>0. PICK n : n = worldSeq
  OBVIOUS
<1> DEFINE E == LifecycleEvents(x, n)
<1>1. /\ w.resident = x /\ w.version = runtime[x].version + 1 /\ w.seq = n + 1
      /\ w.kind = "BOUNDARY" => w.due > worldTime
  BY <1>0, WakeStamps
<1>2. /\ n \in Nat /\ worldSeq' = n + 1 /\ ledger'[n + 1].at = worldTime
  BY <1>0, AppendEntries
<1>3. LifecycleEvents(x, n + 1)' = E \cup {n + 1}
  <2>1. type # "WORLD_TIME_ADVANCED"
    OBVIOUS
  <2>2. LifecycleEvents(x, n + 1)' = LifecycleEvents(x, n) \cup
          (IF type # "WORLD_TIME_ADVANCED" /\ x \in Parties(r) THEN {n + 1} ELSE {})
    BY <1>0, EventsAppended
  <2> QED
    BY <2>1, <2>2
<1>4. E \in SUBSET (1 .. n) /\ runtime[x].version = Cardinality(E)
  BY <1>0 DEF VersionsCountEvents, LifecycleEvents
<1>5. Cardinality(E \cup {n + 1}) = Cardinality(E) + 1
  BY <1>2, <1>4, OneMore
<1>6. LifecycleEvents(w.resident, w.seq)' = LifecycleEvents(x, n + 1)'
  BY <1>1 DEF LifecycleEvents
<1> HIDE DEF E
<1> QED
  BY <1>1, <1>2, <1>3, <1>4, <1>5, <1>6 DEF Described

\* The wakes that are registered for everyone describe the last event of the world.
LEMMA RegisteredDescribed ==
  ASSUME RInv, VersionsCountEvents, OccurredInOrder, NEW x \in Residents, NEW loc,
         UNCHANGED ledger,
         NEW w \in BoundaryWake(x, runtime[x].version, worldSeq) \cup
                     PreparationWake(x, loc, runtime[x].version, worldSeq)
  PROVE  Described(w)'
<1> USE DEF RInv, IInv
<1>1. /\ w.resident = x /\ w.version = runtime[x].version /\ w.seq = worldSeq
      /\ w.kind = "BOUNDARY" => w.due > worldTime
  BY WakeStamps
<1>2. worldSeq \in Nat /\ \A i \in 1 .. worldSeq : ledger[i].at \in Nat /\ ledger[i].at <= worldTime
  BY LedgerEntries DEF OccurredInOrder
<1>3. /\ worldTime \in Nat
      /\ w.kind = "BOUNDARY" => w.due \in Nat
  BY NextShiftLater DEF TypeOK, Times, BoundaryWake, PreparationWake, Wake
<1>4. Described(w)
  BY <1>1, <1>2, <1>3 DEF Described, VersionsCountEvents
<1> QED
  BY <1>4 DEF Described, LifecycleEvents, worldSeq

\* Every step keeps what the wakes say true.
LEMMA WakesStep ==
  ASSUME RInv, VersionsCountEvents, OccurredInOrder, WakesInv, [Next]_vars
  PROVE  WakesInv'
<1> USE DEF RInv, IInv
<1>1. KeysUnique'
  BY NextKeys DEF WakesInv
<1>2. ledger' = ledger \/ \E type, r, at, f : Commit(type, r, at, f)
  BY LedgerStep
<1>3. \A w \in wakes : Described(w)'
  BY <1>2, DescribedStays DEF WakesInv, TypeOK
<1>4. ASSUME NEW r \in Requests, NEW f, NEW rv, Start(r, f, rv), NEW w \in wakes'
      PROVE  Described(w)'
  <2>1. r.actor \in Residents /\ r.actor \in Parties(r)
    BY RequestFacts
  <2>2. Commit("STARTED", r, worldTime, f)
    BY <1>4 DEF Start
  <2>3. \/ w \in wakes
        \/ w \in BoundaryWake(r.actor, runtime[r.actor].version + 1, worldSeq + 1)
    BY <1>4 DEF Start, WakesAfterStart, Upsert
  <2> QED
    BY <1>3, <2>1, <2>2, <2>3, CommitDescribed
<1>5. ASSUME NEW r \in requests, NEW f, NEW v, Complete(r, f, v), NEW w \in wakes'
      PROVE  Described(w)'
  <2>1. r \in Requests /\ r.actor \in Residents /\ r.actor \in Parties(r)
    BY RequestFacts DEF TypeOK
  <2>2. Commit("COMPLETED", r, worldTime, f)
    BY <1>5 DEF Complete
  <2>3. \/ w \in wakes
        \/ w \in BoundaryWake(r.actor, runtime[r.actor].version + 1, worldSeq + 1) \cup
                 PreparationWake(r.actor, runtime[r.actor].task.target,
                                 runtime[r.actor].version + 1, worldSeq + 1)
    BY <1>5 DEF Complete, WakesAfterCompletion, Upsert
  <2> QED
    BY <1>3, <2>1, <2>2, <2>3, CommitDescribed
<1>6. ASSUME NEW prepare, RegisterNextWakes(prepare), NEW w \in wakes'
      PROVE  Described(w)'
  <2>1. CASE w \in wakes
    BY <1>3, <2>1
  <2>2. CASE w \notin wakes
    <3>1. PICK x \in Residents :
            w \in BoundaryWake(x, runtime[x].version, worldSeq) \cup
                    PreparationWake(x, runtime[x].loc, runtime[x].version, worldSeq)
      BY <1>6, <2>2 DEF RegisterNextWakes, Upsert
    <3>2. UNCHANGED ledger
      BY <1>6 DEF RegisterNextWakes
    <3> QED
      BY <3>1, <3>2, RegisteredDescribed
  <2> QED
    BY <2>1, <2>2
<1>7. wakes' \subseteq wakes => \A w \in wakes' : Described(w)'
  BY <1>3
<1>8. \/ \E r \in Requests : \E f, rv : Start(r, f, rv)
      \/ \E r \in requests : \E f, v : Complete(r, f, v)
      \/ \E prepare : RegisterNextWakes(prepare)
      \/ wakes' \subseteq wakes
  BY DEF Next, vars, PersistRequest, Refuse, AdvanceWorldTimeTo, UpdateClock, AcquireLease,
         AcknowledgeWake
<1>9. \A w \in wakes' : Described(w)'
  BY <1>4, <1>5, <1>6, <1>7, <1>8
<1> QED
  BY <1>1, <1>9 DEF WakesInv

(***************************************************************************)
(* A wake row is a snapshot of one commit, however often it was refreshed: *)
(* its version is its resident's as of its source position, and a boundary *)
(* wake is due after that commit.                                          *)
(***************************************************************************)
THEOREM WakesAreSnapshots == Spec => []WakesDescribeTheirCommit
<1>1. Init => WakesInv
  BY DEF Init, WakesInv, KeysUnique, UniqueKeys
<1>2. RInv /\ [Next]_vars => RInv'
  BY OpenOutcomesStep
<1>3. RInv /\ VersionsCountEvents /\ OccurredInOrder /\ WakesInv /\ [Next]_vars => WakesInv'
  BY WakesStep
<1>4. WakesInv => WakesDescribeTheirCommit
  BY DEF WakesInv, WakesDescribeTheirCommit, Described, KeysUnique, UniqueKeys
<1> QED
  BY <1>1, <1>2, <1>3, <1>4, InitRInv, VersionsAreCounters, LedgerInOrder, PTL DEF Spec

-----------------------------------------------------------------------------
(* Due times *)

\* A resident in an activity has a time at which it ends.
DuesAreTimes == \A x \in Residents : runtime[x].task # Idle => runtime[x].task.due \in Nat

\* Who is busy after a step was in the same activity before, or will be for a while.
LEMMA BusyKept ==
  ASSUME RInv, [Next]_vars, NEW x \in Residents, runtime'[x].task # Idle
  PROVE  \/ runtime'[x] = runtime[x]
         \/ runtime'[x].task.due \in Nat /\ runtime'[x].task.due > worldTime
<1> USE DEF RInv, IInv
<1>1. ASSUME NEW r \in Requests, NEW f, NEW rv, Start(r, f, rv), x \in Parties(r)
      PROVE  runtime'[x].task.due \in Nat /\ runtime'[x].task.due > worldTime
  <2>1. runtime'[x].task.due = worldTime + Duration(r)
    BY <1>1, StartWrites
  <2>2. Duration(r) \in Nat \ {0} /\ worldTime \in Nat
    BY DurationFacts, TimeAssumption DEF TypeOK, Times
  <2> QED
    BY <2>1, <2>2
<1>2. ASSUME NEW r \in Requests, NEW f, NEW rv, Start(r, f, rv), x \notin Parties(r)
      PROVE  runtime'[x] = runtime[x]
  BY <1>2, StartWrites
<1>3. ASSUME NEW r \in Requests, NEW f, NEW rv, Refuse(r, f, rv)
      PROVE  runtime'[x] = runtime[x]
  BY <1>3, RefuseWrites
<1>4. ASSUME NEW r \in requests, NEW f, NEW v, Complete(r, f, v)
      PROVE  runtime'[x] = runtime[x]
  BY <1>4, CompleteWrites
<1>5. CASE OtherStep
  BY <1>5 DEF OtherStep
<1> QED
  BY <1>1, <1>2, <1>3, <1>4, <1>5, StepKinds

\* Nobody is in an activity without a due time.
LEMMA DuesAreAlwaysTimes == Spec => [](RInv /\ DuesAreTimes)
<1>1. Init => DuesAreTimes
  BY DEF Init, DuesAreTimes
<1>2. RInv /\ DuesAreTimes /\ [Next]_vars => DuesAreTimes'
  <2> SUFFICES ASSUME RInv, DuesAreTimes, [Next]_vars, NEW x \in Residents,
                      runtime'[x].task # Idle
               PROVE  runtime'[x].task.due \in Nat
    BY DEF DuesAreTimes
  <2> QED
    BY BusyKept DEF DuesAreTimes
<1>3. RInv /\ [Next]_vars => RInv'
  BY OpenOutcomesStep
<1> QED
  BY <1>1, <1>2, <1>3, InitRInv, PTL DEF Spec

-----------------------------------------------------------------------------
(* Least elements *)

\* A nonempty set of natural numbers has a least one.
LEMMA LeastOf ==
  ASSUME NEW T \in SUBSET Nat, T # {}
  PROVE  \E t \in T : \A u \in T : t <= u
<1> DEFINE R == OpToRel(<, Nat)
<1>1. PICK t \in T : \A u \in T : ~(<<u, t>> \in R)
  <2>1. IsWellFoundedOn(R, Nat)
    BY NatLessThanWellFounded
  <2> HIDE DEF R
  <2> QED
    BY <2>1, WFMin
<1>2. \A u \in T : ~(u < t)
  BY <1>1 DEF OpToRel
<1> QED
  BY <1>2

\* The values of a function on a finite set are finitely many.
LEMMA ImageFinite ==
  ASSUME NEW S, IsFiniteSet(S), NEW f
  PROVE  IsFiniteSet({f[x] : x \in S})
<1> DEFINE g == [x \in S |-> f[x]]
           T == {f[x] : x \in S}
<1>1. g \in Surjection(S, T)
  BY DEF Surjection
<1> HIDE DEF g, T
<1>2. IsFiniteSet(T)
  BY <1>1, FS_Surjection
<1> QED
  BY <1>2 DEF T

\* A nonempty finite set of integers has a least one: the one with fewest below.
LEMMA LeastOfFinite ==
  ASSUME NEW S \in SUBSET Int, S # {}, IsFiniteSet(S)
  PROVE  \E m \in S : \A y \in S : m <= y
<1> DEFINE Below(x) == {y \in S : y < x}
           Sizes == {Cardinality(Below(x)) : x \in S}
<1>1. ASSUME NEW x \in S
      PROVE  IsFiniteSet(Below(x)) /\ Cardinality(Below(x)) \in Nat
  <2>1. IsFiniteSet(Below(x))
    BY FS_Subset
  <2> HIDE DEF Below
  <2> QED
    BY <2>1, FS_CardinalityType
<1>2. PICK least \in Sizes : \A n \in Sizes : least <= n
  <2>1. Sizes \in SUBSET Nat /\ Sizes # {}
    BY <1>1
  <2> HIDE DEF Sizes
  <2> QED
    BY <2>1, LeastOf
<1>3. PICK m \in S : least = Cardinality(Below(m))
  BY <1>2
<1>4. ASSUME NEW y \in S, y < m
      PROVE  FALSE
  <2>1. Below(y) \in SUBSET Below(m)
    <3>1. ASSUME NEW z \in S, z < y
          PROVE  z < m
      <4>1. z \in Int /\ y \in Int /\ m \in Int
        OBVIOUS
      <4> QED
        BY <1>4, <3>1, <4>1
    <3> QED
      BY <3>1
  <2>2. y \in Below(m) /\ y \notin Below(y)
    BY <1>4
  <2>3. Cardinality(Below(y)) < Cardinality(Below(m))
    <3> HIDE DEF Below
    <3>1. Below(y) # Below(m)
      BY <2>2
    <3>2. /\ Cardinality(Below(y)) <= Cardinality(Below(m))
          /\ Cardinality(Below(m)) = Cardinality(Below(y)) => Below(m) = Below(y)
      BY <1>1, <2>1, FS_Subset
    <3> QED
      BY <1>1, <3>1, <3>2
  <2>4. Cardinality(Below(m)) <= Cardinality(Below(y))
    BY <1>2, <1>3
  <2> HIDE DEF Below
  <2> QED
    BY <1>1, <2>3, <2>4
<1> QED
  BY <1>4

=============================================================================
