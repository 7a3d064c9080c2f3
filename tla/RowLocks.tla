------------------------------- MODULE RowLocks -------------------------------
(***************************************************************************)
(* The row locks behind WorldKernel's atomic actions.  createDb hands every*)
(* call a pooled connection, so the transactions of one world run at the   *)
(* same time, statement by statement, and wait for each other's row locks. *)
(* Locks are held until the transaction commits or rolls back; PostgreSQL  *)
(* aborts a transaction of a wait cycle and nothing in the code retries it.*)
(*                                                                         *)
(* Only the statements that may wait are modelled: INSERTs that run into   *)
(* another transaction's unique key, SELECT .. FOR UPDATE, DELETE, and the *)
(* FOR KEY SHARE lock on the `worlds` row with which the foreign key of an *)
(* inserted action_requests or simulation_driver_leases row is checked.    *)
(* Rows a transaction inserts or updates under a lock it already holds     *)
(* (events, outcomes, the wakes of a start) make nobody wait.              *)
(***************************************************************************)
EXTENDS Naturals, Sequences, FiniteSets

CONSTANTS
  Txs,        \* transactions running concurrently
  Calls,      \* what they may execute: records with the fields below
  Residents,
  Rank        \* [Residents -> Nat], the byte order of their UUIDs

(***************************************************************************)
(* call = [op, key, parties, item, wakes, fenced]: the idempotency key of  *)
(* the request, the residents whose rows it locks, whether it reads a      *)
(* resource row, the residents whose wake row it touches, and whether it   *)
(* carries a fence token.                                                  *)
(***************************************************************************)
Operations == {"EXECUTE", "PERSIST", "COMPLETE", "ADVANCE", "CLOCK",
               "REGISTER_WAKES", "ACKNOWLEDGE", "ACQUIRE"}

ASSUME CallAssumption ==
  \A c \in Calls : /\ c.op \in Operations /\ {c.item, c.fenced} \subseteq BOOLEAN
                   /\ c.parties \cup c.wakes \subseteq Residents

ASSUME RowAssumption ==
  /\ IsFiniteSet(Txs) /\ IsFiniteSet(Residents) /\ Rank \in [Residents -> Nat]
  /\ \A x, y \in Residents : Rank[x] = Rank[y] => x = y

World == <<"worlds", 0>>
Lease == <<"simulation_driver_leases", 0>>
Request(key)  == <<"action_requests", key>>
Outcome(key)  == <<"kernel_action_outcomes", key>>
Runtime(x)    == <<"resident_runtime_states", x>>
Resource(x)   == <<"resident_resource_states", x>>
WakeRow(x)    == <<"scheduled_wake_registrations", x>>

VARIABLES
  call,      \* [Txs -> Calls]
  todo,      \* [Txs -> statements still to execute]
  held,      \* [Txs -> locks held, <<row, mode>>]
  made,      \* [Txs -> rows the transaction inserted and has not committed]
  ended,     \* [Txs -> "open", "committed" or "aborted"]
  present,   \* committed action_requests and lease rows
  decided    \* keys of requests with a committed outcome

vars == <<call, todo, held, made, ended, present, decided>>

-----------------------------------------------------------------------------
(* The statements of every operation, in the order of the code *)

ForUpdate(row) == [how |-> "lock", row |-> row, mode |-> "UPDATE"]
KeyShare(row)  == [how |-> "lock", row |-> row, mode |-> "KEY SHARE"]
Insert(row)    == [how |-> "insert", row |-> row, mode |-> "UPDATE"]

Sorted(residents) ==
  CHOOSE s \in [1 .. Cardinality(residents) -> residents] :
    \A i, j \in DOMAIN s : i < j => Rank[s[i]] < Rank[s[j]]

\* lockResidentRuntimePair: runtime rows in UUID byte order
RuntimeLocks(c) ==
  LET order == Sorted(c.parties) IN
  [i \in DOMAIN order |-> ForUpdate(Runtime(order[i]))]

WakeLocks(c) ==
  LET order == Sorted(c.wakes) IN
  [i \in DOMAIN order |-> ForUpdate(WakeRow(order[i]))]

Fence(c) == IF c.fenced THEN <<ForUpdate(Lease)>> ELSE <<>>

ResourceLocks(c) ==
  IF c.item THEN <<ForUpdate(Resource(CHOOSE x \in c.parties : TRUE))>> ELSE <<>>

\* validateResidentActionInTransaction, then afterEvents
ExecuteLocks(c) ==
  Fence(c) \o <<ForUpdate(World)>> \o RuntimeLocks(c) \o ResourceLocks(c) \o WakeLocks(c)

\* mutant of CompleteLocks: the world row is only locked by the commit
CompleteLocks_WorldLate(c) ==
  Fence(c) \o RuntimeLocks(c) \o <<ForUpdate(World), ForUpdate(Outcome(c.key))>> \o WakeLocks(c)

\* completeResidentAction
CompleteLocks(c) ==
  Fence(c) \o <<ForUpdate(World)>> \o RuntimeLocks(c) \o
    <<ForUpdate(Outcome(c.key))>> \o WakeLocks(c)

\* mutant of AdvanceLocks: the lease is asserted after the world was read
AdvanceLocks_WorldFirst(c) == <<ForUpdate(World)>> \o Fence(c)

\* advanceWorldTimeTo
AdvanceLocks(c) == Fence(c) \o <<ForUpdate(World)>>

\* registerNextWorkPreparationWakes: wake, runtime row and wake of every employee in turn
RegisterLocks(c) ==
  LET order == Sorted(c.wakes)
      row(i) == IF i % 2 = 1 THEN WakeRow(order[(i + 1) \div 2]) ELSE Runtime(order[i \div 2])
  IN <<ForUpdate(World)>> \o [i \in 1 .. 2 * Len(order) |-> ForUpdate(row(i))]

Program(c) ==
  CASE c.op = "EXECUTE"        -> <<Insert(Request(c.key))>> \o ExecuteLocks(c)
    [] c.op = "PERSIST"        -> <<Insert(Request(c.key))>>
    [] c.op = "COMPLETE"       -> CompleteLocks(c)
    [] c.op = "ADVANCE"        -> AdvanceLocks(c)
    [] c.op = "CLOCK"          -> <<ForUpdate(World)>>
    [] c.op = "REGISTER_WAKES" -> RegisterLocks(c)
    [] c.op = "ACKNOWLEDGE"    -> WakeLocks(c)
    [] c.op = "ACQUIRE"        -> <<Insert(Lease)>>

-----------------------------------------------------------------------------
(* PostgreSQL's side *)

\* FOR UPDATE excludes everybody else, FOR KEY SHARE only FOR UPDATE
Conflicts(m, n) == "UPDATE" \in {m, n}

\* the next statement of t must wait for u to end
WaitsFor(t, u) ==
  /\ t # u /\ todo[t] # <<>>
  /\ \E l \in held[u] : l[1] = Head(todo[t]).row /\ Conflicts(l[2], Head(todo[t]).mode)

Runnable(t, how) ==
  /\ ended[t] = "open" /\ todo[t] # <<>> /\ Head(todo[t]).how = how
  /\ \A u \in Txs : ~WaitsFor(t, u)

Deadlocked(ts) == ts # {} /\ \A t \in ts : \E u \in ts : WaitsFor(t, u)

Take(t) == held' = [held EXCEPT ![t] = @ \cup {<<Head(todo[t]).row, Head(todo[t]).mode>>}]

End(t, how) ==
  /\ ended' = [ended EXCEPT ![t] = how]
  /\ todo' = [todo EXCEPT ![t] = <<>>]
  /\ held' = [held EXCEPT ![t] = {}]
  /\ made' = [made EXCEPT ![t] = {}]

-----------------------------------------------------------------------------
(* Steps of a transaction *)

LockRow(t) ==
  /\ Runnable(t, "lock")
  /\ Take(t)
  /\ todo' = [todo EXCEPT ![t] = Tail(@)]
  /\ UNCHANGED <<call, made, ended, present, decided>>

\* INSERT of a new row, whose foreign key locks the world
InsertRow(t) ==
  LET row == Head(todo[t]).row IN
  /\ Runnable(t, "insert")
  /\ row \notin present
  /\ Take(t)
  /\ made' = [made EXCEPT ![t] = @ \cup {row}]
  /\ todo' = [todo EXCEPT ![t] = <<KeyShare(World)>> \o Tail(@)]
  /\ UNCHANGED <<call, ended, present, decided>>

\* mutant of Answered: the outcome is not looked up
Answered_Never(t, row) == FALSE

\* executeKernelActionRequest finds the outcome of the existing request
Answered(t, row) == row # Lease /\ call[t].key \in decided

(***************************************************************************)
(* The row exists: ON CONFLICT, then the existing row is locked.  Nothing  *)
(* is inserted, so no foreign key is checked.  A request whose outcome is  *)
(* found is answered from it.                                              *)
(***************************************************************************)
FindRow(t) ==
  LET row == Head(todo[t]).row IN
  /\ Runnable(t, "insert")
  /\ row \in present
  /\ Take(t)
  /\ todo' = [todo EXCEPT ![t] = IF Answered(t, row) THEN <<>> ELSE Tail(@)]
  /\ UNCHANGED <<call, made, ended, present, decided>>

CommitTx(t) ==
  /\ ended[t] = "open" /\ todo[t] = <<>>
  /\ present' = present \cup made[t]
  /\ decided' = IF call[t].op = "EXECUTE" THEN decided \cup {call[t].key} ELSE decided
  /\ End(t, "committed")
  /\ UNCHANGED call

(***************************************************************************)
(* An exception after a lock was taken (STALE_FENCE, INVALID_COMPLETION,   *)
(* WORLD_TIME_REWIND, ..) or a lost connection rolls back.                 *)
(***************************************************************************)
Throw(t) ==
  /\ ended[t] = "open" /\ held[t] # {}
  /\ \A u \in Txs : ~WaitsFor(t, u)
  /\ End(t, "aborted")
  /\ UNCHANGED <<call, present, decided>>

\* the deadlock detector picks a victim
AbortVictim(t) ==
  /\ \E ts \in SUBSET Txs : t \in ts /\ Deadlocked(ts)
  /\ End(t, "aborted")
  /\ UNCHANGED <<call, present, decided>>

AllEnded == (\A t \in Txs : ended[t] # "open") /\ UNCHANGED vars

Init ==
  /\ call \in [Txs -> Calls]
  /\ todo = [t \in Txs |-> Program(call[t])]
  /\ held = [t \in Txs |-> {}] /\ made = [t \in Txs |-> {}]
  /\ ended = [t \in Txs |-> "open"]
  /\ present \in {{}, {Lease}} /\ ((\E t \in Txs : call[t].fenced) => Lease \in present)
  /\ decided = {}

Next ==
  \/ \E t \in Txs : LockRow(t) \/ InsertRow(t) \/ FindRow(t) \/ CommitTx(t)
                    \/ Throw(t) \/ AbortVictim(t)
  \/ AllEnded

Spec == Init /\ [][Next]_vars

-----------------------------------------------------------------------------
(***************************************************************************)
(* What makes the kernel's operations atomic: the rows they decide on are  *)
(* only ever reached through the world row, so at no time do two           *)
(* transactions hold, or wait for, runtime, resource or outcome rows.      *)
(***************************************************************************)
BelowWorld(row) ==
  row[1] \in {"resident_runtime_states", "resident_resource_states", "kernel_action_outcomes"}

Touches(t) ==
  \/ \E l \in held[t] : BelowWorld(l[1])
  \/ todo[t] # <<>> /\ BelowWorld(Head(todo[t]).row)

OperationsAreAtomic ==
  \A t, u \in Txs : Touches(t) /\ Touches(u) => t = u

(***************************************************************************)
(* Every deadlock contains a transaction that inserted a request (or the   *)
(* first lease) and does not own the world row: the lock orders lease,     *)
(* world, runtime rows, outcome, wakes are consistent with each other, and *)
(* only the foreign key of a fresh INSERT breaks them.                     *)
(***************************************************************************)
DeadlockNeedsForeignKey ==
  \A ts \in SUBSET Txs : Deadlocked(ts) =>
    \E t \in ts : made[t] # {} /\ <<World, "UPDATE">> \notin held[t]

(***************************************************************************)
(* A key is decided once: of the concurrent executions of one request,     *)
(* whether it was persisted before or is inserted by one of them, at most  *)
(* one commits after having locked the world; the others find its outcome. *)
(***************************************************************************)
KeyDecidedOnce ==
  [][\A t \in Txs :
       /\ ended[t] = "open" /\ ended'[t] = "committed"
       /\ call[t].op = "EXECUTE" /\ <<World, "UPDATE">> \in held[t]
       => call[t].key \notin decided]_vars

(***************************************************************************)
(* ADR-0012: "An A->B and B->A submission both use the same world-first,   *)
(* UUID-byte lock ordering.  They cannot deadlock due to opposite caller   *)
(* order."                                                                 *)
(***************************************************************************)
NoDeadlock == \A ts \in SUBSET Txs : ~Deadlocked(ts)

=============================================================================
