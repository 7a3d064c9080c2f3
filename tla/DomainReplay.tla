------------------------------ MODULE DomainReplay ------------------------------
(***************************************************************************)
(* Event sourcing around WorldKernel: what the kernel writes into an       *)
(* event's payload, the reducer of m3-domain-replay.ts that rebuilds the   *)
(* residents from events alone, the reducer of world-replay.ts that        *)
(* rebuilds the world summary, and simulation_checkpoints, the one table   *)
(* both keep snapshots in.  A replayer reads committed events while the    *)
(* world goes on, may be cut off after any event and may start over from   *)
(* the seed or from a checkpoint.                                          *)
(*                                                                         *)
(* A snapshot's checksum is its snapshot, a history digest is the number   *)
(* of events it covers: SHA-256 is taken to be injective and events are    *)
(* append-only.                                                            *)
(***************************************************************************)
EXTENDS WorldKernel

CONSTANT MaxCheckpoints   \* bound on checkpoint rows at a time

ASSUME CheckpointAssumption == MaxCheckpoints \in Nat

VARIABLES
  payloads,     \* world_events.payload, in seq order
  replica,      \* the projection a replayer has in memory
  failed,       \* the replayer threw M3DomainReplayError
  checkpoints,  \* simulation_checkpoints rows
  past          \* history: the live projection after every event

rvars == <<payloads, replica, failed, checkpoints, past>>
replayVars == <<vars, rvars>>

\* canonicalResidentProjectionFromRows on the rows of this moment
Live == [time |-> worldTime, seq |-> worldSeq, runtime |-> runtime, food |-> food]

\* the projection replayM3ResidentProjection starts from
Genesis ==
  [time |-> 0, seq |-> 0,
   runtime |-> [x \in Residents |->
     [loc |-> Home[x], task |-> Idle, lastAte |-> None, lastSocial |-> None,
      shifts |-> {}, version |-> 0, seq |-> 0]],
   food |-> [x \in Residents |-> [units |-> InitialFood[x], version |-> 0]]]

ReplayInit ==
  /\ Init
  /\ payloads = <<>>
  /\ replica = Genesis /\ failed = FALSE
  /\ checkpoints = {}
  /\ past = <<Genesis>>

-----------------------------------------------------------------------------
(* Payloads *)

\* mutant of StartPayload: the stock is read again after the debit
StartPayload_Reread(r) ==
  [source |-> runtime[r.actor].loc,
   destination |-> IF r.type = "MOVE" THEN r.arg ELSE None,
   started |-> worldTime, due |-> worldTime + Duration(r),
   before |-> FoodAfterStart(r)[r.actor], after |-> FoodAfterStart(r)[r.actor]]

(***************************************************************************)
(* What the executor writes beside the request's own fields (actor, item,  *)
(* quantity, workplace, participant: the event's `req`) and occurred_at.   *)
(* before and after are the resourceEffect, which only EAT carries.        *)
(***************************************************************************)
StartPayload(r) ==
  [source |-> runtime[r.actor].loc,
   destination |-> IF r.type = "MOVE" THEN r.arg ELSE None,
   started |-> worldTime, due |-> worldTime + Duration(r),
   before |-> food[r.actor], after |-> FoodAfterStart(r)[r.actor]]

\* legacyCompletionEvent and lifecycleCompletionEvent, from the row before it is idle
CompletionPayload(r) ==
  LET row == runtime[r.actor] IN
  [source |-> row.loc, destination |-> row.task.target,
   started |-> row.task.started, due |-> row.task.due]

Payload(e) ==
  IF e.type = "WORLD_TIME_ADVANCED" THEN [from |-> worldTime]
  ELSE IF e.type = "STARTED" THEN StartPayload(e.req)
  ELSE CompletionPayload(e.req)

\* a kernel transaction: its event, if it has one, carries the payload
KernelStep ==
  /\ Next
  /\ IF ledger' = ledger THEN UNCHANGED <<payloads, past>>
     ELSE /\ payloads' = Append(payloads, Payload(ledger'[worldSeq + 1]))
          /\ past' = Append(past, Live')
  /\ UNCHANGED <<replica, failed, checkpoints>>

-----------------------------------------------------------------------------
(* The reducer of resident projections; `pr` is the projection so far *)

\* assertLifecyclePayload: MOVE and SLEEP may take any time
TimedAsPlanned(r, p) ==
  /\ r.type = "EAT"  => p.due = p.started + EatTime
  /\ r.type = "WORK" => p.due = p.started + ShiftTime
  /\ r.type = "TALK" => p.due = p.started + TalkTime

\* a WORK event names a shift and the resident is at its workplace
ShiftValid(pr, r, p) ==
  r.type = "WORK" => r.arg = pr.runtime[r.actor].loc /\ p.started \in ShiftStarts

\* a TALK event names another resident at the same location
PairValid(pr, r) ==
  r.type = "TALK" => /\ r.arg # r.actor
                     /\ pr.runtime[r.arg].loc = pr.runtime[r.actor].loc

\* an EAT event is about the resident's own food item
OwnFood(r) == r.type = "EAT" => r.arg = r.actor

\* the resourceEffect continues the replayed stock and loses nothing
Conserves(pr, r, p) ==
  r.type = "EAT" =>
    /\ p.before = pr.food[r.actor]
    /\ p.before.units >= r.quantity
    /\ p.after.units = p.before.units - r.quantity
    /\ p.after.version = p.before.version + 1

AcceptsStart(pr, e, p) ==
  LET r == e.req  row == pr.runtime[r.actor] IN
  /\ p.source = row.loc /\ p.started = e.at
  /\ \A x \in Parties(r) : pr.runtime[x].task.act = "IDLE"
  /\ TimedAsPlanned(r, p) /\ PairValid(pr, r) /\ ShiftValid(pr, r, p)
  /\ OwnFood(r) /\ Conserves(pr, r, p)
  /\ r.type = "WORK" => p.started \notin row.shifts

\* x's replayed activity is x's half of the one the event completes
Releases(pr, r, p, x) ==
  LET task == pr.runtime[x].task IN
  /\ task.act = ActivityOf(r.type) /\ task.inst = r
  /\ r.type \in {"EAT", "WORK", "TALK"} => task.started = p.started /\ task.due = p.due
  /\ r.type = "TALK" => task.with = Partner(r, x)

AcceptsCompletion(pr, e, p) ==
  LET r == e.req IN
  /\ \A x \in Parties(r) : Releases(pr, r, p, x)
  /\ r.type \in {"EAT", "WORK", "TALK"} =>
       p.source = pr.runtime[r.actor].loc /\ e.at >= p.due
  /\ TimedAsPlanned(r, p) /\ PairValid(pr, r) /\ ShiftValid(pr, r, p) /\ OwnFood(r)

\* the event at pr.seq + 1 does not make the reducer throw
Accepts(pr, e, p) ==
  /\ e.type = "WORLD_TIME_ADVANCED" => p.from = pr.time /\ e.at >= pr.time
  /\ e.type # "WORLD_TIME_ADVANCED" => e.at = pr.time
  /\ e.type = "STARTED" => AcceptsStart(pr, e, p)
  /\ e.type = "COMPLETED" => AcceptsCompletion(pr, e, p)

ReplayedTask(r, p, x) ==
  [act |-> ActivityOf(r.type), inst |-> r,
   target |-> IF r.type = "MOVE" THEN p.destination ELSE None,
   with |-> Partner(r, x), started |-> p.started, due |-> p.due]

\* mutant of Replayed: the participant of a TALK keeps its version
Replayed_ActorVersion(pr, r, x, row, task) ==
  [row EXCEPT !.task = task, !.seq = pr.seq + 1,
              !.version = IF x = r.actor THEN @ + 1 ELSE @]

\* stateVersion + 1, sourceWorldSeq: event.seq
Replayed(pr, r, x, row, task) ==
  [row EXCEPT !.task = task, !.version = @ + 1, !.seq = pr.seq + 1]

\* mutant of ReplayedEffect: the v1 projection, which knew no shifts
ReplayedEffect_NoShifts(e, p, row) ==
  [row EXCEPT
     !.loc = IF e.req.type = "MOVE" THEN p.destination ELSE @,
     !.lastAte = IF e.req.type = "EAT" THEN e.at ELSE @,
     !.lastSocial = IF e.req.type = "TALK" THEN e.at ELSE @]

\* the lasting part of a completion, as the payload and the request tell it
ReplayedEffect(e, p, row) ==
  [row EXCEPT
     !.loc = IF e.req.type = "MOVE" THEN p.destination ELSE @,
     !.lastAte = IF e.req.type = "EAT" THEN e.at ELSE @,
     !.lastSocial = IF e.req.type = "TALK" THEN e.at ELSE @,
     !.shifts = IF e.req.type = "WORK" THEN @ \cup {p.started} ELSE @]

ReplayedRow(pr, e, p, x) ==
  LET r == e.req  row == pr.runtime[x] IN
  IF x \notin Parties(r) THEN row
  ELSE IF e.type = "STARTED" THEN Replayed(pr, r, x, row, ReplayedTask(r, p, x))
  ELSE Replayed(pr, r, x, ReplayedEffect(e, p, row), Idle)

Reduced(pr, e, p) ==
  IF e.type = "WORLD_TIME_ADVANCED"
  THEN [pr EXCEPT !.time = e.at, !.seq = pr.seq + 1]
  ELSE [time |-> pr.time, seq |-> pr.seq + 1,
        runtime |-> [x \in Residents |-> ReplayedRow(pr, e, p, x)],
        food |-> IF e.type = "STARTED" /\ e.req.type = "EAT"
                 THEN [pr.food EXCEPT ![e.req.actor] = p.after] ELSE pr.food]

(***************************************************************************)
(* assertProjectionShape, run on every snapshot a replay starts from, on   *)
(* every result and on the live rows.                                      *)
(***************************************************************************)
RowWellFormed(pr, x) ==
  LET row == pr.runtime[x]  task == row.task IN
  /\ row.seq <= pr.seq /\ pr.food[x].units >= 0
  /\ IF task.act = "IDLE" THEN task = Idle
     ELSE /\ None \notin {task.inst, task.started, task.due} /\ task.due >= task.started
          /\ task.target # None <=> task.act = "TRAVELING"
          /\ task.with # None <=> task.act = "TALKING"
  /\ task.act = "TALKING" =>
       LET other == pr.runtime[task.with].task IN
       /\ other.act = "TALKING" /\ other.with = x /\ other.inst = task.inst
       /\ other.started = task.started /\ other.due = task.due

WellFormed(pr) == \A x \in Residents : RowWellFormed(pr, x)

(***************************************************************************)
(* One turn of the replay loop over an array that may end here: the result *)
(* is canonicalised at the end, so an ill-formed one throws like a refused *)
(* event does.                                                             *)
(***************************************************************************)
ReplayEvent ==
  LET n == replica.seq + 1 IN
  /\ ~failed /\ n <= worldSeq
  /\ IF /\ Accepts(replica, ledger[n], payloads[n])
        /\ WellFormed(Reduced(replica, ledger[n], payloads[n]))
     THEN replica' = Reduced(replica, ledger[n], payloads[n]) /\ UNCHANGED failed
     ELSE failed' = TRUE /\ UNCHANGED replica
  /\ UNCHANGED <<vars, payloads, checkpoints, past>>

\* replayM3ResidentProjection: from the seed
ReplayFromSeed ==
  /\ replica' = Genesis /\ failed' = FALSE
  /\ UNCHANGED <<vars, payloads, checkpoints, past>>

\* replayM3ResidentProjectionFromCheckpoint
ReplayFromCheckpoint(c) ==
  /\ c.kind = "residents"
  /\ IF c.snapshot.seq = c.seq /\ WellFormed(c.snapshot)
     THEN replica' = c.snapshot /\ failed' = FALSE
     ELSE failed' = TRUE /\ UNCHANGED replica
  /\ UNCHANGED <<vars, payloads, checkpoints, past>>

-----------------------------------------------------------------------------
(* The reducer of world-replay.ts *)

HandledByWorldReplay(e) ==
  e.type # "WORLD_TIME_ADVANCED" => e.req.type \in {"MOVE", "SLEEP"}

\* world time after the first n events, by the `to` of the last advance
SummaryTime(n) ==
  LET advances == {i \in 1 .. n : ledger[i].type = "WORLD_TIME_ADVANCED"} IN
  IF advances = {} THEN 0 ELSE ledger[Max(advances)].at

\* applyEvent takes event i after the i - 1 before it
AppliesToSummary(i) ==
  LET e == ledger[i]  p == payloads[i] IN
  /\ HandledByWorldReplay(e)
  /\ e.type = "WORLD_TIME_ADVANCED" => p.from = SummaryTime(i - 1) /\ e.at >= p.from
  /\ e.type # "WORLD_TIME_ADVANCED" => p.due >= p.started
  /\ e.type = "STARTED" => e.at = p.started

\* replayWorldEvents of the first n events does not throw
SummaryReplays(n) == \A i \in 1 .. n : AppliesToSummary(i)

Summary(n) == [time |-> SummaryTime(n), seq |-> n]

-----------------------------------------------------------------------------
(* simulation_checkpoints, unique in (world, seq) *)

Row(kind, seq, snapshot) == [kind |-> kind, seq |-> seq, snapshot |-> snapshot]

\* mutant of Vacant: uniqueness per kind of snapshot
Vacant_PerKind(kind, n) ==
  /\ Cardinality(checkpoints) < MaxCheckpoints
  /\ \A c \in checkpoints : c.seq # n \/ c.kind # kind

Vacant(kind, n) ==
  /\ Cardinality(checkpoints) < MaxCheckpoints
  /\ \A c \in checkpoints : c.seq # n

\* persistWorldCheckpoint of a summary replay, when it is "created"
PersistWorldCheckpoint(n) ==
  /\ SummaryReplays(n)
  /\ Vacant("summary", n)
  /\ checkpoints' = checkpoints \cup {Row("summary", n, Summary(n))}
  /\ UNCHANGED <<vars, payloads, replica, failed, past>>

\* the gates' INSERT of a resident projection they have just replayed
SaveProjection ==
  /\ ~failed /\ replica.seq > 0
  /\ Vacant("residents", replica.seq)
  /\ checkpoints' = checkpoints \cup {Row("residents", replica.seq, replica)}
  /\ UNCHANGED <<vars, payloads, replica, failed, past>>

DeleteCheckpoint(c) ==
  /\ checkpoints' = checkpoints \ {c}
  /\ UNCHANGED <<vars, payloads, replica, failed, past>>

-----------------------------------------------------------------------------
ReplayNext ==
  \/ KernelStep
  \/ ReplayEvent
  \/ ReplayFromSeed
  \/ \E c \in checkpoints : ReplayFromCheckpoint(c)
  \/ \E n \in 0 .. worldSeq : PersistWorldCheckpoint(n)
  \/ SaveProjection
  \/ \E c \in checkpoints : DeleteCheckpoint(c)

ReplaySpec == ReplayInit /\ [][ReplayNext]_replayVars

-----------------------------------------------------------------------------
(***************************************************************************)
(* 12_REPLAY_EXTENSION_SPEC: live projection = full replay = checkpoint    *)
(* suffix replay = genesis rebuild.  However far the replayer has got and  *)
(* wherever it started, it never throws, and once it has read the whole    *)
(* ledger it holds exactly the live rows.                                  *)
(***************************************************************************)
ReplayEquivalence ==
  /\ ~failed
  /\ replica.seq = worldSeq => replica = Live

(***************************************************************************)
(* The inductive form: the live rows are what the last event left behind,  *)
(* and a replay cut off anywhere is the live projection of that moment.    *)
(***************************************************************************)
ReplayYieldsThePast ==
  /\ Len(past) = worldSeq + 1 /\ past[worldSeq + 1] = Live
  /\ replica.seq \in 0 .. worldSeq /\ replica = past[replica.seq + 1]

(***************************************************************************)
(* One row per position whichever reducer's snapshot is in it, never ahead *)
(* of the world, and each tells the world as it was at that position, even *)
(* if it was taken by a replayer that itself started from another one.     *)
(***************************************************************************)
CheckpointsTellThePast ==
  \A c \in checkpoints :
    /\ c.seq \in 0 .. worldSeq
    /\ c.kind = "residents" => c.snapshot = past[c.seq + 1]
    /\ c.kind = "summary" => c.snapshot.time = past[c.seq + 1].time
    /\ \A d \in checkpoints : d.seq = c.seq => d = c

(***************************************************************************)
(* As long as the history holds only events world-replay.ts has a handler  *)
(* for, its replay of any prefix succeeds and arrives at the world time of *)
(* that prefix, although clock, starts and completions interleave.         *)
(***************************************************************************)
HandledHistoryReplays ==
  \A n \in 0 .. worldSeq :
    (\A i \in 1 .. n : HandledByWorldReplay(ledger[i]))
      => SummaryReplays(n) /\ SummaryTime(n) = past[n + 1].time

(***************************************************************************)
(* ADR-0006: with every checkpoint deleted the world can still be rebuilt  *)
(* from its seed and event history, and a new domain event gets its replay *)
(* handler first.                                                          *)
(***************************************************************************)
HistoryRebuildsWorld == SummaryReplays(worldSeq)

=============================================================================
