----------------------------- MODULE ReplanPolicy -----------------------------
(***************************************************************************)
(* packages/life-engine/src/replan-policy.ts: what the action loop does    *)
(* after one attempt.  The answer is a record; `stop` and `until` mean     *)
(* something only for the directives STOP and DEFER_UNTIL_WORLD_TIME.      *)
(***************************************************************************)
EXTENDS Integers, FiniteSetsExt

\* REPLAN_POLICY_V1, in world minutes where it is a time
MaxSubmissionAttempts  == 2
MaxConflictRecoveries  == 2
MaxReplans             == 2
InitialDelay           == 2
MaximumDelay           == 60

\* INITIAL_DECISION_ATTEMPT_BUDGET
InitialBudget == [submissions |-> 0, conflicts |-> 0, replans |-> 0]

Budgets == [submissions : 0 .. MaxSubmissionAttempts,
            conflicts : 0 .. MaxConflictRecoveries, replans : 0 .. MaxReplans]

Never == -1

(***************************************************************************)
(* Signals: OUTCOME with the kernel's status and reason, IDEMPOTENCY,      *)
(* NOT_DUE with the time to come back, TIMED_OUT with the status a look at *)
(* the durable outcome found, ERROR and UNKNOWN.                           *)
(***************************************************************************)
OutcomeSignal(status, reason) == [kind |-> "OUTCOME", status |-> status, reason |-> reason]
NotDueSignal(due)             == [kind |-> "NOT_DUE", due |-> due]

Signals ==
  [kind : {"OUTCOME"}, status : {"COMMITTED", "CONFLICT", "REJECTED"}, reason : STRING]
    \cup [kind : {"TIMED_OUT"}, reason : STRING,
          status : {"COMMITTED", "CONFLICT", "REJECTED", "NOT_FOUND", "UNAVAILABLE"}]
    \cup [kind : {"NOT_DUE"}, due : Nat]
    \cup [kind : {"IDEMPOTENCY", "ERROR", "UNKNOWN"}]

ClassOfRejection(reason) ==
  CASE reason \in {"KERNEL_ACTOR_NOT_FOUND", "KERNEL_INVALID_ACTION",
                   "KERNEL_INVALID_LOCATION"}       -> "PERMANENT_INVALID"
    [] reason = "KERNEL_PERMISSION_DENIED"          -> "AUTHORIZATION"
    [] reason \in {"KERNEL_INSUFFICIENT_FUNDS",
                   "KERNEL_INSUFFICIENT_RESOURCE"}  -> "RESOURCE_UNAVAILABLE"
    [] reason = "WORLD_NOT_RUNNING"                 -> "WORLD_NOT_RUNNING"
    [] OTHER                                        -> "UNKNOWN_FAILURE"

\* classifyKernelOutcome
ClassOfOutcome(status, reason) ==
  CASE status = "COMMITTED" -> "SUCCESS"
    [] status = "CONFLICT"  -> "STALE_STATE"
    [] status = "REJECTED"  -> ClassOfRejection(reason)

\* classifyFailure of a signal that is not a timeout
ClassOf(signal) ==
  CASE signal.kind = "OUTCOME"     -> ClassOfOutcome(signal.status, signal.reason)
    [] signal.kind = "IDEMPOTENCY" -> "IDEMPOTENCY_ERROR"
    [] signal.kind = "NOT_DUE"     -> "TEMPORARY_NOT_DUE"
    [] signal.kind = "ERROR"       -> "INTERNAL_ERROR"
    [] signal.kind = "UNKNOWN"     -> "UNKNOWN_FAILURE"

Answer(directive, budget, stop, until) ==
  [directive |-> directive, budget |-> budget, stop |-> stop, until |-> until]

Stop(budget, reason)      == Answer("STOP", budget, reason, Never)
Continue(directive, budget) == Answer(directive, budget, "", Never)
DeferUntil(budget, until) == Answer("DEFER_UNTIL_WORLD_TIME", budget, "", until)

\* getReconsiderationDelayWorldMinutes
ReconsiderationDelay(replans) == Min({MaximumDelay, InitialDelay * 2 ^ replans})

\* the reason a class stops with when nothing else can be done about it
TerminalReason(class) ==
  CASE class = "PERMANENT_INVALID" -> "NO_FEASIBLE_ALTERNATIVE"
    [] class = "AUTHORIZATION"     -> "FAILURE_TERMINAL"
    [] class \in {"WORLD_NOT_RUNNING", "IDEMPOTENCY_ERROR", "INTERNAL_ERROR"} -> class
    [] OTHER                       -> "UNKNOWN_FAILURE"

\* decideTimeout; a response that was lost is looked up before anything is retried
DecideTimeout(status, budget) ==
  IF status = "UNAVAILABLE" THEN Stop(budget, "RECONCILIATION_REQUIRED")
  ELSE IF budget.submissions < MaxSubmissionAttempts
  THEN Continue("RETRY_SAME_REQUEST", [budget EXCEPT !.submissions = @ + 1])
  ELSE Stop(budget, "BUDGET_EXHAUSTED")

\* mutant of DecideClass: coming back later is for missing resources only
DecideClass_NotDueStops(class, signal, alternative, budget, now) ==
  IF class = "SUCCESS" THEN Continue("SUCCESS", budget)
  ELSE IF class = "RESOURCE_UNAVAILABLE"
  THEN DeferUntil(budget, now + ReconsiderationDelay(budget.replans))
  ELSE Stop(budget, TerminalReason(class))

(***************************************************************************)
(* decideReplan of a classified signal: a budget is only spent by the      *)
(* directive it pays for, and a deferral spends none.                      *)
(***************************************************************************)
DecideClass(class, signal, alternative, budget, now) ==
  IF class = "SUCCESS" THEN Continue("SUCCESS", budget)
  ELSE IF class = "STALE_STATE"
  THEN IF budget.conflicts >= MaxConflictRecoveries THEN Stop(budget, "BUDGET_EXHAUSTED")
       ELSE Continue("REOBSERVE_NOW", [budget EXCEPT !.conflicts = @ + 1])
  ELSE IF class \in {"PERMANENT_INVALID", "RESOURCE_UNAVAILABLE"} /\ alternative
  THEN IF budget.replans >= MaxReplans THEN Stop(budget, "BUDGET_EXHAUSTED")
       ELSE Continue("REPLAN_NOW", [budget EXCEPT !.replans = @ + 1])
  ELSE IF class = "RESOURCE_UNAVAILABLE"
  THEN DeferUntil(budget, now + ReconsiderationDelay(budget.replans))
  ELSE IF class = "TEMPORARY_NOT_DUE" /\ signal.kind = "NOT_DUE" /\ signal.due > now
  THEN DeferUntil(budget, signal.due)
  ELSE Stop(budget, TerminalReason(class))

\* decideReplan; a timeout whose outcome was found is decided like that outcome
DecideReplan(signal, alternative, budget, now) ==
  IF signal.kind # "TIMED_OUT"
  THEN DecideClass(ClassOf(signal), signal, alternative, budget, now)
  ELSE IF signal.status \in {"NOT_FOUND", "UNAVAILABLE"}
  THEN DecideTimeout(signal.status, budget)
  ELSE DecideClass(ClassOfOutcome(signal.status, signal.reason),
                   signal, alternative, budget, now)
=============================================================================
