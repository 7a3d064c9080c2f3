-------------------------- MODULE ActivityLifecycle --------------------------
(***************************************************************************)
(* What the world kernel promises about activities, without ledger, leases,*)
(* versions or wakes: an activity takes all of its parties at one moment,  *)
(* holds every one of them until it ends, and releases them at one moment  *)
(* that is never before the due time fixed when it began.  A request has   *)
(* one activity at most, and a refused request has none, ever.             *)
(***************************************************************************)
EXTENDS Integers

CONSTANTS Residents, Requests, Free,
          Parties(_)      \* the residents an activity needs

VARIABLES now,            \* world time
          phase,          \* [Requests -> new, refused, active or done]
          holder,         \* [Residents -> the request that holds it, or Free]
          due             \* [Residents -> when that activity may end, or Free]

vars == <<now, phase, holder, due>>

Phases == {"new", "refused", "active", "done"}

Init ==
  /\ now = 0
  /\ phase = [r \in Requests |-> "new"]
  /\ holder = [x \in Residents |-> Free]
  /\ due = [x \in Residents |-> Free]

Refuse(r) ==
  /\ phase[r] = "new"
  /\ phase' = [phase EXCEPT ![r] = "refused"]
  /\ UNCHANGED <<now, holder, due>>

\* the due time is the implementation's choice, one for all parties
Begin(r) ==
  /\ phase[r] = "new"
  /\ \A x \in Parties(r) : holder[x] = Free
  /\ phase' = [phase EXCEPT ![r] = "active"]
  /\ holder' = [x \in Residents |-> IF x \in Parties(r) THEN r ELSE holder[x]]
  /\ \E x \in Parties(r) :
       /\ due'[x] > now
       /\ due' = [y \in Residents |-> IF y \in Parties(r) THEN due'[x] ELSE due[y]]
  /\ UNCHANGED now

End(r) ==
  /\ phase[r] = "active"
  /\ \A x \in Parties(r) : holder[x] = r /\ now >= due[x]
  /\ phase' = [phase EXCEPT ![r] = "done"]
  /\ holder' = [x \in Residents |-> IF x \in Parties(r) THEN Free ELSE holder[x]]
  /\ due' = [x \in Residents |-> IF x \in Parties(r) THEN Free ELSE due[x]]
  /\ UNCHANGED now

Tick ==
  /\ now' > now
  /\ UNCHANGED <<phase, holder, due>>

Next == Tick \/ \E r \in Requests : Refuse(r) \/ Begin(r) \/ End(r)

Spec == Init /\ [][Next]_vars

=============================================================================
