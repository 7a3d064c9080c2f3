-------------------------- MODULE MCSimulationDriver --------------------------
(***************************************************************************)
(* Instances of SimulationDriver for TLC: two drivers that take the lease  *)
(* from each other over TALKs, a SLEEP and a commute to work.              *)
(***************************************************************************)
EXTENDS SimulationDriver

CONSTANTS ana, ben, cai, home, cafe, d1, d2

MCRequest(id, actor, type, arg) ==
  [id |-> id, key |-> id, actor |-> actor, type |-> type, arg |-> arg,
   quantity |-> 1, version |-> None, at |-> 0]

MCHome      == [x \in Residents |-> home]
MCHomes     == {home}
MCEatSites  == {home, cafe}
MCWorkSites == {cafe}
MCTravel    == [from \in Locations |-> [to \in Locations |-> 1]]
MCFood      == [x \in Residents |-> 1]
MCRank      == [x \in Residents |-> CASE x = ana -> 3 [] x = ben -> 2 [] x = cai -> 1]
Nobody      == [x \in Residents |-> None]
OnlyAna     == [x \in Residents |-> IF x = ana THEN cafe ELSE None]
OnlyCai     == [x \in Residents |-> IF x = cai THEN cafe ELSE None]
MCShifts    == {2, 5}

TalkAndSleep == { MCRequest("t1", ana, "TALK", ben), MCRequest("s1", cai, "SLEEP", None) }
TalkAndMove  == { MCRequest("t1", ana, "TALK", ben), MCRequest("m1", cai, "MOVE", cafe) }

\* two talks over one participant and a walk of the one who asks first; the
\* participant may fall asleep, by a decision on its row as it was at first
BusyParticipant ==
  { MCRequest("t1", ana, "TALK", ben), MCRequest("t2", cai, "TALK", ben),
    MCRequest("m1", ana, "MOVE", cafe),
    [MCRequest("s1", ben, "SLEEP", None) EXCEPT !.version = 0] }
=============================================================================
