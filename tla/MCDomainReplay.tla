---------------------------- MODULE MCDomainReplay ----------------------------
(***************************************************************************)
(* Instances of DomainReplay for TLC: one request of each kind that can    *)
(* matter to a reducer, over two residents.                                *)
(***************************************************************************)
EXTENDS DomainReplay

CONSTANTS ana, ben, home, cafe

Plain(id, actor, type, arg) ==
  [id |-> id, key |-> id, actor |-> actor, type |-> type, arg |-> arg,
   quantity |-> 1, version |-> None, at |-> 0]

MCHome      == [x \in Residents |-> home]
MCHomes     == {home}
MCEatSites  == {home, cafe}
MCWorkSites == {cafe}
MCTravel    == [from \in Locations |-> [to \in Locations |-> 1]]
MCFood      == [x \in Residents |-> 2]

Nobody      == [x \in Residents |-> None]
OnlyAna     == [x \in Residents |-> IF x = ana THEN cafe ELSE None]
MCShifts    == {1, 3, 5}

\* a meal and a talk with a resident who may fall asleep instead
StoryRequests ==
  { Plain("e1", ana, "EAT", ana), Plain("t1", ana, "TALK", ben),
    Plain("s1", ben, "SLEEP", None) }

\* commuting to a shift and two attempts to work it
ShiftRequests ==
  { Plain("m1", ana, "MOVE", cafe), Plain("w1", ana, "WORK", cafe),
    Plain("w2", ana, "WORK", cafe) }
=============================================================================
