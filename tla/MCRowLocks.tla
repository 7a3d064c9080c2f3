------------------------------ MODULE MCRowLocks ------------------------------
(***************************************************************************)
(* Instances of RowLocks for TLC: every combination of three of the calls  *)
(* below at the same time, and the reciprocal TALK of ADR-0012 alone.      *)
(***************************************************************************)
EXTENDS RowLocks, TLC

CONSTANTS t1, t2, t3

MCSymmetry == Permutations({t1, t2, t3})

MCRank == [x \in {"ana", "ben"} |-> IF x = "ana" THEN 1 ELSE 2]

MCCall(op, key, parties, item, wakes, fenced) ==
  [op |-> op, key |-> key, parties |-> parties, item |-> item, wakes |-> wakes,
   fenced |-> fenced]

Talk(key) == MCCall("EXECUTE", key, {"ana", "ben"}, FALSE, {}, FALSE)

ReciprocalTalks == {Talk("ana asks ben"), Talk("ben asks ana")}

AllCalls ==
  { Talk("k1"),
    MCCall("EXECUTE", "k2", {"ana"}, TRUE, {}, TRUE),
    MCCall("EXECUTE", "k3", {"ben"}, FALSE, {"ben"}, FALSE),
    MCCall("PERSIST", "k1", {}, FALSE, {}, FALSE),
    MCCall("COMPLETE", "k0", {"ana", "ben"}, FALSE, {}, TRUE),
    MCCall("COMPLETE", "k4", {"ana"}, FALSE, {"ana"}, FALSE),
    MCCall("ADVANCE", "", {}, FALSE, {}, TRUE),
    MCCall("CLOCK", "", {}, FALSE, {}, FALSE),
    MCCall("REGISTER_WAKES", "", {}, FALSE, {"ana", "ben"}, FALSE),
    MCCall("ACKNOWLEDGE", "", {}, FALSE, {"ana"}, FALSE),
    MCCall("ACQUIRE", "", {}, FALSE, {}, FALSE) }
=============================================================================
