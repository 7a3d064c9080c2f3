SPECIFICATION Spec
CONSTANTS
  t1 = t1
  t2 = t2
  t3 = t3
  Txs = {t1, t2, t3}
  Calls <- AllCalls
  Residents = {"ana", "ben"}
  Rank <- MCRank
SYMMETRY MCSymmetry
INVARIANTS
  OperationsAreAtomic
  DeadlockNeedsForeignKey
PROPERTIES
  KeyDecidedOnce
