\* One run with one Task, and an operator who comes back.
SPECIFICATION FairSpec
CONSTANTS
  r1 = r1
  r2 = r2
  o1 = o1
  Runs = {r1}
  Operators = {o1}
  Cases <- MCSingle
  Foreign = Foreign
  None = None
  Earlier = Earlier
  MaxRecords = 1
  MaxFaults = 1
INVARIANTS
  ProofMeansClean
PROPERTIES
  CleanupDeletesItsOwn
  LeftoversAreReclaimed
CHECK_DEADLOCK FALSE
