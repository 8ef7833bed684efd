\* Two evaluations compete for the last record of the store while a fault happens.
SPECIFICATION Spec
CONSTANTS
  r1 = r1
  r2 = r2
  o1 = o1
  Runs = {r1, r2}
  Operators = {}
  Cases <- MCRepeated
  Foreign = Foreign
  None = None
  Earlier = Earlier
  MaxRecords = 1
  MaxFaults = 1
SYMMETRY EvaluationsAlike
INVARIANTS
  TypeOK
  PassIsAttributed
CHECK_DEADLOCK FALSE
