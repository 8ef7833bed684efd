\* Three saves of one agent and its tests, and one fault.
SPECIFICATION Spec
CONSTANTS
  s1 = s1
  s2 = s2
  s3 = s3
  Savers = {s1, s2, s3}
  None = None
  MaxFaults = 1
SYMMETRY MCSymmetry
INVARIANTS
  TypeOK
  ReportIsTrue
PROPERTIES
  NoLostUpdate
  PairsDoNotMix
CHECK_DEADLOCK FALSE
