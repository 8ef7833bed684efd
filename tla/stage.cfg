\* An ownership publication is interrupted.
SPECIFICATION Spec
CONSTANTS
  h1 = h1
  p = p
  Handles = {h1}
  Processes = {p}
  None = None
  MaxPackages = 1
  PowerFails = FALSE
SYMMETRY StoreSymmetry
INVARIANTS
  InterruptedIsRecoverable
CHECK_DEADLOCK FALSE
