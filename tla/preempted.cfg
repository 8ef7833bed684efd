\* A Prepare is cancelled while somebody takes its new use.lock.
SPECIFICATION Spec
CONSTANTS
  h1 = h1
  p = p
  q = q
  Handles = {h1}
  Processes = {p, q}
  None = None
  MaxPackages = 1
  PowerFails = FALSE
SYMMETRY StoreSymmetry
INVARIANTS
  EveryCrashIsFinishable
CHECK_DEADLOCK FALSE
