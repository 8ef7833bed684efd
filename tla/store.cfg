\* One entry, three processes and power losses.
SPECIFICATION Spec
CONSTANTS
  h1 = h1
  p = p
  q = q
  r = r
  Handles = {h1}
  Processes = {p, q, r}
  None = None
  MaxPackages = 1
  PowerFails = TRUE
SYMMETRY StoreSymmetry
INVARIANTS
  TypeOK
  ReadyIsComplete
  AcknowledgedIsKept
  BorrowedIsUndisturbed
  NoUnmarkedLock
  RevokedIsFinishable
PROPERTIES
  ImplementsLifecycle
CHECK_DEADLOCK FALSE
