\* Two entries in a store for one, without power losses.
SPECIFICATION Spec
CONSTANTS
  h1 = h1
  h2 = h2
  p = p
  q = q
  Handles = {h1, h2}
  Processes = {p, q}
  None = None
  MaxPackages = 1
  PowerFails = FALSE
SYMMETRY StoreSymmetry
VIEW Volatile
INVARIANTS
  ReadyIsComplete
  WithinCapacity
CHECK_DEADLOCK FALSE
