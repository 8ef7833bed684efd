\* One entry, two processes, and Cleanup tried again.
SPECIFICATION FairSpec
CONSTANTS
  h1 = h1
  p = p
  q = q
  Handles = {h1}
  Processes = {p, q}
  None = None
  MaxPackages = 1
  PowerFails = TRUE
PROPERTIES
  RestIsReclaimed
CHECK_DEADLOCK FALSE
