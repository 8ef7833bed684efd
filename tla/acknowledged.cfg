\* What the next update starts from.
SPECIFICATION FairSpec
CONSTANTS
  create = create
  rival = rival
  update = update
  patch = patch
  rollback = rollback
  Attempts = {create, update, patch}
  Updaters = {update, patch}
  Suites <- MCSuites
  Specs <- MCSpecs
  Package <- MCPackage
  None = None
  Foreign = Foreign
  Evaluated = Evaluated
  MaxCompleted = 2
  MaxBytes = 40
  Home <- MCApart
  EvaluatedSpec <- MCEvaluatedSpec
  EvaluatedPairs <- MCAnyPair
  MaxForeign = 1
  MaxChurn = 0
INVARIANTS
  UnknownBlocks
  FreeRecordDescribesPair
  SuccessIsAcknowledged
PROPERTIES
  NoTakeover
  UpdatesFollowAcknowledgment
  ReservationIsAccountedFor
CHECK_DEADLOCK FALSE
