\* A deploy and three updates on one host fill the retained history.
SPECIFICATION Spec
CONSTANTS
  create = create
  rival = rival
  update = update
  patch = patch
  rollback = rollback
  Attempts = {create, update, patch, rollback}
  Updaters = {update, patch, rollback}
  Suites <- MCSuites
  Specs <- MCSpecs
  Package <- MCPackage
  None = None
  Foreign = Foreign
  Evaluated = Evaluated
  MaxCompleted = 1
  MaxBytes = 23
  Home <- MCTogether
  EvaluatedSpec <- MCEvaluatedSpec
  EvaluatedPairs <- MCAbsent
  MaxForeign = 0
  MaxChurn = 3
INVARIANTS
  AcknowledgedIsRecorded
  RecordStaysReadable
  ReleaseFits
  SlotsSuffice
PROPERTIES
  ReleaseIsRestoreOrRevision
CHECK_DEADLOCK FALSE
