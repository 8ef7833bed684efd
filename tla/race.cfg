\* Two first deploys and an update race for one record, from three hosts.
SPECIFICATION Spec
CONSTANTS
  create = create
  rival = rival
  update = update
  patch = patch
  rollback = rollback
  Attempts = {create, rival, update}
  Updaters = {update}
  Suites <- MCSuites
  Specs <- MCSpecs
  Package <- MCPackage
  None = None
  Foreign = Foreign
  Evaluated = Evaluated
  MaxCompleted = 2
  MaxBytes = 40
  Home <- MCApart
  EvaluatedSpec <- MCEvaluatedSpec
  EvaluatedPairs <- MCAnyPair
  MaxForeign = 0
  MaxChurn = 0
INVARIANTS
  TypeOK
  WriteUnderReservation
  ReportIsHonest
PROPERTIES
  ImplementsReservation
CHECK_DEADLOCK FALSE
