\* A gateway connection is connected, disconnected and interrupted.
SPECIFICATION FairSpec
CONSTANTS
  c1 = c1
  c2 = c2
  d1 = d1
  d2 = d2
  p1 = p1
  Connects = {c1, c2}
  Disconnects = {d1, d2}
  Pods = {p1}
  CreateOrder <- MCCreateOrder
  DeleteOrder <- MCDeleteOrder
  Foreign = Foreign
  None = None
  MaxFaults = 2
INVARIANTS
  TypeOK
  EffectsAreRecorded
  StoppedMeansStopped
PROPERTIES
  DeletionIsAuthorized
  IsALease
  RecoverableIsReleased
