SPECIFICATION Spec
CONSTANTS
  t1 = t1
  t2 = t2
  c1 = c1
  c2 = c2
  v1 = v1
  v2 = v2
  None = None
  Tools = {t1, t2}
  Connections = {c1, c2}
  Versions = {v1, v2}
  VersionTools <- MCVersionTools
  MaxDeployments <- MCDeployments
  MaxRevision = 1
  MaxKeys = 2
CONSTRAINT MCBounds
INVARIANTS
  TypeOK
  GatesMatchRecord
  BrokerLeads
  RestoreIsIdentity
  MigrationNeverConflicts
  ChangeNeverDiverges
  ChangesAreAccepted
  RevokedKeysRejected
  LockedWhileClosing
  PromotionIsAccepted
  ViewIsValid
PROPERTIES
  NoFallback
  PausesSurviveRedeploy
