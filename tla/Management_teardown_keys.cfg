SPECIFICATION Spec
CONSTANTS
  t1 = t1
  t2 = t2
  c1 = c1
  c2 = c2
  v1 = v1
  v2 = v2
  None = None
  Tools = {t1}
  Connections = {c1}
  Versions = {v1}
  VersionTools <- MCOneTool
  MaxDeployments <- MCProductionOnce
  MaxRevision = 0
  MaxKeys = 1
INVARIANTS
  KeylessAngelIsLocked
