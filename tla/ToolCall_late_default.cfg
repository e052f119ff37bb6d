SPECIFICATION MCCallSpec
CONSTANTS
  t1 = t1
  c1 = c1
  c2 = c2
  v1 = v1
  userId = userId
  mailbox = mailbox
  raw = raw
  me = me
  other = other
  empty = empty
  None = None
  Tools = {t1}
  Connections = {c1, c2}
  Versions = {v1}
  VersionTools <- MCOneTool
  MaxDeployments <- MCProductionTwice
  MaxRevision = 1
  MaxKeys = 2
  Fields = {userId, mailbox, raw}
  Leaves = {me, other, empty}
  Dotted = {empty}
  Arguments <- MCArguments
  VersionPolicy <- MCVersionPolicy
INVARIANTS
  ForwardedIsGuarded
