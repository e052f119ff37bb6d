SPECIFICATION ClientsSpec
CONSTANTS
  s1 = s1
  s2 = s2
  k1 = k1
  t1 = t1
  x1 = x1
  x2 = x2
  Clients = {"mutations"}
  None = None
  Artifacts = {s1, s2}
  KeyNames = {k1}
  KeyTokens = {t1}
  MaxAngels = 1
  MaxDeployments = 3
  MaxRevision = 0
  MaxKeys = 1
  Null = Null
  Angels = {x1, x2}
  Routes = {"home", "angel"}
  Panes = {"keys", "activity"}
  MaxChanges = 1
  MaxSecrets = 1
  Stored = {c1, c2}
  Jobs = {1, 2}
  NoConnection = NoConnection
  a1 = a1
  a2 = a2
  a3 = a3
  gmail = gmail
  drive = drive
  get = get
  list = list
  send = send
  read = read
  c1 = c1
  c2 = c2
  LocalAngels = {a1, a2, a3}
  Operations = {get, list, send, read}
  ProviderOf <- MCProviderOf
  Folded <- MCFolded
  Sources <- MCSources
  Registries <- MCRegistries
  BoundConnections = {c1, c2}
INVARIANTS
  PublishedIsActive
