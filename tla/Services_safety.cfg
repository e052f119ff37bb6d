SPECIFICATION ServicesSpec
CONSTANTS
  c1 = c1
  c2 = c2
  n1 = n1
  a1 = a1
  i1 = i1
  i2 = i2
  r1 = r1
  r2 = r2
  u1 = u1
  u2 = u2
  h1 = h1
  h2 = h2
  h3 = h3
  m1 = m1
  s1 = s1
  Services = {"custody", "handles", "sign-in"}
  Connections = {c1, c2}
  Nicknames = {n1}
  Apps = {a1}
  Identities = {i1, i2}
  Requests = {r1, r2}
  MaxStates = 2
  MaxTokens = 2
  Accounts = {u1, u2}
  Names = {h1, h2, h3}
  Unclaimable = {h3}
  HandleRequests = {r1, r2}
  NoName = NoName
  Addresses = {m1}
  Sources = {s1}
  MAX_LINKS_PER_EMAIL = 2
  MAX_LINKS_PER_SOURCE = 5
  THROTTLE_WINDOW = 3
  TTL = 2
  MaxTicks = 4
  MaxRequests = 4
  MaxLinks = 4
INVARIANTS
  OneExchange
  RevokedIsDead
  SiblingsSurvive
  ReplicaAgrees
  AnsweredNamesServe
  LinksBounded
PROPERTIES
  RemovalRevokes
  LivesOnce
SYMMETRY MCServicesSymmetry
