\* One node, two users sharing max_connections = 2, u2 limited to one.
SPECIFICATION Spec
CONSTANTS
  n1 = n1  n2 = n2  u1 = u1  u2 = u2  c1 = c1  c2 = c2  c3 = c3
  Nodes = {n1}  NoNode = NoNode  NoGuard = NoGuard  NoClient = NoClient
  Users = {u1, u2}  Clients = {c1, c2, c3}  UserOf <- MCUserOf
  Traffic = {"primary"}
  Conns = {x1, x2, x3}
  PoolMax <- TwoOnPrimary  LimitedUsers = {u2}  UserMax <- LimitOne  MinConns <- NoMin
  InitialReport <- PrimaryN1  Reports <- NoReports
  Events = {"connect", "drop", "timeout"}
  MaxWakes = 1
SYMMETRY Symmetry
INVARIANTS TypeOK ActiveIsHeld NodeWithinMax UserWithinMax WaitersSound
PROPERTIES WakeReachesFirst
