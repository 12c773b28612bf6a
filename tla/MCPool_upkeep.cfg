\* One node, one user with max_connections = 2 and min_connections = 1: every
\* background event, all together.
SPECIFICATION Spec
CONSTANTS
  n1 = n1  n2 = n2  u1 = u1  u2 = u2  c1 = c1  c2 = c2  c3 = c3
  Nodes = {n1}  NoNode = NoNode  NoGuard = NoGuard  NoClient = NoClient
  Users = {u1}  Clients = {c1, c2}  UserOf <- MCUserOf
  Traffic = {"primary"}
  Conns = {x1, x2, x3}
  PoolMax <- TwoOnPrimary  LimitedUsers = {}  UserMax <- LimitOne  MinConns <- MinOne
  InitialReport <- PrimaryN1  Reports <- NoReports
  Events = {"timeout", "stale", "scavenge", "warmup", "connect", "reset", "panic"}
  MaxWakes = 2
SYMMETRY Symmetry
INVARIANTS OnePlace
PROPERTIES ScavengeKeepsFloor CleanedBetweenClients
