\* Two nodes that trade roles or disappear, read-only and read-write traffic of
\* one user with one connection allowed per node.
SPECIFICATION Spec
CONSTANTS
  n1 = n1  n2 = n2  u1 = u1  u2 = u2  c1 = c1  c2 = c2  c3 = c3
  Nodes = {n1, n2}  NoNode = NoNode  NoGuard = NoGuard  NoClient = NoClient
  Users = {u1}  Clients = {c1, c2}  UserOf <- MCUserOf
  Traffic = {"primary", "replica"}
  Conns = {x1, x2}
  PoolMax <- OneEach  LimitedUsers = {}  UserMax <- LimitOne  MinConns <- NoMin
  InitialReport <- PrimaryN1  Reports <- Failover
  Events = {"connect", "aged"}
  MaxWakes = 1
SYMMETRY Symmetry
PROPERTIES CheckoutGrowsWithinLimit DrainReleasesWaiters
