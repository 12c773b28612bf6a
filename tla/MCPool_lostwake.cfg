\* One slot, two clients, nothing fails and no timer fires.
SPECIFICATION Spec
CONSTANTS
  n1 = n1  n2 = n2  u1 = u1  u2 = u2  c1 = c1  c2 = c2  c3 = c3
  Nodes = {n1}  NoNode = NoNode  NoGuard = NoGuard  NoClient = NoClient
  Users = {u1}  Clients = {c1, c2}  UserOf <- MCUserOf
  Traffic = {"primary"}
  Conns = {x1, x2}
  PoolMax <- OneEach  LimitedUsers = {}  UserMax <- LimitOne  MinConns <- NoMin
  InitialReport <- PrimaryN1  Reports <- NoReports
  Events = {}
  MaxWakes = 1
INVARIANT WaitsOnlyForCapacity
