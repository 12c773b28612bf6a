\* Two clients, one channel, two generations of the pool.
SPECIFICATION FairSpec
CONSTANTS
  c1 = c1  c2 = c2  p1 = p1  p2 = p2  a = a
  Clients = {c1, c2}  Channels = {a}
  Pools = {p1, p2}  NoPool = NoPool
  MaxFailures = 2  MaxQueue = 2  MaxWire = 1  Capacity = 1
  Slow = FALSE
INVARIANTS SettledMatches OneListener
PROPERTIES ListenTakesEffect NoticeReaches
