\* A cache of one statement, and clients that use two; nothing fails.
SPECIFICATION Spec
CONSTANTS
  c1 = c1  c2 = c2  x1 = x1  x2 = x2  q1 = q1  q2 = q2  v1 = v1  s1 = s1  s2 = s2
  Sessions = {c1, c2}  Names = {s1, s2}  Queries = {q1, q2}  NoQuery = NoQuery
  MaxPrepared = 1
  BadQueries = {}  SetQueries = {}  Vars = {v1}  Mishaps = {}
  Conns = {x1}  NoConn = NoConn  NoSession = NoSession
  PoolModes = {"transaction", "session"}
  Requests = {"parse", "bind", "portal", "close", "deallocate", "sync", "begin", "rollback"}
  Habits = {}  Events = {}  MaxOwed = 4
SYMMETRY Symmetry
INVARIANTS InOrder CacheMatches
