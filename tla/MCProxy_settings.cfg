\* Transactions, settings that change, DISCARD ALL, and sessions that LISTEN and so
\* keep a connection.
SPECIFICATION Spec
CONSTANTS
  c1 = c1  c2 = c2  x1 = x1  x2 = x2  q1 = q1  q2 = q2  v1 = v1  s1 = s1  s2 = s2
  Sessions = {c1, c2}  Names = {s1}  Queries = {q1, q2}  NoQuery = NoQuery
  MaxPrepared = 0
  BadQueries = {q2}  SetQueries = {}  Vars = {v1}  Mishaps = {"work"}
  Conns = {x1}  NoConn = NoConn  NoSession = NoSession  PoolModes = {"transaction"}
  Requests = {"parse", "bind", "sync", "work", "begin", "commit", "rollback", "set", "reset",
    "discard", "listen", "unlisten"}
  Habits = {"unknown"}  Events = {"break"}  MaxOwed = 4
SYMMETRY Symmetry
INVARIANTS IdleIsQuiet IdleIsClean OneSession CacheMatches
PROPERTIES PinKeepsConnection
