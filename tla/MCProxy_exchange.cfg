\* One connection, shared; one statement of two is rejected by the server, and
\* an execution may fail.
SPECIFICATION FairSpec
CONSTANTS
  c1 = c1  c2 = c2  x1 = x1  x2 = x2  q1 = q1  q2 = q2  v1 = v1  s1 = s1  s2 = s2
  Sessions = {c1, c2}  Names = {s1, s2}  Queries = {q1, q2}  NoQuery = NoQuery
  MaxPrepared = 0
  BadQueries = {q2}  SetQueries = {}  Vars = {v1}  Mishaps = {"bind"}
  Conns = {x1}  NoConn = NoConn  NoSession = NoSession
  PoolModes = {"transaction", "session"}
  Requests = {"parse", "bind", "portal", "close", "deallocate", "sync"}
  Habits = {"unknown"}  Events = {"break"}  MaxOwed = 3
INVARIANTS InOrder NoPoolerError CacheMatches RefsMatchNames BindFindsParse
PROPERTIES Answered ResetEnds
