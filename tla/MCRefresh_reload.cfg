\* Two nodes in one cluster or in two, a failover, reloads of three files.
SPECIFICATION FairSpec
CONSTANTS
  n1 = n1  n2 = n2  a = a  b = b
  Nodes = {n1, n2}  NoNode = NoNode  Clusters = {a, b}  None = None  Broken = Broken
  Files <- MCFiles  BootFile <- Together
  BootWorld <- MCBootWorld  Worlds <- MCWorlds
  ReloadTasks = {"reload"}  MaxChanges = 2
INVARIANTS FormerIsDrained StartupFieldsKept
PROPERTIES Converges
