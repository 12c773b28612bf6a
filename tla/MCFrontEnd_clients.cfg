\* Two clients, one server connection, one change of the password.
SPECIFICATION Spec
CONSTANTS
  c1 = c1  c2 = c2  x1 = x1
  Clients = {c1, c2}  NoClient = NoClient  Conns = {x1}  NoConn = NoConn
  Passwords <- MCPasswords  Ttl = 2  Timeout = 1
  Configs <- MCConfigs  Backlog = 2
 
PROPERTIES VerifierFresh NobodyHangs
CHECK_DEADLOCK FALSE
