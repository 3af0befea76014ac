\* The timeout watcher dies and overdue sessions live on.
SPECIFICATION FairSpec
CONSTANTS
  Sessions = {s1}
  Conns = {c1}
  Enders = {e1}
  Watcher = watcher
  Starters = {p1}
  Null = null
  NoSession = noSession
  NoConn = noConn
  MaxInstances = 1
  IdleTimeout = 1
  SessionTTL = 1
  Retention = 0
  SerialDB = TRUE
  Faults = {"network"}
  MaxFaults = 1
  MaxTime = 1
  EndsCap = 0
PROPERTIES TtlAlwaysEnforced
CHECK_DEADLOCK FALSE
