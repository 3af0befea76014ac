\* A session that has ended comes back to life.
SPECIFICATION Spec
CONSTANTS
  Sessions = {s1}
  Conns = {c1}
  Enders = {e1}
  Watcher = watcher
  Starters = {p1}
  Null = null
  NoSession = noSession
  NoConn = noConn
  MaxInstances = 1
  IdleTimeout = 1
  SessionTTL = 2
  Retention = 0
  SerialDB = TRUE
  Faults = {}
  MaxFaults = 0
  MaxTime = 1
  EndsCap = 0
PROPERTIES TerminalIsFinal
CHECK_DEADLOCK FALSE
