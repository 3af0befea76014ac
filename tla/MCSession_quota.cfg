\* Two sessions under a limit of one, concurrent start requests.
SPECIFICATION Spec
CONSTANTS
  Sessions = {s1, s2}
  Conns = {c1}
  Enders = {e1}
  Watcher = watcher
  Starters = {p1, p2}
  Null = null
  NoSession = noSession
  NoConn = noConn
  MaxInstances = 1
  IdleTimeout = 1
  SessionTTL = 1
  Retention = 0
  SerialDB = TRUE
  Faults = {}
  MaxFaults = 0
  MaxTime = 0
  EndsCap = 0
SYMMETRY Slots
PROPERTIES QuotaAtStart
CHECK_DEADLOCK FALSE
