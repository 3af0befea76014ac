\* A streaming websocket that no endpoint can reach.
SPECIFICATION Spec
CONSTANTS
  Sessions = {s1}
  Conns = {c1, c2}
  Enders = {e1}
  Watcher = watcher
  Starters = {p1}
  Null = null
  NoSession = noSession
  NoConn = noConn
  MaxInstances = 1
  IdleTimeout = 1
  SessionTTL = 2
  Retention = 0
  SerialDB = TRUE
  Faults = {}
  MaxFaults = 0
  MaxTime = 0
  EndsCap = 0
INVARIANTS StreamIsRegistered
CHECK_DEADLOCK FALSE
