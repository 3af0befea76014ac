\* One session, two websockets, a request: handlers that overlap.
SPECIFICATION Spec
CONSTANTS
  Sessions = {s1}
  Conns = {c1, c2}
  Enders = {e1}
  Watcher = watcher
  Starters = {p1}
  Null = null
  NoSession = noSession
  NoConn = noConn
  MaxInstances = 1
  IdleTimeout = 1
  SessionTTL = 2
  Retention = 1
  SerialDB = TRUE
  Faults = {"timeout", "network"}
  MaxFaults = 1
  MaxTime = 1
  EndsCap = 0
SYMMETRY Slots
INVARIANTS TypeOK RegistryLive GaugeExact NoStuckSession
PROPERTIES ClientErrorKept KeepsLifetimes
CHECK_DEADLOCK FALSE
