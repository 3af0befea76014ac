\* One session, both watchers that end sessions, restarts and DELETEs that time out; fair.
SPECIFICATION FairSpec
CONSTANTS
  Sessions = {s1}
  Conns = {c1}
  Enders = {}
  Watcher = watcher
  Starters = {p1}
  Null = null
  NoSession = noSession
  NoConn = noConn
  MaxInstances = 1
  IdleTimeout = 1
  SessionTTL = 2
  Retention = 0
  SerialDB = TRUE
  Faults = {"restart", "timeout"}
  MaxFaults = 2
  MaxTime = 2
  EndsCap = 0
PROPERTIES TtlEnforced IdleEnds ClosedHandlerFinishes
CHECK_DEADLOCK FALSE
