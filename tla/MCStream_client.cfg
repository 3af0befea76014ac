\* Two handlers at once, two POSTs to a start, two faults, two clicks.
SPECIFICATION FairSpec
CONSTANTS
  Calls = {c1, c2}
  NoCall = NoCall
  Tries = 2
  MaxSession = 2
  MaxFault = 2
  MaxClick = 2
INVARIANTS StreamTypeOK ReplacesOnlyGone
PROPERTIES PageSettles ErrorReported
CHECK_DEADLOCK FALSE
