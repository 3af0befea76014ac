\* One login, two requests at a time.
SPECIFICATION FairSpec
CONSTANTS
  Logins = {l1}
  Tasks = {t1, t2}
  TransTTL = 1
  CodeTTL = 1
  AccessTTL = 0
  RefreshTTL = 1
  MaxNow = 2
  MaxRows = 5
INVARIANTS BrokerTypeOK SpentBeforeIssued OneGrantPerLogin HeldGrantWorks
PROPERTIES ExpiredPurged
CHECK_DEADLOCK FALSE
