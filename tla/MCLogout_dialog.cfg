\* Up to three sessions, two to a page, two calls at a time, one session gone astray.
SPECIFICATION FairSpec
CONSTANTS
  MaxSession = 3
  PageSize = 2
  Concurrency = 2
  Delay = 1
  MaxAstray = 1
INVARIANTS LogoutTypeOK AutoLogoutEnds TokensWhileEnding ShownAsEnded
PROPERTIES DialogFinishes
CHECK_DEADLOCK FALSE
