\* Three tabs.
SPECIFICATION Spec
CONSTANTS
  Tabs = {t1, t2, t3}
  NoTab = NoTab
  MaxTokens = 4
CONSTRAINT NotRaced
SYMMETRY Symmetric
INVARIANTS PortalTypeOK ArmedForNewest CookieNewest LogoutReachesAll
PROPERTIES RenewsNewest
