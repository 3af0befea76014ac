\* Three requests of any kind.
SPECIFICATION Spec
CONSTANTS
  Requests = {r1, r2, r3}
  Names = {"a", "b"}
  NoPage = NoPage
  Lists <- MCLists
  TTL = 1
  MaxLoad = 1
  MaxQuery = 1
  MaxNow = 3
SYMMETRY Symmetric
INVARIANTS CatalogTypeOK PagesAsSent
PROPERTIES StatusAge PublishAnswersFresh
CHECK_DEADLOCK FALSE
