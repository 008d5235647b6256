\* Two tabs of one browser, two sessions, two refreshes, one incident.
SPECIFICATION FairSpec
CONSTANTS
  Tabs = {t1, t2}
  MaxSessions = 2
  MaxRefreshes = 2
  MaxIncidents = 1
INVARIANTS
  TypeOK
  OneChild
  OneLiveToken
  CookieIsCurrent
PROPERTIES
  RotationEndsWithLogout
  ComesToRest
CHECK_DEADLOCK FALSE
