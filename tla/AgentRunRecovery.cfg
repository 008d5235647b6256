\* The program as it stands: a run whose executor may crash, cancelled and polled, under fairness.
SPECIFICATION FairSpec
CONSTANTS
  Executors = {e1, e2}
  Cancellers = {c1}
  Pollers = {g1}
  Approvers = {}
  Async = TRUE
  Tools <- ContextTools
  MaxFaults = 1
  LockAccepted = FALSE
  InputReadable = FALSE
PROPERTIES
  TerminalIsFinal
  StrandedIsRecovered
  EndedIsAnswered
CHECK_DEADLOCK FALSE
