\* Three deliveries or in-process executions of one run, and two approvers.
SPECIFICATION Spec
CONSTANTS
  Executors = {e1, e2, e3}
  Cancellers = {}
  Pollers = {}
  Approvers = {a1, a2}
  Async = TRUE
  Tools <- GatedTools
  MaxFaults = 0
  LockAccepted = TRUE
  InputReadable = TRUE
SYMMETRY Symmetry
INVARIANT CallsAtMostOnce
CHECK_DEADLOCK FALSE
