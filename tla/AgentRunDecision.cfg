\* A decision on the approval that a synchronous run has paused for.
SPECIFICATION Spec
CONSTANTS
  Executors = {e1}
  Cancellers = {}
  Pollers = {}
  Approvers = {a1}
  Async = FALSE
  Tools <- GatedTools
  MaxFaults = 0
  LockAccepted = FALSE
  InputReadable = FALSE
INVARIANT DecisionsResolve
CHECK_DEADLOCK FALSE
