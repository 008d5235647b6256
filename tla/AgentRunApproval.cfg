\* An approval, with a cancellation, a reaper and one crash or database error.
SPECIFICATION Spec
CONSTANTS
  Executors = {e1, e2}
  Cancellers = {c1}
  Pollers = {g1}
  Approvers = {a1}
  Async = TRUE
  Tools <- GatedTools
  MaxFaults = 1
  LockAccepted = TRUE
  InputReadable = TRUE
SYMMETRY Symmetry
INVARIANTS
  TypeOK
  StepsDense
  ActionsGated
  CancelIsFenced
  
PROPERTY CompletedIsFinal
CHECK_DEADLOCK FALSE
