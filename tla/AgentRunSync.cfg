\* A synchronous run: the request executes it, an approval resumes it.
SPECIFICATION Spec
CONSTANTS
  Executors = {e1, e2}
  Cancellers = {c1}
  Pollers = {g1}
  Approvers = {a1}
  Async = FALSE
  Tools <- MixedTools
  MaxFaults = 1
  LockAccepted = TRUE
  InputReadable = TRUE
SYMMETRY Symmetry
INVARIANT CompletedAnswerIsTrue
CHECK_DEADLOCK FALSE
