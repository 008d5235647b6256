----------------------------- MODULE AgentRunMC -----------------------------
(* Instances of AgentRun for TLC. *)
EXTENDS AgentRun, TLC

\* One external action behind the approval gate.
GatedTools == <<"external">>

\* Context only: nothing to approve.
ContextTools == <<"context">>

\* A context tool, and then an external action.
MixedTools == <<"context", "external">>

\* The executors are interchangeable, and so are the requests of a kind.
Symmetry == Permutations(Executors) \cup Permutations(Cancellers)
              \cup Permutations(Approvers) \cup Permutations(Pollers)
=============================================================================
