------------------------------- MODULE Resume -------------------------------
(***************************************************************************)
(* The pure helpers of packages/agent-runtime that decide what a run that  *)
(* paused for an approval does next, and whether an outcome may still be   *)
(* written into the conversation.  A run's steps are the partial function  *)
(* from sequence number to step that the table agent_run_steps holds for   *)
(* it: the table is unique on (run_id, sequence_no).                       *)
(***************************************************************************)
EXTENDS Naturals, FiniteSetsExt

RunStatus == {"queued", "preparing", "running", "waiting_input",
              "completed", "failed", "cancelled", "timed_out"}

TERMINAL_STATUSES == {"completed", "failed", "cancelled", "timed_out"}

ApprovalDecision == {"approved", "rejected"}

Step == [type : {"approval", "tool", "llm", "message"},
         status : {"running", "completed", "failed", "cancelled"},
         decision : ApprovalDecision \cup {"none"}]

isApprovalStep(step) == step.type = "approval"

Approvals(steps) == {n \in DOMAIN steps : isApprovalStep(steps[n])}

\* The number a resumed run continues from.
nextSequenceNo(steps) == IF DOMAIN steps = {} THEN 1 ELSE Max(DOMAIN steps) + 1

(***************************************************************************)
(* A terminal run halts, an undecided approval blocks, and otherwise the   *)
(* latest approval decides.  "from" is 0 when no approval was involved.    *)
(***************************************************************************)
computeResumeState(status, steps) ==
  IF status \in TERMINAL_STATUSES
  THEN [kind |-> "halt", from |-> 0]
  ELSE IF \E n \in Approvals(steps) : steps[n].status = "running"
  THEN [kind |-> "blocked", from |-> 0]
  ELSE IF Approvals(steps) = {}
  THEN [kind |-> "resume", from |-> 0]
  ELSE LET latest == Max(Approvals(steps))
       IN  IF steps[latest].decision = "rejected"
           THEN [kind |-> "halt", from |-> 0]
           ELSE [kind |-> "resume", from |-> latest]

planResume(status, steps) ==
  LET state == computeResumeState(status, steps)
  IN  [kind |-> state.kind, from |-> state.from, next |-> nextSequenceNo(steps)]

\* Mutant of Resumes: a fresh run, whose plan resumes from 0, counts as resumed.
ResumesFromZero(status, steps) == planResume(status, steps).kind = "resume"

\* The executor treats a run as resumed only when an approval was resolved.
Resumes(status, steps) ==
  LET plan == planResume(status, steps) IN plan.kind = "resume" /\ plan.from > 0

\* A decision resolves the step it is about and touches no other.
applyApprovalDecision(steps, n, decision) ==
  [steps EXCEPT ![n].status = IF decision = "approved" THEN "completed" ELSE "cancelled",
                ![n].decision = decision]

\* Mutant of shouldRecordRunOutcome: each status once, terminal or not.
RecordEachStatusOnce(existing, next) == next \notin existing

(***************************************************************************)
(* The conversation takes one message per status, and one terminal answer. *)
(***************************************************************************)
shouldRecordRunOutcome(existing, next) ==
  /\ next \notin existing
  /\ next \in TERMINAL_STATUSES => existing \cap TERMINAL_STATUSES = {}
=============================================================================
