------------------------------ MODULE AgentRun ------------------------------
(***************************************************************************)
(* The life of one agent run: the row of agent_runs, its steps and its     *)
(* conversation, and everything that acts on them at the same time: queue  *)
(* deliveries in the worker, executions inside the web process, and the    *)
(* HTTP requests that cancel, reconcile and approve.                       *)
(*                                                                         *)
(* One action is one database statement or one transaction, so every       *)
(* interleaving that PostgreSQL allows between two statements is a         *)
(* behaviour.  The approval transaction is two actions, because it holds   *)
(* row locks (SELECT ... FOR UPDATE) that other statements wait for.       *)
(***************************************************************************)
EXTENDS Resume, Sequences

CONSTANTS Executors,   \* slots: a queue delivery or an in-process execution
          Cancellers,  \* DELETE requests of one run
          Pollers,     \* clients that repeat GET of one run
          Approvers,   \* PATCH requests of the run's approval
          Async,       \* the run was created with {"async": true}
          Tools,       \* the configured tools, in the order executeRun uses them
          MaxFaults,   \* crashes and database errors in a behaviour
          (*****************************************************************)
          (* What PostgreSQL and its client make of two statements.  Both  *)
          (* are FALSE for the program as it stands; TRUE is what the code *)
          (* around the statements is written for.                         *)
          (*****************************************************************)
          LockAccepted,  \* the decision's SELECT may lock the rows that it joins
          InputReadable  \* the input that POST stores is read back as an object

ASSUME ToolsAssumption == Tools \in Seq({"external", "context"})
ASSUME AsyncAssumption == Async \in BOOLEAN
ASSUME FaultsAssumption == MaxFaults \in Nat
ASSUME LockAssumption == LockAccepted \in BOOLEAN
ASSUME InputAssumption == InputReadable \in BOOLEAN

VARIABLES run,       \* the row of agent_runs
          steps,     \* agent_run_steps of this run: sequence_no -> step
          msgs,      \* statuses of the assistant messages, in order of insertion
          calls,     \* requests sent per tool; the last index is the model call
          waiting,   \* deliveries of the run's job the queue still owes
          held,      \* executors whose delivery the queue has not seen settled
          post,      \* the POST request that created the run
          ex,        \* executors
          canceller, poller, approver,
          faults     \* crashes and database errors so far

vars == <<run, steps, msgs, calls, waiting, held, post, ex,
          canceller, poller, approver, faults>>

requests == <<post, canceller, poller, approver>>

-----------------------------------------------------------------------------
\* An external network action is what makes a run ask for approval.
NeedsApproval == \E i \in DOMAIN Tools : Tools[i] = "external"

ModelCall == Len(Tools) + 1

FailureStatus == {"failed", "cancelled", "timed_out"}

RunRow == [status : RunStatus, cancelRequested : BOOLEAN, started : BOOLEAN,
           lease : {"none", "live", "expired"}]

ExecutorPC == {"idle", "loadRun", "loadSteps", "claim", "begin", "lease", "gate",
               "pause", "pauseEvent", "tool", "toolStep", "model", "stream",
               "complete", "finish", "failStep", "failRow", "record", "done", "dead"}

Executor == [pc : ExecutorPC, via : {"worker", "detached", "resumer", "sync"},
             seen : RunStatus, resume : BOOLEAN, seq : Nat, at : Nat, llm : Nat,
             abort : {"none", "cancelled", "timed_out"},
             result : FailureStatus \cup {"none", "waiting_input", "completed"}]

TypeOK ==
  /\ run \in RunRow
  /\ DOMAIN steps \subseteq Nat \ {0} /\ steps \in [DOMAIN steps -> Step]
  /\ msgs \in Seq(RunStatus)
  /\ calls \in [1..ModelCall -> Nat]
  /\ waiting \in Nat
  /\ held \subseteq Executors
  /\ post \in {"dispatch", "done"}
  /\ ex \in [Executors -> Executor]
  /\ canceller \in [Cancellers -> {"idle", "steps", "read", "record", "done"}]
  /\ poller \in [Pollers -> {"idle", "steps", "record"}]
  /\ approver \in [Approvers -> [pc : {"idle", "tx", "dispatch", "rejectStep",
                                       "rejectRecord", "done"},
                                 step : Nat, next : Nat]]
  /\ faults \in 0..MaxFaults

Idle == [pc |-> "idle", via |-> "worker", seen |-> "queued", resume |-> FALSE,
         seq |-> 1, at |-> 1, llm |-> 0, abort |-> "none", result |-> "none"]

(***************************************************************************)
(* POST has inserted the row: 'queued' for an asynchronous run, whose job  *)
(* is about to be enqueued, and 'running' for a synchronous one, which the *)
(* request executes itself.  It does so for an agent version whose spec is *)
(* read as an object; for any other it has answered 400 before.            *)
(***************************************************************************)
Init ==
  /\ run = [status |-> IF Async THEN "queued" ELSE "running",
            cancelRequested |-> FALSE, started |-> FALSE, lease |-> "none"]
  /\ steps = [n \in {} |-> {}]
  /\ msgs = <<>>
  /\ calls = [i \in 1..ModelCall |-> 0]
  /\ waiting = 0
  /\ held = {}
  /\ canceller = [c \in Cancellers |-> "idle"]
  /\ poller = [g \in Pollers |-> "idle"]
  /\ approver = [a \in Approvers |-> [pc |-> "idle", step |-> 0, next |-> 0]]
  /\ faults = 0
  /\ \/ Async /\ post = "dispatch" /\ ex = [e \in Executors |-> Idle]
     \/ ~Async /\ post = "done"
        /\ \E e \in Executors :
             ex = [[f \in Executors |-> Idle] EXCEPT
                     ![e] = [Idle EXCEPT !.pc = "begin", !.via = "sync"]]

-----------------------------------------------------------------------------
(* Statements on the row.                                                  *)

\* The approval transaction holds the row lock from its SELECT to its commit.
RowFree == \A a \in Approvers : approver[a].pc # "tx"

\* Mutants of Claimable: a claim that also takes a running run, one blind to cancellation.
ClaimableWhileRunning ==
  run.status \in {"queued", "preparing", "running"} /\ ~run.cancelRequested

ClaimableThoughCancelled == run.status \in {"queued", "preparing"}

Claimable == run.status \in {"queued", "preparing"} /\ ~run.cancelRequested

Renewable == run.status = "running" /\ ~run.cancelRequested

Runnable == Claimable \/ Renewable

\* Mutant of Reapable: only the age of rows without a lease counts.
ReapableByAge == /\ run.status \in {"preparing", "running"}
                 /\ run.started
                 /\ run.lease = "none"

Reapable == /\ run.status \in {"preparing", "running"}
            /\ run.started
            /\ run.lease \in {"expired", "none"}

Running == [run EXCEPT !.status = "running", !.started = TRUE, !.lease = "live"]

Ended(status) == [run EXCEPT !.status = status, !.lease = "none"]

-----------------------------------------------------------------------------
(* Executors.                                                              *)

Become(e, executor) == ex' = [ex EXCEPT ![e] = executor]

Goto(e, pc) == Become(e, [ex[e] EXCEPT !.pc = pc])

\* An executor that has stopped keeps nothing of what it did.
Stop(e, pc) == Become(e, [Idle EXCEPT !.pc = pc])

Fail(e, status) == Become(e, [ex[e] EXCEPT !.pc = "failStep", !.result = status])

(***************************************************************************)
(* addRunStep: the insert needs the foreign key's share lock on the run    *)
(* row, and the unique (run_id, sequence_no) refuses a number in use.      *)
(***************************************************************************)
Insert(n, type, status) ==
  /\ RowFree
  /\ n \notin DOMAIN steps
  /\ steps' = [m \in DOMAIN steps \cup {n} |->
                 IF m = n THEN [type |-> type, status |-> status, decision |-> "none"]
                          ELSE steps[m]]

NumberTaken(e) ==
  /\ RowFree
  /\ ex[e].seq \in DOMAIN steps
  /\ Fail(e, "failed")
  /\ UNCHANGED steps

SetRunningSteps(status) ==
  steps' = [n \in DOMAIN steps |->
              IF steps[n].status = "running" THEN [steps[n] EXCEPT !.status = status]
                                             ELSE steps[n]]

recordRunOutcome(status) ==
  msgs' = IF shouldRecordRunOutcome(Range(msgs), status) THEN Append(msgs, status) ELSE msgs

\* The queue hands out the job; whether the previous attempt is still alive it cannot know.
Deliver(e) ==
  /\ waiting > 0
  /\ ex[e].pc = "idle"
  /\ waiting' = waiting - 1
  /\ held' = held \cup {e}
  /\ Goto(e, "loadRun")
  /\ UNCHANGED <<run, steps, msgs, calls, requests, faults>>

\* A failed attempt is retried and a stalled one, dead or merely slow, is delivered again.
Redeliver(e) ==
  /\ e \in held
  /\ ex[e].pc # "idle"
  /\ waiting' = waiting + 1
  /\ held' = held \ {e}
  /\ UNCHANGED <<run, steps, msgs, calls, requests, ex, faults>>

\* loadContext reads the row, and the steps with a second statement.
LoadRun(e) ==
  /\ ex[e].pc = "loadRun"
  /\ Become(e, [ex[e] EXCEPT !.pc = "loadSteps", !.seen = run.status])
  /\ UNCHANGED <<run, steps, msgs, calls, waiting, held, requests, faults>>

\* An input stored as a JSON string has no text: the attempt throws before the claim.
LoadSteps(e) ==
  /\ ex[e].pc = "loadSteps"
  /\ \/ /\ InputReadable
        /\ LET resume == Resumes(ex[e].seen, steps)
           IN  Become(e, [Idle EXCEPT !.pc = "claim", !.resume = resume,
                                         !.seq = IF resume THEN nextSequenceNo(steps) ELSE 1])
     \/ ~InputReadable /\ Stop(e, "done")
  /\ UNCHANGED <<run, steps, msgs, calls, waiting, held, requests, faults>>

\* claimRunForExecution: a refused delivery completes quietly.
Claim(e) ==
  /\ ex[e].pc = "claim"
  /\ RowFree
  /\ \/ Claimable /\ run' = Running /\ Goto(e, "begin") /\ UNCHANGED held
     \/ ~Claimable /\ Stop(e, "done") /\ held' = held \ {e} /\ UNCHANGED run
  /\ UNCHANGED <<steps, msgs, calls, waiting, requests, faults>>

MarkRunRunning(e) ==
  /\ ex[e].pc = "begin"
  /\ ex[e].abort = "none"
  /\ RowFree
  /\ \/ Runnable /\ run' = Running /\ Goto(e, "lease")
     \/ ~Runnable /\ Fail(e, "cancelled") /\ UNCHANGED run
  /\ UNCHANGED <<steps, msgs, calls, waiting, held, requests, faults>>

\* Mutant of FirstLease: only runs that came through the queue ask for approval.
FirstLeaseGatesQueue(e) ==
  /\ ex[e].pc = "lease"
  /\ ex[e].abort = "none"
  /\ RowFree
  /\ \/ /\ Renewable
        /\ run' = [run EXCEPT !.lease = "live"]
        /\ Goto(e, IF ~ex[e].resume /\ NeedsApproval /\ ex[e].via # "sync"
                   THEN "gate" ELSE "tool")
     \/ ~Renewable /\ Fail(e, "cancelled") /\ UNCHANGED run
  /\ UNCHANGED <<steps, msgs, calls, waiting, held, requests, faults>>

\* The first maintainRunLease; only a fresh run consults the approval gate.
FirstLease(e) ==
  /\ ex[e].pc = "lease"
  /\ ex[e].abort = "none"
  /\ RowFree
  /\ \/ /\ Renewable
        /\ run' = [run EXCEPT !.lease = "live"]
        /\ Goto(e, IF ~ex[e].resume /\ NeedsApproval THEN "gate" ELSE "tool")
     \/ ~Renewable /\ Fail(e, "cancelled") /\ UNCHANGED run
  /\ UNCHANGED <<steps, msgs, calls, waiting, held, requests, faults>>

AddApprovalStep(e) ==
  /\ ex[e].pc = "gate"
  /\ \/ /\ Insert(ex[e].seq, "approval", "running")
        /\ Become(e, [ex[e] EXCEPT !.pc = "pause", !.seq = @ + 1])
     \/ NumberTaken(e)
  /\ UNCHANGED <<run, msgs, calls, waiting, held, requests, faults>>

MarkRunWaitingInput(e) ==
  /\ ex[e].pc = "pause"
  /\ RowFree
  /\ \/ Renewable /\ run' = Ended("waiting_input") /\ Goto(e, "pauseEvent")
     \/ ~Renewable /\ Fail(e, "cancelled") /\ UNCHANGED run
  /\ UNCHANGED <<steps, msgs, calls, waiting, held, requests, faults>>

\* The event approval.required takes its number under a lock the approver does not take.
AddApprovalEvent(e) ==
  /\ ex[e].pc = "pauseEvent"
  /\ RowFree
  /\ Become(e, [ex[e] EXCEPT !.pc = "record", !.result = "waiting_input"])
  /\ UNCHANGED <<run, steps, msgs, calls, waiting, held, requests, faults>>

(***************************************************************************)
(* Both insert event max + 1: the unique (run_id, sequence_no) of the      *)
(* events lets one of them succeed, and the other statement fails.         *)
(***************************************************************************)
EventCollision(e, a) ==
  /\ ex[e].pc = "pauseEvent"
  /\ approver[a].pc = "tx"
  /\ \/ Fail(e, "failed") /\ UNCHANGED approver
     \/ approver' = [approver EXCEPT ![a].pc = "done"] /\ UNCHANGED ex
  /\ UNCHANGED <<run, steps, msgs, calls, waiting, held, post, canceller, poller, faults>>

\* A tool that contributes nothing (no result, no match) leaves no step.
UseTool(e) ==
  /\ ex[e].pc = "tool"
  /\ ex[e].at < ModelCall
  /\ \/ /\ Tools[ex[e].at] = "external"
        /\ ex[e].abort = "none"
        /\ calls' = [calls EXCEPT ![ex[e].at] = @ + 1]
        /\ Goto(e, "toolStep")
     \/ /\ Tools[ex[e].at] = "context"
        /\ \/ Goto(e, "toolStep")
           \/ Become(e, [ex[e] EXCEPT !.at = @ + 1])
        /\ UNCHANGED calls
  /\ UNCHANGED <<run, steps, msgs, waiting, held, requests, faults>>

AddToolStep(e) ==
  /\ ex[e].pc = "toolStep"
  /\ \/ /\ Insert(ex[e].seq, "tool", "completed")
        /\ Become(e, [ex[e] EXCEPT !.pc = "tool", !.seq = @ + 1, !.at = @ + 1])
     \/ NumberTaken(e)
  /\ UNCHANGED <<run, msgs, calls, waiting, held, requests, faults>>

AddModelStep(e) ==
  /\ ex[e].pc = "tool"
  /\ ex[e].at = ModelCall
  /\ \/ /\ Insert(ex[e].seq, "llm", "running")
        /\ Become(e, [ex[e] EXCEPT !.pc = "model", !.llm = ex[e].seq, !.seq = @ + 1])
     \/ NumberTaken(e)
  /\ UNCHANGED <<run, msgs, calls, waiting, held, requests, faults>>

\* The provider account or the model may have gone since the run was created.
CallModel(e) ==
  /\ ex[e].pc = "model"
  /\ \/ Fail(e, "failed") /\ UNCHANGED calls
     \/ Goto(e, "stream") /\ calls' = [calls EXCEPT ![ModelCall] = @ + 1]
  /\ UNCHANGED <<run, steps, msgs, waiting, held, requests, faults>>

StreamEnds(e) ==
  /\ ex[e].pc = "stream"
  /\ ex[e].abort = "none"
  /\ Goto(e, "complete")
  /\ UNCHANGED <<run, steps, msgs, calls, waiting, held, requests, faults>>

\* A provider words its own errors and an abort, so any failure status can come of it.
StreamFails(e) ==
  /\ ex[e].pc = "stream"
  /\ \E status \in FailureStatus : Fail(e, status)
  /\ UNCHANGED <<run, steps, msgs, calls, waiting, held, requests, faults>>

\* Mutant of MarkRunCompleted: the answer counts even when the row was not updated.
MarkRunCompletedUnfenced(e) ==
  /\ ex[e].pc = "complete"
  /\ RowFree
  /\ run' = IF Renewable THEN Ended("completed") ELSE run
  /\ Goto(e, "finish")
  /\ UNCHANGED <<steps, msgs, calls, waiting, held, requests, faults>>

MarkRunCompleted(e) ==
  /\ ex[e].pc = "complete"
  /\ RowFree
  /\ \/ Renewable /\ run' = Ended("completed") /\ Goto(e, "finish")
     \/ ~Renewable /\ Fail(e, "cancelled") /\ UNCHANGED run
  /\ UNCHANGED <<steps, msgs, calls, waiting, held, requests, faults>>

CompleteStep(e) ==
  /\ ex[e].pc = "finish"
  /\ steps' = [steps EXCEPT ![ex[e].llm].status = "completed"]
  /\ Become(e, [ex[e] EXCEPT !.pc = "record", !.result = "completed"])
  /\ UNCHANGED <<run, msgs, calls, waiting, held, requests, faults>>

FailStep(e) ==
  /\ ex[e].pc = "failStep"
  /\ steps' = [n \in DOMAIN steps |->
                 IF n = ex[e].llm /\ steps[n].status = "running"
                 THEN [steps[n] EXCEPT !.status = IF ex[e].result = "cancelled"
                                                  THEN "cancelled" ELSE "failed"]
                 ELSE steps[n]]
  /\ Goto(e, "failRow")
  /\ UNCHANGED <<run, msgs, calls, waiting, held, requests, faults>>

\* Mutant of MarkRunFailed: the update without its predicate on the status.
MarkAnyRunFailed(e) ==
  /\ ex[e].pc = "failRow"
  /\ RowFree
  /\ run' = Ended(IF run.cancelRequested THEN "cancelled" ELSE ex[e].result)
  /\ Goto(e, "record")
  /\ UNCHANGED <<steps, msgs, calls, waiting, held, requests, faults>>

MarkRunFailed(e) ==
  /\ ex[e].pc = "failRow"
  /\ RowFree
  /\ IF run.status \in {"queued", "preparing", "running"}
     THEN run' = Ended(IF run.cancelRequested THEN "cancelled" ELSE ex[e].result)
     ELSE UNCHANGED run
  /\ Goto(e, "record")
  /\ UNCHANGED <<steps, msgs, calls, waiting, held, requests, faults>>

(***************************************************************************)
(* The outcome goes to the conversation: a synchronous POST inserts it as  *)
(* it is, every other path through recordRunOutcome.  The job is settled   *)
(* unless the execution threw, which is retried.                           *)
(***************************************************************************)
Record(e) ==
  /\ ex[e].pc = "record"
  /\ IF ex[e].via = "sync" THEN msgs' = Append(msgs, ex[e].result)
                           ELSE recordRunOutcome(ex[e].result)
  /\ Stop(e, "done")
  /\ held' = IF ex[e].result \in FailureStatus THEN held ELSE held \ {e}
  /\ UNCHANGED <<run, steps, calls, waiting, requests, faults>>

-----------------------------------------------------------------------------
(* What happens to an executor while it works.                             *)

Beating == {"gate", "pause", "pauseEvent", "tool", "toolStep", "model", "stream",
            "complete", "finish", "failStep", "failRow"}

\* The five-second pulse: it renews the lease or learns that the run is no longer its own.
Heartbeat(e) ==
  /\ ex[e].pc \in Beating
  /\ ex[e].abort = "none"
  /\ RowFree
  /\ \/ Renewable /\ run' = [run EXCEPT !.lease = "live"] /\ UNCHANGED ex
     \/ ~Renewable /\ Become(e, [ex[e] EXCEPT !.abort = "cancelled"]) /\ UNCHANGED run
  /\ UNCHANGED <<steps, msgs, calls, waiting, held, requests, faults>>

\* The cap on a run's duration, or the client of a synchronous request going away.
Abort(e) ==
  /\ ex[e].pc \in {"begin", "lease", "tool", "toolStep", "model", "stream", "complete"}
  /\ ex[e].abort = "none"
  /\ Become(e, [ex[e] EXCEPT !.abort = IF ex[e].via = "worker" THEN "timed_out" ELSE "cancelled"])
  /\ UNCHANGED <<run, steps, msgs, calls, waiting, held, requests, faults>>

\* throwIfAborted, at the points the code checks and inside the calls that take the signal.
ThrowIfAborted(e) ==
  /\ ex[e].pc \in {"begin", "lease", "tool", "toolStep", "model"}
  /\ ex[e].abort # "none"
  /\ Fail(e, ex[e].abort)
  /\ UNCHANGED <<run, steps, msgs, calls, waiting, held, requests, faults>>

Crash(e) ==
  /\ faults < MaxFaults
  /\ ex[e].pc \notin {"idle", "done", "dead"}
  /\ faults' = faults + 1
  /\ Stop(e, "dead")
  /\ UNCHANGED <<run, steps, msgs, calls, waiting, held, requests>>

(***************************************************************************)
(* A database error.  Before the claim the attempt ends; inside executeRun *)
(* its catch block runs; inside that block it replaces the error; after    *)
(* it the outcome is not written, except that POST's own catch, which also *)
(* covers the write of a good outcome, then writes an error instead.       *)
(***************************************************************************)
DatabaseError(e) ==
  /\ faults < MaxFaults
  /\ faults' = faults + 1
  /\ \/ ex[e].pc \in {"loadRun", "loadSteps", "claim"} /\ Stop(e, "done")
     \/ /\ ex[e].pc \in {"begin", "gate", "pause", "pauseEvent", "tool", "toolStep",
                         "model", "complete", "finish"}
        /\ Fail(e, "failed")
     \/ /\ ex[e].pc \in {"failStep", "failRow"}
        /\ Become(e, [ex[e] EXCEPT !.pc = "record", !.result = "failed"])
     \/ /\ ex[e].pc = "record"
        /\ IF ex[e].via \in {"detached", "sync"} /\ ex[e].result \notin FailureStatus
           THEN Become(e, [ex[e] EXCEPT !.result = "failed"])
           ELSE Stop(e, "done")
  /\ UNCHANGED <<run, steps, msgs, calls, waiting, held, requests>>

-----------------------------------------------------------------------------
(* dispatchAgentRun: to the queue, or into this process when the enqueue   *)
(* failed or timed out.  A timed-out enqueue may still land the job.       *)

Enqueued == waiting' = waiting + 1 /\ UNCHANGED ex

ExecuteDetached(via, resume, seq) ==
  /\ \E e \in Executors :
       /\ ex[e].pc = "idle"
       /\ Become(e, [Idle EXCEPT !.pc = "claim", !.via = via,
                                 !.resume = resume, !.seq = seq])
  /\ waiting' \in {waiting, waiting + 1}

DispatchNew ==
  /\ post = "dispatch"
  /\ Enqueued \/ ExecuteDetached("detached", FALSE, 1)
  /\ post' = "done"
  /\ UNCHANGED <<run, steps, msgs, calls, held, canceller, poller, approver, faults>>

PostCrash ==
  /\ faults < MaxFaults
  /\ post = "dispatch"
  /\ post' = "done"
  /\ faults' = faults + 1
  /\ UNCHANGED <<run, steps, msgs, calls, waiting, held, ex, canceller, poller, approver>>

-----------------------------------------------------------------------------
(* DELETE /api/agents/{agentId}/runs/{runId}                               *)

\* Mutant of CancelRun: an update without the predicate on the status.
CancelAnyRun(c) ==
  /\ canceller[c] = "idle"
  /\ RowFree
  /\ run' = [Ended("cancelled") EXCEPT !.cancelRequested = TRUE]
  /\ canceller' = [canceller EXCEPT ![c] = "steps"]
  /\ UNCHANGED <<steps, msgs, calls, waiting, held, post, ex, poller, approver, faults>>

CancelRun(c) ==
  /\ canceller[c] = "idle"
  /\ RowFree
  /\ IF run.status \in {"queued", "preparing", "running", "waiting_input"}
     THEN /\ run' = [Ended("cancelled") EXCEPT !.cancelRequested = TRUE]
          /\ canceller' = [canceller EXCEPT ![c] = "steps"]
     ELSE canceller' = [canceller EXCEPT ![c] = "read"] /\ UNCHANGED run
  /\ UNCHANGED <<steps, msgs, calls, waiting, held, post, ex, poller, approver, faults>>

CancelSteps(c) ==
  /\ canceller[c] = "steps"
  /\ RowFree
  /\ SetRunningSteps("cancelled")
  /\ canceller' = [canceller EXCEPT ![c] = "record"]
  /\ UNCHANGED <<run, msgs, calls, waiting, held, post, ex, poller, approver, faults>>

\* A repeated DELETE of a cancelled run repairs a missing conversation message.
CancelRead(c) ==
  /\ canceller[c] = "read"
  /\ canceller' = [canceller EXCEPT ![c] = IF run.status = "cancelled" THEN "record" ELSE "done"]
  /\ UNCHANGED <<run, steps, msgs, calls, waiting, held, post, ex, poller, approver, faults>>

\* Mutant of CancelRecord: the cancellation is not written into the conversation.
CancelSilently(c) ==
  /\ canceller[c] = "record"
  /\ canceller' = [canceller EXCEPT ![c] = "done"]
  /\ UNCHANGED <<run, steps, msgs, calls, waiting, held, post, ex, poller, approver, faults>>

CancelRecord(c) ==
  /\ canceller[c] = "record"
  /\ recordRunOutcome("cancelled")
  /\ canceller' = [canceller EXCEPT ![c] = "done"]
  /\ UNCHANGED <<run, steps, calls, waiting, held, post, ex, poller, approver, faults>>

CancelCrash(c) ==
  /\ faults < MaxFaults
  /\ canceller[c] \in {"steps", "read", "record"}
  /\ canceller' = [canceller EXCEPT ![c] = "done"]
  /\ faults' = faults + 1
  /\ UNCHANGED <<run, steps, msgs, calls, waiting, held, post, ex, poller, approver>>

-----------------------------------------------------------------------------
(* GET /api/agents/{agentId}/runs/{runId}: reconciles a run whose executor *)
(* is gone.                                                                *)

Reap(g) ==
  /\ poller[g] = "idle"
  /\ RowFree
  /\ Reapable
  /\ run' = Ended("timed_out")
  /\ poller' = [poller EXCEPT ![g] = "steps"]
  /\ UNCHANGED <<steps, msgs, calls, waiting, held, post, ex, canceller, approver, faults>>

ReapSteps(g) ==
  /\ poller[g] = "steps"
  /\ RowFree
  /\ SetRunningSteps("failed")
  /\ poller' = [poller EXCEPT ![g] = "record"]
  /\ UNCHANGED <<run, msgs, calls, waiting, held, post, ex, canceller, approver, faults>>

ReapRecord(g) ==
  /\ poller[g] = "record"
  /\ recordRunOutcome("timed_out")
  /\ poller' = [poller EXCEPT ![g] = "idle"]
  /\ UNCHANGED <<run, steps, calls, waiting, held, post, ex, canceller, approver, faults>>

PollCrash(g) ==
  /\ faults < MaxFaults
  /\ poller[g] # "idle"
  /\ poller' = [poller EXCEPT ![g] = "idle"]
  /\ faults' = faults + 1
  /\ UNCHANGED <<run, steps, msgs, calls, waiting, held, post, ex, canceller, approver>>

-----------------------------------------------------------------------------
(* PATCH /api/approvals/{approvalId}                                       *)

(***************************************************************************)
(* Locks the step and the run; an approval that is no longer running is a  *)
(* 409.  PostgreSQL does not lock the nullable side of a left join, which  *)
(* the bare "for update" asks for: it refuses the statement and locks      *)
(* nothing, the transaction rolls back and the request fails.              *)
(***************************************************************************)
DecideBegin(a) ==
  /\ approver[a].pc = "idle"
  /\ \E n \in Approvals(steps) :
       \/ /\ LockAccepted
          /\ RowFree
          /\ approver' = [approver EXCEPT
               ![a].pc = IF steps[n].status = "running" THEN "tx" ELSE "done",
               ![a].step = n]
       \/ /\ ~LockAccepted
          /\ approver' = [approver EXCEPT ![a].pc = "done", ![a].step = n]
  /\ UNCHANGED <<run, steps, msgs, calls, waiting, held, post, ex, canceller, poller, faults>>

\* Mutants of DecideCommit: the decision itself as the run's status; a number computed
\* as if the rejection's message step were already written.
DecideCommitRawStatus(a) ==
  /\ approver[a].pc = "tx"
  /\ \E decision \in ApprovalDecision :
       /\ steps' = applyApprovalDecision(steps, approver[a].step, decision)
       /\ run' = [run EXCEPT !.status = IF decision = "approved" THEN "queued" ELSE decision]
       /\ approver' = [approver EXCEPT
            ![a].pc = IF decision = "approved" THEN "dispatch" ELSE "rejectStep",
            ![a].next = nextSequenceNo(steps)]
  /\ UNCHANGED <<msgs, calls, waiting, held, post, ex, canceller, poller, faults>>

DecideCommitSkipsNumber(a) ==
  /\ approver[a].pc = "tx"
  /\ \E decision \in ApprovalDecision :
       /\ steps' = applyApprovalDecision(steps, approver[a].step, decision)
       /\ run' = [run EXCEPT !.status = IF decision = "approved" THEN "queued" ELSE "cancelled"]
       /\ approver' = [approver EXCEPT
            ![a].pc = IF decision = "approved" THEN "dispatch" ELSE "rejectStep",
            ![a].next = nextSequenceNo(steps) + 1]
  /\ UNCHANGED <<msgs, calls, waiting, held, post, ex, canceller, poller, faults>>

\* Reached only under the lock: the row goes back to 'queued', or to 'cancelled',
\* whatever its status is by now.
DecideCommit(a) ==
  /\ approver[a].pc = "tx"
  /\ \E decision \in ApprovalDecision :
       /\ steps' = applyApprovalDecision(steps, approver[a].step, decision)
       /\ run' = [run EXCEPT !.status = IF decision = "approved" THEN "queued" ELSE "cancelled"]
       /\ approver' = [approver EXCEPT
            ![a].pc = IF decision = "approved" THEN "dispatch" ELSE "rejectStep",
            ![a].next = nextSequenceNo(steps)]
  /\ UNCHANGED <<msgs, calls, waiting, held, post, ex, canceller, poller, faults>>

DispatchResume(a) ==
  /\ approver[a].pc = "dispatch"
  /\ Enqueued \/ ExecuteDetached("resumer", TRUE, approver[a].next)
  /\ approver' = [approver EXCEPT ![a].pc = "done"]
  /\ UNCHANGED <<run, steps, msgs, calls, held, post, canceller, poller, faults>>

RejectStep(a) ==
  /\ approver[a].pc = "rejectStep"
  /\ \/ /\ Insert(approver[a].next, "message", "completed")
        /\ approver' = [approver EXCEPT ![a].pc = "rejectRecord"]
     \/ /\ RowFree
        /\ approver[a].next \in DOMAIN steps
        /\ approver' = [approver EXCEPT ![a].pc = "done"]
        /\ UNCHANGED steps
  /\ UNCHANGED <<run, msgs, calls, waiting, held, post, ex, canceller, poller, faults>>

RejectRecord(a) ==
  /\ approver[a].pc = "rejectRecord"
  /\ recordRunOutcome("cancelled")
  /\ approver' = [approver EXCEPT ![a].pc = "done"]
  /\ UNCHANGED <<run, steps, calls, waiting, held, post, ex, canceller, poller, faults>>

\* The web process dies: an open transaction rolls back, the rest is not done.
ApproverCrash(a) ==
  /\ faults < MaxFaults
  /\ approver[a].pc \notin {"idle", "done"}
  /\ approver' = [approver EXCEPT ![a].pc = "done"]
  /\ faults' = faults + 1
  /\ UNCHANGED <<run, steps, msgs, calls, waiting, held, post, ex, canceller, poller>>

-----------------------------------------------------------------------------
\* Thirty seconds pass without a pulse.
LeaseExpires ==
  /\ run.lease = "live"
  /\ run' = [run EXCEPT !.lease = "expired"]
  /\ UNCHANGED <<steps, msgs, calls, waiting, held, requests, ex, faults>>

\* What an executor does when nothing goes wrong around it.
Execute(e) ==
  \/ LoadRun(e) \/ LoadSteps(e) \/ Claim(e) \/ MarkRunRunning(e) \/ FirstLease(e)
  \/ AddApprovalStep(e) \/ MarkRunWaitingInput(e) \/ AddApprovalEvent(e)
  \/ UseTool(e) \/ AddToolStep(e) \/ AddModelStep(e) \/ CallModel(e)
  \/ StreamEnds(e) \/ StreamFails(e) \/ MarkRunCompleted(e) \/ CompleteStep(e)
  \/ ThrowIfAborted(e) \/ FailStep(e) \/ MarkRunFailed(e) \/ Record(e)

Cancel(c) == CancelRun(c) \/ CancelSteps(c) \/ CancelRead(c) \/ CancelRecord(c)

Poll(g) == Reap(g) \/ ReapSteps(g) \/ ReapRecord(g)

\* Everything of a decision after the client has made it.
FinishDecision(a) == DecideCommit(a) \/ DispatchResume(a) \/ RejectStep(a) \/ RejectRecord(a)

Next ==
  \/ DispatchNew \/ PostCrash \/ LeaseExpires
  \/ \E e \in Executors :
       \/ Execute(e) \/ Deliver(e) \/ Redeliver(e)
       \/ Heartbeat(e) \/ Abort(e) \/ Crash(e) \/ DatabaseError(e)
  \/ \E c \in Cancellers : Cancel(c) \/ CancelCrash(c)
  \/ \E g \in Pollers : Poll(g) \/ PollCrash(g)
  \/ \E a \in Approvers :
       \/ DecideBegin(a) \/ FinishDecision(a) \/ ApproverCrash(a)
       \/ \E e \in Executors : EventCollision(e, a)

Spec == Init /\ [][Next]_vars

-----------------------------------------------------------------------------
(* Properties.                                                             *)

\* Steps are numbered 1, 2, 3, ... with no gap, by whoever inserts them: a resumed
\* execution and the rejection continue what the paused one wrote.
StepsDense == DOMAIN steps = 1..Cardinality(DOMAIN steps)

\* No external network action runs unless its run was approved, and none runs in a
\* run that was rejected (execute.ts:206-230, approval-resume.ts:100-105).
ActionsGated ==
  (\E i \in DOMAIN Tools : Tools[i] = "external" /\ calls[i] > 0) =>
    /\ \E n \in Approvals(steps) : steps[n].decision = "approved"
    /\ \A n \in Approvals(steps) : steps[n].decision # "rejected"

\* Whatever the queue redelivers and however often a run is dispatched, each external
\* action and the paid model call happen at most once (deps.ts:27-44).
CallsAtMostOnce == \A i \in DOMAIN calls : calls[i] <= 1

\* Once a user has asked for cancellation nothing starts, pauses or completes the run
\* again (the fences of deps.ts: "a late completion cannot overwrite this status").
CancelIsFenced ==
  run.cancelRequested => run.status \notin {"running", "waiting_input", "completed"}

OneAnswer(answers) ==
  \A i, j \in DOMAIN answers :
    answers[i] \in TERMINAL_STATUSES /\ answers[j] \in TERMINAL_STATUSES => i = j

\* Two writers converge on the end of a queued run - executor, reaper, cancellation,
\* rejection - and its conversation still gets one terminal answer (deps.ts:333-379).
OneTerminalAnswer == Async => OneAnswer(msgs)

\* An answer presented as complete belongs to a run that did complete.
CompletedAnswerIsTrue == "completed" \in Range(msgs) => run.status = "completed"

\* A completed run stays completed: no decision, cancellation or reaper moves it.
CompletedIsFinal == [][run.status = "completed" => run'.status = "completed"]_vars

\* A status that means the run is finished "can never move again": the retention job
\* deletes terminal runs on the strength of it (cleanup-deps.ts:16-18, 126-128).  Only a
\* decision under the lock could move one, since its update is by id alone.
TerminalIsFinal ==
  [][~LockAccepted /\ run.status \in TERMINAL_STATUSES => run'.status = run.status]_vars

(***************************************************************************)
(* Fairness: a process that lives goes on, the queue delivers what it      *)
(* owes, time passes, and a client repeats its GET.  Nothing makes a user  *)
(* decide or cancel, and nothing is assumed of a crashed process.          *)
(***************************************************************************)
Fairness ==
  /\ WF_vars(DispatchNew)
  /\ WF_vars(LeaseExpires)
  /\ \A e \in Executors : WF_vars(Execute(e)) /\ WF_vars(Deliver(e))
  /\ \A c \in Cancellers : WF_vars(Cancel(c) /\ canceller[c] # "idle")
  /\ \A g \in Pollers : WF_vars(Poll(g))
  /\ \A a \in Approvers : WF_vars(FinishDecision(a))

FairSpec == Spec /\ Fairness

\* A run whose executor has gone does not stay 'running': the lease lapses and the next
\* GET takes the run over (runs/[runId]/route.ts:44-71).
StrandedIsRecovered == (run.status = "running" /\ run.started) ~> (run.status # "running")

\* A run that ended is answered in its conversation, whichever process ended it, unless
\* a process died or a write failed on the way.
EndedIsAnswered ==
  (run.status \in TERMINAL_STATUSES)
    ~> (Range(msgs) \cap TERMINAL_STATUSES # {} \/ faults > 0)

-----------------------------------------------------------------------------
(* What comments of the repository say of a run, and the code does not keep. *)

\* deps.ts:367-369 and 342-344: every caller, the inline one included, leaves "exactly
\* one answer" in the conversation.
ExactlyOneAnswer == OneAnswer(msgs)

\* docs/release-readiness.md:24 and docs/local-run.md:306: an authorized user's decision
\* resolves the pending approval, when nothing fails on the way.
DecisionsResolve ==
  \A a \in Approvers :
    approver[a].pc = "done" /\ faults = 0 => steps[approver[a].step].status # "running"
=============================================================================
