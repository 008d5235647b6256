--------------------------- MODULE AgentRunProofs ---------------------------
(***************************************************************************)
(* The inductive invariant of AgentRun and the theorems that rest on it,   *)
(* for every set of executors and requests and every list of tools.        *)
(***************************************************************************)
EXTENDS AgentRun, FiniteSetTheorems, TLAPS

\* The steps are a gapless prefix of the numbers.
Numbered == \E k \in Nat : DOMAIN steps = 1..k

\* n continues the numbering: it is 1, or the number after a step that exists.
Continues(n) == n \in Nat \ {0} /\ (n = 1 \/ n - 1 \in DOMAIN steps)

\* Whoever is about to insert a step holds a number that leaves no gap.
NumbersContinue ==
  /\ \A e \in Executors : Continues(ex[e].seq)
  /\ \A a \in Approvers : approver[a].pc = "rejectStep" \/ approver[a].pc = "dispatch"
                            => Continues(approver[a].next)

\* An executor that is about to write an outcome has one.
ResultKnown ==
  \A e \in Executors :
    /\ ex[e].pc \in {"failStep", "failRow"} => ex[e].result \in FailureStatus
    /\ ex[e].pc = "record" => ex[e].result \in RunStatus

StepInv == TypeOK /\ Numbered /\ NumbersContinue /\ ResultKnown

Approved == \E n \in Approvals(steps) : steps[n].decision = "approved"

\* An executor between its claim and its end.
Active(e) == ex[e].pc \notin {"idle", "loadRun", "loadSteps", "claim", "done", "dead"}

\* Past the gate, on the way to the external actions and the model.
Working(e) == ex[e].pc \in {"tool", "toolStep", "model", "stream", "complete", "finish"}

\* Only the first step can be an approval, and a pending one carries no decision.
OneApproval ==
  \A n \in Approvals(steps) :
    n = 1 /\ (steps[n].status = "running" => steps[n].decision = "none")

\* One decision at a time, about an approval that is pending until it commits.
DecisionIsExclusive ==
  /\ \A a, b \in Approvers : approver[a].pc = "tx" /\ approver[b].pc = "tx" => a = b
  /\ \A a \in Approvers : approver[a].pc = "tx" =>
       approver[a].step \in Approvals(steps) /\ steps[approver[a].step].status = "running"

\* A run with an approval step is claimable only once that step is approved.
QueuedMeansApproved ==
  /\ run.status = "queued" /\ Approvals(steps) # {} => Approved
  /\ run.status # "preparing"

\* Only a run that needs an approval asks for one, and it completes with it or not at all.
CompletedMeansApproved ==
  /\ Approvals(steps) # {} => NeedsApproval
  /\ run.status = "completed" /\ NeedsApproval => Approved

DispatchMeansApproval ==
  \A a \in Approvers : approver[a].pc = "dispatch" => Approvals(steps) # {}

ExternalCallsApproved ==
  \A i \in DOMAIN Tools : Tools[i] = "external" /\ calls[i] > 0 => Approved

\* What an executor knows of its run: its model step is a model step, so finishing that
\* touches no approval; if it acts in a queued run, or resumed one, that is approved; and
\* it comes to the external actions through the gate, or as a resumption.
Fits(e) ==
  /\ ex[e].llm = 0 \/ (ex[e].llm \in DOMAIN steps /\ steps[ex[e].llm].type = "llm")
  /\ Active(e) /\ run.status = "queued" => Approved
  /\ ex[e].resume => Approvals(steps) # {}
  /\ ex[e].resume /\ Active(e) => Approved
  /\ ex[e].pc \in {"claim", "begin", "lease", "gate"} /\ ~ex[e].resume => ex[e].seq = 1
  /\ ex[e].pc = "gate" => ~ex[e].resume /\ NeedsApproval
  /\ NeedsApproval /\ Working(e) => ex[e].resume

GateInv == /\ OneApproval /\ DecisionIsExclusive /\ QueuedMeansApproved
           /\ CompletedMeansApproved /\ DispatchMeansApproval /\ ExternalCallsApproved
           /\ \A e \in Executors : Fits(e)

-----------------------------------------------------------------------------
\* The number after a gapless prefix continues it.
LEMMA NextNumber ==
  ASSUME NEW s, NEW k \in Nat, DOMAIN s = 1..k
  PROVE  nextSequenceNo(s) = k + 1
<1>1. CASE k = 0
  BY <1>1 DEF nextSequenceNo
<1>2. CASE k > 0
  <2>1. k \in 1..k /\ \A y \in 1..k : k >= y
    BY <1>2
  <2>2. \A x \in 1..k : (\A y \in 1..k : x >= y) => x = k
    BY <1>2
  <2>3. Max(1..k) = k
    BY <2>1, <2>2 DEF Max
  <2> QED
    BY <1>2, <2>3 DEF nextSequenceNo
<1> QED
  BY <1>1, <1>2

-----------------------------------------------------------------------------
(* What the helpers of the actions do to the executors, the row, the steps. *)

LEMMA SetFields ==
  ASSUME NEW x \in Executor
  PROVE  /\ \A p \in ExecutorPC : [x EXCEPT !.pc = p] \in Executor
         /\ \A s \in FailureStatus \cup {"none", "waiting_input", "completed"} :
              [x EXCEPT !.result = s] \in Executor
         /\ \A n \in Nat : [x EXCEPT !.seq = n] \in Executor
         /\ \A n \in Nat : [x EXCEPT !.at = n] \in Executor
         /\ \A n \in Nat : [x EXCEPT !.llm = n] \in Executor
         /\ \A b \in BOOLEAN : [x EXCEPT !.resume = b] \in Executor
         /\ \A s \in RunStatus : [x EXCEPT !.seen = s] \in Executor
         /\ \A s \in {"worker", "detached", "resumer", "sync"} :
              [x EXCEPT !.via = s] \in Executor
         /\ \A s \in {"none", "cancelled", "timed_out"} : [x EXCEPT !.abort = s] \in Executor
BY DEF Executor

\* What loadRun leaves.
LEMMA LoadedExecutor ==
  ASSUME NEW x \in Executor, NEW s \in RunStatus
  PROVE  [x EXCEPT !.pc = "loadSteps", !.seen = s] \in Executor
BY DEF Executor, ExecutorPC

LEMMA IdleExecutor == Idle \in Executor
BY DEF Idle, Executor, ExecutorPC, RunStatus, FailureStatus

LEMMA BecomeEx ==
  ASSUME ex \in [Executors -> Executor], NEW e \in Executors, NEW x \in Executor, Become(e, x)
  PROVE  /\ ex' \in [Executors -> Executor]
         /\ ex'[e] = x
         /\ \A f \in Executors : f # e => ex'[f] = ex[f]
BY DEF Become

LEMMA GotoEx ==
  ASSUME ex \in [Executors -> Executor], NEW e \in Executors, NEW p \in ExecutorPC, Goto(e, p)
  PROVE  /\ ex' \in [Executors -> Executor]
         /\ \A f \in Executors : f # e => ex'[f] = ex[f]
         /\ \A f \in Executors : /\ ex'[f].seq = ex[f].seq
                                 /\ ex'[f].llm = ex[f].llm
                                 /\ ex'[f].resume = ex[f].resume
                                 /\ ex'[f].result = ex[f].result
                                 /\ ex'[f].via = ex[f].via
                                 /\ ex'[f].at = ex[f].at
         /\ ex'[e].pc = p
<1> DEFINE x == [ex[e] EXCEPT !.pc = p]
<1>1. x \in Executor
  BY SetFields
<1>2. /\ x.pc = p /\ x.seq = ex[e].seq /\ x.llm = ex[e].llm
      /\ x.resume = ex[e].resume /\ x.result = ex[e].result
      /\ x.via = ex[e].via /\ x.at = ex[e].at
  BY DEF Executor
<1>3. Become(e, x)
  BY DEF Goto
<1>4. /\ ex' \in [Executors -> Executor] /\ ex'[e] = x
      /\ \A f \in Executors : f # e => ex'[f] = ex[f]
  BY <1>1, <1>3, BecomeEx
<1> HIDE DEF x
<1> QED
  BY <1>2, <1>4

LEMMA FailEx ==
  ASSUME ex \in [Executors -> Executor], NEW e \in Executors, NEW s \in FailureStatus, Fail(e, s)
  PROVE  /\ ex' \in [Executors -> Executor]
         /\ \A f \in Executors : f # e => ex'[f] = ex[f]
         /\ \A f \in Executors : /\ ex'[f].seq = ex[f].seq
                                 /\ ex'[f].llm = ex[f].llm
                                 /\ ex'[f].resume = ex[f].resume
                                 /\ ex'[f].via = ex[f].via
                                 /\ ex'[f].at = ex[f].at
         /\ ex'[e].pc = "failStep" /\ ex'[e].result = s
<1> DEFINE x == [ex[e] EXCEPT !.pc = "failStep", !.result = s]
<1>1. x \in Executor
  BY SetFields DEF ExecutorPC
<1>2. /\ x.pc = "failStep" /\ x.seq = ex[e].seq /\ x.llm = ex[e].llm
      /\ x.resume = ex[e].resume /\ x.result = s /\ x.via = ex[e].via /\ x.at = ex[e].at
  BY DEF Executor
<1>3. Become(e, x)
  BY DEF Fail
<1>4. /\ ex' \in [Executors -> Executor] /\ ex'[e] = x
      /\ \A f \in Executors : f # e => ex'[f] = ex[f]
  BY <1>1, <1>3, BecomeEx
<1> HIDE DEF x
<1> QED
  BY <1>2, <1>4

LEMMA FinishEx ==
  ASSUME ex \in [Executors -> Executor], NEW e \in Executors,
         NEW s \in FailureStatus \cup {"waiting_input", "completed"},
         Become(e, [ex[e] EXCEPT !.pc = "record", !.result = s])
  PROVE  /\ ex' \in [Executors -> Executor]
         /\ \A f \in Executors : f # e => ex'[f] = ex[f]
         /\ \A f \in Executors : /\ ex'[f].seq = ex[f].seq
                                 /\ ex'[f].llm = ex[f].llm
                                 /\ ex'[f].resume = ex[f].resume
                                 /\ ex'[f].via = ex[f].via
                                 /\ ex'[f].at = ex[f].at
         /\ ex'[e].pc = "record" /\ ex'[e].result = s
<1> DEFINE x == [ex[e] EXCEPT !.pc = "record", !.result = s]
<1>1. x \in Executor
  BY SetFields DEF ExecutorPC
<1>2. /\ x.pc = "record" /\ x.seq = ex[e].seq /\ x.llm = ex[e].llm
      /\ x.resume = ex[e].resume /\ x.result = s /\ x.via = ex[e].via /\ x.at = ex[e].at
  BY DEF Executor
<1>3. Become(e, x)
  OBVIOUS
<1> HIDE DEF x
<1>4. ex'[e] = x
  BY <1>1, <1>3, BecomeEx
<1>5. /\ ex' \in [Executors -> Executor]
      /\ \A f \in Executors : f # e => ex'[f] = ex[f]
  BY <1>1, <1>3, BecomeEx
<1> QED
  BY <1>2, <1>4, <1>5

LEMMA StopEx ==
  ASSUME ex \in [Executors -> Executor], NEW e \in Executors, NEW p \in ExecutorPC, Stop(e, p)
  PROVE  /\ ex' \in [Executors -> Executor]
         /\ \A f \in Executors : f # e => ex'[f] = ex[f]
         /\ ex'[e].seq = 1 /\ ex'[e].llm = 0 /\ ex'[e].resume = FALSE /\ ex'[e].pc = p
         /\ ex'[e].via = "worker" /\ ex'[e].at = 1
<1> DEFINE x == [Idle EXCEPT !.pc = p]
<1>1. x \in Executor
  BY SetFields, IdleExecutor
<1>2. x.pc = p /\ x.seq = 1 /\ x.llm = 0 /\ x.resume = FALSE /\ x.via = "worker" /\ x.at = 1
  BY DEF Idle
<1>3. Become(e, x)
  BY DEF Stop
<1>4. /\ ex' \in [Executors -> Executor] /\ ex'[e] = x
      /\ \A f \in Executors : f # e => ex'[f] = ex[f]
  BY <1>1, <1>3, BecomeEx
<1> HIDE DEF x
<1> QED
  BY <1>2, <1>4

\* The executor after the insert of a step.
LEMMA NextStepEx ==
  ASSUME ex \in [Executors -> Executor], NEW e \in Executors,
         NEW p \in {"pause", "tool", "model"},
         \/ p = "pause" /\ Become(e, [ex[e] EXCEPT !.pc = "pause", !.seq = @ + 1])
         \/ p = "tool" /\ Become(e, [ex[e] EXCEPT !.pc = "tool", !.seq = @ + 1, !.at = @ + 1])
         \/ p = "model"
            /\ Become(e, [ex[e] EXCEPT !.pc = "model", !.llm = ex[e].seq, !.seq = @ + 1])
  PROVE  /\ ex' \in [Executors -> Executor]
         /\ \A f \in Executors : f # e => ex'[f] = ex[f]
         /\ ex'[e].pc = p
         /\ ex'[e].seq = ex[e].seq + 1
         /\ ex'[e].llm = IF p = "model" THEN ex[e].seq ELSE ex[e].llm
         /\ ex'[e].resume = ex[e].resume
         /\ ex'[e].via = ex[e].via
         /\ ex'[e].at = IF p = "tool" THEN ex[e].at + 1 ELSE ex[e].at
<1>0. ex[e] \in Executor
  OBVIOUS
<1>1. ex[e].seq \in Nat /\ ex[e].seq + 1 \in Nat /\ ex[e].at + 1 \in Nat
  BY <1>0 DEF Executor
<1>2. {"pause", "tool", "model"} \subseteq ExecutorPC
  BY DEF ExecutorPC
<1>3. CASE p = "pause"
  <2> DEFINE x == [ex[e] EXCEPT !.pc = "pause", !.seq = ex[e].seq + 1]
  <2>1. x \in Executor
    BY <1>0, <1>1, <1>2, SetFields
  <2>2. /\ x.pc = "pause" /\ x.seq = ex[e].seq + 1 /\ x.llm = ex[e].llm
        /\ x.resume = ex[e].resume /\ x.via = ex[e].via /\ x.at = ex[e].at
    BY <1>0 DEF Executor
  <2>3. Become(e, x)
    BY <1>0, <1>3 DEF Executor
  <2> QED
    BY <1>3, <2>1, <2>2, <2>3, BecomeEx
<1>4. CASE p = "tool"
  <2> DEFINE x == [ex[e] EXCEPT !.pc = "tool", !.seq = ex[e].seq + 1, !.at = ex[e].at + 1]
  <2>1. x \in Executor
    BY <1>0, <1>1, <1>2, SetFields
  <2>2. /\ x.pc = "tool" /\ x.seq = ex[e].seq + 1 /\ x.llm = ex[e].llm
        /\ x.resume = ex[e].resume /\ x.via = ex[e].via /\ x.at = ex[e].at + 1
    BY <1>0 DEF Executor
  <2>3. Become(e, x)
    BY <1>0, <1>4 DEF Executor
  <2> QED
    BY <1>4, <2>1, <2>2, <2>3, BecomeEx
<1>5. CASE p = "model"
  <2> DEFINE x == [ex[e] EXCEPT !.pc = "model", !.llm = ex[e].seq, !.seq = ex[e].seq + 1]
  <2>1. x \in Executor
    BY <1>0, <1>1, <1>2, SetFields
  <2>2. /\ x.pc = "model" /\ x.seq = ex[e].seq + 1 /\ x.llm = ex[e].seq
        /\ x.resume = ex[e].resume /\ x.via = ex[e].via /\ x.at = ex[e].at
    BY <1>0 DEF Executor
  <2>3. Become(e, x)
    BY <1>0, <1>5 DEF Executor
  <2> QED
    BY <1>5, <2>1, <2>2, <2>3, BecomeEx
<1> QED
  BY <1>3, <1>4, <1>5

LEMMA RowTypes ==
  ASSUME run \in RunRow
  PROVE  /\ Running \in RunRow
         /\ \A s \in RunStatus : Ended(s) \in RunRow
         /\ \A l \in {"none", "live", "expired"} : [run EXCEPT !.lease = l] \in RunRow
         /\ \A s \in RunStatus : [run EXCEPT !.status = s] \in RunRow
         /\ \A s \in RunStatus : [Ended(s) EXCEPT !.cancelRequested = TRUE] \in RunRow
BY DEF Running, Ended, RunRow, RunStatus

LEMMA RowStatus ==
  ASSUME run \in RunRow
  PROVE  /\ run.status \in RunStatus
         /\ Running.status = "running"
         /\ \A s \in RunStatus : Ended(s).status = s
         /\ \A s \in RunStatus : [Ended(s) EXCEPT !.cancelRequested = TRUE].status = s
         /\ \A l : [run EXCEPT !.lease = l].status = run.status
         /\ \A s \in RunStatus : [run EXCEPT !.status = s].status = s
BY DEF Running, Ended, RunRow
-----------------------------------------------------------------------------
(* Steps. *)

StepsOK == /\ DOMAIN steps \subseteq Nat \ {0}
           /\ steps \in [DOMAIN steps -> Step]

LEMMA ContinuesOne == Continues(1)
BY DEF Continues

LEMMA ContinuesNumbered ==
  ASSUME NEW k \in Nat, DOMAIN steps = 1..k, NEW n, Continues(n), n \notin DOMAIN steps
  PROVE  n = k + 1
BY DEF Continues

LEMMA NextContinues ==
  ASSUME Numbered
  PROVE  Continues(nextSequenceNo(steps)) /\ nextSequenceNo(steps) \notin DOMAIN steps
<1>1. PICK k \in Nat : DOMAIN steps = 1..k
  BY DEF Numbered
<1>2. nextSequenceNo(steps) = k + 1
  BY <1>1, NextNumber
<1> QED
  BY <1>1, <1>2 DEF Continues

\* An insert at a number that continues the numbering keeps it gapless.
LEMMA InsertSteps ==
  ASSUME StepsOK, Numbered, NEW n, Continues(n),
         NEW type \in {"approval", "tool", "llm", "message"},
         NEW status \in {"running", "completed"},
         Insert(n, type, status)
  PROVE  /\ StepsOK'
         /\ Numbered'
         /\ n \notin DOMAIN steps
         /\ DOMAIN steps' = DOMAIN steps \cup {n}
         /\ steps'[n] = [type |-> type, status |-> status, decision |-> "none"]
         /\ \A m \in DOMAIN steps : steps'[m] = steps[m]
<1> DEFINE new == [type |-> type, status |-> status, decision |-> "none"]
<1>1. /\ n \notin DOMAIN steps
      /\ steps' = [m \in DOMAIN steps \cup {n} |-> IF m = n THEN new ELSE steps[m]]
  BY DEF Insert
<1>2. new \in Step
  BY DEF Step
<1> HIDE DEF new
<1>3. DOMAIN steps' = DOMAIN steps \cup {n}
  BY <1>1
<1>4. steps'[n] = new /\ \A m \in DOMAIN steps : steps'[m] = steps[m]
  BY <1>1
<1>5. \A m \in DOMAIN steps : steps[m] \in Step
  BY DEF StepsOK
<1>6. steps' \in [DOMAIN steps' -> Step]
  BY <1>1, <1>2, <1>3, <1>5
<1>7. StepsOK'
  BY <1>3, <1>6 DEF StepsOK, Continues
<1>8. PICK k \in Nat : DOMAIN steps = 1..k
  BY DEF Numbered
<1>9. n = k + 1
  BY <1>1, <1>8, ContinuesNumbered
<1>10. DOMAIN steps' = 1..(k + 1)
  BY <1>3, <1>8, <1>9
<1>11. Numbered'
  BY <1>10 DEF Numbered
<1> QED
  BY <1>1, <1>3, <1>4, <1>7, <1>11 DEF new

\* An update of the steps in place keeps their numbers.
LEMMA UpdateSteps ==
  ASSUME StepsOK, Numbered, steps' \in [DOMAIN steps -> Step]
  PROVE  StepsOK' /\ Numbered' /\ DOMAIN steps' = DOMAIN steps
BY DEF StepsOK, Numbered

LEMMA SetStep ==
  ASSUME NEW x \in Step
  PROVE  /\ \A s \in {"running", "completed", "failed", "cancelled"} :
              /\ [x EXCEPT !.status = s] \in Step
              /\ [x EXCEPT !.status = s].type = x.type
              /\ [x EXCEPT !.status = s].status = s
              /\ [x EXCEPT !.status = s].decision = x.decision
         /\ \A d \in ApprovalDecision : [x EXCEPT !.decision = d] \in Step
BY DEF Step

\* The steps that are still running take a status, the others stay.
LEMMA SetRunningStepsKeeps ==
  ASSUME StepsOK, NEW s \in {"failed", "cancelled"}, SetRunningSteps(s)
  PROVE  /\ steps' \in [DOMAIN steps -> Step]
         /\ \A n \in DOMAIN steps : /\ steps'[n].type = steps[n].type
                                    /\ steps'[n].decision = steps[n].decision
                                    /\ steps'[n].status # "running"
<1> DEFINE set(n) == [steps[n] EXCEPT !.status = s]
<1>1. steps' = [n \in DOMAIN steps |->
                  IF steps[n].status = "running" THEN set(n) ELSE steps[n]]
  BY DEF SetRunningSteps
<1>2. \A n \in DOMAIN steps : steps[n] \in Step
  BY DEF StepsOK
<1>3. \A n \in DOMAIN steps : /\ set(n) \in Step /\ set(n).status = s
                              /\ set(n).type = steps[n].type
                              /\ set(n).decision = steps[n].decision
  <2> TAKE n \in DOMAIN steps
  <2>1. steps[n] \in Step
    BY <1>2
  <2>2. set(n) \in Step
    BY <2>1, SetStep
  <2> QED
    BY <2>1, <2>2 DEF Step
<1> HIDE DEF set
<1> QED
  BY <1>1, <1>2, <1>3

\* The decision resolves its step.
LEMMA DecisionSteps ==
  ASSUME StepsOK, NEW n \in DOMAIN steps, NEW d \in ApprovalDecision,
         steps' = applyApprovalDecision(steps, n, d)
  PROVE  /\ steps' \in [DOMAIN steps -> Step]
         /\ \A m \in DOMAIN steps : m # n => steps'[m] = steps[m]
         /\ steps'[n].type = steps[n].type
         /\ steps'[n].decision = d
         /\ steps'[n].status # "running"
<1> DEFINE s == IF d = "approved" THEN "completed" ELSE "cancelled"
           x == [steps[n] EXCEPT !.status = s, !.decision = d]
<1>1. s \in {"completed", "cancelled"}
  OBVIOUS
<1> HIDE DEF s
<1>2. steps[n] \in Step
  BY DEF StepsOK
<1>3. [steps[n] EXCEPT !.status = s] \in Step
  BY <1>1, <1>2, SetStep
<1>4. x \in Step
  BY <1>3, SetStep
<1>5. x.type = steps[n].type /\ x.decision = d /\ x.status = s
  BY <1>2 DEF Step
<1>6. steps' = [m \in DOMAIN steps |-> IF m = n THEN x ELSE steps[m]]
  <2>1. steps' = [steps EXCEPT ![n].status = s, ![n].decision = d]
    BY DEF applyApprovalDecision, s
  <2>2. [steps EXCEPT ![n].status = s] = [steps EXCEPT ![n] = [steps[n] EXCEPT !.status = s]]
    BY DEF StepsOK
  <2> QED
    BY <2>1, <2>2 DEF StepsOK
<1> HIDE DEF x
<1> QED
  BY <1>1, <1>4, <1>5, <1>6 DEF StepsOK
-----------------------------------------------------------------------------
(* The types and the numbering are preserved.                              *)

\* What still has to be shown when no step is inserted and no approver moves.
LEMMA KeepNumbers ==
  ASSUME StepInv, DOMAIN steps' = DOMAIN steps, UNCHANGED approver,
         \A f \in Executors : ex'[f].seq = ex[f].seq \/ Continues(ex'[f].seq)
  PROVE  NumbersContinue'
BY DEF StepInv, NumbersContinue, Continues

\* One executor has inserted the step of its number.
LEMMA NumberUsed ==
  ASSUME StepInv, NEW e \in Executors, DOMAIN steps' = DOMAIN steps \cup {ex[e].seq},
         UNCHANGED approver, ex'[e].seq = ex[e].seq + 1,
         \A f \in Executors : f # e => ex'[f] = ex[f]
  PROVE  NumbersContinue'
BY DEF StepInv, NumbersContinue, Continues

LEMMA RecordTypes ==
  ASSUME msgs \in Seq(RunStatus), NEW s \in RunStatus
  PROVE  Append(msgs, s) \in Seq(RunStatus) /\ (recordRunOutcome(s) => msgs' \in Seq(RunStatus))
BY DEF recordRunOutcome

LEMMA ResultStatus ==
  ASSUME NEW x \in Executor
  PROVE  /\ x.result \in FailureStatus => x.result \in RunStatus
         /\ x.seq \in Nat /\ x.llm \in Nat
         /\ x.resume \in BOOLEAN
         /\ x.seen \in RunStatus
         /\ x.abort \in {"none", "cancelled", "timed_out"}
BY DEF Executor, FailureStatus, RunStatus

LEMMA StepInvParts ==
  StepInv => /\ run \in RunRow /\ StepsOK /\ ex \in [Executors -> Executor] /\ Numbered
             /\ \A e \in Executors : Continues(ex[e].seq)
             /\ ResultKnown
BY DEF StepInv, TypeOK, StepsOK, NumbersContinue

LEMMA ExecuteStepInv ==
  ASSUME StepInv, NEW e \in Executors, Execute(e)
  PROVE  TypeOK' /\ Numbered' /\ NumbersContinue'
<1>0. /\ run \in RunRow /\ StepsOK /\ ex \in [Executors -> Executor] /\ Numbered
      /\ Continues(ex[e].seq) /\ ResultKnown
  BY StepInvParts
<1>1. CASE LoadRun(e)
  <2> DEFINE x == [ex[e] EXCEPT !.pc = "loadSteps", !.seen = run.status]
  <2>1. x \in Executor /\ x.seq = ex[e].seq
    <3>1. x \in Executor
      BY <1>0, LoadedExecutor, RowStatus
    <3> QED
      BY <3>1, <1>0 DEF Executor
  <2> HIDE DEF x
  <2>2. /\ ex' \in [Executors -> Executor]
        /\ ex'[e] = x /\ \A f \in Executors : f # e => ex'[f] = ex[f]
    BY <1>0, <1>1, <2>1, BecomeEx DEF LoadRun, x
  <2>3. NumbersContinue'
    BY <1>1, <2>1, <2>2, KeepNumbers DEF LoadRun, requests
  <2> QED
    BY <1>1, <2>2, <2>3 DEF LoadRun, StepInv, TypeOK, Numbered, requests
<1>2. CASE LoadSteps(e) /\ InputReadable
  <2> DEFINE resume == Resumes(ex[e].seen, steps)
             n == IF resume THEN nextSequenceNo(steps) ELSE 1
             x == [Idle EXCEPT !.pc = "claim", !.resume = resume, !.seq = n]
  <2>1. Continues(n) /\ n \in Nat
    BY <1>0, NextContinues DEF Continues
  <2>2. resume \in BOOLEAN
    BY DEF Resumes
  <2>3. Become(e, x)
    BY <1>2 DEF LoadSteps
  <2> HIDE DEF resume, n
  <2>4. x \in Executor /\ x.seq = n
    <3>1. x \in Executor
      BY <2>1, <2>2, SetFields, IdleExecutor DEF ExecutorPC
    <3> QED
      BY <3>1 DEF Idle
  <2> HIDE DEF x
  <2>5. /\ ex' \in [Executors -> Executor]
        /\ ex'[e] = x /\ \A f \in Executors : f # e => ex'[f] = ex[f]
    BY <1>0, <2>3, <2>4, BecomeEx
  <2>6. NumbersContinue'
    BY <1>2, <2>1, <2>4, <2>5, KeepNumbers DEF LoadSteps, requests
  <2> QED
    BY <1>2, <2>5, <2>6 DEF LoadSteps, StepInv, TypeOK, Numbered, requests
<1>20. CASE LoadSteps(e) /\ ~InputReadable
  <2>1. /\ ex' \in [Executors -> Executor]
        /\ \A f \in Executors : ex'[f].seq = ex[f].seq \/ Continues(ex'[f].seq)
    BY <1>0, <1>20, StopEx, ContinuesOne DEF LoadSteps, ExecutorPC
  <2>2. NumbersContinue'
    BY <1>20, <2>1, KeepNumbers DEF LoadSteps, requests
  <2> QED
    BY <1>20, <2>1, <2>2 DEF LoadSteps, StepInv, TypeOK, Numbered, requests
<1>3. CASE Claim(e)
  <2>1. /\ ex' \in [Executors -> Executor]
        /\ \A f \in Executors : ex'[f].seq = ex[f].seq \/ Continues(ex'[f].seq)
    <3>1. CASE Goto(e, "begin")
      BY <1>0, <3>1, GotoEx DEF ExecutorPC
    <3>2. CASE Stop(e, "done")
      BY <1>0, <3>2, StopEx, ContinuesOne DEF ExecutorPC
    <3> QED
      BY <1>3, <3>1, <3>2 DEF Claim
  <2>2. run' \in RunRow
    BY <1>0, <1>3, RowTypes DEF Claim
  <2>3. NumbersContinue'
    BY <1>3, <2>1, KeepNumbers DEF Claim, requests
  <2> QED
    BY <1>3, <2>1, <2>2, <2>3 DEF Claim, StepInv, TypeOK, Numbered, requests
<1>4. CASE MarkRunRunning(e) \/ FirstLease(e) \/ MarkRunWaitingInput(e) \/ MarkRunCompleted(e)
  <2>1. ex' \in [Executors -> Executor] /\ \A f \in Executors : ex'[f].seq = ex[f].seq
    BY <1>0, <1>4, GotoEx, FailEx DEF MarkRunRunning, FirstLease, MarkRunWaitingInput,
       MarkRunCompleted, ExecutorPC, FailureStatus
  <2>2. run' \in RunRow
    BY <1>0, <1>4, RowTypes DEF MarkRunRunning, FirstLease, MarkRunWaitingInput,
       MarkRunCompleted, RunStatus
  <2>3. NumbersContinue'
    BY <1>4, <2>1, KeepNumbers DEF MarkRunRunning, FirstLease, MarkRunWaitingInput,
       MarkRunCompleted, requests
  <2> QED
    BY <1>4, <2>1, <2>2, <2>3 DEF MarkRunRunning, FirstLease, MarkRunWaitingInput,
       MarkRunCompleted, StepInv, TypeOK, Numbered, requests
<1>5. CASE AddApprovalStep(e) \/ AddToolStep(e) \/ AddModelStep(e)
  <2>1. CASE NumberTaken(e)
    <3>1. ex' \in [Executors -> Executor] /\ \A f \in Executors : ex'[f].seq = ex[f].seq
      BY <1>0, <2>1, FailEx DEF NumberTaken, FailureStatus
    <3>2. /\ UNCHANGED <<run, steps, msgs, calls, waiting, held, requests, faults>>
      BY <1>5, <2>1 DEF AddApprovalStep, AddToolStep, AddModelStep, NumberTaken, Insert
    <3>3. NumbersContinue'
      BY <3>1, <3>2, KeepNumbers DEF requests
    <3> QED
      BY <3>1, <3>2, <3>3 DEF StepInv, TypeOK, Numbered, requests
  <2>2. CASE ~NumberTaken(e)
    <3>1. /\ UNCHANGED <<run, msgs, calls, waiting, held, requests, faults>>
          /\ \E t \in {"approval", "tool", "llm", "message"}, s \in {"running", "completed"} :
               Insert(ex[e].seq, t, s)
      BY <1>5, <2>2 DEF AddApprovalStep, AddToolStep, AddModelStep
    <3>2. ex[e] \in Executor
      BY <1>0
    <3>3. /\ ex' \in [Executors -> Executor]
          /\ ex'[e].seq = ex[e].seq + 1 /\ \A f \in Executors : f # e => ex'[f] = ex[f]
      <4>1. CASE AddApprovalStep(e)
        BY <1>0, <4>1, <2>2, <3>2, NextStepEx DEF AddApprovalStep
      <4>2. CASE AddToolStep(e)
        BY <1>0, <4>2, <2>2, <3>2, NextStepEx DEF AddToolStep
      <4>3. CASE AddModelStep(e)
        BY <1>0, <4>3, <2>2, <3>2, NextStepEx DEF AddModelStep
      <4> QED
        BY <1>5, <4>1, <4>2, <4>3
    <3>4. StepsOK' /\ Numbered' /\ DOMAIN steps' = DOMAIN steps \cup {ex[e].seq}
      BY <1>0, <3>1, InsertSteps
    <3>5. NumbersContinue'
      BY <3>1, <3>3, <3>4, NumberUsed DEF requests
    <3> QED
      BY <3>1, <3>3, <3>4, <3>5 DEF StepInv, TypeOK, StepsOK, requests
  <2> QED
    BY <2>1, <2>2
<1>6. CASE AddApprovalEvent(e)
  <2>1. ex' \in [Executors -> Executor] /\ \A f \in Executors : ex'[f].seq = ex[f].seq
    BY <1>0, <1>6, FinishEx DEF AddApprovalEvent
  <2>2. NumbersContinue'
    BY <1>6, <2>1, KeepNumbers DEF AddApprovalEvent, requests
  <2> QED
    BY <1>6, <2>1, <2>2 DEF AddApprovalEvent, StepInv, TypeOK, Numbered, requests
<1>7. CASE UseTool(e) \/ CallModel(e) \/ StreamEnds(e) \/ StreamFails(e) \/ ThrowIfAborted(e)
  <2>1. ex' \in [Executors -> Executor] /\ \A f \in Executors : ex'[f].seq = ex[f].seq
    <3>1. ASSUME Become(e, [ex[e] EXCEPT !.at = @ + 1])
          PROVE  /\ ex' \in [Executors -> Executor]
                 /\ \A f \in Executors : ex'[f].seq = ex[f].seq
      <4> DEFINE x == [ex[e] EXCEPT !.at = @ + 1]
      <4>1. x \in Executor /\ x.seq = ex[e].seq
        BY <1>0 DEF Executor
      <4> QED
        BY <1>0, <3>1, <4>1, BecomeEx
    <3>2. ex[e].abort # "none" => ex[e].abort \in FailureStatus
      BY <1>0, ResultStatus DEF FailureStatus
    <3> QED
      BY <1>0, <1>7, <3>1, <3>2, GotoEx, FailEx DEF UseTool, CallModel, StreamEnds, StreamFails,
         ThrowIfAborted, ExecutorPC, FailureStatus
  <2>2. calls' \in [1..ModelCall -> Nat]
    <3>1. calls \in [1..ModelCall -> Nat]
      BY DEF StepInv, TypeOK
    <3>2. \A i \in 1..ModelCall : calls[i] + 1 \in Nat
      BY <3>1
    <3>3. \A i : i \in 1..ModelCall => [calls EXCEPT ![i] = @ + 1] \in [1..ModelCall -> Nat]
      BY <3>1, <3>2
    <3>4. \A i : i \notin 1..ModelCall => [calls EXCEPT ![i] = @ + 1] \in [1..ModelCall -> Nat]
      BY <3>1
    <3>5. calls' = calls \/ \E i : calls' = [calls EXCEPT ![i] = @ + 1]
      BY <1>7 DEF UseTool, CallModel, StreamEnds, StreamFails, ThrowIfAborted
    <3> QED
      BY <3>1, <3>3, <3>4, <3>5
  <2>3. UNCHANGED <<run, steps, msgs, waiting, held, requests, faults>>
    BY <1>7 DEF UseTool, CallModel, StreamEnds, StreamFails, ThrowIfAborted
  <2>4. NumbersContinue'
    BY <2>1, <2>3, KeepNumbers DEF requests
  <2> QED
    BY <2>1, <2>2, <2>3, <2>4 DEF StepInv, TypeOK, Numbered, requests
<1>8. CASE CompleteStep(e)
  <2>1. ex' \in [Executors -> Executor] /\ \A f \in Executors : ex'[f].seq = ex[f].seq
    BY <1>0, <1>8, FinishEx DEF CompleteStep
  <2>2. steps' \in [DOMAIN steps -> Step]
    <3>1. \A n \in DOMAIN steps : steps[n] \in Step
      BY <1>0 DEF StepsOK
    <3>2. \A n \in DOMAIN steps : [steps[n] EXCEPT !.status = "completed"] \in Step
      BY <3>1, SetStep
    <3> QED
      BY <1>0, <1>8, <3>1, <3>2 DEF CompleteStep, StepsOK
  <2>3. StepsOK' /\ Numbered' /\ DOMAIN steps' = DOMAIN steps
    BY <1>0, <2>2, UpdateSteps
  <2>4. NumbersContinue'
    BY <1>8, <2>1, <2>3, KeepNumbers DEF CompleteStep, requests
  <2> QED
    BY <1>8, <2>1, <2>3, <2>4 DEF CompleteStep, StepInv, TypeOK, StepsOK, requests
<1>9. CASE FailStep(e)
  <2>1. ex' \in [Executors -> Executor] /\ \A f \in Executors : ex'[f].seq = ex[f].seq
    BY <1>0, <1>9, GotoEx DEF FailStep, ExecutorPC
  <2>2. steps' \in [DOMAIN steps -> Step]
    <3> DEFINE s == IF ex[e].result = "cancelled" THEN "cancelled" ELSE "failed"
    <3>1. \A n \in DOMAIN steps : steps[n] \in Step
      BY <1>0 DEF StepsOK
    <3>2. \A n \in DOMAIN steps : [steps[n] EXCEPT !.status = s] \in Step
      BY <3>1, SetStep
    <3> QED
      BY <1>0, <1>9, <3>1, <3>2 DEF FailStep, StepsOK
  <2>3. StepsOK' /\ Numbered' /\ DOMAIN steps' = DOMAIN steps
    BY <1>0, <2>2, UpdateSteps
  <2>4. NumbersContinue'
    BY <1>9, <2>1, <2>3, KeepNumbers DEF FailStep, requests
  <2> QED
    BY <1>9, <2>1, <2>3, <2>4 DEF FailStep, StepInv, TypeOK, StepsOK, requests
<1>10. CASE MarkRunFailed(e)
  <2>1. ex' \in [Executors -> Executor] /\ \A f \in Executors : ex'[f].seq = ex[f].seq
    BY <1>0, <1>10, GotoEx DEF MarkRunFailed, ExecutorPC
  <2>2. run' \in RunRow
    <3>1. "cancelled" \in RunStatus /\ ex[e].result \in RunStatus
      BY <1>0, <1>10 DEF MarkRunFailed, ResultKnown, RunStatus, FailureStatus
    <3> QED
      BY <1>0, <1>10, <3>1, RowTypes DEF MarkRunFailed
  <2>3. NumbersContinue'
    BY <1>10, <2>1, KeepNumbers DEF MarkRunFailed, requests
  <2> QED
    BY <1>10, <2>1, <2>2, <2>3 DEF MarkRunFailed, StepInv, TypeOK, Numbered, requests
<1>11. CASE Record(e)
  <2>1. /\ ex' \in [Executors -> Executor]
        /\ \A f \in Executors : ex'[f].seq = ex[f].seq \/ Continues(ex'[f].seq)
    BY <1>0, <1>11, StopEx, ContinuesOne DEF Record, ExecutorPC
  <2>2. msgs' \in Seq(RunStatus)
    <3>1. msgs \in Seq(RunStatus) /\ ex[e].result \in RunStatus
      BY <1>0, <1>11 DEF Record, ResultKnown, StepInv, TypeOK
    <3> QED
      BY <1>11, <3>1, RecordTypes DEF Record
  <2>3. NumbersContinue'
    BY <1>11, <2>1, KeepNumbers DEF Record, requests
  <2> QED
    BY <1>11, <2>1, <2>2, <2>3 DEF Record, StepInv, TypeOK, Numbered, requests
<1> QED
  BY <1>1, <1>2, <1>20, <1>3, <1>4, <1>5, <1>6, <1>7, <1>8, <1>9, <1>10, <1>11 DEF Execute

\* Nobody is about to write an outcome, except where one has been chosen.
LEMMA KeepResults ==
  ASSUME StepInv, NEW e \in Executors,
         \A f \in Executors : f # e => ex'[f] = ex[f],
         ex'[e].pc \in {"failStep", "failRow"} => ex'[e].result \in FailureStatus,
         ex'[e].pc = "record" => ex'[e].result \in RunStatus
  PROVE  ResultKnown'
BY DEF StepInv, ResultKnown

LEMMA ExecuteResults ==
  ASSUME StepInv, NEW e \in Executors, Execute(e)
  PROVE  ResultKnown'
<1>0. /\ ex \in [Executors -> Executor] /\ ResultKnown /\ ex[e] \in Executor
      /\ run.status \in RunStatus
  BY StepInvParts, RowStatus
<1>1. CASE \E p \in ExecutorPC \ {"failStep", "failRow", "record"} : Goto(e, p) \/ Stop(e, p)
  <2>1. PICK p \in ExecutorPC \ {"failStep", "failRow", "record"} : Goto(e, p) \/ Stop(e, p)
    BY <1>1
  <2>2. CASE Goto(e, p)
    <3>1. ex'[e].pc = p /\ \A f \in Executors : f # e => ex'[f] = ex[f]
      BY <1>0, <2>2, GotoEx
    <3> QED BY <3>1, KeepResults
  <2>3. CASE Stop(e, p)
    <3>1. ex'[e].pc = p /\ \A f \in Executors : f # e => ex'[f] = ex[f]
      BY <1>0, <2>3, StopEx
    <3> QED BY <3>1, KeepResults
  <2> QED
    BY <2>1, <2>2, <2>3
<1>2. CASE \E s \in FailureStatus : Fail(e, s)
  BY <1>0, <1>2, FailEx, KeepResults
<1>3. CASE \E s \in {"waiting_input", "completed"} :
             Become(e, [ex[e] EXCEPT !.pc = "record", !.result = s])
  BY <1>0, <1>3, FinishEx, KeepResults DEF RunStatus
<1>4. CASE FailStep(e)
  BY <1>0, <1>4, GotoEx, KeepResults DEF FailStep, ExecutorPC, ResultKnown
<1>5. CASE MarkRunFailed(e)
  BY <1>0, <1>5, GotoEx, KeepResults
  DEF MarkRunFailed, ExecutorPC, ResultKnown, FailureStatus, RunStatus
<1>6. CASE LoadRun(e)
  <2> DEFINE x == [ex[e] EXCEPT !.pc = "loadSteps", !.seen = run.status]
  <2>1. x.pc = "loadSteps"
    BY <1>0 DEF Executor
  <2>2. x \in Executor
    BY <1>0, SetFields DEF ExecutorPC
  <2> QED
    BY <1>0, <1>6, <2>1, <2>2, BecomeEx, KeepResults DEF LoadRun
<1>7. CASE LoadSteps(e)
  <2>1. ex'[e].pc \in {"claim", "done"} /\ \A f \in Executors : f # e => ex'[f] = ex[f]
    BY <1>0, <1>7 DEF LoadSteps, Become, Stop, Idle
  <2> QED
    BY <2>1, KeepResults
<1>8. CASE /\ AddApprovalStep(e) \/ AddToolStep(e) \/ AddModelStep(e)
           /\ ~NumberTaken(e)
  <2>1. /\ ex'[e].pc \in {"pause", "tool", "model"}
        /\ \A f \in Executors : f # e => ex'[f] = ex[f]
    <3>1. CASE AddApprovalStep(e)
      BY <1>0, <1>8, <3>1, NextStepEx DEF AddApprovalStep
    <3>2. CASE AddToolStep(e)
      BY <1>0, <1>8, <3>2, NextStepEx DEF AddToolStep
    <3>3. CASE AddModelStep(e)
      BY <1>0, <1>8, <3>3, NextStepEx DEF AddModelStep
    <3> QED
      BY <1>8, <3>1, <3>2, <3>3
  <2> QED
    BY <2>1, KeepResults
<1>9. CASE ex[e].pc = "tool" /\ Become(e, [ex[e] EXCEPT !.at = @ + 1])
  <2> DEFINE x == [ex[e] EXCEPT !.at = @ + 1]
  <2>1. x \in Executor /\ x.pc = "tool"
    BY <1>0, <1>9 DEF Executor
  <2> QED
    BY <1>0, <1>9, <2>1, BecomeEx, KeepResults
<1>10. ex[e].abort # "none" => ex[e].abort \in FailureStatus
  BY <1>0, ResultStatus DEF FailureStatus
<1>11. {"cancelled", "failed", "timed_out"} \subseteq FailureStatus
  BY DEF FailureStatus
<1>12. {"begin", "lease", "gate", "tool", "pauseEvent", "toolStep", "stream", "complete",
        "finish", "done"} \subseteq ExecutorPC \ {"failStep", "failRow", "record"}
  BY DEF ExecutorPC
<1>13. CASE Claim(e) \/ MarkRunRunning(e) \/ FirstLease(e) \/ MarkRunWaitingInput(e)
  BY <1>1, <1>2, <1>11, <1>12, <1>13 DEF Claim, MarkRunRunning, FirstLease, MarkRunWaitingInput
<1>14. CASE UseTool(e) \/ CallModel(e) \/ StreamEnds(e) \/ StreamFails(e) \/ MarkRunCompleted(e)
  BY <1>1, <1>2, <1>9, <1>11, <1>12, <1>14
  DEF UseTool, CallModel, StreamEnds, StreamFails, MarkRunCompleted
<1>15. CASE AddApprovalEvent(e) \/ CompleteStep(e)
  BY <1>3, <1>15 DEF AddApprovalEvent, CompleteStep
<1>16. CASE ThrowIfAborted(e) \/ Record(e) \/ NumberTaken(e)
  BY <1>1, <1>2, <1>10, <1>11, <1>12, <1>16 DEF ThrowIfAborted, Record, NumberTaken
<1> QED
  BY <1>4, <1>5, <1>6, <1>7, <1>8, <1>13, <1>14, <1>15, <1>16 DEF Execute

LEMMA BackgroundStepInv ==
  ASSUME StepInv, NEW e \in Executors,
         Deliver(e) \/ Redeliver(e) \/ Heartbeat(e) \/ Abort(e) \/ Crash(e) \/ DatabaseError(e)
  PROVE  StepInv'
<1>0. /\ run \in RunRow /\ StepsOK /\ ex \in [Executors -> Executor] /\ Numbered
      /\ ResultKnown /\ ex[e] \in Executor
  BY StepInvParts
<1>1. CASE Deliver(e)
  <2>1. /\ ex' \in [Executors -> Executor] /\ \A f \in Executors : ex'[f].seq = ex[f].seq
        /\ ResultKnown'
    BY <1>0, <1>1, GotoEx, KeepResults DEF Deliver, ExecutorPC
  <2>2. NumbersContinue'
    BY <1>1, <2>1, KeepNumbers DEF Deliver, requests
  <2> QED
    BY <1>1, <2>1, <2>2 DEF Deliver, StepInv, TypeOK, Numbered, requests
<1>2. CASE Redeliver(e)
  BY <1>2 DEF Redeliver, StepInv, TypeOK, Numbered, NumbersContinue, Continues, ResultKnown,
     requests
<1>3. CASE Heartbeat(e) \/ Abort(e)
  <2>1. ASSUME NEW s \in {"cancelled", "timed_out"}, Become(e, [ex[e] EXCEPT !.abort = s])
        PROVE  /\ ex' \in [Executors -> Executor]
               /\ \A f \in Executors : ex'[f].seq = ex[f].seq
               /\ ResultKnown'
    <3> DEFINE x == [ex[e] EXCEPT !.abort = s]
    <3>1. x \in Executor
      BY <1>0, SetFields
    <3>2. x.seq = ex[e].seq /\ x.pc = ex[e].pc /\ x.result = ex[e].result
      BY <1>0 DEF Executor
    <3>3. /\ ex' \in [Executors -> Executor]
          /\ ex'[e] = x /\ \A f \in Executors : f # e => ex'[f] = ex[f]
      BY <1>0, <2>1, <3>1, BecomeEx
    <3> QED
      BY <1>0, <3>2, <3>3, KeepResults DEF ResultKnown
  <2>2. /\ ex' \in [Executors -> Executor]
        /\ \A f \in Executors : ex'[f].seq = ex[f].seq
        /\ ResultKnown'
    <3>1. CASE UNCHANGED ex
      BY <1>0, <3>1 DEF ResultKnown
    <3> QED
      BY <1>3, <2>1, <3>1 DEF Heartbeat, Abort
  <2>3. run' \in RunRow
    BY <1>0, <1>3, RowTypes DEF Heartbeat, Abort
  <2>4. NumbersContinue'
    BY <1>3, <2>2, KeepNumbers DEF Heartbeat, Abort, requests
  <2> QED
    BY <1>3, <2>2, <2>3, <2>4 DEF Heartbeat, Abort, StepInv, TypeOK, Numbered, requests
<1>4. CASE Crash(e) \/ DatabaseError(e)
  <2>1. ASSUME NEW p \in {"done", "dead"}, Stop(e, p)
        PROVE  /\ ex' \in [Executors -> Executor]
               /\ \A f \in Executors : ex'[f].seq = ex[f].seq \/ Continues(ex'[f].seq)
               /\ ResultKnown'
    BY <1>0, <2>1, StopEx, ContinuesOne, KeepResults DEF ExecutorPC
  <2>2. ASSUME Fail(e, "failed")
        PROVE  /\ ex' \in [Executors -> Executor]
               /\ \A f \in Executors : ex'[f].seq = ex[f].seq \/ Continues(ex'[f].seq)
               /\ ResultKnown'
    BY <1>0, <2>2, FailEx, KeepResults DEF FailureStatus
  <2>3. ASSUME Become(e, [ex[e] EXCEPT !.pc = "record", !.result = "failed"])
        PROVE  /\ ex' \in [Executors -> Executor]
               /\ \A f \in Executors : ex'[f].seq = ex[f].seq \/ Continues(ex'[f].seq)
               /\ ResultKnown'
    BY <1>0, <2>3, FinishEx, KeepResults DEF FailureStatus, RunStatus
  <2>4. ASSUME Become(e, [ex[e] EXCEPT !.result = "failed"])
        PROVE  /\ ex' \in [Executors -> Executor]
               /\ \A f \in Executors : ex'[f].seq = ex[f].seq \/ Continues(ex'[f].seq)
               /\ ResultKnown'
    <3> DEFINE x == [ex[e] EXCEPT !.result = "failed"]
    <3>1. x \in Executor
      BY <1>0, SetFields DEF FailureStatus
    <3>2. x.seq = ex[e].seq /\ x.result = "failed"
      BY <1>0 DEF Executor
    <3>3. /\ ex' \in [Executors -> Executor]
          /\ ex'[e] = x /\ \A f \in Executors : f # e => ex'[f] = ex[f]
      BY <1>0, <2>4, <3>1, BecomeEx
    <3> QED
      BY <1>0, <3>2, <3>3, KeepResults DEF RunStatus, FailureStatus
  <2>5. /\ ex' \in [Executors -> Executor]
        /\ \A f \in Executors : ex'[f].seq = ex[f].seq \/ Continues(ex'[f].seq)
        /\ ResultKnown'
    <3>1. CASE Crash(e)
      BY <3>1, <2>1 DEF Crash
    <3>2. CASE DatabaseError(e)
      BY <3>2, <2>1, <2>2, <2>3, <2>4 DEF DatabaseError
    <3> QED
      BY <1>4, <3>1, <3>2
  <2>6. /\ UNCHANGED <<run, steps, msgs, calls, waiting, held, requests>>
        /\ faults' = faults + 1 /\ faults < MaxFaults
    BY <1>4 DEF Crash, DatabaseError
  <2>7. faults' \in 0..MaxFaults
    BY <2>6, FaultsAssumption DEF StepInv, TypeOK
  <2>8. NumbersContinue'
    BY <2>5, <2>6, KeepNumbers DEF requests
  <2> QED
    BY <2>5, <2>6, <2>7, <2>8 DEF StepInv, TypeOK, Numbered, requests
<1> QED
  BY <1>1, <1>2, <1>3, <1>4

\* A dispatch hands the run to the queue or to an executor of this process.
LEMMA DispatchEx ==
  ASSUME StepInv, NEW via \in {"detached", "resumer"}, NEW resume \in BOOLEAN,
         NEW n, Continues(n), Enqueued \/ ExecuteDetached(via, resume, n)
  PROVE  /\ ex' \in [Executors -> Executor]
         /\ waiting' \in Nat
         /\ ResultKnown'
         /\ \A f \in Executors : ex'[f].seq = ex[f].seq \/ ex'[f].seq = n
<1>0. ex \in [Executors -> Executor] /\ waiting \in Nat /\ ResultKnown
  BY DEF StepInv, TypeOK
<1>1. CASE Enqueued
  BY <1>0, <1>1 DEF Enqueued, ResultKnown
<1>2. CASE ExecuteDetached(via, resume, n)
  <2> DEFINE x == [Idle EXCEPT !.pc = "claim", !.via = via, !.resume = resume, !.seq = n]
  <2>1. PICK e \in Executors : Become(e, x)
    BY <1>2 DEF ExecuteDetached
  <2>2. n \in Nat
    BY DEF Continues
  <2>3. x \in Executor /\ x.pc = "claim" /\ x.seq = n
    <3>1. x \in Executor
      BY <2>2, SetFields, IdleExecutor DEF ExecutorPC
    <3> QED
      BY <3>1 DEF Idle
  <2> HIDE DEF x
  <2>4. /\ ex' \in [Executors -> Executor]
        /\ ex'[e] = x /\ \A f \in Executors : f # e => ex'[f] = ex[f]
    BY <1>0, <2>1, <2>3, BecomeEx
  <2>5. ResultKnown'
    BY <2>3, <2>4, KeepResults
  <2>6. waiting' \in Nat
    BY <1>0, <1>2 DEF ExecuteDetached
  <2> QED
    BY <2>3, <2>4, <2>5, <2>6
<1> QED
  BY <1>1, <1>2

LEMMA RequestStepInv ==
  ASSUME StepInv,
         \/ DispatchNew \/ PostCrash \/ LeaseExpires
         \/ \E c \in Cancellers : Cancel(c) \/ CancelCrash(c)
         \/ \E g \in Pollers : Poll(g) \/ PollCrash(g)
  PROVE  StepInv'
<1>0. /\ run \in RunRow /\ StepsOK /\ ex \in [Executors -> Executor] /\ Numbered /\ ResultKnown
  BY StepInvParts
<1>1. CASE DispatchNew
  <2>1. /\ ex' \in [Executors -> Executor] /\ waiting' \in Nat /\ ResultKnown'
        /\ \A f \in Executors : ex'[f].seq = ex[f].seq \/ ex'[f].seq = 1
    BY <1>1, DispatchEx, ContinuesOne DEF DispatchNew
  <2>2. NumbersContinue'
    BY <1>1, <2>1, KeepNumbers, ContinuesOne DEF DispatchNew
  <2> QED
    BY <1>1, <2>1, <2>2 DEF DispatchNew, StepInv, TypeOK, Numbered
<1>2. CASE PostCrash
  BY <1>2, FaultsAssumption DEF PostCrash, StepInv, TypeOK, Numbered, NumbersContinue, Continues,
     ResultKnown
<1>3. CASE LeaseExpires
  <2>1. run' \in RunRow
    BY <1>0, <1>3, RowTypes DEF LeaseExpires
  <2> QED
    BY <1>3, <2>1 DEF LeaseExpires, StepInv, TypeOK, Numbered, NumbersContinue, Continues,
       ResultKnown, requests
<1>4. ASSUME NEW c \in Cancellers, CancelRun(c)
      PROVE  StepInv'
  <2>1. run' \in RunRow
    BY <1>0, <1>4, RowTypes DEF CancelRun, RunStatus
  <2> QED
    BY <1>4, <2>1 DEF CancelRun, StepInv, TypeOK, Numbered, NumbersContinue, Continues, ResultKnown
<1>5. ASSUME NEW c \in Cancellers, CancelSteps(c)
      PROVE  StepInv'
  <2>1. StepsOK' /\ Numbered' /\ DOMAIN steps' = DOMAIN steps
    BY <1>0, <1>5, SetRunningStepsKeeps, UpdateSteps DEF CancelSteps
  <2> QED
    BY <1>5, <2>1 DEF CancelSteps, StepInv, TypeOK, StepsOK, NumbersContinue, Continues, ResultKnown
<1>6. ASSUME NEW c \in Cancellers, CancelRead(c) \/ CancelCrash(c)
      PROVE  StepInv'
  <2>1. CASE CancelRead(c)
    BY <2>1 DEF CancelRead, StepInv, TypeOK, Numbered, NumbersContinue, Continues, ResultKnown
  <2>2. CASE CancelCrash(c)
    BY <2>2, FaultsAssumption DEF CancelCrash, StepInv, TypeOK, Numbered, NumbersContinue,
       Continues, ResultKnown
  <2> QED
    BY <1>6, <2>1, <2>2
<1>7. ASSUME NEW c \in Cancellers, CancelRecord(c)
      PROVE  StepInv'
  <2>1. msgs' \in Seq(RunStatus)
    BY <1>7, RecordTypes DEF CancelRecord, StepInv, TypeOK, RunStatus
  <2> QED
    BY <1>7, <2>1 DEF CancelRecord, StepInv, TypeOK, Numbered, NumbersContinue, Continues,
       ResultKnown
<1>8. ASSUME NEW g \in Pollers, Reap(g)
      PROVE  StepInv'
  <2>1. run' \in RunRow
    BY <1>0, <1>8, RowTypes DEF Reap, RunStatus
  <2> QED
    BY <1>8, <2>1 DEF Reap, StepInv, TypeOK, Numbered, NumbersContinue, Continues, ResultKnown
<1>9. ASSUME NEW g \in Pollers, ReapSteps(g)
      PROVE  StepInv'
  <2>1. StepsOK' /\ Numbered' /\ DOMAIN steps' = DOMAIN steps
    BY <1>0, <1>9, SetRunningStepsKeeps, UpdateSteps DEF ReapSteps
  <2> QED
    BY <1>9, <2>1 DEF ReapSteps, StepInv, TypeOK, StepsOK, NumbersContinue, Continues, ResultKnown
<1>10. ASSUME NEW g \in Pollers, ReapRecord(g)
       PROVE  StepInv'
  <2>1. msgs' \in Seq(RunStatus)
    BY <1>10, RecordTypes DEF ReapRecord, StepInv, TypeOK, RunStatus
  <2> QED
    BY <1>10, <2>1 DEF ReapRecord, StepInv, TypeOK, Numbered, NumbersContinue, Continues,
       ResultKnown
<1>11. ASSUME NEW g \in Pollers, PollCrash(g)
       PROVE  StepInv'
  BY <1>11, FaultsAssumption DEF PollCrash, StepInv, TypeOK, Numbered, NumbersContinue, Continues,
     ResultKnown
<1> QED
  BY <1>1, <1>2, <1>3, <1>4, <1>5, <1>6, <1>7, <1>8, <1>9, <1>10, <1>11 DEF Cancel, Poll

\* The approver's record.
ApproverRecord == [pc : {"idle", "tx", "dispatch", "rejectStep", "rejectRecord", "done"},
                   step : Nat, next : Nat]

LEMMA ApproverGoes ==
  ASSUME approver \in [Approvers -> ApproverRecord], NEW a \in Approvers,
         NEW p \in {"idle", "tx", "dispatch", "rejectStep", "rejectRecord", "done"},
         approver' = [approver EXCEPT ![a].pc = p]
  PROVE  /\ approver' \in [Approvers -> ApproverRecord]
         /\ approver'[a].pc = p
         /\ \A b \in Approvers : b # a => approver'[b] = approver[b]
BY DEF ApproverRecord

LEMMA ApproverNotes ==
  ASSUME approver \in [Approvers -> ApproverRecord], NEW a \in Approvers,
         NEW p \in {"idle", "tx", "dispatch", "rejectStep", "rejectRecord", "done"},
         NEW n \in Nat,
         \/ approver' = [approver EXCEPT ![a].pc = p, ![a].step = n]
         \/ approver' = [approver EXCEPT ![a].pc = p, ![a].next = n]
  PROVE  /\ approver' \in [Approvers -> ApproverRecord]
         /\ approver'[a].pc = p
         /\ approver' = [approver EXCEPT ![a].pc = p, ![a].step = n] => approver'[a].step = n
         /\ approver' = [approver EXCEPT ![a].pc = p, ![a].next = n] => approver'[a].next = n
         /\ \A b \in Approvers : b # a => approver'[b] = approver[b]
<1> DEFINE f == [approver EXCEPT ![a].pc = p]
           x == [f[a] EXCEPT !.step = n]
           y == [f[a] EXCEPT !.next = n]
<1>1. /\ f \in [Approvers -> ApproverRecord] /\ f[a].pc = p
      /\ \A b \in Approvers : b # a => f[b] = approver[b]
  BY DEF ApproverRecord
<1>2. approver' = [f EXCEPT ![a].step = n] \/ approver' = [f EXCEPT ![a].next = n]
  OBVIOUS
<1>3. /\ approver' = [approver EXCEPT ![a].pc = p, ![a].step = n]
           => approver' = [f EXCEPT ![a].step = n]
      /\ approver' = [approver EXCEPT ![a].pc = p, ![a].next = n]
           => approver' = [f EXCEPT ![a].next = n]
  OBVIOUS
<1> HIDE DEF f
<1>4. f[a] \in ApproverRecord
  BY <1>1
<1>5. x \in ApproverRecord /\ x.pc = p /\ x.step = n
  BY <1>1, <1>4 DEF ApproverRecord
<1>6. y \in ApproverRecord /\ y.pc = p /\ y.next = n
  BY <1>1, <1>4 DEF ApproverRecord
<1>7. /\ [f EXCEPT ![a].step = n] = [f EXCEPT ![a] = x]
      /\ [f EXCEPT ![a].next = n] = [f EXCEPT ![a] = y]
  BY <1>1
<1> HIDE DEF x, y
<1> QED
  BY <1>1, <1>2, <1>3, <1>5, <1>6, <1>7

\* An approver has moved, and whatever number it may now use continues the steps.
LEMMA ApproverNumbers ==
  ASSUME StepInv, NEW a \in Approvers, DOMAIN steps \subseteq DOMAIN steps',
         \A b \in Approvers : b # a => approver'[b] = approver[b],
         \/ approver'[a].pc \notin {"dispatch", "rejectStep"}
         \/ Continues(approver'[a].next),
         \A f \in Executors : ex'[f].seq = ex[f].seq \/ Continues(ex'[f].seq)
  PROVE  NumbersContinue'
BY DEF StepInv, NumbersContinue, Continues

LEMMA ApprovalStepInv ==
  ASSUME StepInv, NEW a \in Approvers,
         \/ DecideBegin(a) \/ FinishDecision(a) \/ ApproverCrash(a)
         \/ \E e \in Executors : EventCollision(e, a)
  PROVE  StepInv'
<1>0. /\ run \in RunRow /\ StepsOK /\ ex \in [Executors -> Executor] /\ Numbered /\ ResultKnown
      /\ approver \in [Approvers -> ApproverRecord]
  BY StepInvParts DEF StepInv, TypeOK, ApproverRecord
<1>1. CASE DecideBegin(a)
  <2>1. PICK n \in DOMAIN steps :
               \E p \in {"tx", "done"} : approver' = [approver EXCEPT ![a].pc = p, ![a].step = n]
    BY <1>1 DEF DecideBegin, Approvals
  <2>2. n \in Nat
    BY <1>0, <2>1 DEF StepsOK
  <2>3. /\ approver' \in [Approvers -> ApproverRecord]
        /\ approver'[a].pc \in {"tx", "done"}
        /\ \A b \in Approvers : b # a => approver'[b] = approver[b]
    BY <1>0, <2>1, <2>2, ApproverNotes
  <2>4. NumbersContinue'
    BY <1>1, <2>3, ApproverNumbers DEF DecideBegin
  <2> QED
    BY <1>1, <2>3, <2>4 DEF DecideBegin, StepInv, TypeOK, Numbered, ResultKnown, ApproverRecord
<1>2. CASE DecideCommit(a)
  <2>1. PICK d \in ApprovalDecision :
          /\ steps' = applyApprovalDecision(steps, approver[a].step, d)
          /\ run' = [run EXCEPT !.status = IF d = "approved" THEN "queued" ELSE "cancelled"]
          /\ approver' = [approver EXCEPT
               ![a].pc = IF d = "approved" THEN "dispatch" ELSE "rejectStep",
               ![a].next = nextSequenceNo(steps)]
    BY <1>2 DEF DecideCommit
  <2>2. StepsOK' /\ Numbered' /\ DOMAIN steps' = DOMAIN steps
    <3>1. CASE approver[a].step \in DOMAIN steps
      BY <1>0, <2>1, <3>1, DecisionSteps, UpdateSteps
    <3>2. CASE approver[a].step \notin DOMAIN steps
      <4>1. steps' = steps
        BY <1>0, <2>1, <3>2 DEF applyApprovalDecision, StepsOK
      <4> QED
        BY <1>0, <4>1 DEF StepsOK, Numbered
    <3> QED
      BY <3>1, <3>2
  <2>3. run' \in RunRow
    BY <1>0, <2>1, RowTypes DEF RunStatus
  <2>4. Continues(nextSequenceNo(steps)) /\ nextSequenceNo(steps) \in Nat
    BY <1>0, NextContinues DEF Continues
  <2>5. /\ approver' \in [Approvers -> ApproverRecord]
        /\ approver'[a].next = nextSequenceNo(steps)
        /\ \A b \in Approvers : b # a => approver'[b] = approver[b]
    <3> DEFINE p == IF d = "approved" THEN "dispatch" ELSE "rejectStep"
    <3>1. p \in {"idle", "tx", "dispatch", "rejectStep", "rejectRecord", "done"}
      OBVIOUS
    <3>2. approver' = [approver EXCEPT ![a].pc = p, ![a].next = nextSequenceNo(steps)]
      BY <2>1
    <3> HIDE DEF p
    <3> QED
      BY <1>0, <2>4, <3>1, <3>2, ApproverNotes
  <2>6. UNCHANGED <<msgs, calls, waiting, held, post, ex, canceller, poller, faults>>
    BY <1>2 DEF DecideCommit
  <2>7. NumbersContinue'
    BY <2>2, <2>4, <2>5, <2>6, ApproverNumbers
  <2> QED
    BY <2>2, <2>3, <2>5, <2>6, <2>7 DEF StepInv, TypeOK, StepsOK, ResultKnown, ApproverRecord
<1>3. CASE DispatchResume(a)
  <2>1. Continues(approver[a].next)
    BY <1>3 DEF DispatchResume, StepInv, NumbersContinue
  <2>2. /\ ex' \in [Executors -> Executor] /\ waiting' \in Nat /\ ResultKnown'
        /\ \A f \in Executors : ex'[f].seq = ex[f].seq \/ Continues(ex'[f].seq)
    BY <1>3, <2>1, DispatchEx DEF DispatchResume
  <2>3. /\ approver' \in [Approvers -> ApproverRecord]
        /\ approver'[a].pc = "done"
        /\ \A b \in Approvers : b # a => approver'[b] = approver[b]
    BY <1>0, <1>3, ApproverGoes DEF DispatchResume
  <2>4. NumbersContinue'
    BY <1>3, <2>2, <2>3, ApproverNumbers DEF DispatchResume
  <2> QED
    BY <1>3, <2>2, <2>3, <2>4 DEF DispatchResume, StepInv, TypeOK, Numbered, ApproverRecord
<1>4. CASE RejectStep(a)
  <2>1. /\ approver' \in [Approvers -> ApproverRecord]
        /\ approver'[a].pc \in {"rejectRecord", "done"}
        /\ \A b \in Approvers : b # a => approver'[b] = approver[b]
    BY <1>0, <1>4, ApproverGoes DEF RejectStep
  <2>2. StepsOK' /\ Numbered' /\ DOMAIN steps \subseteq DOMAIN steps'
    <3>1. CASE UNCHANGED steps
      BY <1>0, <3>1 DEF StepsOK, Numbered
    <3>2. CASE Insert(approver[a].next, "message", "completed")
      <4>1. Continues(approver[a].next)
        BY <1>4 DEF RejectStep, StepInv, NumbersContinue
      <4> QED
        BY <1>0, <3>2, <4>1, InsertSteps
    <3> QED
      BY <1>4, <3>1, <3>2 DEF RejectStep
  <2>3. UNCHANGED <<run, msgs, calls, waiting, held, post, ex, canceller, poller, faults>>
    BY <1>4 DEF RejectStep
  <2>4. NumbersContinue'
    BY <2>1, <2>2, <2>3, ApproverNumbers
  <2> QED
    BY <2>1, <2>2, <2>3, <2>4 DEF StepInv, TypeOK, StepsOK, ResultKnown, ApproverRecord
<1>5. CASE RejectRecord(a) \/ ApproverCrash(a)
  <2>1. /\ approver' \in [Approvers -> ApproverRecord]
        /\ approver'[a].pc = "done"
        /\ \A b \in Approvers : b # a => approver'[b] = approver[b]
    BY <1>0, <1>5, ApproverGoes DEF RejectRecord, ApproverCrash
  <2>2. msgs' \in Seq(RunStatus)
    BY <1>5, RecordTypes DEF RejectRecord, ApproverCrash, StepInv, TypeOK, RunStatus
  <2>3. faults' \in 0..MaxFaults
    BY <1>5, FaultsAssumption DEF RejectRecord, ApproverCrash, StepInv, TypeOK
  <2>4. UNCHANGED <<run, steps, calls, waiting, held, post, ex, canceller, poller>>
    BY <1>5 DEF RejectRecord, ApproverCrash
  <2>5. NumbersContinue'
    BY <2>1, <2>4, ApproverNumbers
  <2> QED
    BY <2>1, <2>2, <2>3, <2>4, <2>5
    DEF StepInv, TypeOK, Numbered, ResultKnown, ApproverRecord
<1>6. ASSUME NEW e \in Executors, EventCollision(e, a)
      PROVE  StepInv'
  <2>1. /\ ex' \in [Executors -> Executor] /\ \A f \in Executors : ex'[f].seq = ex[f].seq
        /\ ResultKnown'
    <3>1. CASE UNCHANGED ex
      BY <1>0, <3>1 DEF ResultKnown
    <3>2. CASE Fail(e, "failed")
      BY <1>0, <3>2, FailEx, KeepResults DEF FailureStatus
    <3> QED
      BY <1>6, <3>1, <3>2 DEF EventCollision
  <2>2. /\ approver' \in [Approvers -> ApproverRecord]
        /\ approver'[a].pc \notin {"dispatch", "rejectStep"}
        /\ \A b \in Approvers : b # a => approver'[b] = approver[b]
    <3>1. CASE UNCHANGED approver
      BY <1>0, <1>6, <3>1 DEF EventCollision
    <3>2. CASE approver' = [approver EXCEPT ![a].pc = "done"]
      BY <1>0, <3>2, ApproverGoes
    <3> QED
      BY <1>6, <3>1, <3>2 DEF EventCollision
  <2>3. NumbersContinue'
    BY <1>6, <2>1, <2>2, ApproverNumbers DEF EventCollision
  <2> QED
    BY <1>6, <2>1, <2>2, <2>3 DEF EventCollision, StepInv, TypeOK, Numbered, ApproverRecord
<1> QED
  BY <1>1, <1>2, <1>3, <1>4, <1>5, <1>6 DEF FinishDecision

LEMMA InitStepInv == Init => StepInv
<1> SUFFICES ASSUME Init
             PROVE  StepInv
  OBVIOUS
<1>1. DOMAIN steps = {} /\ 1..0 = {}
  BY DEF Init
<1>2. StepsOK /\ Numbered
  <2>1. steps \in [DOMAIN steps -> Step]
    BY <1>1 DEF Init
  <2> QED
    BY <1>1, <2>1 DEF StepsOK, Numbered
<1>3. run \in RunRow
  BY AsyncAssumption DEF Init, RunRow, RunStatus
<1>4. msgs \in Seq(RunStatus) /\ calls \in [1..ModelCall -> Nat]
  BY DEF Init
<1>5. /\ ex \in [Executors -> Executor]
      /\ \A e \in Executors : ex[e].pc \in {"idle", "begin"} /\ ex[e].seq = 1
  <2> DEFINE x == [Idle EXCEPT !.pc = "begin", !.via = "sync"]
  <2>1. x \in Executor
    BY SetFields, IdleExecutor DEF ExecutorPC
  <2>2. x.pc = "begin" /\ x.seq = 1 /\ Idle.pc = "idle" /\ Idle.seq = 1
    BY <2>1 DEF Idle
  <2>3. \/ ex = [e \in Executors |-> Idle]
        \/ \E e \in Executors : ex = [[f \in Executors |-> Idle] EXCEPT ![e] = x]
    BY DEF Init
  <2> HIDE DEF x
  <2> QED
    BY <2>1, <2>2, <2>3, IdleExecutor
<1>6. approver \in [Approvers -> ApproverRecord] /\ \A a \in Approvers : approver[a].pc = "idle"
  BY DEF Init, ApproverRecord
<1>7. faults \in 0..MaxFaults
  BY FaultsAssumption DEF Init
<1>8. NumbersContinue
  BY <1>5, <1>6, ContinuesOne DEF NumbersContinue
<1>9. ResultKnown
  BY <1>5 DEF ResultKnown
<1>10. TypeOK
  BY <1>2, <1>3, <1>4, <1>5, <1>6, <1>7 DEF Init, TypeOK, StepsOK, ApproverRecord
<1> QED
  BY <1>2, <1>8, <1>9, <1>10 DEF StepInv

LEMMA StepInvNext == StepInv /\ [Next]_vars => StepInv'
<1> SUFFICES ASSUME StepInv, [Next]_vars
             PROVE  StepInv'
  OBVIOUS
<1>1. CASE UNCHANGED vars
  BY <1>1 DEF vars, StepInv, TypeOK, Numbered, NumbersContinue, Continues, ResultKnown
<1>2. ASSUME NEW e \in Executors, Execute(e)
      PROVE  StepInv'
  BY <1>2, ExecuteStepInv, ExecuteResults DEF StepInv
<1>3. ASSUME NEW e \in Executors,
             Deliver(e) \/ Redeliver(e) \/ Heartbeat(e) \/ Abort(e) \/ Crash(e) \/ DatabaseError(e)
      PROVE  StepInv'
  BY <1>3, BackgroundStepInv
<1>4. CASE \/ DispatchNew \/ PostCrash \/ LeaseExpires
           \/ \E c \in Cancellers : Cancel(c) \/ CancelCrash(c)
           \/ \E g \in Pollers : Poll(g) \/ PollCrash(g)
  BY <1>4, RequestStepInv
<1>5. ASSUME NEW a \in Approvers,
             \/ DecideBegin(a) \/ FinishDecision(a) \/ ApproverCrash(a)
             \/ \E e \in Executors : EventCollision(e, a)
      PROVE  StepInv'
  BY <1>5, ApprovalStepInv
<1> QED
  BY <1>1, <1>2, <1>3, <1>4, <1>5 DEF Next

\* Every state the run can reach is well typed.
THEOREM TypeCorrect == Spec => []TypeOK
<1>1. StepInv => TypeOK
  BY DEF StepInv
<1> QED
  BY <1>1, InitStepInv, StepInvNext, PTL DEF Spec

\* However executions, resumptions and rejections interleave, crash or repeat, the steps
\* of a run are numbered 1, 2, 3, ... without a gap.
THEOREM StepsStayDense == Spec => []StepsDense
<1>1. StepInv => StepsDense
  <2> SUFFICES ASSUME StepInv
               PROVE  StepsDense
    OBVIOUS
  <2>1. PICK k \in Nat : DOMAIN steps = 1..k
    BY DEF StepInv, Numbered
  <2>2. Cardinality(1..k) = k
    BY FS_Interval
  <2> QED
    BY <2>1, <2>2 DEF StepsDense
<1> QED
  BY <1>1, InitStepInv, StepInvNext, PTL DEF Spec
-----------------------------------------------------------------------------
(* No external action without an approval.                                 *)

\* How steps may change without an approval being added, decided or reopened.
StepsKept ==
  /\ \A n \in DOMAIN steps : /\ n \in DOMAIN steps'
                             /\ steps'[n].type = steps[n].type
                             /\ steps'[n].decision = steps[n].decision
                             /\ steps'[n].status = "running" => steps[n].status = "running"
  /\ \A n \in DOMAIN steps' : n \in DOMAIN steps \/ steps'[n].type # "approval"

\* How the status may change without the run being queued again or completed unapproved.
StatusKept ==
  \/ run'.status = run.status
  \/ run'.status \notin {"queued", "preparing", "completed"}
  \/ run'.status = "completed" /\ (NeedsApproval => Approved)

LEMMA ApprovalsKept ==
  ASSUME StepsKept
  PROVE  Approvals(steps)' = Approvals(steps) /\ Approved' = Approved
<1>1. Approvals(steps)' = Approvals(steps)
  BY DEF StepsKept, Approvals, isApprovalStep
<1>2. \A n \in Approvals(steps) : steps'[n].decision = steps[n].decision
  BY DEF StepsKept, Approvals
<1> QED
  BY <1>1, <1>2 DEF Approved

\* An executor that does nothing keeps fitting.
LEMMA FitsKept ==
  ASSUME StepsKept, NEW f \in Executors, Fits(f), ex'[f] = ex[f],
         StatusKept
  PROVE  Fits(f)'
<1>1. Approvals(steps)' = Approvals(steps) /\ Approved' = Approved
  BY ApprovalsKept
<1>2. ex'[f].llm \in DOMAIN steps =>
        ex'[f].llm \in DOMAIN steps' /\ steps'[ex'[f].llm].type = steps[ex'[f].llm].type
  BY DEF StepsKept
<1> QED
  BY <1>1, <1>2 DEF Fits, Active, Working, NeedsApproval, StatusKept

\* One executor acts.
LEMMA GateActs ==
  ASSUME GateInv, StepsKept, NEW e \in Executors, Fits(e)',
         \A f \in Executors : f # e => ex'[f] = ex[f],
         StatusKept,
         UNCHANGED approver,
         \A a \in Approvers, n \in Approvals(steps) :
           approver[a].pc = "tx" => steps'[n].status = steps[n].status,
         \A i \in DOMAIN Tools : Tools[i] = "external" /\ calls'[i] > 0 => calls[i] > 0 \/ Approved
  PROVE  GateInv'
<1>1. Approvals(steps)' = Approvals(steps) /\ Approved' = Approved
  BY ApprovalsKept
<1>2. \A f \in Executors : Fits(f)'
  BY FitsKept DEF GateInv
<1>3. OneApproval'
  <2> SUFFICES ASSUME NEW n \in Approvals(steps)
               PROVE  n = 1 /\ (steps'[n].status = "running" => steps'[n].decision = "none")
    BY <1>1 DEF OneApproval
  <2> QED
    BY DEF GateInv, OneApproval, StepsKept, Approvals
<1>4. DecisionIsExclusive'
  BY <1>1 DEF GateInv, DecisionIsExclusive
<1>5. /\ QueuedMeansApproved' /\ CompletedMeansApproved'
      /\ DispatchMeansApproval' /\ ExternalCallsApproved'
  BY <1>1 DEF GateInv, QueuedMeansApproved, CompletedMeansApproved, DispatchMeansApproval,
     ExternalCallsApproved, StatusKept, NeedsApproval
<1> QED
  BY <1>2, <1>3, <1>4, <1>5 DEF GateInv

\* Requests act, and no executor does.
LEMMA GateStands ==
  ASSUME GateInv, StepsKept, UNCHANGED <<ex, calls>>,
         StatusKept,
         \A a \in Approvers : approver'[a].pc \in {"tx", "dispatch"} => approver'[a] = approver[a],
         \A a \in Approvers, n \in Approvals(steps) :
           approver'[a].pc = "tx" => steps'[n].status = steps[n].status
  PROVE  GateInv'
<1>1. Approvals(steps)' = Approvals(steps) /\ Approved' = Approved
  BY ApprovalsKept
<1>2. \A f \in Executors : Fits(f)'
  BY FitsKept DEF GateInv
<1>3. OneApproval'
  <2> SUFFICES ASSUME NEW n \in Approvals(steps)
               PROVE  n = 1 /\ (steps'[n].status = "running" => steps'[n].decision = "none")
    BY <1>1 DEF OneApproval
  <2> QED
    BY DEF GateInv, OneApproval, StepsKept, Approvals
<1>4. DecisionIsExclusive'
  BY <1>1 DEF GateInv, DecisionIsExclusive
<1>5. /\ QueuedMeansApproved' /\ CompletedMeansApproved'
      /\ DispatchMeansApproval' /\ ExternalCallsApproved'
  BY <1>1 DEF GateInv, QueuedMeansApproved, CompletedMeansApproved, DispatchMeansApproval,
     ExternalCallsApproved, StatusKept, NeedsApproval
<1> QED
  BY <1>2, <1>3, <1>4, <1>5 DEF GateInv

LEMMA StepsUnchanged ==
  ASSUME UNCHANGED steps
  PROVE  StepsKept
BY DEF StepsKept

\* An insert of a step that is no approval.
LEMMA StepsInserted ==
  ASSUME StepInv, NEW n, Continues(n), NEW type \in {"tool", "llm", "message"},
         NEW status \in {"running", "completed"}, Insert(n, type, status)
  PROVE  /\ StepsKept
         /\ n \in DOMAIN steps' /\ steps'[n].type = type
         /\ \A m \in DOMAIN steps : steps'[m] = steps[m]
         /\ \A a \in Approvers : approver[a].pc # "tx"
<1>1. StepsOK /\ Numbered
  BY StepInvParts
<1>2. /\ DOMAIN steps' = DOMAIN steps \cup {n}
      /\ steps'[n] = [type |-> type, status |-> status, decision |-> "none"]
      /\ \A m \in DOMAIN steps : steps'[m] = steps[m]
  BY <1>1, InsertSteps
<1>3. \A a \in Approvers : approver[a].pc # "tx"
  BY DEF Insert, RowFree
<1> QED
  BY <1>2, <1>3 DEF StepsKept

\* The executor moves between two places of its program that are not the gate.
LEMMA FitsOn ==
  ASSUME StepsKept, NEW e \in Executors, Fits(e),
         ex'[e].llm = ex[e].llm, ex'[e].resume = ex[e].resume, ex'[e].seq = ex[e].seq,
         Active(e) \/ ~Active(e)',
         ex'[e].pc \in {"claim", "begin", "lease"} =>
           ex[e].pc \in {"claim", "begin", "lease"},
         ex'[e].pc # "gate",
         Working(e) \/ ~Working(e)',
         StatusKept
  PROVE  Fits(e)'
<1>1. Approvals(steps)' = Approvals(steps) /\ Approved' = Approved
  BY ApprovalsKept
<1>2. ex[e].llm \in DOMAIN steps =>
        ex[e].llm \in DOMAIN steps' /\ steps'[ex[e].llm].type = steps[ex[e].llm].type
  BY DEF StepsKept
<1> QED
  BY <1>1, <1>2 DEF Fits, NeedsApproval, StatusKept

\* An executor that stops, or has not started, has nothing to fit.
LEMMA FitsStopped ==
  ASSUME NEW e \in Executors, ex'[e].llm = 0, ex'[e].resume = FALSE, ex'[e].seq = 1,
         ex'[e].pc \in {"done", "dead"}
  PROVE  Fits(e)'
BY DEF Fits, Active, Working

\* The executor moves on, and no step is touched.
LEMMA GateMoves ==
  ASSUME StepInv, GateInv, NEW e \in Executors,
         ex'[e].llm = ex[e].llm, ex'[e].resume = ex[e].resume, ex'[e].seq = ex[e].seq,
         \A f \in Executors : f # e => ex'[f] = ex[f],
         Active(e) \/ ~Active(e)',
         ex'[e].pc \in {"claim", "begin", "lease"} => ex[e].pc \in {"claim", "begin", "lease"},
         ex'[e].pc # "gate",
         Working(e) \/ ~Working(e)',
         StatusKept,
         UNCHANGED <<steps, approver>>,
         \A i \in DOMAIN Tools : Tools[i] = "external" /\ calls'[i] > 0 => calls[i] > 0 \/ Approved
  PROVE  GateInv'
<1>1. Fits(e) /\ StepsKept
  BY StepsUnchanged DEF GateInv
<1>2. Fits(e)'
  BY <1>1, FitsOn
<1> QED
  BY <1>1, <1>2, GateActs

LEMMA GateGoes ==
  ASSUME StepInv, GateInv, NEW e \in Executors, NEW p \in ExecutorPC, Goto(e, p),
         p # "gate", Active(e),
         p \in {"claim", "begin", "lease"} => ex[e].pc \in {"claim", "begin", "lease"},
         Working(e) \/ p \notin {"tool", "toolStep", "model", "stream", "complete", "finish"},
         StatusKept,
         UNCHANGED <<steps, approver>>,
         \A i \in DOMAIN Tools : Tools[i] = "external" /\ calls'[i] > 0 => calls[i] > 0 \/ Approved
  PROVE  GateInv'
<1>1. ex \in [Executors -> Executor]
  BY StepInvParts
<1>2. /\ ex'[e].llm = ex[e].llm /\ ex'[e].resume = ex[e].resume /\ ex'[e].seq = ex[e].seq
      /\ ex'[e].pc = p /\ \A f \in Executors : f # e => ex'[f] = ex[f]
  BY <1>1, GotoEx
<1>3. Working(e) \/ ~Working(e)'
  BY <1>2 DEF Working
<1> QED
  BY <1>2, <1>3, GateMoves

LEMMA GateFails ==
  ASSUME StepInv, GateInv, NEW e \in Executors, NEW s \in FailureStatus, Fail(e, s), Active(e),
         UNCHANGED <<run, steps, calls, approver>>
  PROVE  GateInv'
<1>1. ex \in [Executors -> Executor]
  BY StepInvParts
<1>2. /\ ex'[e].llm = ex[e].llm /\ ex'[e].resume = ex[e].resume /\ ex'[e].seq = ex[e].seq
      /\ ex'[e].pc = "failStep" /\ \A f \in Executors : f # e => ex'[f] = ex[f]
  BY <1>1, FailEx
<1>3. ~Working(e)'
  BY <1>2 DEF Working
<1> QED
  BY <1>2, <1>3, GateMoves DEF StatusKept

LEMMA GateRecords ==
  ASSUME StepInv, GateInv, NEW e \in Executors,
         NEW s \in FailureStatus \cup {"waiting_input", "completed"},
         Become(e, [ex[e] EXCEPT !.pc = "record", !.result = s]), Active(e),
         UNCHANGED <<run, steps, calls, approver>>
  PROVE  GateInv'
<1>1. ex \in [Executors -> Executor]
  BY StepInvParts
<1>2. /\ ex'[e].llm = ex[e].llm /\ ex'[e].resume = ex[e].resume /\ ex'[e].seq = ex[e].seq
      /\ ex'[e].pc = "record" /\ \A f \in Executors : f # e => ex'[f] = ex[f]
  BY <1>1, FinishEx
<1>3. ~Working(e)'
  BY <1>2 DEF Working
<1> QED
  BY <1>2, <1>3, GateMoves DEF StatusKept

\* Finishing the model step touches no approval.
LEMMA ModelStepUpdated ==
  ASSUME StepsOK, NEW e \in Executors, Fits(e),
         steps' = [steps EXCEPT ![ex[e].llm].status = "completed"]
  PROVE  StepsKept /\ \A n \in Approvals(steps) : steps'[n].status = steps[n].status
<1> DEFINE x == [steps[ex[e].llm] EXCEPT !.status = "completed"]
<1>1. \A n \in DOMAIN steps : steps[n] \in Step
  BY DEF StepsOK
<1>2. ex[e].llm \in DOMAIN steps =>
        /\ x.type = steps[ex[e].llm].type /\ x.decision = steps[ex[e].llm].decision
        /\ x.status # "running" /\ steps[ex[e].llm].type = "llm"
  <2>1. ex[e].llm \in DOMAIN steps => steps[ex[e].llm].type = "llm"
    BY DEF Fits, StepsOK
  <2> QED
    BY <1>1, <2>1 DEF Step
<1>3. steps' = [n \in DOMAIN steps |-> IF n = ex[e].llm THEN x ELSE steps[n]]
  BY DEF StepsOK
<1> HIDE DEF x
<1> QED
  BY <1>2, <1>3 DEF StepsKept, Approvals, isApprovalStep

LEMMA ModelStepFailed ==
  ASSUME StepsOK, NEW e \in Executors, Fits(e), FailStep(e)
  PROVE  StepsKept /\ \A n \in Approvals(steps) : steps'[n].status = steps[n].status
<1> DEFINE s == IF ex[e].result = "cancelled" THEN "cancelled" ELSE "failed"
           x == [steps[ex[e].llm] EXCEPT !.status = s]
<1>1. \A n \in DOMAIN steps : steps[n] \in Step
  BY DEF StepsOK
<1>2. s # "running"
  OBVIOUS
<1>3. steps' = [n \in DOMAIN steps |->
                  IF n = ex[e].llm /\ steps[n].status = "running" THEN x ELSE steps[n]]
  BY DEF FailStep
<1> HIDE DEF s
<1>4. ex[e].llm \in DOMAIN steps =>
        /\ x.type = steps[ex[e].llm].type /\ x.decision = steps[ex[e].llm].decision
        /\ x.status # "running" /\ steps[ex[e].llm].type = "llm"
  <2>1. ex[e].llm \in DOMAIN steps => steps[ex[e].llm].type = "llm"
    BY DEF Fits, StepsOK
  <2> QED
    BY <1>1, <1>2, <2>1 DEF Step
<1> HIDE DEF x
<1> QED
  BY <1>3, <1>4 DEF StepsKept, Approvals, isApprovalStep

LEMMA GateStops ==
  ASSUME StepInv, GateInv, NEW e \in Executors, NEW p \in {"done", "dead"}, Stop(e, p),
         UNCHANGED <<run, steps, calls, approver>>
  PROVE  GateInv'
<1>1. ex \in [Executors -> Executor] /\ p \in ExecutorPC
  BY StepInvParts DEF ExecutorPC
<1>2. Fits(e)' /\ \A f \in Executors : f # e => ex'[f] = ex[f]
  BY <1>1, StopEx, FitsStopped
<1> QED
  BY <1>2, StepsUnchanged, GateActs DEF StatusKept

LEMMA ExecuteGateInv ==
  ASSUME StepInv, GateInv, NEW e \in Executors, Execute(e)
  PROVE  GateInv'
<1>0. /\ run \in RunRow /\ StepsOK /\ ex \in [Executors -> Executor] /\ Numbered
      /\ Continues(ex[e].seq) /\ ResultKnown /\ ex[e] \in Executor /\ Fits(e)
  BY StepInvParts DEF GateInv
<1>1. CASE LoadRun(e)
  <2> DEFINE x == [ex[e] EXCEPT !.pc = "loadSteps", !.seen = run.status]
  <2>1. x \in Executor
    BY <1>0, LoadedExecutor, RowStatus
  <2>2. x.pc = "loadSteps" /\ x.llm = ex[e].llm /\ x.resume = ex[e].resume /\ x.seq = ex[e].seq
    BY <1>0 DEF Executor
  <2> HIDE DEF x
  <2>3. ex'[e] = x /\ \A f \in Executors : f # e => ex'[f] = ex[f]
    BY <1>0, <1>1, <2>1, BecomeEx DEF LoadRun, x
  <2>4. UNCHANGED <<run, steps, calls, approver>>
    BY <1>1 DEF LoadRun, requests
  <2>5. ~Active(e)' /\ ~Working(e)'
    BY <2>2, <2>3 DEF Active, Working
  <2>6. Fits(e)'
    BY <1>0, <2>2, <2>3, <2>4, <2>5, StepsUnchanged, FitsOn DEF StatusKept
  <2> QED
    BY <2>3, <2>4, <2>6, StepsUnchanged, GateActs DEF StatusKept
<1>2. CASE LoadSteps(e) /\ InputReadable
  <2> DEFINE resume == Resumes(ex[e].seen, steps)
             n == IF resume THEN nextSequenceNo(steps) ELSE 1
             x == [Idle EXCEPT !.pc = "claim", !.resume = resume, !.seq = n]
  <2>1. resume \in BOOLEAN /\ n \in Nat
    <3>1. nextSequenceNo(steps) \in Nat
      BY <1>0, NextContinues DEF Continues
    <3> QED
      BY <3>1 DEF Resumes
  <2>2. resume => Approvals(steps) # {}
    BY DEF Resumes, planResume, computeResumeState
  <2>3. ~resume => n = 1
    OBVIOUS
  <2>4. Become(e, x)
    BY <1>2 DEF LoadSteps
  <2> HIDE DEF resume, n
  <2>5. x \in Executor /\ x.seq = n /\ x.pc = "claim" /\ x.llm = 0 /\ x.resume = resume
    <3>1. x \in Executor
      BY <2>1, SetFields, IdleExecutor DEF ExecutorPC
    <3> QED
      BY <3>1 DEF Idle
  <2> HIDE DEF x
  <2>6. ex'[e] = x /\ \A f \in Executors : f # e => ex'[f] = ex[f]
    BY <1>0, <2>4, <2>5, BecomeEx
  <2>7. UNCHANGED <<run, steps, calls, approver>>
    BY <1>2 DEF LoadSteps, requests
  <2>8. Fits(e)'
    BY <2>2, <2>3, <2>5, <2>6, <2>7 DEF Fits, Active, Working
  <2> QED
    BY <2>6, <2>7, <2>8, StepsUnchanged, GateActs DEF StatusKept
<1>20. CASE LoadSteps(e) /\ ~InputReadable
  BY <1>20, GateStops DEF LoadSteps, requests
<1>3. CASE Claim(e)
  <2>1. CASE Claimable
    <3>1. Goto(e, "begin") /\ run' = Running /\ UNCHANGED <<steps, calls, approver>>
      BY <1>3, <2>1 DEF Claim, requests
    <3>2. /\ ex'[e].llm = ex[e].llm /\ ex'[e].resume = ex[e].resume /\ ex'[e].seq = ex[e].seq
          /\ ex'[e].pc = "begin" /\ \A f \in Executors : f # e => ex'[f] = ex[f]
      BY <1>0, <3>1, GotoEx DEF ExecutorPC
    <3>3. run'.status = "running"
      BY <1>0, <3>1, RowStatus
    <3>4. run.status = "queued"
      BY <2>1 DEF Claimable, GateInv, QueuedMeansApproved
    <3>5. ex[e].resume => Approved
      BY <1>0, <3>4 DEF Fits, GateInv, QueuedMeansApproved
    <3>6. ex[e].pc = "claim"
      BY <1>3 DEF Claim
    <3>7. Approvals(steps)' = Approvals(steps) /\ Approved' = Approved
      BY <3>1, StepsUnchanged, ApprovalsKept
    <3>8. Fits(e)'
      BY <1>0, <3>1, <3>2, <3>3, <3>5, <3>6, <3>7 DEF Fits, Active, Working
    <3> QED
      BY <3>1, <3>2, <3>3, <3>8, StepsUnchanged, GateActs DEF StatusKept
  <2>2. CASE ~Claimable
    BY <1>3, <2>2, GateStops DEF Claim, requests
  <2> QED
    BY <2>1, <2>2
<1>4. CASE MarkRunRunning(e)
  <2>1. CASE Runnable
    <3>1. /\ Goto(e, "lease") /\ run' = Running /\ UNCHANGED <<steps, calls, approver>>
          /\ ex[e].pc = "begin"
      BY <1>4, <2>1 DEF MarkRunRunning, requests
    <3>2. run'.status = "running"
      BY <1>0, <3>1, RowStatus
    <3> QED
      BY <3>1, <3>2, GateGoes DEF ExecutorPC, Active, StatusKept
  <2>2. CASE ~Runnable
    BY <1>4, <2>2, GateFails DEF MarkRunRunning, requests, Active, FailureStatus
  <2> QED
    BY <2>1, <2>2
<1>5. CASE FirstLease(e)
  <2>1. CASE Renewable
    <3> DEFINE p == IF ~ex[e].resume /\ NeedsApproval THEN "gate" ELSE "tool"
    <3>1. /\ Goto(e, p) /\ run' = [run EXCEPT !.lease = "live"]
          /\ UNCHANGED <<steps, calls, approver>> /\ ex[e].pc = "lease"
      BY <1>5, <2>1 DEF FirstLease, requests
    <3>2. p \in ExecutorPC
      BY DEF ExecutorPC
    <3>3. p = "gate" => ~ex[e].resume /\ NeedsApproval
      OBVIOUS
    <3>4. p \in {"gate", "tool"} /\ (p = "tool" /\ NeedsApproval => ex[e].resume)
      OBVIOUS
    <3> HIDE DEF p
    <3>5. /\ ex'[e].llm = ex[e].llm /\ ex'[e].resume = ex[e].resume /\ ex'[e].seq = ex[e].seq
          /\ ex'[e].pc = p /\ \A f \in Executors : f # e => ex'[f] = ex[f]
      BY <1>0, <3>1, <3>2, GotoEx
    <3>6. run'.status = run.status
      BY <1>0, <3>1, RowStatus
    <3>7. Approvals(steps)' = Approvals(steps) /\ Approved' = Approved
      BY <3>1, StepsUnchanged, ApprovalsKept
    <3>8. Active(e)
      BY <3>1 DEF Active
    <3>9. Fits(e)'
      BY <1>0, <3>1, <3>3, <3>4, <3>5, <3>6, <3>7, <3>8 DEF Fits, Working, NeedsApproval, StatusKept
    <3> QED
      BY <3>1, <3>5, <3>6, <3>9, StepsUnchanged, GateActs DEF StatusKept
  <2>2. CASE ~Renewable
    BY <1>5, <2>2, GateFails DEF FirstLease, requests, Active, FailureStatus
  <2> QED
    BY <2>1, <2>2
<1>6. CASE MarkRunWaitingInput(e) \/ MarkRunCompleted(e)
  <2>1. CASE Renewable
    <3>1. PICK s \in {"waiting_input", "completed"}, p \in {"pauseEvent", "finish"} :
            /\ Goto(e, p) /\ run' = Ended(s)
            /\ p = "finish" => ex[e].pc = "complete"
            /\ s = "completed" => ex[e].pc = "complete"
      BY <1>6, <2>1 DEF MarkRunWaitingInput, MarkRunCompleted
    <3>2. UNCHANGED <<steps, calls, approver>> /\ ex[e].pc \in {"pause", "complete"}
      BY <1>6 DEF MarkRunWaitingInput, MarkRunCompleted, requests
    <3>3. StatusKept
      <4>1. run'.status = s
        BY <1>0, <3>1, RowStatus DEF RunStatus
      <4>2. ex[e].pc = "complete" /\ NeedsApproval => Approved
        BY <1>0 DEF Fits, Active, Working
      <4> QED
        BY <3>1, <4>1, <4>2 DEF StatusKept
    <3> QED
      BY <3>1, <3>2, <3>3, GateGoes DEF ExecutorPC, Active, Working, StatusKept
  <2>2. CASE ~Renewable
    <3>1. /\ Fail(e, "cancelled") /\ UNCHANGED <<run, steps, calls, approver>>
          /\ ex[e].pc \in {"pause", "complete"}
      BY <1>6, <2>2 DEF MarkRunWaitingInput, MarkRunCompleted, requests
    <3> QED
      BY <3>1, GateFails DEF Active, FailureStatus
  <2> QED
    BY <2>1, <2>2
<1>7. CASE NumberTaken(e) /\ (AddApprovalStep(e) \/ AddToolStep(e) \/ AddModelStep(e))
  <2>1. /\ Fail(e, "failed") /\ UNCHANGED <<run, steps, calls, approver>>
        /\ ex[e].pc \in {"gate", "toolStep", "tool"}
    BY <1>7 DEF NumberTaken, AddApprovalStep, AddToolStep, AddModelStep, requests, Insert
  <2> QED
    BY <2>1, GateFails DEF Active, FailureStatus
<1>8. CASE AddApprovalStep(e) /\ ~NumberTaken(e)
  <2>1. /\ Insert(ex[e].seq, "approval", "running")
        /\ Become(e, [ex[e] EXCEPT !.pc = "pause", !.seq = @ + 1])
        /\ UNCHANGED <<run, calls, approver>> /\ ex[e].pc = "gate"
    BY <1>8 DEF AddApprovalStep, requests
  <2>2. ex[e].seq = 1 /\ ~ex[e].resume
    BY <1>0, <2>1 DEF Fits
  <2>3. /\ ex'[e].pc = "pause" /\ ex'[e].llm = ex[e].llm /\ ex'[e].resume = ex[e].resume
        /\ \A f \in Executors : f # e => ex'[f] = ex[f]
    BY <1>0, <2>1, NextStepEx
  <2>4. /\ 1 \notin DOMAIN steps /\ DOMAIN steps' = DOMAIN steps \cup {1}
        /\ steps'[1] = [type |-> "approval", status |-> "running", decision |-> "none"]
    BY <1>0, <2>1, <2>2, InsertSteps
  <2>5. DOMAIN steps = {}
    BY <1>0, <2>4 DEF Numbered
  <2>6. Approvals(steps) = {} /\ ~Approved /\ Approvals(steps)' = {1}
    BY <2>4, <2>5 DEF Approvals, isApprovalStep, Approved
  <2>7. \A f \in Executors : ~ex[f].resume /\ ex[f].llm = 0
    BY <2>5, <2>6 DEF GateInv, Fits
  <2>8. run.status # "queued"
    BY <1>0, <2>1, <2>6 DEF Fits, Active
  <2>9. \A f \in Executors : Fits(f)'
    <3> TAKE f \in Executors
    <3>1. CASE f = e
      BY <2>1, <2>3, <2>6, <2>7, <2>8, <3>1 DEF Fits, Working
    <3>2. CASE f # e
      <4>1. ex'[f] = ex[f] /\ Fits(f)
        BY <2>3, <3>2 DEF GateInv
      <4> QED
        BY <2>1, <2>6, <2>7, <2>8, <4>1 DEF Fits, Working, NeedsApproval
    <3> QED
      BY <3>1, <3>2
  <2>10. OneApproval'
    BY <2>4, <2>6 DEF OneApproval
  <2>11. DecisionIsExclusive'
    BY <2>1 DEF Insert, RowFree, DecisionIsExclusive
  <2>12. CompletedMeansApproved'
    <3>1. NeedsApproval
      BY <1>0, <2>1 DEF Fits
    <3>2. run.status # "completed"
      BY <2>6, <3>1 DEF GateInv, CompletedMeansApproved
    <3> QED
      BY <2>1, <3>1, <3>2 DEF CompletedMeansApproved, NeedsApproval
  <2>13. QueuedMeansApproved' /\ DispatchMeansApproval' /\ ExternalCallsApproved'
    BY <2>1, <2>6, <2>8 DEF GateInv, QueuedMeansApproved, DispatchMeansApproval,
       ExternalCallsApproved
  <2> QED
    BY <2>9, <2>10, <2>11, <2>12, <2>13 DEF GateInv
<1>9. CASE (AddToolStep(e) \/ AddModelStep(e)) /\ ~NumberTaken(e)
  <2>1. PICK p \in {"tool", "model"}, t \in {"tool", "llm"}, s \in {"running", "completed"} :
          /\ Insert(ex[e].seq, t, s)
          /\ \/ p = "tool" /\ Become(e, [ex[e] EXCEPT !.pc = "tool", !.seq = @ + 1, !.at = @ + 1])
             \/ /\ p = "model" /\ t = "llm"
                /\ Become(e, [ex[e] EXCEPT !.pc = "model", !.llm = ex[e].seq, !.seq = @ + 1])
    BY <1>9 DEF AddToolStep, AddModelStep
  <2>2. UNCHANGED <<run, calls, approver>> /\ ex[e].pc \in {"tool", "toolStep"}
    BY <1>9 DEF AddToolStep, AddModelStep, requests
  <2>3. /\ ex'[e].pc = p /\ ex'[e].resume = ex[e].resume
        /\ ex'[e].llm = IF p = "model" THEN ex[e].seq ELSE ex[e].llm
        /\ \A f \in Executors : f # e => ex'[f] = ex[f]
    BY <1>0, <2>1, NextStepEx
  <2>4. /\ StepsKept /\ ex[e].seq \in DOMAIN steps' /\ steps'[ex[e].seq].type = t
        /\ \A m \in DOMAIN steps : m \in DOMAIN steps' /\ steps'[m] = steps[m]
        /\ \A a \in Approvers : approver[a].pc # "tx"
    BY <1>0, <2>1, StepsInserted DEF StepsKept
  <2>5. Approvals(steps)' = Approvals(steps) /\ Approved' = Approved
    BY <2>4, ApprovalsKept
  <2>6. Active(e) /\ Working(e)
    BY <2>2 DEF Active, Working
  <2>7. ex'[e].llm = 0 \/ (ex'[e].llm \in DOMAIN steps' /\ steps'[ex'[e].llm].type = "llm")
    BY <1>0, <2>1, <2>3, <2>4 DEF Fits
  <2>8. Fits(e)'
    BY <1>0, <2>2, <2>3, <2>5, <2>6, <2>7 DEF Fits, NeedsApproval
  <2> QED
    BY <2>2, <2>3, <2>4, <2>8, GateActs DEF StatusKept
<1>10. CASE AddApprovalEvent(e)
  <2>1. /\ Become(e, [ex[e] EXCEPT !.pc = "record", !.result = "waiting_input"])
        /\ UNCHANGED <<run, steps, calls, approver>> /\ ex[e].pc = "pauseEvent"
    BY <1>10 DEF AddApprovalEvent, requests
  <2> QED
    BY <2>1, GateRecords DEF Active
<1>11. CASE UseTool(e)
  <2>1. ex[e].pc = "tool" /\ UNCHANGED <<run, steps, approver>>
    BY <1>11 DEF UseTool, requests
  <2>2. Active(e) /\ Working(e)
    BY <2>1 DEF Active, Working
  <2>3. \A i \in DOMAIN Tools : Tools[i] = "external" /\ calls'[i] > 0 => calls[i] > 0 \/ Approved
    <3>1. CASE UNCHANGED calls
      BY <3>1
    <3>2. CASE Tools[ex[e].at] = "external" /\ calls' = [calls EXCEPT ![ex[e].at] = @ + 1]
      <4> SUFFICES ASSUME NEW i \in DOMAIN Tools, Tools[i] = "external", calls'[i] > 0
                   PROVE  calls[i] > 0 \/ Approved
        OBVIOUS
      <4>1. NeedsApproval
        BY DEF NeedsApproval
      <4> QED
        BY <1>0, <2>2, <4>1 DEF Fits
    <3> QED
      BY <1>11, <3>1, <3>2 DEF UseTool
  <2>4. CASE Goto(e, "toolStep")
    BY <2>1, <2>2, <2>3, <2>4, GateGoes DEF ExecutorPC, StatusKept
  <2>5. CASE Become(e, [ex[e] EXCEPT !.at = @ + 1])
    <3> DEFINE x == [ex[e] EXCEPT !.at = @ + 1]
    <3>1. x \in Executor /\ x.pc = "tool" /\ x.llm = ex[e].llm /\ x.resume = ex[e].resume
          /\ x.seq = ex[e].seq
      BY <1>0, <2>1 DEF Executor
    <3> HIDE DEF x
    <3>2. ex'[e] = x /\ \A f \in Executors : f # e => ex'[f] = ex[f]
      BY <1>0, <2>5, <3>1, BecomeEx DEF x
    <3>3. Fits(e)'
      BY <1>0, <2>1, <2>2, <3>1, <3>2, StepsUnchanged, FitsOn DEF StatusKept
    <3> QED
      BY <2>1, <2>3, <3>2, <3>3, StepsUnchanged, GateActs DEF StatusKept
  <2> QED
    BY <1>11, <2>4, <2>5 DEF UseTool
<1>12. CASE CallModel(e)
  <2>1. /\ ex[e].pc = "model" /\ UNCHANGED <<run, steps, approver>>
        /\ \/ Fail(e, "failed") /\ UNCHANGED calls
           \/ Goto(e, "stream") /\ calls' = [calls EXCEPT ![ModelCall] = @ + 1]
    BY <1>12 DEF CallModel, requests
  <2>2. Active(e) /\ Working(e)
    BY <2>1 DEF Active, Working
  <2>3. CASE Fail(e, "failed") /\ UNCHANGED calls
    BY <2>1, <2>2, <2>3, GateFails DEF FailureStatus
  <2>4. CASE Goto(e, "stream") /\ calls' = [calls EXCEPT ![ModelCall] = @ + 1]
    <3>1. \A i \in DOMAIN Tools : i # ModelCall
      BY ToolsAssumption DEF ModelCall
    <3>2. \A i \in DOMAIN Tools : calls'[i] = calls[i]
      <4>1. calls \in [1..ModelCall -> Nat]
        BY DEF StepInv, TypeOK
      <4>2. \A i \in DOMAIN Tools : i \in 1..ModelCall
        BY ToolsAssumption DEF ModelCall
      <4> QED
        BY <2>4, <3>1, <4>1, <4>2
    <3>3. \A i \in DOMAIN Tools : Tools[i] = "external" /\ calls'[i] > 0 => calls[i] > 0 \/ Approved
      BY <3>2
    <3> QED
      BY <2>1, <2>2, <2>4, <3>3, GateGoes DEF ExecutorPC, StatusKept
  <2> QED
    BY <2>1, <2>3, <2>4
<1>13. CASE StreamEnds(e)
  <2>1. Goto(e, "complete") /\ ex[e].pc = "stream" /\ UNCHANGED <<run, steps, calls, approver>>
    BY <1>13 DEF StreamEnds, requests
  <2> QED
    BY <2>1, GateGoes DEF ExecutorPC, Active, Working, StatusKept
<1>14. CASE StreamFails(e) \/ ThrowIfAborted(e)
  <2>1. PICK s \in FailureStatus : Fail(e, s)
    <3>1. ex[e].abort # "none" => ex[e].abort \in FailureStatus
      BY <1>0, ResultStatus DEF FailureStatus
    <3> QED
      BY <1>14, <3>1 DEF StreamFails, ThrowIfAborted
  <2>2. /\ UNCHANGED <<run, steps, calls, approver>>
        /\ ex[e].pc \in {"stream", "begin", "lease", "tool", "toolStep", "model"}
    BY <1>14 DEF StreamFails, ThrowIfAborted, requests
  <2> QED
    BY <2>1, <2>2, GateFails DEF Active
<1>15. CASE CompleteStep(e)
  <2>1. /\ Become(e, [ex[e] EXCEPT !.pc = "record", !.result = "completed"])
        /\ steps' = [steps EXCEPT ![ex[e].llm].status = "completed"]
        /\ UNCHANGED <<run, calls, approver>> /\ ex[e].pc = "finish"
    BY <1>15 DEF CompleteStep, requests
  <2>2. /\ ex'[e].llm = ex[e].llm /\ ex'[e].resume = ex[e].resume /\ ex'[e].seq = ex[e].seq
        /\ ex'[e].pc = "record" /\ \A f \in Executors : f # e => ex'[f] = ex[f]
    BY <1>0, <2>1, FinishEx
  <2>3. StepsKept /\ \A n \in Approvals(steps) : steps'[n].status = steps[n].status
    BY <1>0, <2>1, ModelStepUpdated
  <2>4. Fits(e)'
    <3>1. Active(e) /\ ~Working(e)'
      BY <2>1, <2>2 DEF Active, Working
    <3> QED
      BY <1>0, <2>1, <2>2, <2>3, <3>1, FitsOn DEF StatusKept
  <2> QED
    BY <2>1, <2>2, <2>3, <2>4, GateActs DEF StatusKept
<1>16. CASE FailStep(e)
  <2>1. /\ Goto(e, "failRow") /\ UNCHANGED <<run, calls, approver>> /\ ex[e].pc = "failStep"
    BY <1>16 DEF FailStep, requests
  <2>2. /\ ex'[e].llm = ex[e].llm /\ ex'[e].resume = ex[e].resume /\ ex'[e].seq = ex[e].seq
        /\ ex'[e].pc = "failRow" /\ \A f \in Executors : f # e => ex'[f] = ex[f]
    BY <1>0, <2>1, GotoEx DEF ExecutorPC
  <2>3. StepsKept /\ \A n \in Approvals(steps) : steps'[n].status = steps[n].status
    BY <1>0, <1>16, ModelStepFailed
  <2>4. Fits(e)'
    <3>1. Active(e) /\ ~Working(e)'
      BY <2>1, <2>2 DEF Active, Working
    <3> QED
      BY <1>0, <2>1, <2>2, <2>3, <3>1, FitsOn DEF StatusKept
  <2> QED
    BY <2>1, <2>2, <2>3, <2>4, GateActs DEF StatusKept
<1>17. CASE MarkRunFailed(e)
  <2>1. Goto(e, "record") /\ ex[e].pc = "failRow" /\ UNCHANGED <<steps, calls, approver>>
    BY <1>17 DEF MarkRunFailed, requests
  <2>2. StatusKept
    <3>1. /\ ex[e].result \in FailureStatus /\ FailureStatus \subseteq RunStatus
          /\ "cancelled" \in FailureStatus
          /\ FailureStatus \cap {"queued", "preparing", "completed"} = {}
      BY <1>0, <2>1 DEF ResultKnown, FailureStatus, RunStatus
    <3>2. \A s \in FailureStatus : Ended(s).status = s
      BY <1>0, <3>1, RowStatus
    <3> QED
      BY <1>17, <3>1, <3>2 DEF MarkRunFailed, StatusKept
  <2> QED
    BY <2>1, <2>2, GateGoes DEF ExecutorPC, Active
<1>18. CASE Record(e)
  BY <1>18, GateStops DEF Record, requests
<1> QED
  BY <1>1, <1>3, <1>2, <1>20, <1>4, <1>5, <1>6, <1>7, <1>8, <1>9, <1>10, <1>11, <1>12, <1>13, <1>14,
     <1>15, <1>16, <1>17, <1>18 DEF Execute

LEMMA BackgroundGateInv ==
  ASSUME StepInv, GateInv, NEW e \in Executors,
         Deliver(e) \/ Redeliver(e) \/ Heartbeat(e) \/ Abort(e) \/ Crash(e) \/ DatabaseError(e)
  PROVE  GateInv'
<1>0. /\ run \in RunRow /\ ex \in [Executors -> Executor] /\ ex[e] \in Executor /\ Fits(e)
  BY StepInvParts DEF GateInv
<1>1. CASE Deliver(e)
  <2>1. Goto(e, "loadRun") /\ UNCHANGED <<run, steps, calls, approver>>
    BY <1>1 DEF Deliver, requests
  <2>2. /\ ex'[e].llm = ex[e].llm /\ ex'[e].resume = ex[e].resume /\ ex'[e].seq = ex[e].seq
        /\ ex'[e].pc = "loadRun" /\ \A f \in Executors : f # e => ex'[f] = ex[f]
    BY <1>0, <2>1, GotoEx DEF ExecutorPC
  <2>3. ~Active(e)' /\ ~Working(e)'
    BY <2>2 DEF Active, Working
  <2> QED
    BY <2>1, <2>2, <2>3, GateMoves DEF StatusKept
<1>2. CASE Redeliver(e)
  BY <1>2, GateStands, StepsUnchanged DEF Redeliver, requests, StatusKept
<1>3. ASSUME NEW x \in Executor, Become(e, x),
             x.llm = ex[e].llm, x.resume = ex[e].resume, x.seq = ex[e].seq, x.pc = ex[e].pc,
             run'.status = run.status, UNCHANGED <<steps, calls, approver>>
      PROVE  GateInv'
  <2>1. ex'[e] = x /\ \A f \in Executors : f # e => ex'[f] = ex[f]
    BY <1>0, <1>3, BecomeEx
  <2>2. Approvals(steps)' = Approvals(steps) /\ Approved' = Approved
    BY <1>3, StepsUnchanged, ApprovalsKept
  <2>3. Fits(e)'
    BY <1>0, <1>3, <2>1, <2>2 DEF Fits, Active, Working, NeedsApproval
  <2> QED
    BY <1>3, <2>1, <2>3, StepsUnchanged, GateActs DEF StatusKept
<1>4. CASE Heartbeat(e) \/ Abort(e)
  <2>1. /\ UNCHANGED <<steps, calls, approver>>
        /\ run'.status = run.status
    <3>1. CASE Heartbeat(e)
      <4>1. \/ run' = [run EXCEPT !.lease = "live"]
            \/ UNCHANGED run
        BY <3>1 DEF Heartbeat
      <4>2. run'.status = run.status
        BY <1>0, <4>1, RowStatus
      <4>3. UNCHANGED <<steps, calls, approver>>
        BY <3>1 DEF Heartbeat, requests
      <4> QED BY <4>2, <4>3
    <3>2. CASE Abort(e)
      BY <3>2 DEF Abort, requests
    <3> QED BY <1>4, <3>1, <3>2
  <2>2. CASE UNCHANGED ex
    BY <2>1, <2>2, GateStands, StepsUnchanged DEF StatusKept
  <2>3. CASE \E s \in {"cancelled", "timed_out"} : Become(e, [ex[e] EXCEPT !.abort = s])
    <3>1. PICK s \in {"cancelled", "timed_out"} : Become(e, [ex[e] EXCEPT !.abort = s])
      BY <2>3
    <3> DEFINE x == [ex[e] EXCEPT !.abort = s]
    <3>2. x \in Executor
      BY <1>0, SetFields
    <3>3. /\ x.llm = ex[e].llm /\ x.resume = ex[e].resume /\ x.seq = ex[e].seq
          /\ x.pc = ex[e].pc
      BY <1>0 DEF Executor
    <3> HIDE DEF x
    <3> QED
      BY <1>3, <2>1, <3>1, <3>2, <3>3 DEF x
  <2> QED
    BY <1>4, <2>2, <2>3 DEF Heartbeat, Abort
<1>5. CASE Crash(e)
  BY <1>5, GateStops DEF Crash, requests
<1>6. CASE DatabaseError(e)
  <2>1. UNCHANGED <<run, steps, calls, approver>>
    BY <1>6 DEF DatabaseError, requests
  <2>2. CASE Stop(e, "done")
    BY <2>1, <2>2, GateStops
  <2>3. CASE /\ Fail(e, "failed")
             /\ ex[e].pc \notin {"loadRun", "loadSteps", "claim", "idle", "done", "dead"}
    BY <2>1, <2>3, GateFails DEF Active, FailureStatus
  <2>4. CASE /\ ex[e].pc \in {"failStep", "failRow"}
             /\ Become(e, [ex[e] EXCEPT !.pc = "record", !.result = "failed"])
    BY <2>1, <2>4, GateRecords DEF Active, FailureStatus
  <2>5. CASE Become(e, [ex[e] EXCEPT !.result = "failed"])
    <3> DEFINE x == [ex[e] EXCEPT !.result = "failed"]
    <3>1. x \in Executor
      BY <1>0, SetFields DEF FailureStatus
    <3>2. /\ x.llm = ex[e].llm /\ x.resume = ex[e].resume /\ x.seq = ex[e].seq
          /\ x.pc = ex[e].pc
      BY <1>0 DEF Executor
    <3> HIDE DEF x
    <3> QED
      BY <1>3, <2>1, <2>5, <3>1, <3>2 DEF x
  <2> QED
    BY <1>6, <2>2, <2>3, <2>4, <2>5 DEF DatabaseError
<1> QED
  BY <1>1, <1>2, <1>4, <1>5, <1>6

\* A dispatch starts an executor at the claim, which knows whether the run was approved.
LEMMA DispatchGateInv ==
  ASSUME StepInv, GateInv, NEW via \in {"detached", "resumer"}, NEW resume \in BOOLEAN,
         NEW n \in Nat, Enqueued \/ ExecuteDetached(via, resume, n),
         resume => Approvals(steps) # {}, ~resume => n = 1,
         UNCHANGED <<run, steps, calls>>,
         \A a \in Approvers : approver'[a].pc \in {"tx", "dispatch"} => approver'[a] = approver[a]
  PROVE  GateInv'
<1>0. ex \in [Executors -> Executor]
  BY StepInvParts
<1>1. CASE Enqueued
  BY <1>1, GateStands, StepsUnchanged DEF Enqueued, StatusKept
<1>2. CASE ExecuteDetached(via, resume, n)
  <2> DEFINE x == [Idle EXCEPT !.pc = "claim", !.via = via, !.resume = resume, !.seq = n]
  <2>1. PICK e \in Executors : Become(e, x)
    BY <1>2 DEF ExecuteDetached
  <2>2. x \in Executor /\ x.pc = "claim" /\ x.seq = n /\ x.llm = 0 /\ x.resume = resume
    <3>1. x \in Executor
      BY SetFields, IdleExecutor DEF ExecutorPC
    <3> QED
      BY <3>1 DEF Idle
  <2> HIDE DEF x
  <2>3. ex'[e] = x /\ \A f \in Executors : f # e => ex'[f] = ex[f]
    BY <1>0, <2>1, <2>2, BecomeEx
  <2>4. Approvals(steps)' = Approvals(steps) /\ Approved' = Approved
    BY StepsUnchanged, ApprovalsKept
  <2>5. Fits(e)'
    BY <2>2, <2>3, <2>4 DEF Fits, Active, Working
  <2>6. \A f \in Executors : Fits(f)'
    BY <2>3, <2>5, StepsUnchanged, FitsKept DEF GateInv, StatusKept
  <2>7. OneApproval'
    BY <2>4 DEF GateInv, OneApproval
  <2>8. DecisionIsExclusive'
    BY <2>4 DEF GateInv, DecisionIsExclusive
  <2>9. /\ QueuedMeansApproved' /\ CompletedMeansApproved'
      /\ DispatchMeansApproval' /\ ExternalCallsApproved'
    BY <2>4 DEF GateInv, QueuedMeansApproved, CompletedMeansApproved, DispatchMeansApproval,
     ExternalCallsApproved, StatusKept, NeedsApproval
  <2> QED
    BY <2>6, <2>7, <2>8, <2>9 DEF GateInv
<1> QED
  BY <1>1, <1>2

\* Whatever sets the running steps keeps the approvals and their decisions.
LEMMA RunningStepsGateInv ==
  ASSUME StepInv, GateInv, NEW s \in {"failed", "cancelled"}, RowFree, SetRunningSteps(s),
         UNCHANGED <<run, ex, calls, approver>>
  PROVE  GateInv'
<1>1. StepsOK
  BY StepInvParts
<1>2. StepsKept
  BY <1>1, SetRunningStepsKeeps DEF StepsKept
<1>3. \A a \in Approvers : approver[a].pc # "tx"
  BY DEF RowFree
<1> QED
  BY <1>2, <1>3, GateStands DEF StatusKept

LEMMA RequestGateInv ==
  ASSUME StepInv, GateInv,
         \/ DispatchNew \/ PostCrash \/ LeaseExpires
         \/ \E c \in Cancellers : Cancel(c) \/ CancelCrash(c)
         \/ \E g \in Pollers : Poll(g) \/ PollCrash(g)
  PROVE  GateInv'
<1>0. run \in RunRow
  BY StepInvParts
<1>1. CASE DispatchNew
  <2>1. Enqueued \/ ExecuteDetached("detached", FALSE, 1)
    BY <1>1 DEF DispatchNew
  <2>2. UNCHANGED <<run, steps, calls, approver>>
    BY <1>1 DEF DispatchNew
  <2> QED
    BY <2>1, <2>2, DispatchGateInv
<1>2. ASSUME UNCHANGED <<steps, ex, calls, approver>>,
             StatusKept
      PROVE  GateInv'
  BY <1>2, StepsUnchanged, GateStands
<1>3. CASE PostCrash
  BY <1>2, <1>3 DEF PostCrash, StatusKept
<1>4. CASE LeaseExpires
  BY <1>0, <1>2, <1>4, RowStatus DEF LeaseExpires, requests, StatusKept
<1>5. ASSUME NEW c \in Cancellers, CancelRun(c)
      PROVE  GateInv'
  <2>1. StatusKept
    BY <1>0, <1>5, RowStatus DEF CancelRun, RunStatus, StatusKept
  <2> QED
    BY <1>2, <1>5, <2>1 DEF CancelRun
<1>6. ASSUME NEW c \in Cancellers, CancelSteps(c)
      PROVE  GateInv'
  BY <1>6, RunningStepsGateInv DEF CancelSteps
<1>7. ASSUME NEW c \in Cancellers, CancelRead(c) \/ CancelRecord(c) \/ CancelCrash(c)
      PROVE  GateInv'
  BY <1>2, <1>7 DEF CancelRead, CancelRecord, CancelCrash, StatusKept
<1>8. ASSUME NEW g \in Pollers, Reap(g)
      PROVE  GateInv'
  <2>1. run'.status = "timed_out"
    BY <1>0, <1>8, RowStatus DEF Reap, RunStatus
  <2> QED
    BY <1>2, <1>8, <2>1 DEF Reap, StatusKept
<1>9. ASSUME NEW g \in Pollers, ReapSteps(g)
      PROVE  GateInv'
  BY <1>9, RunningStepsGateInv DEF ReapSteps
<1>10. ASSUME NEW g \in Pollers, ReapRecord(g) \/ PollCrash(g)
       PROVE  GateInv'
  BY <1>2, <1>10 DEF ReapRecord, PollCrash, StatusKept
<1> QED
  BY <1>1, <1>3, <1>4, <1>5, <1>6, <1>7, <1>8, <1>9, <1>10 DEF Cancel, Poll

LEMMA ApprovalGateInv ==
  ASSUME StepInv, GateInv, NEW a \in Approvers,
         \/ DecideBegin(a) \/ FinishDecision(a) \/ ApproverCrash(a)
         \/ \E e \in Executors : EventCollision(e, a)
  PROVE  GateInv'
<1>0. /\ run \in RunRow /\ StepsOK /\ ex \in [Executors -> Executor] /\ Numbered
      /\ approver \in [Approvers -> ApproverRecord]
  BY StepInvParts DEF StepInv, TypeOK, ApproverRecord
<1>1. ASSUME NEW p \in {"rejectRecord", "done"}, approver' = [approver EXCEPT ![a].pc = p],
             StepsKept, UNCHANGED <<run, ex, calls>>, UNCHANGED steps \/ RowFree
      PROVE  GateInv'
  <2>1. /\ approver'[a].pc = p
        /\ \A b \in Approvers : b # a => approver'[b] = approver[b]
    BY <1>0, <1>1, ApproverGoes
  <2>2. \A b \in Approvers : approver'[b].pc \in {"tx", "dispatch"} => approver'[b] = approver[b]
    BY <2>1
  <2>3. \A b \in Approvers, n \in Approvals(steps) :
          approver'[b].pc = "tx" => steps'[n].status = steps[n].status
    BY <1>1, <2>2 DEF RowFree
  <2> QED
    BY <1>1, <2>2, <2>3, GateStands DEF StatusKept
<1>2. CASE DecideBegin(a)
  <2>1. PICK n \in Approvals(steps), p \in {"tx", "done"} :
          /\ approver' = [approver EXCEPT ![a].pc = p, ![a].step = n]
          /\ p = "tx" => steps[n].status = "running" /\ RowFree
    BY <1>2 DEF DecideBegin
  <2>2. p \in {"tx", "done"} /\ (p = "tx" => steps[n].status = "running")
    BY <2>1
  <2>3. n \in Nat
    BY <1>0, <2>1 DEF StepsOK, Approvals
  <2>4. approver' = [approver EXCEPT ![a].pc = p, ![a].step = n]
    BY <2>1
  <2>5. /\ approver'[a].pc = p /\ approver'[a].step = n
        /\ \A b \in Approvers : b # a => approver'[b] = approver[b]
    BY <1>0, <2>2, <2>3, <2>4, ApproverNotes
  <2>6. /\ UNCHANGED <<run, steps, calls, ex>>
        /\ p = "tx" => \A b \in Approvers : approver[b].pc # "tx"
    BY <1>2, <2>1 DEF DecideBegin, RowFree
  <2>7. Approvals(steps)' = Approvals(steps) /\ Approved' = Approved
    BY <2>6, StepsUnchanged, ApprovalsKept
  <2>8. \A f \in Executors : Fits(f)'
    BY <2>6, StepsUnchanged, FitsKept DEF GateInv, StatusKept
  <2>9. OneApproval'
    BY <2>6, <2>7 DEF GateInv, OneApproval
  <2>10. DecisionIsExclusive'
    <3>1. CASE p = "tx"
      BY <2>1, <2>2, <2>5, <2>6, <2>7, <3>1 DEF DecisionIsExclusive
    <3>2. CASE p = "done"
      BY <2>5, <2>6, <2>7, <3>2 DEF GateInv, DecisionIsExclusive
    <3> QED
      BY <2>2, <3>1, <3>2
  <2>11. /\ QueuedMeansApproved' /\ CompletedMeansApproved'
      /\ DispatchMeansApproval' /\ ExternalCallsApproved'
    BY <2>2, <2>5, <2>6, <2>7 DEF GateInv, QueuedMeansApproved, CompletedMeansApproved,
       DispatchMeansApproval, ExternalCallsApproved, NeedsApproval
  <2> QED
    BY <2>8, <2>9, <2>10, <2>11 DEF GateInv
<1>3. CASE DecideCommit(a)
  <2>1. PICK d \in ApprovalDecision :
          /\ steps' = applyApprovalDecision(steps, approver[a].step, d)
          /\ run' = [run EXCEPT !.status = IF d = "approved" THEN "queued" ELSE "cancelled"]
          /\ approver' = [approver EXCEPT
               ![a].pc = IF d = "approved" THEN "dispatch" ELSE "rejectStep",
               ![a].next = nextSequenceNo(steps)]
    BY <1>3 DEF DecideCommit
  <2> DEFINE p == IF d = "approved" THEN "dispatch" ELSE "rejectStep"
             s == approver[a].step
  <2>2. p \in {"dispatch", "rejectStep"}
    OBVIOUS
  <2>3. nextSequenceNo(steps) \in Nat
    BY <1>0, NextContinues DEF Continues
  <2>4. approver' = [approver EXCEPT ![a].pc = p, ![a].next = nextSequenceNo(steps)]
    BY <2>1
  <2> HIDE DEF p
  <2>5. approver'[a].pc = p /\ \A b \in Approvers : b # a => approver'[b] = approver[b]
    BY <1>0, <2>2, <2>3, <2>4, ApproverNotes
  <2>6. approver[a].pc = "tx" /\ UNCHANGED <<calls, ex>>
    BY <1>3 DEF DecideCommit
  <2>7. s \in Approvals(steps) /\ steps[s].status = "running" /\ steps[s].decision = "none"
    BY <2>6 DEF GateInv, DecisionIsExclusive, OneApproval
  <2>8. s = 1 /\ Approvals(steps) = {1}
    BY <2>7 DEF GateInv, OneApproval
  <2>9. ~Approved
    BY <2>7, <2>8 DEF Approved
  <2>10. /\ DOMAIN steps' = DOMAIN steps
         /\ \A m \in DOMAIN steps : m # s => steps'[m] = steps[m]
         /\ steps'[s].type = steps[s].type /\ steps'[s].decision = d
         /\ steps'[s].status # "running"
    BY <1>0, <2>1, <2>7, DecisionSteps DEF Approvals
  <2>11. \A m \in DOMAIN steps : steps'[m].type = steps[m].type
    BY <2>10
  <2>12. Approvals(steps)' = {1}
    BY <2>8, <2>10, <2>11 DEF Approvals, isApprovalStep
  <2>13. d = "approved" => Approved'
    BY <2>8, <2>10, <2>12 DEF Approved
  <2>14. run'.status = "queued" => d = "approved"
    BY <1>0, <2>1, RowStatus DEF RunStatus
  <2>15. run'.status # "preparing"
    BY <1>0, <2>1, RowStatus DEF RunStatus
  <2>16. \A f \in Executors : Fits(f)'
    <3> TAKE f \in Executors
    <3>1. Fits(f) /\ ex'[f] = ex[f]
      BY <2>6 DEF GateInv
    <3>2. ex'[f].llm = 0 \/ (ex'[f].llm \in DOMAIN steps' /\ steps'[ex'[f].llm].type = "llm")
      BY <2>10, <2>11, <3>1 DEF Fits
    <3>3. ~(ex[f].resume /\ Active(f))
      BY <2>9, <3>1 DEF Fits
    <3> QED
      BY <2>12, <2>13, <2>14, <3>1, <3>2, <3>3 DEF Fits, Active, Working, NeedsApproval
  <2>17. OneApproval'
    BY <2>8, <2>10, <2>12 DEF OneApproval
  <2>18. \A b \in Approvers : approver'[b].pc # "tx"
    BY <2>2, <2>5, <2>6 DEF GateInv, DecisionIsExclusive
  <2>19. DecisionIsExclusive'
    BY <2>18 DEF DecisionIsExclusive
  <2>20. QueuedMeansApproved' /\ DispatchMeansApproval'
    BY <2>12, <2>13, <2>14, <2>15 DEF QueuedMeansApproved, DispatchMeansApproval
  <2>21. ExternalCallsApproved'
    BY <2>6, <2>9 DEF GateInv, ExternalCallsApproved
  <2>22. CompletedMeansApproved'
    <3>1. run'.status # "completed"
      BY <1>0, <2>1, RowStatus DEF RunStatus
    <3>2. NeedsApproval
      BY <2>8 DEF GateInv, CompletedMeansApproved
    <3> QED
      BY <3>1, <3>2 DEF CompletedMeansApproved, NeedsApproval
  <2> QED
    BY <2>16, <2>17, <2>19, <2>20, <2>21, <2>22 DEF GateInv
<1>4. CASE DispatchResume(a)
  <2>1. Enqueued \/ ExecuteDetached("resumer", TRUE, approver[a].next)
    BY <1>4 DEF DispatchResume
  <2>2. approver[a].next \in Nat /\ Approvals(steps) # {}
    BY <1>0, <1>4 DEF DispatchResume, GateInv, DispatchMeansApproval, ApproverRecord
  <2>3. UNCHANGED <<run, steps, calls>>
    BY <1>4 DEF DispatchResume
  <2>4. approver'[a].pc = "done" /\ \A b \in Approvers : b # a => approver'[b] = approver[b]
    BY <1>0, <1>4, ApproverGoes DEF DispatchResume
  <2>5. \A b \in Approvers : approver'[b].pc \in {"tx", "dispatch"} => approver'[b] = approver[b]
    BY <2>4
  <2> QED
    BY <2>1, <2>2, <2>3, <2>5, DispatchGateInv
<1>5. CASE RejectStep(a)
  <2>1. UNCHANGED <<run, ex, calls>> /\ RowFree
    BY <1>5 DEF RejectStep, Insert
  <2>2. \E p \in {"rejectRecord", "done"} : approver' = [approver EXCEPT ![a].pc = p]
    BY <1>5 DEF RejectStep
  <2>3. StepsKept
    <3>1. CASE UNCHANGED steps
      BY <3>1, StepsUnchanged
    <3>2. CASE Insert(approver[a].next, "message", "completed")
      <4>1. Continues(approver[a].next)
        BY <1>5 DEF RejectStep, StepInv, NumbersContinue
      <4> QED
        BY <3>2, <4>1, StepsInserted
    <3> QED
      BY <1>5, <3>1, <3>2 DEF RejectStep
  <2> QED
    BY <1>1, <2>1, <2>2, <2>3
<1>6. CASE RejectRecord(a) \/ ApproverCrash(a)
  <2>1. UNCHANGED <<run, steps, ex, calls>> /\ approver' = [approver EXCEPT ![a].pc = "done"]
    BY <1>6 DEF RejectRecord, ApproverCrash
  <2> QED
    BY <1>1, <2>1, StepsUnchanged
<1>7. ASSUME NEW e \in Executors, EventCollision(e, a)
      PROVE  GateInv'
  <2>1. UNCHANGED <<run, steps, calls>> /\ ex[e].pc = "pauseEvent"
    BY <1>7 DEF EventCollision
  <2>2. CASE Fail(e, "failed") /\ UNCHANGED approver
    BY <2>1, <2>2, GateFails DEF Active, FailureStatus
  <2>3. CASE approver' = [approver EXCEPT ![a].pc = "done"] /\ UNCHANGED ex
    BY <1>1, <2>1, <2>3, StepsUnchanged
  <2> QED
    BY <1>7, <2>2, <2>3 DEF EventCollision
<1> QED
  BY <1>2, <1>3, <1>4, <1>5, <1>6, <1>7 DEF FinishDecision

LEMMA InitGateInv == Init => GateInv
<1> SUFFICES ASSUME Init
             PROVE  GateInv
  OBVIOUS
<1>1. Approvals(steps) = {} /\ \A a \in Approvers : approver[a].pc = "idle"
  BY DEF Init, Approvals
<1>2. run.status \in {"queued", "running"} /\ (run.status = "queued" => Async)
  BY AsyncAssumption DEF Init
<1>3. \A i \in DOMAIN Tools : calls[i] = 0
  <2>1. \A i \in DOMAIN Tools : i \in 1..ModelCall
    BY ToolsAssumption DEF ModelCall
  <2> QED
    BY <2>1 DEF Init
<1>4. \A e \in Executors : /\ ex[e].pc \in {"idle", "begin"}
                           /\ ex[e].pc = "begin" => ~Async
                           /\ ex[e].seq = 1 /\ ex[e].llm = 0 /\ ex[e].resume = FALSE
  <2> DEFINE x == [Idle EXCEPT !.pc = "begin", !.via = "sync"]
  <2>1. /\ x.pc = "begin" /\ x.seq = 1 /\ x.llm = 0 /\ x.resume = FALSE
        /\ Idle.pc = "idle" /\ Idle.seq = 1 /\ Idle.llm = 0 /\ Idle.resume = FALSE
    BY DEF Idle
  <2>2. \/ ex = [e \in Executors |-> Idle]
        \/ ~Async /\ \E e \in Executors : ex = [[f \in Executors |-> Idle] EXCEPT ![e] = x]
    BY DEF Init
  <2> HIDE DEF x
  <2> QED
    BY <2>1, <2>2
<1>5. \A e \in Executors : Fits(e)
  BY <1>2, <1>4 DEF Fits, Active, Working
<1> QED
  BY <1>1, <1>2, <1>3, <1>5 DEF GateInv, OneApproval, DecisionIsExclusive, QueuedMeansApproved,
     CompletedMeansApproved, DispatchMeansApproval, ExternalCallsApproved

LEMMA GateInvNext == StepInv /\ GateInv /\ [Next]_vars => GateInv'
<1> SUFFICES ASSUME StepInv, GateInv, [Next]_vars
             PROVE  GateInv'
  OBVIOUS
<1>1. CASE UNCHANGED vars
  BY <1>1, StepsUnchanged, GateStands DEF vars, StatusKept
<1>2. ASSUME NEW e \in Executors, Execute(e)
      PROVE  GateInv'
  BY <1>2, ExecuteGateInv
<1>3. ASSUME NEW e \in Executors,
             Deliver(e) \/ Redeliver(e) \/ Heartbeat(e) \/ Abort(e) \/ Crash(e) \/ DatabaseError(e)
      PROVE  GateInv'
  BY <1>3, BackgroundGateInv
<1>4. CASE \/ DispatchNew \/ PostCrash \/ LeaseExpires
           \/ \E c \in Cancellers : Cancel(c) \/ CancelCrash(c)
           \/ \E g \in Pollers : Poll(g) \/ PollCrash(g)
  BY <1>4, RequestGateInv
<1>5. ASSUME NEW a \in Approvers,
             \/ DecideBegin(a) \/ FinishDecision(a) \/ ApproverCrash(a)
             \/ \E e \in Executors : EventCollision(e, a)
      PROVE  GateInv'
  BY <1>5, ApprovalGateInv
<1> QED
  BY <1>1, <1>2, <1>3, <1>4, <1>5 DEF Next

\* No external network action runs in a run that was not approved, or was rejected:
\* with any number of deliveries, executions, decisions, cancellations and crashes.
THEOREM ExternalActionsAreGated == Spec => []ActionsGated
<1>1. GateInv => ActionsGated
  BY DEF GateInv, ExternalCallsApproved, OneApproval, Approved, ActionsGated
<1> QED
  BY <1>1, InitStepInv, InitGateInv, StepInvNext, GateInvNext, PTL DEF Spec
-----------------------------------------------------------------------------
(* The row: cancellation and completion.                                   *)

Unfinished == run.status \in {"queued", "preparing", "running", "waiting_input"}

LEMMA RowCancelled ==
  ASSUME run \in RunRow
  PROVE  /\ Running.cancelRequested = run.cancelRequested
         /\ \A s : Ended(s).cancelRequested = run.cancelRequested
         /\ \A l : [run EXCEPT !.lease = l].cancelRequested = run.cancelRequested
         /\ \A s : [run EXCEPT !.status = s].cancelRequested = run.cancelRequested
BY DEF Running, Ended, RunRow

\* The row's status and its cancellation stay; or an unfinished run moves, to a failure if
\* its cancellation was requested; or a decision queues or cancels a run not completed.
LEMMA RowLifeCycle ==
  ASSUME StepInv, GateInv, [Next]_vars
  PROVE  \/ run'.status = run.status /\ run'.cancelRequested = run.cancelRequested
         \/ Unfinished /\ ~run.cancelRequested /\ ~run'.cancelRequested
         \/ Unfinished /\ run'.status \in FailureStatus
         \/ /\ \E a \in Approvers : approver[a].pc = "tx"
            /\ run.status # "completed"
            /\ run'.status \in {"queued", "cancelled"}
            /\ run'.cancelRequested = run.cancelRequested
<1> DEFINE Goal == \/ run'.status = run.status /\ run'.cancelRequested = run.cancelRequested
                   \/ Unfinished /\ ~run.cancelRequested /\ ~run'.cancelRequested
                   \/ Unfinished /\ run'.status \in FailureStatus
                   \/ /\ \E a \in Approvers : approver[a].pc = "tx"
                      /\ run.status # "completed"
                      /\ run'.status \in {"queued", "cancelled"}
                      /\ run'.cancelRequested = run.cancelRequested
<1>0. run \in RunRow /\ ResultKnown /\ StepsOK
  BY StepInvParts
<1>1. CASE UNCHANGED run
  BY <1>1
<1>2. ASSUME NEW e \in Executors, Claim(e) \/ MarkRunRunning(e)
      PROVE  Goal
  BY <1>0, <1>2, RowCancelled DEF Claim, MarkRunRunning, Runnable, Claimable, Renewable, Unfinished
<1>3. ASSUME NEW e \in Executors, FirstLease(e) \/ Heartbeat(e)
      PROVE  Goal
  <2>1. UNCHANGED run \/ run' = [run EXCEPT !.lease = "live"]
    BY <1>3 DEF FirstLease, Heartbeat
  <2>2. run'.status = run.status /\ run'.cancelRequested = run.cancelRequested
    BY <1>0, <2>1, RowStatus, RowCancelled
  <2> QED
    BY <2>2
<1>4. ASSUME NEW e \in Executors, MarkRunWaitingInput(e) \/ MarkRunCompleted(e)
      PROVE  Goal
  BY <1>0, <1>4, RowCancelled DEF MarkRunWaitingInput, MarkRunCompleted, Renewable, Unfinished
<1>5. ASSUME NEW e \in Executors, MarkRunFailed(e)
      PROVE  Goal
  <2>1. /\ ex[e].result \in FailureStatus /\ FailureStatus \subseteq RunStatus
        /\ "cancelled" \in FailureStatus
    BY <1>0, <1>5 DEF MarkRunFailed, ResultKnown, FailureStatus, RunStatus
  <2>2. \A s \in FailureStatus : Ended(s).status = s
    BY <1>0, <2>1, RowStatus
  <2> QED
    BY <1>1, <1>5, <2>1, <2>2 DEF MarkRunFailed, Unfinished
<1>6. ASSUME NEW c \in Cancellers, CancelRun(c)
      PROVE  Goal
  <2>1. [Ended("cancelled") EXCEPT !.cancelRequested = TRUE].status = "cancelled"
    BY <1>0, RowStatus DEF RunStatus
  <2> QED
    BY <1>6, <2>1 DEF CancelRun, Unfinished, FailureStatus
<1>7. ASSUME NEW g \in Pollers, Reap(g)
      PROVE  Goal
  <2>1. Ended("timed_out").status = "timed_out"
    BY <1>0, RowStatus DEF RunStatus
  <2> QED
    BY <1>7, <2>1 DEF Reap, Reapable, Unfinished, FailureStatus
<1>8. ASSUME NEW a \in Approvers, DecideCommit(a)
      PROVE  Goal
  <2>1. PICK s \in {"queued", "cancelled"} : run' = [run EXCEPT !.status = s]
    BY <1>8 DEF DecideCommit
  <2>2. approver[a].step \in Approvals(steps) /\ steps[approver[a].step].status = "running"
    BY <1>8 DEF DecideCommit, GateInv, DecisionIsExclusive
  <2>3. ~Approved
    BY <2>2 DEF GateInv, OneApproval, Approved
  <2>4. run.status # "completed"
    BY <2>2, <2>3 DEF GateInv, CompletedMeansApproved
  <2>5. run'.status = s /\ run'.cancelRequested = run.cancelRequested
    BY <1>0, <2>1, RowStatus, RowCancelled DEF RunStatus
  <2>6. approver[a].pc = "tx"
    BY <1>8 DEF DecideCommit
  <2> QED
    BY <2>4, <2>5, <2>6
<1>9. CASE LeaseExpires
  BY <1>0, <1>9, RowStatus, RowCancelled DEF LeaseExpires
<1>10. CASE UNCHANGED vars
  BY <1>1, <1>10 DEF vars
<1>11. ASSUME NEW e \in Executors,
              Execute(e) \/ Deliver(e) \/ Redeliver(e) \/ Heartbeat(e) \/ Abort(e) \/ Crash(e)
                \/ DatabaseError(e)
       PROVE  Goal
  <2>1. \/ UNCHANGED run
        \/ Claim(e) \/ MarkRunRunning(e) \/ FirstLease(e) \/ Heartbeat(e)
        \/ MarkRunWaitingInput(e) \/ MarkRunCompleted(e) \/ MarkRunFailed(e)
    BY <1>11 DEF Execute, LoadRun, LoadSteps, AddApprovalStep, AddApprovalEvent, UseTool,
       AddToolStep, AddModelStep, CallModel, StreamEnds, StreamFails, CompleteStep, ThrowIfAborted,
       FailStep, Record, Deliver, Redeliver, Abort, Crash, DatabaseError
  <2> QED
    BY <1>1, <1>2, <1>3, <1>4, <1>5, <2>1
<1>12. CASE DispatchNew \/ PostCrash
  BY <1>1, <1>12 DEF DispatchNew, PostCrash
<1>13. ASSUME NEW c \in Cancellers, Cancel(c) \/ CancelCrash(c)
       PROVE  Goal
  BY <1>1, <1>6, <1>13 DEF Cancel, CancelSteps, CancelRead, CancelRecord, CancelCrash
<1>14. ASSUME NEW g \in Pollers, Poll(g) \/ PollCrash(g)
       PROVE  Goal
  BY <1>1, <1>7, <1>14 DEF Poll, ReapSteps, ReapRecord, PollCrash
<1>15. ASSUME NEW a \in Approvers,
              \/ DecideBegin(a) \/ FinishDecision(a) \/ ApproverCrash(a)
              \/ \E e \in Executors : EventCollision(e, a)
       PROVE  Goal
  BY <1>1, <1>8, <1>15 DEF DecideBegin, FinishDecision, DispatchResume, RejectStep, RejectRecord,
     ApproverCrash, EventCollision
<1> QED
  BY <1>9, <1>10, <1>11, <1>12, <1>13, <1>14, <1>15 DEF Next

\* Once a cancellation is requested nothing starts, pauses or completes the run again,
\* whatever is in flight: claims, first leases, a late answer, an approval.
THEOREM CancellationIsFenced == Spec => []CancelIsFenced
<1>1. Init => CancelIsFenced
  BY DEF Init, CancelIsFenced
<1>2. StepInv /\ GateInv /\ CancelIsFenced /\ [Next]_vars => CancelIsFenced'
  BY RowLifeCycle DEF CancelIsFenced, FailureStatus
<1> QED
  BY <1>1, <1>2, InitStepInv, InitGateInv, StepInvNext, GateInvNext, PTL DEF Spec

\* A run that completed stays completed: it has no decision pending, and every other
\* statement that moves the row asks for an unfinished one.
THEOREM CompletionIsFinal == Spec => CompletedIsFinal
<1>1. StepInv /\ GateInv /\ [Next]_vars
        => [run.status = "completed" => run'.status = "completed"]_vars
  BY RowLifeCycle DEF Unfinished
<1> QED
  BY <1>1, InitStepInv, InitGateInv, StepInvNext, GateInvNext, PTL DEF Spec, CompletedIsFinal

\* While PostgreSQL refuses the lock no decision is under way.
Undecided == ~LockAccepted => \A a \in Approvers : approver[a].pc \in {"idle", "done"}

LEMMA UndecidedNext == StepInv /\ Undecided /\ [Next]_vars => Undecided'
<1> SUFFICES ASSUME StepInv, Undecided, [Next]_vars, ~LockAccepted
             PROVE  \A a \in Approvers : approver'[a].pc \in {"idle", "done"}
  BY DEF Undecided
<1>0. /\ approver \in [Approvers -> ApproverRecord]
      /\ \A a \in Approvers : approver[a].pc \in {"idle", "done"}
  BY DEF StepInv, TypeOK, ApproverRecord, Undecided
<1>1. CASE UNCHANGED approver
  BY <1>0, <1>1
<1>2. ASSUME NEW a \in Approvers, DecideBegin(a)
      PROVE  \A b \in Approvers : approver'[b].pc \in {"idle", "done"}
  <2>1. PICK n \in Approvals(steps) : approver' = [approver EXCEPT ![a].pc = "done", ![a].step = n]
    BY <1>2 DEF DecideBegin
  <2>2. n \in Nat
    BY <2>1, StepInvParts DEF StepsOK, Approvals
  <2> QED
    BY <1>0, <2>1, <2>2, ApproverNotes
<1>3. ASSUME NEW a \in Approvers,
             \/ FinishDecision(a) \/ ApproverCrash(a)
             \/ \E e \in Executors : EventCollision(e, a)
      PROVE  FALSE
  BY <1>0, <1>3 DEF FinishDecision, DecideCommit, DispatchResume, RejectStep, RejectRecord,
     ApproverCrash, EventCollision
<1>4. \/ UNCHANGED approver
      \/ \E a \in Approvers : \/ DecideBegin(a) \/ FinishDecision(a) \/ ApproverCrash(a)
                              \/ \E e \in Executors : EventCollision(e, a)
  BY DEF Next, vars, requests, Execute, LoadRun, LoadSteps, Claim, MarkRunRunning, FirstLease,
     AddApprovalStep, MarkRunWaitingInput, AddApprovalEvent, UseTool, AddToolStep, AddModelStep,
     CallModel, StreamEnds, StreamFails, MarkRunCompleted, CompleteStep, ThrowIfAborted, FailStep,
     MarkRunFailed, Record, Deliver, Redeliver, Heartbeat, Abort, Crash, DatabaseError,
     DispatchNew, PostCrash, LeaseExpires, Cancel, CancelRun, CancelSteps, CancelRead,
     CancelRecord, CancelCrash, Poll, Reap, ReapSteps, ReapRecord, PollCrash
<1> QED
  BY <1>1, <1>2, <1>3, <1>4

\* As long as PostgreSQL refuses the decision's statement, no run moves once its status is
\* terminal: not by a claim, a late pause, answer or failure, a reaper or a cancellation.
THEOREM TerminalRunsAreFinal == Spec => TerminalIsFinal
<1>1. Init => Undecided
  BY DEF Init, Undecided
<1>2. StepInv /\ GateInv /\ Undecided /\ [Next]_vars
        => [~LockAccepted /\ run.status \in TERMINAL_STATUSES => run'.status = run.status]_vars
  BY RowLifeCycle DEF Undecided, Unfinished, TERMINAL_STATUSES
<1> QED
  BY <1>1, <1>2, InitStepInv, InitGateInv, StepInvNext, GateInvNext, UndecidedNext, PTL
  DEF Spec, TerminalIsFinal
-----------------------------------------------------------------------------
(* Calls and answers.                                                      *)

\* An executor the gate has no more question for: what it reaches, it calls.
Admitted(e) == Active(e) /\ (NeedsApproval => ex[e].resume)

\* The calls an executor has not made yet.
Ahead(e) == {i \in 1..ModelCall :
               \/ ex[e].pc \in {"begin", "lease", "gate"}
               \/ ex[e].pc = "tool" /\ ex[e].at <= i
               \/ ex[e].pc = "toolStep" /\ ex[e].at < i
               \/ ex[e].pc = "model" /\ i = ModelCall}

\* An execution starts with the first tool.
AtFirstTool(e) ==
  ex[e].at # 0 /\ (ex[e].pc \in {"claim", "begin", "lease"} => ex[e].at = 1)

\* An executor that has written, or is about to write, an answer as complete.
Answering(e) == ex[e].pc = "finish" \/ (ex[e].pc = "record" /\ ex[e].result = "completed")

\* What every step does to an executor, unless it is its claim: it comes no nearer to a
\* call it has made, and it answers only in a run that is completed.
Quiet(e) ==
  /\ ex'[e].via = ex[e].via \/ ex'[e].via # "sync"
  /\ Active(e)' => Active(e) /\ ex'[e].resume = ex[e].resume /\ Ahead(e)' \subseteq Ahead(e)
  /\ AtFirstTool(e)'
  /\ Answering(e)' => Answering(e) \/ run'.status = "completed"

Claims(e) ==
  /\ Claimable
  /\ ~Active(e)
  /\ ex'[e].via = ex[e].via
  /\ ex'[e].resume = ex[e].resume
  /\ AtFirstTool(e)'
  /\ ~Answering(e)'
  /\ run'.status = "running"
  /\ UNCHANGED <<steps, calls>>
  /\ \A f \in Executors : f # e => ex'[f] = ex[f]

LEMMA QuietKept ==
  ASSUME NEW f \in Executors, AtFirstTool(f), ex'[f] = ex[f]
  PROVE  Quiet(f)
BY DEF Quiet, Active, Ahead, AtFirstTool, Answering

LEMMA QuietStops ==
  ASSUME ex \in [Executors -> Executor], NEW e \in Executors, NEW p \in {"done", "dead"},
         Stop(e, p), \A f \in Executors : AtFirstTool(f)
  PROVE  \A f \in Executors : Quiet(f)
<1>1. p \in ExecutorPC
  BY DEF ExecutorPC
<1>2. /\ \A f \in Executors : f # e => ex'[f] = ex[f]
      /\ ex'[e].pc = p /\ ex'[e].via = "worker" /\ ex'[e].at = 1
  BY <1>1, StopEx
<1>3. Quiet(e)
  BY <1>2 DEF Quiet, Active, AtFirstTool, Answering
<1> QED
  BY <1>2, <1>3, QuietKept

LEMMA QuietFails ==
  ASSUME ex \in [Executors -> Executor], NEW e \in Executors, NEW s \in FailureStatus,
         Fail(e, s), Active(e), \A f \in Executors : AtFirstTool(f)
  PROVE  \A f \in Executors : Quiet(f)
<1>1. /\ \A f \in Executors : f # e => ex'[f] = ex[f]
      /\ ex'[e].pc = "failStep" /\ ex'[e].via = ex[e].via /\ ex'[e].resume = ex[e].resume
      /\ ex'[e].at = ex[e].at
  BY FailEx
<1>2. Quiet(e)
  BY <1>1 DEF Quiet, AtFirstTool, Answering, Ahead
<1> QED
  BY <1>1, <1>2, QuietKept

\* The executor goes on to a place where it has no more calls ahead than before.
LEMMA QuietGoes ==
  ASSUME ex \in [Executors -> Executor], NEW e \in Executors, NEW p \in ExecutorPC, Goto(e, p),
         \A f \in Executors : AtFirstTool(f),
         \/ p \in {"loadRun", "pauseEvent", "failRow", "stream", "complete"}
         \/ p = "finish" /\ run'.status = "completed"
         \/ p = "record" /\ ex[e].result # "completed"
         \/ p = "lease" /\ ex[e].pc = "begin"
         \/ p \in {"gate", "tool"} /\ ex[e].pc = "lease"
         \/ p = "toolStep" /\ ex[e].pc = "tool",
         Active(e) \/ p = "loadRun"
  PROVE  \A f \in Executors : Quiet(f)
<1>1. /\ \A f \in Executors : f # e => ex'[f] = ex[f]
      /\ ex'[e].pc = p /\ ex'[e].via = ex[e].via /\ ex'[e].resume = ex[e].resume
      /\ ex'[e].at = ex[e].at /\ ex'[e].result = ex[e].result
  BY GotoEx
<1>2. ex[e].at \in Nat
  BY DEF Executor
<1>3. Ahead(e)' \subseteq Ahead(e)
  BY <1>1, <1>2 DEF AtFirstTool, Ahead
<1>4. Quiet(e)
  BY <1>1, <1>3 DEF Quiet, AtFirstTool, Answering, Active
<1> QED
  BY <1>1, <1>4, QuietKept

LEMMA QuietRecords ==
  ASSUME ex \in [Executors -> Executor], NEW e \in Executors,
         NEW s \in FailureStatus \cup {"waiting_input", "completed"},
         Become(e, [ex[e] EXCEPT !.pc = "record", !.result = s]),
         Active(e), \A f \in Executors : AtFirstTool(f),
         s = "completed" => ex[e].pc = "finish"
  PROVE  \A f \in Executors : Quiet(f)
<1>1. /\ \A f \in Executors : f # e => ex'[f] = ex[f]
      /\ ex'[e].pc = "record" /\ ex'[e].via = ex[e].via /\ ex'[e].resume = ex[e].resume
      /\ ex'[e].at = ex[e].at /\ ex'[e].result = s
  BY FinishEx
<1>2. Quiet(e)
  BY <1>1 DEF Quiet, AtFirstTool, Answering, Ahead
<1> QED
  BY <1>1, <1>2, QuietKept

LEMMA QuietSteps ==
  ASSUME ex \in [Executors -> Executor], NEW e \in Executors,
         NEW p \in {"pause", "tool", "model"},
         \/ p = "pause" /\ Become(e, [ex[e] EXCEPT !.pc = "pause", !.seq = @ + 1])
         \/ /\ p = "tool" /\ ex[e].pc = "toolStep"
            /\ Become(e, [ex[e] EXCEPT !.pc = "tool", !.seq = @ + 1, !.at = @ + 1])
         \/ /\ p = "model" /\ ex[e].pc = "tool" /\ ex[e].at = ModelCall
            /\ Become(e, [ex[e] EXCEPT !.pc = "model", !.llm = ex[e].seq, !.seq = @ + 1]),
         Active(e), \A f \in Executors : AtFirstTool(f)
  PROVE  \A f \in Executors : Quiet(f)
<1>1. /\ \A f \in Executors : f # e => ex'[f] = ex[f]
      /\ ex'[e].pc = p /\ ex'[e].via = ex[e].via /\ ex'[e].resume = ex[e].resume
      /\ ex'[e].at = IF p = "tool" THEN ex[e].at + 1 ELSE ex[e].at
  BY NextStepEx
<1>2. ex[e].at \in Nat
  BY DEF Executor
<1>3. Ahead(e)' \subseteq Ahead(e)
  BY <1>1, <1>2 DEF Ahead
<1>4. AtFirstTool(e)'
  BY <1>1, <1>2 DEF AtFirstTool
<1>5. Quiet(e)
  BY <1>1, <1>3, <1>4 DEF Quiet, Answering
<1> QED
  BY <1>1, <1>5, QuietKept

\* An executor takes new fields and stays where it is.
LEMMA QuietHolds ==
  ASSUME ex \in [Executors -> Executor], NEW e \in Executors, NEW x \in Executor, Become(e, x),
         \A f \in Executors : AtFirstTool(f),
         x.pc = ex[e].pc, x.via = ex[e].via, x.resume = ex[e].resume, x.at = ex[e].at,
         x.result \in {ex[e].result, "failed"}
  PROVE  \A f \in Executors : Quiet(f)
<1>1. ex'[e] = x /\ \A f \in Executors : f # e => ex'[f] = ex[f]
  BY BecomeEx
<1>2. Quiet(e)
  BY <1>1 DEF Quiet, AtFirstTool, Answering, Ahead, Active
<1> QED
  BY <1>1, <1>2, QuietKept

LEMMA QuietStarts ==
  ASSUME ex \in [Executors -> Executor], NEW e \in Executors, NEW x \in Executor, Become(e, x),
         \A f \in Executors : AtFirstTool(f),
         x.pc \in {"loadSteps", "claim"}, x.via # "sync" \/ x.via = ex[e].via,
         x.at = 1 \/ (x.pc = "loadSteps" /\ x.at = ex[e].at)
  PROVE  \A f \in Executors : Quiet(f)
<1>1. ex'[e] = x /\ \A f \in Executors : f # e => ex'[f] = ex[f]
  BY BecomeEx
<1>2. Quiet(e)
  BY <1>1 DEF Quiet, AtFirstTool, Answering, Active
<1> QED
  BY <1>1, <1>2, QuietKept

LEMMA ExecuteMoves ==
  ASSUME StepInv, \A f \in Executors : AtFirstTool(f), NEW e \in Executors, Execute(e)
  PROVE  (\A f \in Executors : Quiet(f)) \/ Claims(e)
<1>0. /\ run \in RunRow /\ ex \in [Executors -> Executor] /\ ex[e] \in Executor /\ ResultKnown
      /\ Numbered /\ StepsOK
  BY StepInvParts
<1>1. CASE LoadRun(e)
  <2> DEFINE x == [ex[e] EXCEPT !.pc = "loadSteps", !.seen = run.status]
  <2>1. x \in Executor
    BY <1>0, LoadedExecutor, RowStatus
  <2>2. x.pc = "loadSteps" /\ x.via = ex[e].via /\ x.at = ex[e].at
    BY <1>0 DEF Executor
  <2>3. Become(e, x)
    BY <1>1 DEF LoadRun
  <2> HIDE DEF x
  <2> QED
    BY <1>0, <2>1, <2>2, <2>3, QuietStarts
<1>2. CASE LoadSteps(e) /\ InputReadable
  <2> DEFINE resume == Resumes(ex[e].seen, steps)
             n == IF resume THEN nextSequenceNo(steps) ELSE 1
             x == [Idle EXCEPT !.pc = "claim", !.resume = resume, !.seq = n]
  <2>1. resume \in BOOLEAN /\ n \in Nat
    <3>1. nextSequenceNo(steps) \in Nat
      BY <1>0, NextContinues DEF Continues
    <3> QED
      BY <3>1 DEF Resumes
  <2>2. Become(e, x)
    BY <1>2 DEF LoadSteps
  <2> HIDE DEF resume, n
  <2>3. x \in Executor /\ x.pc = "claim" /\ x.via = "worker" /\ x.at = 1
    <3>1. x \in Executor
      BY <2>1, SetFields, IdleExecutor DEF ExecutorPC
    <3> QED
      BY <3>1 DEF Idle
  <2> HIDE DEF x
  <2> QED
    BY <1>0, <2>2, <2>3, QuietStarts
<1>20. CASE LoadSteps(e) /\ ~InputReadable
  BY <1>0, <1>20, QuietStops DEF LoadSteps
<1>3. CASE Claim(e)
  <2>1. CASE Claimable /\ run' = Running /\ Goto(e, "begin")
    <3>1. /\ \A f \in Executors : f # e => ex'[f] = ex[f]
          /\ ex'[e].pc = "begin" /\ ex'[e].via = ex[e].via /\ ex'[e].resume = ex[e].resume
          /\ ex'[e].at = ex[e].at
      BY <1>0, <2>1, GotoEx DEF ExecutorPC
    <3>2. ex[e].pc = "claim" /\ UNCHANGED <<steps, calls>>
      BY <1>3 DEF Claim
    <3>3. run'.status = "running"
      BY <1>0, <2>1, RowStatus
    <3> QED
      BY <2>1, <3>1, <3>2, <3>3 DEF Claims, Active, AtFirstTool, Answering
  <2>2. CASE Stop(e, "done")
    BY <1>0, <2>2, QuietStops
  <2> QED
    BY <1>3, <2>1, <2>2 DEF Claim
<1>4. CASE Active(e) /\ \E s \in FailureStatus : Fail(e, s)
  BY <1>0, <1>4, QuietFails
<1>5. CASE MarkRunRunning(e) \/ FirstLease(e) \/ MarkRunWaitingInput(e) \/ MarkRunCompleted(e)
  <2>1. Active(e)
    BY <1>5 DEF MarkRunRunning, FirstLease, MarkRunWaitingInput, MarkRunCompleted, Active
  <2>2. \/ Fail(e, "cancelled")
        \/ Goto(e, "lease") /\ ex[e].pc = "begin"
        \/ ex[e].pc = "lease" /\ (Goto(e, "gate") \/ Goto(e, "tool"))
        \/ Goto(e, "pauseEvent")
        \/ Goto(e, "finish") /\ run' = Ended("completed")
    BY <1>5 DEF MarkRunRunning, FirstLease, MarkRunWaitingInput, MarkRunCompleted
  <2>3. Ended("completed").status = "completed"
    BY <1>0, RowStatus DEF RunStatus
  <2> QED
    BY <1>0, <1>4, <2>1, <2>2, <2>3, QuietGoes DEF ExecutorPC, FailureStatus
<1>6. CASE AddApprovalStep(e) \/ AddToolStep(e) \/ AddModelStep(e)
  <2>1. Active(e)
    BY <1>6 DEF AddApprovalStep, AddToolStep, AddModelStep, Active
  <2>2. CASE NumberTaken(e)
    BY <1>4, <2>1, <2>2 DEF NumberTaken, FailureStatus
  <2>3. CASE AddApprovalStep(e) /\ ~NumberTaken(e)
    BY <1>0, <2>1, <2>3, QuietSteps DEF AddApprovalStep
  <2>4. CASE AddToolStep(e) /\ ~NumberTaken(e)
    BY <1>0, <2>1, <2>4, QuietSteps DEF AddToolStep
  <2>5. CASE AddModelStep(e) /\ ~NumberTaken(e)
    BY <1>0, <2>1, <2>5, QuietSteps DEF AddModelStep
  <2> QED
    BY <1>6, <2>2, <2>3, <2>4, <2>5
<1>7. CASE AddApprovalEvent(e) \/ CompleteStep(e)
  <2>1. Active(e) /\ (CompleteStep(e) => ex[e].pc = "finish")
    BY <1>7 DEF AddApprovalEvent, CompleteStep, Active
  <2> QED
    BY <1>0, <1>7, <2>1, QuietRecords DEF AddApprovalEvent, CompleteStep
<1>8. CASE UseTool(e)
  <2>1. CASE Goto(e, "toolStep")
    BY <1>0, <1>8, <2>1, QuietGoes DEF UseTool, Active, ExecutorPC
  <2>2. CASE Become(e, [ex[e] EXCEPT !.at = @ + 1])
    <3> DEFINE x == [ex[e] EXCEPT !.at = ex[e].at + 1]
    <3>1. ex[e].at \in Nat /\ ex[e].at + 1 \in Nat
      BY <1>0 DEF Executor
    <3>2. x \in Executor
      BY <1>0, <3>1, SetFields
    <3>3. /\ x.pc = ex[e].pc /\ x.via = ex[e].via /\ x.resume = ex[e].resume
          /\ x.at = ex[e].at + 1
      BY <1>0 DEF Executor
    <3>4. Become(e, x)
      BY <1>0, <2>2 DEF Executor
    <3> HIDE DEF x
    <3>5. ex'[e] = x /\ \A f \in Executors : f # e => ex'[f] = ex[f]
      BY <1>0, <3>2, <3>4, BecomeEx
    <3>6. ex[e].pc = "tool"
      BY <1>8 DEF UseTool
    <3>7. Ahead(e)' \subseteq Ahead(e)
      BY <3>1, <3>3, <3>5, <3>6 DEF Ahead
    <3>8. Quiet(e)
      BY <3>1, <3>3, <3>5, <3>6, <3>7 DEF Quiet, AtFirstTool, Answering, Active
    <3> QED
      BY <3>5, <3>8, QuietKept
  <2> QED
    BY <1>8, <2>1, <2>2 DEF UseTool
<1>9. CASE CallModel(e) \/ StreamEnds(e) \/ StreamFails(e) \/ ThrowIfAborted(e)
  <2>1. Active(e)
    BY <1>9 DEF CallModel, StreamEnds, StreamFails, ThrowIfAborted, Active
  <2>2. ThrowIfAborted(e) => ex[e].abort \in FailureStatus
    BY <1>0 DEF ThrowIfAborted, Executor, FailureStatus
  <2>3. \/ \E s \in FailureStatus : Fail(e, s)
        \/ Goto(e, "stream") \/ Goto(e, "complete")
    BY <1>9, <2>2 DEF CallModel, StreamEnds, StreamFails, ThrowIfAborted, FailureStatus
  <2> QED
    BY <1>0, <1>4, <2>1, <2>3, QuietGoes DEF ExecutorPC
<1>10. CASE FailStep(e) \/ MarkRunFailed(e)
  <2>1. Active(e) /\ ex[e].result # "completed"
    BY <1>0, <1>10 DEF FailStep, MarkRunFailed, Active, ResultKnown, FailureStatus
  <2> QED
    BY <1>0, <1>10, <2>1, QuietGoes DEF FailStep, MarkRunFailed, ExecutorPC
<1>11. CASE Record(e)
  BY <1>0, <1>11, QuietStops DEF Record
<1> QED
  BY <1>1, <1>2, <1>20, <1>3, <1>5, <1>6, <1>7, <1>8, <1>9, <1>10, <1>11 DEF Execute

LEMMA BackgroundMoves ==
  ASSUME StepInv, \A f \in Executors : AtFirstTool(f), NEW e \in Executors,
         Deliver(e) \/ Redeliver(e) \/ Heartbeat(e) \/ Abort(e) \/ Crash(e) \/ DatabaseError(e)
  PROVE  \A f \in Executors : Quiet(f)
<1>0. ex \in [Executors -> Executor] /\ ex[e] \in Executor
  BY StepInvParts
<1>1. CASE Deliver(e)
  BY <1>0, <1>1, QuietGoes DEF Deliver, ExecutorPC
<1>2. CASE Redeliver(e)
  BY <1>2, QuietKept DEF Redeliver
<1>3. CASE Heartbeat(e) \/ Abort(e)
  <2>1. CASE UNCHANGED ex
    BY <2>1, QuietKept
  <2>2. CASE \E s \in {"cancelled", "timed_out"} : Become(e, [ex[e] EXCEPT !.abort = s])
    <3>1. PICK s \in {"cancelled", "timed_out"} : Become(e, [ex[e] EXCEPT !.abort = s])
      BY <2>2
    <3> DEFINE x == [ex[e] EXCEPT !.abort = s]
    <3>2. x \in Executor
      BY <1>0, SetFields
    <3>3. /\ x.pc = ex[e].pc /\ x.via = ex[e].via /\ x.resume = ex[e].resume
          /\ x.at = ex[e].at /\ x.result = ex[e].result
      BY <1>0 DEF Executor
    <3> HIDE DEF x
    <3> QED
      BY <1>0, <3>1, <3>2, <3>3, QuietHolds DEF x
  <2> QED
    BY <1>3, <2>1, <2>2 DEF Heartbeat, Abort
<1>4. CASE Crash(e)
  BY <1>0, <1>4, QuietStops DEF Crash
<1>5. CASE DatabaseError(e)
  <2>1. CASE Stop(e, "done")
    BY <1>0, <2>1, QuietStops
  <2>2. CASE /\ Fail(e, "failed")
             /\ ex[e].pc \notin {"loadRun", "loadSteps", "claim", "idle", "done", "dead"}
    BY <1>0, <2>2, QuietFails DEF Active, FailureStatus
  <2>3. CASE /\ ex[e].pc \in {"failStep", "failRow"}
             /\ Become(e, [ex[e] EXCEPT !.pc = "record", !.result = "failed"])
    <3>1. Active(e) /\ "failed" \in FailureStatus
      BY <2>3 DEF Active, FailureStatus
    <3> QED
      BY <1>0, <2>3, <3>1, QuietRecords
  <2>4. CASE Become(e, [ex[e] EXCEPT !.result = "failed"])
    <3> DEFINE x == [ex[e] EXCEPT !.result = "failed"]
    <3>1. x \in Executor
      BY <1>0, SetFields DEF FailureStatus
    <3>2. /\ x.pc = ex[e].pc /\ x.via = ex[e].via /\ x.resume = ex[e].resume
          /\ x.at = ex[e].at /\ x.result = "failed"
      BY <1>0 DEF Executor
    <3> HIDE DEF x
    <3> QED
      BY <1>0, <2>4, <3>1, <3>2, QuietHolds DEF x
  <2> QED
    BY <1>5, <2>1, <2>2, <2>3, <2>4 DEF DatabaseError
<1> QED
  BY <1>1, <1>2, <1>3, <1>4, <1>5

LEMMA DispatchMoves ==
  ASSUME StepInv, \A f \in Executors : AtFirstTool(f), NEW via \in {"detached", "resumer"},
         NEW resume \in BOOLEAN, NEW n \in Nat, Enqueued \/ ExecuteDetached(via, resume, n)
  PROVE  \A f \in Executors : Quiet(f)
<1>0. ex \in [Executors -> Executor]
  BY StepInvParts
<1>1. CASE Enqueued
  BY <1>1, QuietKept DEF Enqueued
<1>2. CASE ExecuteDetached(via, resume, n)
  <2> DEFINE x == [Idle EXCEPT !.pc = "claim", !.via = via, !.resume = resume, !.seq = n]
  <2>1. PICK e \in Executors : Become(e, x)
    BY <1>2 DEF ExecuteDetached
  <2>2. x \in Executor /\ x.pc = "claim" /\ x.via = via /\ x.at = 1
    <3>1. x \in Executor
      BY SetFields, IdleExecutor DEF ExecutorPC
    <3> QED
      BY <3>1 DEF Idle
  <2> HIDE DEF x
  <2> QED
    BY <1>0, <2>1, <2>2, QuietStarts
<1> QED
  BY <1>1, <1>2

LEMMA RequestMoves ==
  ASSUME StepInv, \A f \in Executors : AtFirstTool(f),
         \/ DispatchNew \/ PostCrash \/ LeaseExpires
         \/ \E c \in Cancellers : Cancel(c) \/ CancelCrash(c)
         \/ \E g \in Pollers : Poll(g) \/ PollCrash(g)
         \/ \E a \in Approvers : \/ DecideBegin(a) \/ FinishDecision(a) \/ ApproverCrash(a)
                                 \/ \E e \in Executors : EventCollision(e, a)
  PROVE  \A f \in Executors : Quiet(f)
<1>0. ex \in [Executors -> Executor]
  BY StepInvParts
<1>1. CASE DispatchNew
  BY <1>1, DispatchMoves DEF DispatchNew
<1>2. ASSUME NEW a \in Approvers, DispatchResume(a)
      PROVE  \A f \in Executors : Quiet(f)
  <2>1. approver[a].next \in Nat
    BY DEF StepInv, TypeOK
  <2> QED
    BY <1>2, <2>1, DispatchMoves DEF DispatchResume
<1>3. ASSUME NEW a \in Approvers, NEW e \in Executors, EventCollision(e, a)
      PROVE  \A f \in Executors : Quiet(f)
  BY <1>0, <1>3, QuietFails, QuietKept DEF EventCollision, Active, FailureStatus
<1>4. CASE UNCHANGED ex
  BY <1>4, QuietKept
<1>5. \/ DispatchNew \/ UNCHANGED ex
      \/ \E a \in Approvers : DispatchResume(a) \/ \E e \in Executors : EventCollision(e, a)
  BY DEF PostCrash, LeaseExpires, Cancel, CancelRun, CancelSteps, CancelRead, CancelRecord,
     CancelCrash, Poll, Reap, ReapSteps, ReapRecord, PollCrash, DecideBegin, FinishDecision,
     DecideCommit, RejectStep, RejectRecord, ApproverCrash
<1> QED
  BY <1>1, <1>2, <1>3, <1>4, <1>5

\* Every step leaves the executors quiet, or is a claim.
LEMMA Moves ==
  ASSUME StepInv, \A f \in Executors : AtFirstTool(f), [Next]_vars
  PROVE  (\A f \in Executors : Quiet(f)) \/ \E e \in Executors : Claims(e)
<1>1. CASE UNCHANGED vars
  BY <1>1, QuietKept DEF vars
<1>2. ASSUME NEW e \in Executors, Execute(e)
      PROVE  (\A f \in Executors : Quiet(f)) \/ Claims(e)
  BY <1>2, ExecuteMoves
<1>3. ASSUME NEW e \in Executors,
             Deliver(e) \/ Redeliver(e) \/ Heartbeat(e) \/ Abort(e) \/ Crash(e) \/ DatabaseError(e)
      PROVE  \A f \in Executors : Quiet(f)
  BY <1>3, BackgroundMoves
<1>4. CASE \/ DispatchNew \/ PostCrash \/ LeaseExpires
           \/ \E c \in Cancellers : Cancel(c) \/ CancelCrash(c)
           \/ \E g \in Pollers : Poll(g) \/ PollCrash(g)
           \/ \E a \in Approvers : \/ DecideBegin(a) \/ FinishDecision(a) \/ ApproverCrash(a)
                                   \/ \E e \in Executors : EventCollision(e, a)
  BY <1>4, RequestMoves
<1> QED
  BY <1>1, <1>2, <1>3, <1>4 DEF Next

-----------------------------------------------------------------------------
(* Each tool and the model are called at most once.                        *)

\* One executor at most is admitted, the calls it has ahead have not been made, and a run
\* that can still be claimed, or that waits for its approval, has made none.
CallsInv ==
  /\ \A e \in Executors : AtFirstTool(e)
  /\ \A e, f \in Executors : Admitted(e) /\ Admitted(f) => e = f
  /\ \A e \in Executors : Admitted(e) => \A i \in Ahead(e) : calls[i] = 0
  /\ run.status = "queued" =>
       (\A e \in Executors : ~Admitted(e)) /\ (\A i \in DOMAIN calls : calls[i] = 0)
  /\ NeedsApproval /\ ~Approved => \A i \in DOMAIN calls : calls[i] = 0
  /\ CallsAtMostOnce

\* The requests a step sends are ones its executor had ahead, and has no more.
LEMMA CallsMove ==
  ASSUME StepInv, GateInv, \A f \in Executors : AtFirstTool(f), [Next]_vars
  PROVE  \/ UNCHANGED calls
         \/ \E e \in Executors, i \in 1..ModelCall :
              /\ Admitted(e) /\ i \in Ahead(e) /\ i \notin Ahead(e)'
              /\ calls' = [calls EXCEPT ![i] = @ + 1]
              /\ run'.status = run.status
<1>0. ex \in [Executors -> Executor] /\ ModelCall \in Nat \ {0}
  BY StepInvParts, ToolsAssumption DEF ModelCall
<1>1. ASSUME NEW e \in Executors, Working(e)
      PROVE  Admitted(e)
  BY <1>1 DEF GateInv, Fits, Working, Admitted, Active
<1>2. ASSUME NEW e \in Executors, UseTool(e), calls' # calls
      PROVE  \E i \in 1..ModelCall :
               /\ Admitted(e) /\ i \in Ahead(e) /\ i \notin Ahead(e)'
               /\ calls' = [calls EXCEPT ![i] = @ + 1]
               /\ run'.status = run.status
  <2>1. /\ ex[e].pc = "tool" /\ ex[e].at < ModelCall /\ Goto(e, "toolStep") /\ UNCHANGED run
        /\ calls' = [calls EXCEPT ![ex[e].at] = @ + 1]
    BY <1>2 DEF UseTool
  <2>2. ex'[e].pc = "toolStep" /\ ex'[e].at = ex[e].at
    BY <1>0, <2>1, GotoEx DEF ExecutorPC
  <2>3. ex[e].at \in Nat \ {0}
    BY <1>0 DEF AtFirstTool, Executor
  <2>4. ex[e].at \in 1..ModelCall
    BY <1>0, <2>1, <2>3
  <2>5. ex[e].at \in Ahead(e) /\ ex[e].at \notin Ahead(e)'
    BY <2>1, <2>2, <2>3, <2>4 DEF Ahead
  <2>6. Admitted(e)
    BY <1>1, <2>1 DEF Working
  <2> QED
    BY <2>1, <2>4, <2>5, <2>6
<1>3. ASSUME NEW e \in Executors, CallModel(e), calls' # calls
      PROVE  \E i \in 1..ModelCall :
               /\ Admitted(e) /\ i \in Ahead(e) /\ i \notin Ahead(e)'
               /\ calls' = [calls EXCEPT ![i] = @ + 1]
               /\ run'.status = run.status
  <2>1. /\ ex[e].pc = "model" /\ Goto(e, "stream") /\ UNCHANGED run
        /\ calls' = [calls EXCEPT ![ModelCall] = @ + 1]
    BY <1>3 DEF CallModel
  <2>2. ex'[e].pc = "stream"
    BY <1>0, <2>1, GotoEx DEF ExecutorPC
  <2>3. ModelCall \in 1..ModelCall
    BY <1>0
  <2>4. ModelCall \in Ahead(e) /\ ModelCall \notin Ahead(e)'
    BY <2>1, <2>2, <2>3 DEF Ahead
  <2>5. Admitted(e)
    BY <1>1, <2>1 DEF Working
  <2> QED
    BY <2>1, <2>3, <2>4, <2>5
<1>4. ASSUME NEW e \in Executors, Execute(e)
      PROVE  UNCHANGED calls \/ UseTool(e) \/ CallModel(e)
  BY <1>4 DEF Execute, LoadRun, LoadSteps, Claim, MarkRunRunning, FirstLease, AddApprovalStep,
     MarkRunWaitingInput, AddApprovalEvent, AddToolStep, AddModelStep, StreamEnds, StreamFails,
     MarkRunCompleted, CompleteStep, ThrowIfAborted, FailStep, MarkRunFailed, Record
<1>5. UNCHANGED calls \/ \E e \in Executors : Execute(e)
  BY DEF Next, vars, DispatchNew, PostCrash, LeaseExpires, Deliver, Redeliver, Heartbeat, Abort,
     Crash, DatabaseError, Cancel, CancelRun, CancelSteps, CancelRead, CancelRecord, CancelCrash,
     Poll, Reap, ReapSteps, ReapRecord, PollCrash, DecideBegin, FinishDecision, DecideCommit,
     DispatchResume, RejectStep, RejectRecord, ApproverCrash, EventCollision
<1> QED
  BY <1>2, <1>3, <1>4, <1>5

\* A run that is approved stays so: one step asks, and it is decided once.
LEMMA ApprovedStays ==
  ASSUME StepInv, GateInv, [Next]_vars, Approved
  PROVE  Approved'
<1>0. StepsOK /\ Numbered /\ \A e \in Executors : Continues(ex[e].seq)
  BY StepInvParts
<1>1. CASE \A n \in DOMAIN steps : /\ n \in DOMAIN steps' /\ steps'[n].type = steps[n].type
                                   /\ steps'[n].decision = steps[n].decision
  BY <1>1 DEF Approved, Approvals, isApprovalStep
<1>2. CASE UNCHANGED steps
  BY <1>1, <1>2
<1>3. ASSUME NEW n, Continues(n), NEW type \in {"approval", "tool", "llm", "message"},
             NEW status \in {"running", "completed"}, Insert(n, type, status)
      PROVE  Approved'
  BY <1>0, <1>1, <1>3, InsertSteps
<1>4. ASSUME NEW e \in Executors, Execute(e)
      PROVE  Approved'
  <2>1. CASE AddApprovalStep(e)
    BY <1>0, <1>2, <1>3, <2>1 DEF AddApprovalStep, NumberTaken
  <2>2. CASE AddToolStep(e)
    BY <1>0, <1>2, <1>3, <2>2 DEF AddToolStep, NumberTaken
  <2>3. CASE AddModelStep(e)
    BY <1>0, <1>2, <1>3, <2>3 DEF AddModelStep, NumberTaken
  <2>4. CASE CompleteStep(e)
    BY <1>0, <1>1, <2>4, ModelStepUpdated DEF CompleteStep, GateInv, StepsKept
  <2>5. CASE FailStep(e)
    BY <1>0, <1>1, <2>5, ModelStepFailed DEF GateInv, StepsKept
  <2> QED
    BY <1>2, <1>4, <2>1, <2>2, <2>3, <2>4, <2>5 DEF Execute, LoadRun, LoadSteps, Claim,
       MarkRunRunning, FirstLease, MarkRunWaitingInput, AddApprovalEvent, UseTool, CallModel,
       StreamEnds, StreamFails, MarkRunCompleted, ThrowIfAborted, MarkRunFailed, Record
<1>5. ASSUME NEW s \in {"failed", "cancelled"}, SetRunningSteps(s)
      PROVE  Approved'
  BY <1>0, <1>1, <1>5, SetRunningStepsKeeps
<1>6. ASSUME NEW a \in Approvers, DecideCommit(a)
      PROVE  Approved'
  \* The step the approver holds is the only one, and it is not decided.
  BY <1>6 DEF DecideCommit, GateInv, DecisionIsExclusive, OneApproval, Approved
<1>7. ASSUME NEW a \in Approvers, RejectStep(a)
      PROVE  Approved'
  <2>1. Continues(approver[a].next)
    BY <1>7 DEF RejectStep, StepInv, NumbersContinue
  <2> QED
    BY <1>2, <1>3, <1>7, <2>1 DEF RejectStep
<1>8. CASE \E c \in Cancellers : Cancel(c) \/ CancelCrash(c)
  BY <1>2, <1>5, <1>8 DEF Cancel, CancelRun, CancelSteps, CancelRead, CancelRecord, CancelCrash
<1>9. CASE \E g \in Pollers : Poll(g) \/ PollCrash(g)
  BY <1>2, <1>5, <1>9 DEF Poll, Reap, ReapSteps, ReapRecord, PollCrash
<1>10. CASE \E a \in Approvers : \/ DecideBegin(a) \/ FinishDecision(a) \/ ApproverCrash(a)
                                 \/ \E e \in Executors : EventCollision(e, a)
  BY <1>2, <1>6, <1>7, <1>10 DEF DecideBegin, FinishDecision, DispatchResume, RejectRecord,
     ApproverCrash, EventCollision
<1>11. \/ UNCHANGED steps
       \/ \E e \in Executors : Execute(e)
       \/ \E c \in Cancellers : Cancel(c) \/ CancelCrash(c)
       \/ \E g \in Pollers : Poll(g) \/ PollCrash(g)
       \/ \E a \in Approvers : \/ DecideBegin(a) \/ FinishDecision(a) \/ ApproverCrash(a)
                               \/ \E e \in Executors : EventCollision(e, a)
  BY DEF Next, vars, DispatchNew, PostCrash, LeaseExpires, Deliver, Redeliver, Heartbeat, Abort,
     Crash, DatabaseError
<1> QED
  BY <1>2, <1>4, <1>8, <1>9, <1>10, <1>11

\* A run is queued again by an approval alone, which finds it waiting for one.
LEMMA QueuedAgain ==
  ASSUME StepInv, GateInv, [Next]_vars, run'.status = "queued", run.status # "queued"
  PROVE  NeedsApproval /\ ~Approved /\ UNCHANGED <<ex, calls>>
<1>0. run \in RunRow /\ ResultKnown
  BY StepInvParts
<1>1. ASSUME NEW a \in Approvers, DecideCommit(a)
      PROVE  NeedsApproval /\ ~Approved /\ UNCHANGED <<ex, calls>>
  <2>1. approver[a].step \in Approvals(steps) /\ steps[approver[a].step].status = "running"
    BY <1>1 DEF DecideCommit, GateInv, DecisionIsExclusive
  <2> QED
    BY <1>1, <2>1 DEF DecideCommit, GateInv, OneApproval, CompletedMeansApproved, Approved
<1>2. run' # run
  OBVIOUS
<1>3. /\ run' # Running
      /\ \A l \in {"live", "expired"} : run' # [run EXCEPT !.lease = l]
      /\ \A s \in RunStatus : s # "queued" => run' # Ended(s)
      /\ run' # [Ended("cancelled") EXCEPT !.cancelRequested = TRUE]
  <2>1. Running.status # "queued"
    BY <1>0, RowStatus
  <2>2. \A l \in {"live", "expired"} : [run EXCEPT !.lease = l].status # "queued"
    BY <1>0, RowStatus
  <2>3. \A s \in RunStatus : s # "queued" => Ended(s).status # "queued"
    BY <1>0, RowStatus
  <2>4. [Ended("cancelled") EXCEPT !.cancelRequested = TRUE].status # "queued"
    BY <1>0, RowStatus DEF RunStatus
  <2> QED
    BY <2>1, <2>2, <2>3, <2>4, Zenon
<1>4. ASSUME NEW e \in Executors, Execute(e)
      PROVE  FALSE
  <2>1. MarkRunFailed(e) => ex[e].result \in FailureStatus
    BY <1>0 DEF MarkRunFailed, ResultKnown
  <2>2. ~MarkRunFailed(e)
    BY <1>2, <1>3, <2>1 DEF MarkRunFailed, RunStatus, FailureStatus
  <2> QED
    BY <1>2, <1>3, <1>4, <2>2 DEF Execute, LoadRun, LoadSteps, Claim, MarkRunRunning, FirstLease,
       AddApprovalStep, MarkRunWaitingInput, AddApprovalEvent, UseTool, AddToolStep, AddModelStep,
       CallModel, StreamEnds, StreamFails, MarkRunCompleted, CompleteStep, ThrowIfAborted,
       FailStep, Record, RunStatus
<1>5. ASSUME \/ \E e \in Executors : Deliver(e) \/ Redeliver(e) \/ Heartbeat(e) \/ Abort(e)
                                       \/ Crash(e) \/ DatabaseError(e)
             \/ DispatchNew \/ PostCrash \/ LeaseExpires
             \/ \E c \in Cancellers : Cancel(c) \/ CancelCrash(c)
             \/ \E g \in Pollers : Poll(g) \/ PollCrash(g)
      PROVE  FALSE
  BY <1>2, <1>3, <1>5 DEF Deliver, Redeliver, Heartbeat, Abort, Crash, DatabaseError, DispatchNew,
     PostCrash, LeaseExpires, Cancel, CancelRun, CancelSteps, CancelRead, CancelRecord,
     CancelCrash, Poll, Reap, ReapSteps, ReapRecord, PollCrash, RunStatus
<1>6. CASE \E a \in Approvers : \/ DecideBegin(a) \/ FinishDecision(a) \/ ApproverCrash(a)
                                \/ \E e \in Executors : EventCollision(e, a)
  BY <1>1, <1>2, <1>6 DEF DecideBegin, FinishDecision, DispatchResume, RejectStep, RejectRecord,
     ApproverCrash, EventCollision
<1> QED
  BY <1>2, <1>4, <1>5, <1>6 DEF Next, vars

LEMMA CallsInvNext == StepInv /\ GateInv /\ CallsInv /\ [Next]_vars => CallsInv'
<1> SUFFICES ASSUME StepInv, GateInv, CallsInv, [Next]_vars
             PROVE  CallsInv'
  OBVIOUS
<1>0. /\ calls \in [1..ModelCall -> Nat] /\ calls' \in [1..ModelCall -> Nat]
      /\ \A e \in Executors : AtFirstTool(e)
  BY StepInvNext DEF StepInv, TypeOK, CallsInv
<1>1. Approved => Approved'
  BY ApprovedStays
<1>2. run'.status = "queued" => run.status = "queued" \/ (NeedsApproval /\ ~Approved)
  BY QueuedAgain
<1>3. NeedsApproval /\ ~Approved => \A e \in Executors : ~Admitted(e)
  BY DEF GateInv, Fits, Admitted
<1>4. CASE \A e \in Executors : Quiet(e)
  <2>1. \A e \in Executors : AtFirstTool(e)'
    BY <1>4 DEF Quiet
  <2>2. \A e \in Executors : Admitted(e)' => Admitted(e) /\ Ahead(e)' \subseteq Ahead(e)
    BY <1>4 DEF Quiet, Admitted, NeedsApproval
  <2>3. \A e, f \in Executors : Admitted(e)' /\ Admitted(f)' => e = f
    BY <2>2 DEF CallsInv
  <2>4. CASE UNCHANGED calls
    <3>1. \A e \in Executors : Admitted(e)' => \A i \in Ahead(e)' : calls'[i] = 0
      BY <2>2, <2>4 DEF CallsInv
    <3>2. run'.status = "queued" =>
            (\A e \in Executors : ~Admitted(e)') /\ (\A i \in DOMAIN calls' : calls'[i] = 0)
      BY <1>2, <1>3, <2>2, <2>4 DEF CallsInv
    <3>3. NeedsApproval /\ ~Approved' => \A i \in DOMAIN calls' : calls'[i] = 0
      BY <1>1, <2>4 DEF CallsInv
    <3> QED
      BY <2>1, <2>3, <2>4, <3>1, <3>2, <3>3 DEF CallsInv, CallsAtMostOnce, NeedsApproval
  <2>5. CASE calls' # calls
    <3>1. PICK e \in Executors, i \in 1..ModelCall :
            /\ Admitted(e) /\ i \in Ahead(e) /\ i \notin Ahead(e)'
            /\ calls' = [calls EXCEPT ![i] = @ + 1]
            /\ run'.status = run.status
      BY <1>0, <2>5, CallsMove
    <3>2. calls[i] = 0
      BY <3>1 DEF CallsInv
    <3>3. \A j \in 1..ModelCall : calls'[j] = IF j = i THEN 1 ELSE calls[j]
      BY <1>0, <3>1, <3>2
    <3>4. \A f \in Executors : Admitted(f)' => \A j \in Ahead(f)' : calls'[j] = 0
      <4> SUFFICES ASSUME NEW f \in Executors, Admitted(f)', NEW j \in Ahead(f)'
                   PROVE  calls'[j] = 0
        OBVIOUS
      <4>1. Admitted(f) /\ j \in Ahead(f) /\ f = e
        BY <2>2, <3>1 DEF CallsInv
      <4>2. j # i /\ j \in 1..ModelCall
        BY <3>1, <4>1 DEF Ahead
      <4> QED
        BY <3>3, <4>1, <4>2 DEF CallsInv
    <3>5. run'.status # "queued" /\ (NeedsApproval => Approved')
      BY <1>1, <1>3, <3>1 DEF CallsInv
    <3>6. CallsAtMostOnce'
      BY <1>0, <3>3 DEF CallsInv, CallsAtMostOnce
    <3> QED
      BY <2>1, <2>3, <3>4, <3>5, <3>6 DEF CallsInv, NeedsApproval
  <2> QED
    BY <2>4, <2>5
<1>5. ASSUME NEW e \in Executors, Claims(e)
      PROVE  CallsInv'
  <2>1. run.status = "queued"
    BY <1>5 DEF Claims, Claimable, GateInv, QueuedMeansApproved
  <2>2. (\A f \in Executors : ~Admitted(f)) /\ (\A i \in DOMAIN calls : calls[i] = 0)
    BY <2>1 DEF CallsInv
  <2>3. /\ \A f \in Executors : f # e => ex'[f] = ex[f]
        /\ AtFirstTool(e)' /\ run'.status = "running" /\ UNCHANGED <<steps, calls>>
    BY <1>5 DEF Claims
  <2>4. \A f \in Executors : f # e => ~Admitted(f)' /\ AtFirstTool(f)'
    BY <1>0, <2>2, <2>3 DEF Admitted, Active, AtFirstTool, NeedsApproval
  <2>5. \A f \in Executors : \A i \in Ahead(f)' : calls'[i] = 0
    BY <1>0, <2>2, <2>3 DEF Ahead
  <2> QED
    BY <2>2, <2>3, <2>4, <2>5 DEF CallsInv, CallsAtMostOnce
<1> QED
  BY <1>0, <1>4, <1>5, Moves

LEMMA InitCallsInv == Init => CallsInv
<1> SUFFICES ASSUME Init
             PROVE  CallsInv
  OBVIOUS
<1>1. calls = [i \in 1..ModelCall |-> 0]
  BY DEF Init
<1>2. Idle.pc = "idle" /\ Idle.at = 1
  BY DEF Idle
<1>3. CASE ex = [e \in Executors |-> Idle]
  <2>1. \A e \in Executors : ex[e].pc = "idle" /\ ex[e].at = 1
    BY <1>2, <1>3
  <2> QED
    BY <1>1, <2>1 DEF CallsInv, Admitted, Active, AtFirstTool, CallsAtMostOnce
<1>4. ASSUME NEW e \in Executors, run.status # "queued",
             ex = [[f \in Executors |-> Idle] EXCEPT
                     ![e] = [Idle EXCEPT !.pc = "begin", !.via = "sync"]]
      PROVE  CallsInv
  <2> DEFINE x == [Idle EXCEPT !.pc = "begin", !.via = "sync"]
  <2>1. x.at = 1
    BY DEF Idle
  <2> HIDE DEF x
  <2>2. \A f \in Executors : ex[f] = IF f = e THEN x ELSE Idle
    BY <1>4 DEF x
  <2>3. \A f \in Executors : ex[f].at = 1 /\ (f # e => ex[f].pc = "idle")
    BY <1>2, <2>1, <2>2
  <2> QED
    BY <1>1, <1>4, <2>3 DEF CallsInv, Admitted, Active, AtFirstTool, CallsAtMostOnce, Ahead
<1> QED
  BY <1>3, <1>4 DEF Init

\* Whatever the queue redelivers and however often a run is dispatched, retried, paused or
\* resumed, it sends each tool's request and the model's at most once: one execution is
\* admitted at a time, and it finds nothing called that it has ahead.
THEOREM CallsHappenOnce == Spec => []CallsAtMostOnce
<1>1. CallsInv => CallsAtMostOnce
  BY DEF CallsInv
<1> QED
  BY <1>1, InitStepInv, InitGateInv, InitCallsInv, StepInvNext, GateInvNext, CallsInvNext, PTL
  DEF Spec

-----------------------------------------------------------------------------
(* What the conversation is told.                                          *)

\* Nobody tells of a completion before the row has it, and a queued run, which no request
\* executes inline, is answered once.
AnswerInv ==
  /\ Async => \A e \in Executors : ex[e].via # "sync"
  /\ \A e \in Executors : Answering(e) => run.status = "completed"
  /\ OneTerminalAnswer
  /\ CompletedAnswerIsTrue

LEMMA OutcomeRecorded ==
  ASSUME NEW s, recordRunOutcome(s)
  PROVE  \/ UNCHANGED msgs
         \/ msgs' = Append(msgs, s) /\ shouldRecordRunOutcome(Range(msgs), s)
BY DEF recordRunOutcome

\* What a step may write into the conversation.
LEMMA AnswersMove ==
  ASSUME StepInv, [Next]_vars
  PROVE  \/ UNCHANGED msgs
         \/ \E s \in RunStatus :
              /\ msgs' = Append(msgs, s)
              /\ s = "completed" => \E e \in Executors : Answering(e)
              /\ \/ shouldRecordRunOutcome(Range(msgs), s)
                 \/ \E e \in Executors : ex[e].via = "sync"
<1> DEFINE Goal ==
      \/ UNCHANGED msgs
      \/ \E s \in RunStatus :
           /\ msgs' = Append(msgs, s)
           /\ s = "completed" => \E e \in Executors : Answering(e)
           /\ \/ shouldRecordRunOutcome(Range(msgs), s)
              \/ \E e \in Executors : ex[e].via = "sync"
<1>0. ResultKnown /\ {"cancelled", "timed_out"} \subseteq RunStatus
  BY StepInvParts DEF RunStatus
<1>1. ASSUME NEW e \in Executors, Record(e)
      PROVE  Goal
  <2>1. /\ ex[e].result \in RunStatus
        /\ ex[e].result = "completed" => Answering(e)
    BY <1>0, <1>1 DEF Record, ResultKnown, Answering
  <2>2. CASE ex[e].via = "sync"
    BY <1>1, <2>1, <2>2 DEF Record
  <2>3. CASE ex[e].via # "sync"
    BY <1>1, <2>1, <2>3, OutcomeRecorded DEF Record
  <2> QED
    BY <2>2, <2>3
<1>2. ASSUME NEW s \in {"cancelled", "timed_out"}, recordRunOutcome(s)
      PROVE  Goal
  BY <1>0, <1>2, OutcomeRecorded
<1>3. ASSUME NEW e \in Executors, Execute(e)
      PROVE  Goal
  BY <1>1, <1>3 DEF Execute, LoadRun, LoadSteps, Claim, MarkRunRunning, FirstLease,
     AddApprovalStep, MarkRunWaitingInput, AddApprovalEvent, UseTool, AddToolStep, AddModelStep,
     CallModel, StreamEnds, StreamFails, MarkRunCompleted, CompleteStep, ThrowIfAborted,
     FailStep, MarkRunFailed
<1>4. CASE \/ \E e \in Executors : Deliver(e) \/ Redeliver(e) \/ Heartbeat(e) \/ Abort(e)
                                     \/ Crash(e) \/ DatabaseError(e)
           \/ DispatchNew \/ PostCrash \/ LeaseExpires
  BY <1>4 DEF Deliver, Redeliver, Heartbeat, Abort, Crash, DatabaseError, DispatchNew, PostCrash,
     LeaseExpires
<1>5. CASE \/ \E c \in Cancellers : Cancel(c) \/ CancelCrash(c)
           \/ \E g \in Pollers : Poll(g) \/ PollCrash(g)
  BY <1>2, <1>5 DEF Cancel, CancelRun, CancelSteps, CancelRead, CancelRecord, CancelCrash, Poll,
     Reap, ReapSteps, ReapRecord, PollCrash
<1>6. CASE \E a \in Approvers : \/ DecideBegin(a) \/ FinishDecision(a) \/ ApproverCrash(a)
                                \/ \E e \in Executors : EventCollision(e, a)
  BY <1>2, <1>6 DEF DecideBegin, FinishDecision, DecideCommit, DispatchResume, RejectStep,
     RejectRecord, ApproverCrash, EventCollision
<1> QED
  BY <1>3, <1>4, <1>5, <1>6 DEF Next, vars

\* A terminal answer is appended to a conversation that has none.
LEMMA OneAnswerAppended ==
  ASSUME NEW answers \in Seq(RunStatus), NEW s \in RunStatus, OneAnswer(answers),
         shouldRecordRunOutcome(Range(answers), s)
  PROVE  OneAnswer(Append(answers, s))
<1>1. s \in TERMINAL_STATUSES => \A i \in DOMAIN answers : answers[i] \notin TERMINAL_STATUSES
  BY DEF shouldRecordRunOutcome, Range
<1>2. /\ DOMAIN Append(answers, s) = 1..(Len(answers) + 1) /\ Len(answers) \in Nat
      /\ DOMAIN answers = 1..Len(answers)
      /\ Append(answers, s)[Len(answers) + 1] = s
      /\ \A i \in 1..Len(answers) : Append(answers, s)[i] = answers[i]
  OBVIOUS
<1> QED
  BY <1>1, <1>2 DEF OneAnswer

LEMMA AnswerInvNext ==
  StepInv /\ GateInv /\ CallsInv /\ AnswerInv /\ [Next]_vars => AnswerInv'
<1> SUFFICES ASSUME StepInv, GateInv, CallsInv, AnswerInv, [Next]_vars
             PROVE  AnswerInv'
  OBVIOUS
<1>0. msgs \in Seq(RunStatus) /\ \A f \in Executors : AtFirstTool(f)
  BY DEF StepInv, TypeOK, CallsInv
<1>1. run.status = "completed" => run'.status = "completed"
  BY RowLifeCycle DEF Unfinished
<1>2. (\A e \in Executors : Quiet(e)) \/ \E e \in Executors : Claims(e)
  BY <1>0, Moves
<1>3. \A e \in Executors : ex'[e].via = ex[e].via \/ ex'[e].via # "sync"
  BY <1>2 DEF Quiet, Claims
<1>4. \A e \in Executors : Answering(e)' => Answering(e) \/ run'.status = "completed"
  BY <1>2 DEF Quiet, Claims, Answering
<1>5. OneTerminalAnswer' /\ CompletedAnswerIsTrue'
  <2>1. CASE UNCHANGED msgs
    BY <1>1, <2>1 DEF AnswerInv, OneTerminalAnswer, OneAnswer, CompletedAnswerIsTrue
  <2>2. ASSUME NEW s \in RunStatus, msgs' = Append(msgs, s),
               s = "completed" => \E e \in Executors : Answering(e),
               \/ shouldRecordRunOutcome(Range(msgs), s)
               \/ \E e \in Executors : ex[e].via = "sync"
        PROVE  OneTerminalAnswer' /\ CompletedAnswerIsTrue'
    <3>1. OneTerminalAnswer'
      BY <1>0, <2>2, OneAnswerAppended DEF AnswerInv, OneTerminalAnswer
    <3>2. \A x \in Range(msgs') : x = s \/ x \in Range(msgs)
      BY <1>0, <2>2 DEF Range
    <3>3. s = "completed" => run.status = "completed"
      BY <2>2 DEF AnswerInv
    <3>4. CompletedAnswerIsTrue'
      BY <1>1, <3>2, <3>3 DEF AnswerInv, CompletedAnswerIsTrue
    <3> QED
      BY <3>1, <3>4
  <2> QED
    BY <2>1, <2>2, AnswersMove
<1> QED
  BY <1>1, <1>3, <1>4, <1>5 DEF AnswerInv

LEMMA InitAnswerInv == Init => AnswerInv
<1> SUFFICES ASSUME Init
             PROVE  AnswerInv
  OBVIOUS
<1>1. Idle.pc = "idle" /\ Idle.via = "worker"
  BY DEF Idle
<1>2. msgs = <<>>
  BY DEF Init
<1>3. OneTerminalAnswer /\ CompletedAnswerIsTrue
  BY <1>2 DEF OneTerminalAnswer, OneAnswer, CompletedAnswerIsTrue, Range
<1>4. CASE Async /\ ex = [e \in Executors |-> Idle]
  BY <1>1, <1>3, <1>4 DEF AnswerInv, Answering
<1>5. ASSUME NEW e \in Executors, ~Async,
             ex = [[f \in Executors |-> Idle] EXCEPT
                     ![e] = [Idle EXCEPT !.pc = "begin", !.via = "sync"]]
      PROVE  AnswerInv
  <2> DEFINE x == [Idle EXCEPT !.pc = "begin", !.via = "sync"]
  <2>1. x.pc = "begin"
    BY DEF Idle
  <2> HIDE DEF x
  <2>2. \A f \in Executors : ex[f] = IF f = e THEN x ELSE Idle
    BY <1>5 DEF x
  <2> QED
    BY <1>1, <1>3, <1>5, <2>1, <2>2 DEF AnswerInv, Answering
<1> QED
  BY <1>4, <1>5 DEF Init

LEMMA AnswersHold == Spec => []AnswerInv
BY InitStepInv, InitGateInv, InitCallsInv, InitAnswerInv, StepInvNext, GateInvNext, CallsInvNext,
   AnswerInvNext, PTL DEF Spec

\* Executor, reaper, cancellation and rejection converge on the end of a queued run, in any
\* order and number, and its conversation gets one terminal answer.
THEOREM QueuedRunsAnswerOnce == Spec => []OneTerminalAnswer
<1>1. AnswerInv => OneTerminalAnswer
  BY DEF AnswerInv
<1> QED
  BY <1>1, AnswersHold, PTL

\* An answer presented as complete belongs to a run that completed and stays completed:
\* also where the request executes the run itself and its catch block writes once more.
THEOREM CompletedAnswersAreTrue == Spec => []CompletedAnswerIsTrue
<1>1. AnswerInv => CompletedAnswerIsTrue
  BY DEF AnswerInv
<1> QED
  BY <1>1, AnswersHold, PTL
=============================================================================
