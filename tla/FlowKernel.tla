---------------------------- MODULE FlowKernel ----------------------------
(***************************************************************************)
(* The flow state machine (package flow: kernel.go, kernel_resume.go,      *)
(* executor.go, executor_approval.go, store.go) with the dispatch of       *)
(* answered requests to it (runtime/human_requests.go, flow_bridge.go).    *)
(*                                                                         *)
(* Start, Advance and Resume each hold the run's lock from beginning to    *)
(* end, so one of them is in hand at a time (`op`); but each is a chain of *)
(* durable updates of flow_run.yaml, and it may be cut off between any two *)
(* of them: by a crash, or by the caller's context, which every update     *)
(* checks first.  Humans answer meanwhile, in the store of requests that   *)
(* HumanRequestLifecycle describes.                                        *)
(*                                                                         *)
(* A call that changes nothing (Advance of a paused or ended run, Resume   *)
(* of a run that is not paused) is not a step, unless it ends a dispatch.  *)
(***************************************************************************)
EXTENDS HumanRequestLifecycle, Naturals, Sequences, FiniteSets

CONSTANTS
    Steps,          \* step ids of the flow definition
    First,          \* start step of the entrypoint
    Flow,           \* the definition: Steps -> StepDef
    AgentOutputs,   \* values an agent may leave in its output slot
    MaxInterrupts   \* bound on calls cut off

\* A branch is ${outputs.<of>.<slot> == '<is>'}; maxAttempts = 0 is no retry policy.
Branch  == [of : Steps, is : Sayings \cup AgentOutputs, next : Steps]
StepDef == [executor : {"agent", "decision", "human_approval"},
            options : SUBSET Sayings, branches : Seq(Branch),
            onSuccess : Steps \cup {None}, onFailure : Steps \cup {None},
            maxAttempts : Nat, onExhausted : Steps \cup {None}]

ASSUME FlowAssumption ==
    /\ First \in Steps
    /\ \A s \in Steps :
          /\ Flow[s] = [executor    |-> Flow[s].executor,
                        options     |-> Flow[s].options,
                        branches    |-> Flow[s].branches,
                        onSuccess   |-> Flow[s].onSuccess,
                        onFailure   |-> Flow[s].onFailure,
                        maxAttempts |-> Flow[s].maxAttempts,
                        onExhausted |-> Flow[s].onExhausted]
          /\ Flow[s].executor \in {"agent", "decision", "human_approval"}
          /\ Flow[s].options \subseteq Sayings
          /\ \A i \in DOMAIN Flow[s].branches : Flow[s].branches[i] \in Branch
          /\ {Flow[s].onSuccess, Flow[s].onFailure, Flow[s].onExhausted}
                \subseteq Steps \cup {None}
          /\ Flow[s].maxAttempts \in Nat
    /\ "approve" \in Sayings
    /\ None \notin Steps \cup Requests \cup Sayings \cup AgentOutputs \cup {"cancel"}
    /\ MaxInterrupts \in Nat

VARIABLES
    status,     \* Run.Status ("absent" before CreateRun)
    current,    \* Run.CurrentStepID
    step,       \* Run.Steps
    pending,    \* Run.PendingHumanRequests
    op,         \* the call that holds the run's lock
    scope,      \* per request, the step that asked it
    agent,      \* per request of an agent, the status of the run that asked it
    execs,      \* per step, how often it was executed
    used,       \* per request, how often its answer decided the step
    interrupts

run   == <<status, current, step, pending>>
store == <<phase, answer, accepted>>
asked == <<scope, agent>>
vars  == <<run, store, op, asked, execs, used, interrupts>>

Ended      == {"completed", "failed", "canceled"}
RunStatus  == {"absent", "pending", "running", "waiting_human"} \cup Ended
StepStatus == {"absent", "pending", "running", "waiting_human", "failed", "completed"}
Refusals   == {"deny", "cancel"}

\* StepState; `started` says whether StartedAt is set.
StepState(st, attempts, started, asks, output) ==
    [status |-> st, attempts |-> attempts, started |-> started, asks |-> asks,
     output |-> output]

NoStep == StepState("absent", 0, FALSE, {}, None)

\* StepExecutionResult
Result(st, asks, output) == [status |-> st, asks |-> asks, output |-> output]
NoResult == Result("pending", {}, None)

\* `by` is the request whose dispatch makes the call, None for `advance`,
\* `resume` and `start` called from outside.
Op(stage, s, by, result) == [stage |-> stage, step |-> s, by |-> by, result |-> result]
Idle == Op("idle", None, None, NoResult)

At(stage) == op.stage = stage

\* The call returns; its dispatch is completed or failed with it.
Return(by, ok) ==
    /\ op' = Idle
    /\ IF by = None THEN UNCHANGED store ELSE IF ok THEN Finish(by) ELSE GiveUp(by)

-----------------------------------------------------------------------------
(* Transitions                                                             *)

Executor(s) == Flow[s].executor

\* compare: the output a branch asks for is the one it is for.
Matches(branch) == step[branch.of].output = branch.is

\* resolveNext: the first branch that matches, unless one before it refers to
\* an output that is not set.  No element: unresolvable.  None: complete.
Route(s) ==
    LET br       == Flow[s].branches
        Out(i)   == step[br[i].of].output
        Decides(i) == Out(i) = None \/ Matches(br[i])
        FirstTo  == {i \in DOMAIN br : /\ Decides(i)
                                       /\ \A j \in DOMAIN br : j < i => ~Decides(j)}
    IN IF br = <<>> THEN {Flow[s].onSuccess}
       ELSE {br[i].next : i \in {j \in FirstTo : Out(j) # None}}

\* mapApprovalResponseToSignal
Signal(s, saying) ==
    CASE saying \in Flow[s].options -> saying
      [] saying = "deny" /\ "reject" \in Flow[s].options -> "reject"
      [] saying = "answer" /\ "answer" \notin Flow[s].options -> "approve"
      [] OTHER -> saying

HasBranchFor(s, signal) == \E i \in DOMAIN Flow[s].branches : Flow[s].branches[i].is = signal

\* A step is scheduled once: one that was there before keeps its state.
Scheduled(s) == IF step[s].status = "absent" THEN [step EXCEPT ![s].status = "pending"] ELSE step

GoTo(s) == /\ current' = s
           /\ step' = Scheduled(s)
           /\ UNCHANGED pending

Complete == /\ status' = "completed"
            /\ current' = None
            /\ UNCHANGED <<step, pending>>

FailTransition(s) == /\ status' = "failed"
                     /\ step' = [step EXCEPT ![s].status = "failed"]
                     /\ UNCHANGED <<current, pending>>

AdvanceTransition(s, by) ==
    \/ Route(s) = {} /\ FailTransition(s) /\ Return(by, FALSE)
    \/ Route(s) = {None} /\ Complete /\ Return(by, TRUE)
    \/ \E next \in Route(s) \ {None} : GoTo(next) /\ UNCHANGED status /\ Return(by, TRUE)

-----------------------------------------------------------------------------
(* Start and Advance                                                       *)

Same == UNCHANGED <<asked, execs, used, interrupts>>

StartRun ==
    /\ op = Idle /\ status = "absent"
    /\ status' = "pending"
    /\ current' = First
    /\ op' = Op("start", First, None, NoResult)
    /\ UNCHANGED <<step, pending, store>> /\ Same

ScheduleFirst ==
    /\ At("start")
    /\ status' = "running"
    /\ step' = [step EXCEPT ![First] = StepState("pending", 0, FALSE, {}, None)]
    /\ Return(None, TRUE)
    /\ UNCHANGED <<current, pending>> /\ Same

Advancing == op = Idle /\ status \in {"pending", "running"}

\* MarkStepRunning.  An attempt that was cut off is not counted again.
BeginStep ==
    /\ Advancing
    /\ step[current].status \in {"absent", "pending", "running"}
    /\ step' = [step EXCEPT ![current].status = "running", ![current].started = TRUE,
                            ![current].attempts = IF step[current].started THEN @ ELSE @ + 1]
    /\ op' = Op("execute", current, None, NoResult)
    /\ UNCHANGED <<status, current, pending, store>> /\ Same

\* Fault model: a failed step is left like a completed one.
LeaveFailedStep ==
    /\ Advancing
    /\ step[current].status \in {"completed", "failed"}
    /\ AdvanceTransition(current, None)
    /\ Same

\* A completed current step is left, not executed again.
LeaveStep ==
    /\ Advancing
    /\ step[current].status = "completed"
    /\ AdvanceTransition(current, None)
    /\ Same

Pause(s) == /\ status' = "waiting_human"
            /\ pending' = pending \cup step[s].asks
            /\ Return(op.by, TRUE)
            /\ UNCHANGED <<current, step>>

PauseAgain == /\ Advancing
              /\ step[current].status = "waiting_human"
              /\ Pause(current)
              /\ Same

-----------------------------------------------------------------------------
(* Executing a step                                                        *)

Executed(result) ==
    /\ At("execute")
    /\ op' = [op EXCEPT !.stage = "apply", !.result = result]
    /\ execs' = [execs EXCEPT ![op.step] = @ + 1]
    /\ UNCHANGED <<run, interrupts, used>>

\* A decision does no work, its branches decide.
Decide == /\ At("execute") /\ Executor(op.step) = "decision"
          /\ Executed(Result("completed", {}, None))
          /\ UNCHANGED <<store, asked>>

AgentCompletes ==
    /\ At("execute") /\ Executor(op.step) = "agent"
    /\ \E v \in AgentOutputs : Executed(Result("completed", {}, v))
    /\ UNCHANGED <<store, asked>>

\* A failed turn, or a required output slot left empty; or an approval whose
\* request cannot be delivered (and is closed at once).
ExecutionFails ==
    /\ At("execute") /\ Executor(op.step) # "decision"
    /\ Executed(Result("failed", {}, None))
    /\ UNCHANGED <<store, asked>>

\* The agent's run asks and pauses; its request carries no flow metadata.
AgentAsks(q) ==
    /\ At("execute") /\ Executor(op.step) = "agent"
    /\ Ask(q)
    /\ scope' = [scope EXCEPT ![q] = op.step]
    /\ agent' = [agent EXCEPT ![q] = "waiting_human"]
    /\ Executed(Result("waiting_human", {q}, None))

\* doHumanApproval; the dedupe key finds a pending request of the same step.
OpenFor(s) == {q \in Requests : scope[q] = s /\ phase[q] = "open"}

AskApproval(q) ==
    /\ At("execute") /\ Executor(op.step) = "human_approval"
    /\ IF OpenFor(op.step) # {}
       THEN q \in OpenFor(op.step) /\ UNCHANGED <<store, scope>>
       ELSE Ask(q) /\ scope' = [scope EXCEPT ![q] = op.step]
    /\ Executed(Result("waiting_human", {q}, None))
    /\ UNCHANGED agent

\* applyStepResult; an agent's result always replaces the step's requests.
Applied(s, result) ==
    [step EXCEPT ![s].status = result.status,
                 ![s].asks   = IF Executor(s) = "agent" \/ result.asks # {}
                               THEN result.asks ELSE @,
                 ![s].output = IF result.status = "completed" THEN result.output ELSE @]

ApplyResult ==
    /\ At("apply")
    /\ step' = Applied(op.step, op.result)
    /\ op' = [op EXCEPT !.stage = CASE op.result.status = "waiting_human" -> "pause"
                                    [] op.result.status = "failed"        -> "failure"
                                    [] OTHER                              -> "route",
                        !.result = NoResult]
    /\ UNCHANGED <<status, current, pending, store>> /\ Same

MarkWaitingHuman == At("pause") /\ Pause(op.step) /\ Same

RouteOn == At("route") /\ AdvanceTransition(op.step, op.by) /\ Same

\* handleStepFailure: retry, else the route for exhausted retries, else the one
\* for failures, else the run fails.
MayRetry(s) == step[s].attempts < Flow[s].maxAttempts

FailureRoute(s) == IF Flow[s].maxAttempts > 0 /\ Flow[s].onExhausted # None
                   THEN Flow[s].onExhausted ELSE Flow[s].onFailure

Retry(s) == /\ MayRetry(s)
            /\ status' = "running"
            /\ step' = [step EXCEPT ![s].status = "pending", ![s].started = FALSE]
            /\ UNCHANGED <<current, pending>>

\* Fault model: the current step is not changed.
RouteNowhere(s) == /\ ~MayRetry(s) /\ FailureRoute(s) # None
                   /\ status' = "running"
                   /\ UNCHANGED <<current, step, pending>>

RouteAfterFailure(s) == /\ ~MayRetry(s) /\ FailureRoute(s) # None
                        /\ status' = "running"
                        /\ GoTo(FailureRoute(s))

GiveUpRun(s) == /\ ~MayRetry(s) /\ FailureRoute(s) = None
                /\ status' = "failed"
                /\ UNCHANGED <<current, step, pending>>

HandleStepFailure ==
    /\ At("failure")
    /\ Retry(op.step) \/ RouteAfterFailure(op.step) \/ GiveUpRun(op.step)
    /\ Return(op.by, TRUE)
    /\ Same

-----------------------------------------------------------------------------
(* Answers, their dispatch, and Resume                                     *)

OfAgent(r) == scope[r] # None /\ Executor(scope[r]) = "agent"
OfFlow(r)  == scope[r] # None /\ Executor(scope[r]) = "human_approval"

Frame == UNCHANGED <<run, op, scope, execs, used, interrupts>>

Answer(r, a) == Accept(r, a) /\ Frame /\ UNCHANGED agent

\* resumeResolvedHumanRequest claims the resume; the reconciliation at startup
\* claims those that failed.
Dispatch(r) == Claim(r) /\ Frame /\ UNCHANGED agent

\* resumeDirectHumanRequest: HitlResume in one step, for an agent that does not
\* ask again.
AgentResumes(r) ==
    /\ OfAgent(r) /\ Finish(r)
    /\ \E st \in IF answer[r] \in Refusals THEN {"failed"} ELSE {"completed", "failed"} :
          agent' = [agent EXCEPT ![r] = st]
    /\ Frame

\* dispatchHumanRequestResume calls ResumeFlow for an approval the flow asked;
\* for an agent's request somebody calls it once the agent has resumed.
Callers(r) == {None} \cup {q \in {r} : OfFlow(q) /\ phase[q] = "resuming"}

\* Fault model: whatever the run is waiting for, or not.
LinkedAnyTime(r) == scope[r] = current /\ answer[r] # None

\* The run is paused on r and r is answered.
Linked(r) == /\ status = "waiting_human"
             /\ r \in step[current].asks
             /\ answer[r] # None

\* Fault model: the run goes on listing the requests of the step.
EndStepPending(st, output) ==
    /\ status'  = "running"
    /\ step'    = [step EXCEPT ![current].status = st, ![current].asks = {},
                               ![current].output = output]
    /\ UNCHANGED <<current, pending>>

\* The step ends as `st`; the requests it waited for are unlinked.
EndStep(st, output) ==
    /\ status'  = "running"
    /\ step'    = [step EXCEPT ![current].status = st, ![current].asks = {},
                               ![current].output = output]
    /\ pending' = pending \ step[current].asks
    /\ UNCHANGED current

Resume(r, stage, by) ==
    /\ op' = Op(stage, current, by, NoResult)
    /\ used' = [used EXCEPT ![r] = @ + 1]
    /\ UNCHANGED <<store, asked, execs, interrupts>>

\* resumeExplicitApproval, its first update
ResumeExplicitApproval(r, by) ==
    LET signal == Signal(current, answer[r])
        cancels == signal = "cancel" /\ ~HasBranchFor(current, "cancel")
    IN /\ op = Idle /\ OfFlow(r) /\ Linked(r)
       /\ EndStep("completed", signal)
       /\ Resume(r, IF cancels THEN "cancel" ELSE "route", by)

\* resumeAgentGenerated, its first update.  The outputs of the resumed agent are
\* not collected.
AgentEnd(r) == IF answer[r] \in Refusals THEN "failed" ELSE agent[r]

ResumeAgentGenerated(r) ==
    /\ op = Idle /\ OfAgent(r) /\ Linked(r)
    /\ AgentEnd(r) \in {"completed", "failed"}
    /\ EndStep(AgentEnd(r), step[current].output)
    /\ Resume(r, IF AgentEnd(r) = "completed" THEN "route" ELSE "fail", None)

\* A dispatched resume of a run that is not paused has nothing to do; that of a
\* run paused on something else is an error.
DispatchReturns(r) ==
    /\ op = Idle /\ OfFlow(r)
    /\ \/ status # "waiting_human" /\ Finish(r)
       \/ status = "waiting_human" /\ r \notin step[current].asks /\ GiveUp(r)
    /\ Frame /\ UNCHANGED agent

MarkFailed ==
    /\ At("fail")
    /\ status' = "failed"
    /\ Return(op.by, TRUE)
    /\ UNCHANGED <<current, step, pending>> /\ Same

CancelRun ==
    /\ At("cancel")
    /\ status' = "canceled"
    /\ current' = None
    /\ step' = [step EXCEPT ![op.step].status = "failed", ![op.step].asks = {}]
    /\ pending' = pending \ step[op.step].asks
    /\ Return(op.by, TRUE)
    /\ Same

\* The call is cut off before its next update.
Interrupt ==
    /\ op # Idle
    /\ interrupts < MaxInterrupts
    /\ interrupts' = interrupts + 1
    /\ Return(op.by, FALSE)
    /\ UNCHANGED <<run, asked, execs, used>>

-----------------------------------------------------------------------------
Init ==
    /\ LInit
    /\ status = "absent" /\ current = None
    /\ step = [s \in Steps |-> NoStep]
    /\ pending = {}
    /\ op = Idle
    /\ scope = [r \in Requests |-> None]
    /\ agent = [r \in Requests |-> "none"]
    /\ execs = [s \in Steps |-> 0]
    /\ used  = [r \in Requests |-> 0]
    /\ interrupts = 0

Advance == BeginStep \/ LeaveStep \/ PauseAgain

\* What the call in hand does next.
Execute == \/ Decide \/ AgentCompletes \/ ExecutionFails
           \/ \E q \in Requests : AgentAsks(q) \/ AskApproval(q)

Proceed == \/ ScheduleFirst \/ Execute \/ ApplyResult \/ MarkWaitingHuman \/ RouteOn
           \/ HandleStepFailure \/ MarkFailed \/ CancelRun

ResumeFlow(r) == \/ \E by \in Callers(r) : ResumeExplicitApproval(r, by)
                 \/ ResumeAgentGenerated(r)

Respond(r) == \/ \E a \in Sayings : Answer(r, a)
              \/ Dispatch(r) \/ AgentResumes(r) \/ DispatchReturns(r)

Next == \/ StartRun \/ Advance \/ Proceed \/ Interrupt
        \/ \E r \in Requests : Respond(r) \/ ResumeFlow(r)

\* A call in hand goes on, and somebody keeps calling Advance.
Spec == Init /\ [][Next]_vars /\ WF_vars(Proceed) /\ WF_vars(Advance)

-----------------------------------------------------------------------------
(* What the kernel promises                                                *)

\* The type of every variable.
TypeOK ==
    /\ status \in RunStatus
    /\ current \in Steps \cup {None}
    /\ step \in [Steps -> [status : StepStatus, attempts : Nat, started : BOOLEAN,
                           asks : SUBSET Requests,
                           output : Sayings \cup AgentOutputs \cup {None}]]
    /\ pending \subseteq Requests
    /\ op \in [stage : {"idle", "start", "execute", "apply", "pause", "failure", "route",
                        "cancel", "fail"},
               step : Steps \cup {None}, by : Requests \cup {None},
               result : [status : StepStatus, asks : SUBSET Requests,
                         output : AgentOutputs \cup {None}]]
    /\ scope \in [Requests -> Steps \cup {None}]
    /\ agent \in [Requests -> {"none", "waiting_human", "completed", "failed"}]
    /\ execs \in [Steps -> Nat]
    /\ used \in [Requests -> Nat]
    /\ interrupts \in 0..MaxInterrupts
    /\ phase \in [Requests -> Phases]
    /\ answer \in [Requests -> Sayings \cup {None}]

\* The state is well-formed and nothing is done twice: an answer advances the
\* flow at most once, however often and by whomever Resume is called with it; a
\* step is tried no more often than its retry policy says, and executed no more
\* often than that plus once for every call that was cut off.
NothingTwice ==
    /\ TypeOK
    /\ \A r \in Requests : used[r] <= 1
    /\ \A s \in Steps :
          /\ step[s].attempts <= IF Flow[s].maxAttempts = 0 THEN 1 ELSE Flow[s].maxAttempts
          /\ execs[s] <= step[s].attempts + interrupts

\* Every step but the first was reached over a transition of the definition,
\* from a step that ended with the outcome the transition asks for: nothing
\* behind an approval is scheduled without the answer its branch names.  A cancel
\* that no branch of the approval takes up ends the flow, as long as no call is
\* cut off between its two updates.
OnlyRouted ==
    /\ \A s \in Steps \ {First} : step[s].status # "absent" =>
          \E t \in Steps : \/ step[t].status = "completed" /\ s \in Route(t)
                           \/ step[t].status = "failed" /\ s = FailureRoute(t)
    /\ \A s \in Steps :
          /\ Executor(s) = "human_approval" /\ step[s].output = "cancel"
          /\ ~HasBranchFor(s, "cancel") /\ interrupts = 0
          => status = "canceled" \/ (status = "running" /\ op.stage = "cancel")

\* A run is paused exactly on the requests of its current step, and once it has
\* ended it waits for nobody.  As long as no call is cut off, a paused run can
\* still be moved: its request is open or its answer is on the way, or the agent
\* that asked has ended and a resume will tell the flow.
PausedOnSomething ==
    /\ status = "waiting_human" =>
          /\ step[current].status = "waiting_human"
          /\ pending = step[current].asks
          /\ pending # {}
    /\ status \in Ended => pending = {}
    /\ status = "waiting_human" /\ interrupts = 0 =>
          \E r \in step[current].asks :
              \/ phase[r] \in {"open", "answered", "resuming", "retry"}
              \/ agent[r] \in {"completed", "failed"}

\* As long as no call is cut off, a running flow ends or comes to wait for a
\* human.
EndsOrWaits ==
    status = "running" ~> status \in Ended \cup {"waiting_human"} \/ interrupts > 0

=============================================================================
