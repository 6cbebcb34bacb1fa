------------------------- MODULE FlowKernelProofs -------------------------
(***************************************************************************)
(* What FlowKernel promises for every flow definition, with loops too, any *)
(* requests and any number of calls that are cut off: nothing is done      *)
(* twice (KernelInv), a paused run waits for something (PauseInv), and     *)
(* steps are reached over transitions only (RouteInv).  Each invariant     *)
(* adds to the one before.                                                 *)
(***************************************************************************)
EXTENDS FlowKernel, TLAPS

StepRecord == [status : StepStatus, attempts : Nat, started : BOOLEAN, asks : SUBSET Requests,
               output : Sayings \cup AgentOutputs \cup {None}]

ResultRecord == [status : StepStatus, asks : SUBSET Requests, output : AgentOutputs \cup {None}]

OpRecord == [stage : {"idle", "start", "execute", "apply", "pause", "failure", "route", "cancel", "fail"},
             step : Steps \cup {None}, by : Requests \cup {None}, result : ResultRecord]

Outputs == Sayings \cup AgentOutputs \cup {None}

\* A call in hand is about the current step, which is running until it is executed.
AtCurrent ==
    /\ status \in {"pending", "running", "waiting_human"} => current \in Steps
    /\ op # Idle => current \in Steps /\ op.step = current
    /\ status = "absent" => op = Idle /\ \A s \in Steps : step[s].status = "absent"
    /\ At("start") => step[First].status = "absent" /\ op.step = First
    /\ At("execute") \/ At("apply") => step[op.step].status = "running"
    /\ At("apply") => op.result.status \in {"completed", "failed", "waiting_human"}

\* How often a step may be tried.
Limit(s) == IF Flow[s].maxAttempts = 0 THEN 1 ELSE Flow[s].maxAttempts

\* An attempt is counted when it starts, and a step that is to start has one left.
Attempts ==
    \A s \in Steps :
        /\ step[s].attempts <= Limit(s)
        /\ step[s].status = "absent" => ~step[s].started /\ step[s].attempts = 0 /\ execs[s] = 0
        /\ step[s].status = "pending" => ~step[s].started /\ step[s].attempts < Limit(s)
        /\ step[s].status = "running" => step[s].started

Applying(s) == op.step = s /\ At("apply")

\* A step that is running and not yet executed may still be.
Executions ==
    \A s \in Steps :
        /\ execs[s] <= step[s].attempts + interrupts
        /\ step[s].status = "running" /\ ~Applying(s) =>
              execs[s] + 1 <= step[s].attempts + interrupts

\* A step waits for requests of its own, and for none whose answer was used.
Answers ==
    \A r \in Requests :
        /\ phase[r] = "absent" => scope[r] = None
        /\ answer[r] # None => phase[r] \notin {"absent", "open"}
        /\ \A s \in Steps : r \in step[s].asks => scope[r] = s
        /\ r \in op.result.asks => scope[r] = op.step
        /\ used[r] <= 1
        /\ used[r] = 1 => /\ answer[r] # None
                          /\ r \notin op.result.asks
                          /\ \A s \in Steps : r \notin step[s].asks

KernelInv == TypeOK /\ AtCurrent /\ Attempts /\ Executions /\ Answers

-----------------------------------------------------------------------------
(* The definition                                                          *)

LEMMA LimitPositive ==
    ASSUME NEW s \in Steps
    PROVE  /\ Flow[s].maxAttempts \in Nat /\ Limit(s) \in Nat \ {0}
           /\ Flow[s].onSuccess \in Steps \cup {None}
           /\ FailureRoute(s) \in Steps \cup {None}
           /\ Flow[s].options \subseteq Sayings
<1>1. /\ Flow[s].options \subseteq Sayings
      /\ {Flow[s].onSuccess, Flow[s].onFailure, Flow[s].onExhausted} \subseteq Steps \cup {None}
      /\ Flow[s].maxAttempts \in Nat
  BY FlowAssumption, Zenon DEF FlowAssumption
<1>2. {Flow[s].onSuccess, Flow[s].onFailure, Flow[s].onExhausted} \subseteq Steps \cup {None}
  BY <1>1
<1>3. Limit(s) \in Nat \ {0}
  BY <1>1 DEF Limit
<1> QED BY <1>1, <1>2, <1>3 DEF FailureRoute

LEMMA RouteTyped ==
    ASSUME NEW s \in Steps
    PROVE  Route(s) \subseteq Steps \cup {None}
<1>1. CASE Flow[s].branches = <<>>
  BY <1>1, LimitPositive DEF Route
<1>2. CASE Flow[s].branches # <<>>
  <2>1. \A i \in DOMAIN Flow[s].branches : Flow[s].branches[i].next \in Steps
    BY FlowAssumption DEF FlowAssumption, Branch
  <2>2. ASSUME NEW t \in Route(s)
        PROVE  \E i \in DOMAIN Flow[s].branches : t = Flow[s].branches[i].next
    BY <1>2 DEF Route
  <2> QED BY <2>1, <2>2
<1> QED BY <1>1, <1>2

LEMMA SignalTyped ==
    ASSUME NEW s \in Steps, NEW a \in Sayings
    PROVE  Signal(s, a) \in Sayings
BY LimitPositive, FlowAssumption DEF FlowAssumption, Signal

LEMMA IdleTyped == Idle \in OpRecord /\ NoResult \in ResultRecord /\ Idle.result.asks = {} /\ Idle.stage = "idle"
BY DEF Idle, Op, NoResult, Result, OpRecord, ResultRecord, StepStatus

-----------------------------------------------------------------------------
(* The types                                                               *)

LEMMA TypeParts ==
    TypeOK <=>
        /\ status \in RunStatus /\ current \in Steps \cup {None}
        /\ step \in [Steps -> StepRecord]
        /\ pending \subseteq Requests
        /\ op \in OpRecord
        /\ scope \in [Requests -> Steps \cup {None}]
        /\ agent \in [Requests -> {"none", "waiting_human", "completed", "failed"}]
        /\ execs \in [Steps -> Nat]
        /\ used \in [Requests -> Nat]
        /\ interrupts \in 0..MaxInterrupts
        /\ phase \in [Requests -> Phases]
        /\ answer \in [Requests -> Sayings \cup {None}]
BY DEF TypeOK, StepRecord, OpRecord, ResultRecord

\* A move of a request in the store.
LEMMA MoveTyped ==
    ASSUME phase \in [Requests -> Phases], NEW r \in Requests, NEW from, NEW to \in Phases, Move(r, from, to)
    PROVE  /\ phase' \in [Requests -> Phases]
           /\ phase[r] \in from
           /\ \A q \in Requests : phase'[q] = (IF q = r THEN to ELSE phase[q])
BY DEF Move

\* What becomes of the store when a call returns.
StoreKept ==
    /\ phase' \in [Requests -> Phases] /\ UNCHANGED answer
    /\ \A r \in Requests : /\ phase'[r] = "absent" => phase[r] = "absent"
                           /\ phase[r] \notin {"absent", "open"} => phase'[r] \notin {"absent", "open"}

LEMMA ReturnKeeps ==
    ASSUME phase \in [Requests -> Phases], NEW by \in Requests \cup {None}, NEW ok \in BOOLEAN,
           Return(by, ok)
    PROVE  op' = Idle /\ StoreKept
<1>1. op' = Idle
  BY DEF Return
<1>2. CASE by = None
  BY <1>2 DEF Return, StoreKept, store
<1>3. CASE by # None
  <2>1. PICK to \in {"done", "retry"} : Move(by, {"resuming"}, to) /\ UNCHANGED answer
    BY <1>3 DEF Return, Finish, GiveUp
  <2>2. to \in Phases /\ by \in Requests
    BY <1>3 DEF Phases
  <2> QED BY <1>1, <2>1, <2>2, MoveTyped DEF StoreKept
<1> QED BY <1>1, <1>2, <1>3

\* The steps after an update that leaves or fails some, schedules others and
\* makes failed ones ready for another attempt.
StepsKept ==
    \A s \in Steps :
        /\ step'[s].attempts = step[s].attempts
        /\ step'[s].asks \subseteq step[s].asks
        /\ \/ step'[s].status = step[s].status /\ step'[s].started = step[s].started
           \/ step'[s].status = "failed" /\ step'[s].started = step[s].started
           \/ step'[s].status = "pending" /\ ~step'[s].started /\ step[s].attempts < Limit(s)

\* One step of the run is changed.
LEMMA StepUpdate ==
    ASSUME step \in [Steps -> StepRecord], NEW s \in Steps, NEW r \in StepRecord,
           step' = [step EXCEPT ![s] = r]
    PROVE  /\ step' \in [Steps -> StepRecord]
           /\ \A t \in Steps : step'[t] = (IF t = s THEN r ELSE step[t])
OBVIOUS

\* A step that is left for another one.
LEMMA GoToKeeps ==
    ASSUME TypeOK, Attempts, NEW s \in Steps, GoTo(s)
    PROVE  step' \in [Steps -> StepRecord] /\ StepsKept /\ current' = s
<1>1. step \in [Steps -> StepRecord]
  BY TypeParts
<1>2. CASE step[s].status # "absent"
  BY <1>1, <1>2 DEF GoTo, Scheduled, StepsKept
<1>3. CASE step[s].status = "absent"
  <2> DEFINE r == [step[s] EXCEPT !.status = "pending"]
  <2>1. step' = [step EXCEPT ![s] = r]
    BY <1>3 DEF GoTo, Scheduled
  <2>2. r \in StepRecord /\ r.status = "pending" /\ r.attempts = step[s].attempts
        /\ r.asks = step[s].asks /\ r.started = step[s].started
    BY <1>1 DEF StepRecord, StepStatus
  <2>3. ~step[s].started /\ step[s].attempts < Limit(s)
    BY <1>3, LimitPositive DEF Attempts
  <2> HIDE DEF r
  <2> QED BY <1>1, <2>1, <2>2, <2>3, StepUpdate DEF GoTo, StepsKept
<1> QED BY <1>2, <1>3

LEMMA FailTransitionKeeps ==
    ASSUME TypeOK, NEW s \in Steps, FailTransition(s)
    PROVE  step' \in [Steps -> StepRecord] /\ StepsKept
<1>1. step \in [Steps -> StepRecord]
  BY TypeParts
<1> DEFINE r == [step[s] EXCEPT !.status = "failed"]
<1>2. step' = [step EXCEPT ![s] = r]
  BY DEF FailTransition
<1>3. r \in StepRecord /\ r.status = "failed" /\ r.attempts = step[s].attempts
      /\ r.asks = step[s].asks /\ r.started = step[s].started
  BY <1>1 DEF StepRecord, StepStatus
<1> HIDE DEF r
<1> QED BY <1>1, <1>2, <1>3, StepUpdate DEF StepsKept

\* What an update does with which a call returns: run stays well-formed.
Returns ==
    /\ op' = Idle /\ StoreKept /\ StepsKept
    /\ step' \in [Steps -> StepRecord]
    /\ status' \in RunStatus \ {"absent"} /\ current' \in Steps \cup {None}
    /\ status' \in {"pending", "running", "waiting_human"} => current' \in Steps
    /\ pending' \subseteq Requests
    /\ UNCHANGED <<scope, agent, execs, used>>

LEMMA ReturnsKeepsInv ==
    ASSUME KernelInv, Returns, interrupts' \in 0..MaxInterrupts,
           IF At("apply") THEN interrupts' = interrupts + 1 ELSE interrupts' \in {interrupts, interrupts + 1}
    PROVE  KernelInv'
<1>0. /\ step \in [Steps -> StepRecord] /\ step' \in [Steps -> StepRecord]
      /\ execs \in [Steps -> Nat] /\ interrupts \in Nat
  BY FlowAssumption, TypeParts DEF KernelInv, Returns
<1>1. TypeOK'
  BY TypeParts, IdleTyped DEF KernelInv, Returns, StoreKept, TypeOK, StepRecord, OpRecord, ResultRecord
<1>2. ~At("start")' /\ ~At("execute")' /\ ~At("apply")'
  BY IdleTyped DEF Returns, At
<1>3. AtCurrent'
  BY <1>2 DEF Returns, AtCurrent
<1>4. Attempts'
  <2> SUFFICES ASSUME NEW s \in Steps
               PROVE  /\ step'[s].attempts <= Limit(s)
                      /\ step'[s].status = "absent" =>
                            ~step'[s].started /\ step'[s].attempts = 0 /\ execs'[s] = 0
                      /\ step'[s].status = "pending" =>
                            ~step'[s].started /\ step'[s].attempts < Limit(s)
                      /\ step'[s].status = "running" => step'[s].started
    BY DEF Attempts, Limit
  <2> QED BY DEF KernelInv, Attempts, Returns, StepsKept
<1>5. Executions'
  <2> SUFFICES ASSUME NEW s \in Steps
               PROVE  /\ execs[s] <= step[s].attempts + interrupts'
                      /\ step'[s].status = "running" => execs[s] + 1 <= step[s].attempts + interrupts'
    BY <1>2 DEF Executions, Returns, StepsKept
  <2>1. step[s].attempts \in Nat /\ execs[s] \in Nat
    BY <1>0 DEF StepRecord
  <2>2. step'[s].status = "running" => step[s].status = "running"
    BY DEF Returns, StepsKept
  <2> QED BY <1>0, <2>1, <2>2 DEF KernelInv, Executions, Applying
<1>6. Answers'
  <2> SUFFICES ASSUME NEW r \in Requests
               PROVE  /\ phase'[r] = "absent" => scope[r] = None
                      /\ answer[r] # None => phase'[r] \notin {"absent", "open"}
                      /\ \A s \in Steps : r \in step'[s].asks => scope[r] = s
                      /\ used[r] <= 1
                      /\ used[r] = 1 => /\ answer[r] # None
                                        /\ \A s \in Steps : r \notin step'[s].asks
    BY IdleTyped DEF Answers, Returns, StoreKept
  <2> QED BY DEF KernelInv, Answers, Returns, StoreKept, StepsKept
<1> QED BY <1>1, <1>3, <1>4, <1>5, <1>6 DEF KernelInv

-----------------------------------------------------------------------------
(* Calls that return                                                       *)

LEMMA OpTyped ==
    ASSUME TypeOK
    PROVE  op.by \in Requests \cup {None} /\ op.step \in Steps \cup {None}
BY TypeParts DEF OpRecord

LEMMA TransitionReturns ==
    ASSUME KernelInv, NEW s \in Steps, NEW by \in Requests \cup {None},
           status \in RunStatus \ {"absent"}, current \in Steps,
           AdvanceTransition(s, by), UNCHANGED <<scope, agent, execs, used>>
    PROVE  Returns
<1>0. TypeOK /\ Attempts /\ phase \in [Requests -> Phases] /\ step \in [Steps -> StepRecord] /\ pending \subseteq Requests
  BY TypeParts DEF KernelInv
<1>1. CASE FailTransition(s) /\ Return(by, FALSE)
  BY <1>0, <1>1, FailTransitionKeeps, ReturnKeeps DEF FailTransition, Returns, RunStatus, Ended
<1>2. CASE Complete /\ Return(by, TRUE)
  <2>1. op' = Idle /\ StoreKept
    BY <1>0, <1>2, ReturnKeeps
  <2> QED BY <1>0, <1>2, <2>1 DEF Complete, Returns, StepsKept, RunStatus, Ended
<1>3. ASSUME NEW next \in Route(s) \ {None}, GoTo(next), UNCHANGED status, Return(by, TRUE)
      PROVE  Returns
  <2>1. next \in Steps
    BY RouteTyped
  <2>2. op' = Idle /\ StoreKept
    BY <1>0, <1>3, ReturnKeeps
  <2>3. step' \in [Steps -> StepRecord] /\ StepsKept /\ current' = next
    BY <1>0, <1>3, <2>1, GoToKeeps
  <2>4. UNCHANGED pending
    BY <1>3 DEF GoTo
  <2> QED BY <1>0, <1>3, <2>1, <2>2, <2>3, <2>4 DEF Returns
<1> QED BY <1>1, <1>2, <1>3 DEF AdvanceTransition

\* The steps that are as they were.
LEMMA SameSteps ==
    ASSUME TypeOK, UNCHANGED step
    PROVE  step' \in [Steps -> StepRecord] /\ StepsKept
BY TypeParts DEF StepsKept

LEMMA PauseReturns ==
    ASSUME KernelInv, NEW s \in Steps, current \in Steps, Pause(s), UNCHANGED <<scope, agent, execs, used>>
    PROVE  Returns
<1>0. TypeOK /\ phase \in [Requests -> Phases] /\ step \in [Steps -> StepRecord] /\ pending \subseteq Requests
  BY TypeParts DEF KernelInv
<1>1. op' = Idle /\ StoreKept
  BY <1>0, OpTyped, ReturnKeeps DEF Pause
<1>2. step[s].asks \subseteq Requests
  BY <1>0 DEF StepRecord
<1> QED BY <1>0, <1>1, <1>2, SameSteps DEF Pause, Returns, RunStatus

LEMMA RetriedRecord ==
    ASSUME NEW x \in StepRecord
    PROVE  LET r == [[x EXCEPT !.status = "pending"] EXCEPT !.started = FALSE]
           IN /\ r \in StepRecord /\ r.status = "pending" /\ r.attempts = x.attempts
              /\ r.asks = x.asks /\ ~r.started
BY DEF StepRecord, StepStatus

LEMMA CanceledRecord ==
    ASSUME NEW x \in StepRecord
    PROVE  LET r == [[x EXCEPT !.status = "failed"] EXCEPT !.asks = {}]
           IN /\ r \in StepRecord /\ r.status = "failed" /\ r.attempts = x.attempts
              /\ r.asks = {} /\ r.started = x.started
BY DEF StepRecord, StepStatus

LEMMA CallReturns ==
    ASSUME KernelInv, ScheduleFirst \/ LeaveStep \/ PauseAgain \/ MarkWaitingHuman \/ RouteOn
                      \/ HandleStepFailure \/ MarkFailed \/ CancelRun
    PROVE  Returns /\ ~At("apply") /\ interrupts' = interrupts
<1>0. /\ TypeOK /\ AtCurrent /\ Attempts
      /\ phase \in [Requests -> Phases] /\ step \in [Steps -> StepRecord]
      /\ pending \subseteq Requests /\ current \in Steps \cup {None} /\ status \in RunStatus
      /\ First \in Steps
  BY TypeParts, FlowAssumption DEF KernelInv, FlowAssumption
<1>a. op # Idle => op.step = current /\ current \in Steps /\ status # "absent"
  BY <1>0 DEF AtCurrent
<1>b. ASSUME NEW stage, op.stage = stage, stage # "idle"
      PROVE  op # Idle
  BY <1>b, IdleTyped
<1>1. CASE ScheduleFirst
  <2>1. op # Idle /\ current = First /\ step[First].status = "absent"
    BY <1>0, <1>1, <1>a, <1>b DEF ScheduleFirst, At, AtCurrent
  <2>2. op' = Idle /\ StoreKept
    BY <1>0, <1>1, ReturnKeeps DEF ScheduleFirst
  <2> DEFINE r == StepState("pending", 0, FALSE, {}, None)
  <2>3. r \in StepRecord /\ r.status = "pending" /\ r.attempts = 0 /\ r.asks = {} /\ ~r.started
    BY DEF StepState, StepRecord, StepStatus
  <2>4. step' = [step EXCEPT ![First] = r]
    BY <1>1 DEF ScheduleFirst
  <2>5. step[First].attempts = 0 /\ 0 < Limit(First)
    BY <1>0, <2>1, LimitPositive DEF Attempts
  <2> HIDE DEF r
  <2>6. step' \in [Steps -> StepRecord] /\ StepsKept
    BY <1>0, <2>3, <2>4, <2>5, StepUpdate DEF StepsKept
  <2>7. status' = "running" /\ UNCHANGED <<current, pending, scope, agent, execs, used, interrupts>>
        /\ ~At("apply")
    BY <1>1 DEF ScheduleFirst, Same, asked, At
  <2> QED BY <1>0, <2>1, <2>2, <2>6, <2>7 DEF Returns, RunStatus
<1>2. CASE LeaveStep
  <2>1. /\ op = Idle /\ status \in {"pending", "running"} /\ current \in Steps
        /\ AdvanceTransition(current, None)
        /\ UNCHANGED <<scope, agent, execs, used, interrupts>>
    BY <1>0, <1>2 DEF LeaveStep, Advancing, Same, asked, AtCurrent
  <2> QED BY <2>1, IdleTyped, TransitionReturns DEF RunStatus, At
<1>3. CASE PauseAgain
  <2>1. /\ op = Idle /\ current \in Steps /\ Pause(current)
        /\ UNCHANGED <<scope, agent, execs, used, interrupts>>
    BY <1>0, <1>3 DEF PauseAgain, Advancing, Same, asked, AtCurrent
  <2> QED BY <2>1, IdleTyped, PauseReturns DEF At
<1>4. CASE MarkWaitingHuman
  <2>1. /\ op # Idle /\ ~At("apply") /\ Pause(op.step)
        /\ UNCHANGED <<scope, agent, execs, used, interrupts>>
    BY <1>4, <1>b DEF MarkWaitingHuman, At, Same, asked
  <2> QED BY <1>a, <2>1, PauseReturns
<1>5. CASE RouteOn
  <2>1. /\ op # Idle /\ ~At("apply") /\ AdvanceTransition(op.step, op.by)
        /\ UNCHANGED <<scope, agent, execs, used, interrupts>>
    BY <1>5, <1>b DEF RouteOn, At, Same, asked
  <2> QED BY <1>0, <1>a, <2>1, OpTyped, TransitionReturns
<1>6. CASE HandleStepFailure
  <2> DEFINE s == op.step
  <2>1. /\ op # Idle /\ ~At("apply") /\ Return(op.by, TRUE)
        /\ UNCHANGED <<scope, agent, execs, used, interrupts>>
    BY <1>6, <1>b DEF HandleStepFailure, At, Same, asked
  <2>2. op' = Idle /\ StoreKept
    BY <1>0, <2>1, OpTyped, ReturnKeeps
  <2>3. s = current /\ s \in Steps
    BY <1>a, <2>1
  <2>4. CASE Retry(s)
    <3> DEFINE r == [[step[s] EXCEPT !.status = "pending"] EXCEPT !.started = FALSE]
    <3>1. step' = [step EXCEPT ![s] = r]
      BY <2>4 DEF Retry
    <3>2. r \in StepRecord /\ r.status = "pending" /\ r.attempts = step[s].attempts
          /\ r.asks = step[s].asks /\ ~r.started
      BY <1>0, <2>3, RetriedRecord
    <3>3. step[s].attempts < Limit(s)
      <4>1. step[s].attempts \in Nat /\ step[s].attempts < Flow[s].maxAttempts
        BY <1>0, <2>3, <2>4 DEF Retry, MayRetry, StepRecord
      <4> QED BY <2>3, <4>1, LimitPositive DEF Limit
    <3>4. status' = "running" /\ UNCHANGED <<current, pending>>
      BY <2>4 DEF Retry
    <3> HIDE DEF r, s
    <3>5. step' \in [Steps -> StepRecord] /\ StepsKept
      BY <1>0, <2>3, <3>1, <3>2, <3>3, StepUpdate DEF StepsKept
    <3> QED BY <1>0, <2>1, <2>2, <2>3, <3>4, <3>5 DEF Returns, RunStatus
  <2>5. CASE RouteAfterFailure(s)
    <3>1. FailureRoute(s) \in Steps
      BY <2>3, <2>5, LimitPositive DEF RouteAfterFailure
    <3>2. step' \in [Steps -> StepRecord] /\ StepsKept /\ current' = FailureRoute(s)
      BY <1>0, <2>5, <3>1, GoToKeeps DEF RouteAfterFailure
    <3>3. status' = "running" /\ UNCHANGED pending
      BY <2>5 DEF RouteAfterFailure, GoTo
    <3> QED BY <1>0, <2>1, <2>2, <3>1, <3>2, <3>3 DEF Returns, RunStatus
  <2>6. CASE GiveUpRun(s)
    <3>1. status' = "failed" /\ UNCHANGED <<current, step, pending>>
      BY <2>6 DEF GiveUpRun
    <3> QED BY <1>0, <2>1, <2>2, <3>1, SameSteps DEF Returns, RunStatus, Ended
  <2> QED BY <1>6, <2>4, <2>5, <2>6 DEF HandleStepFailure
<1>7. CASE MarkFailed
  <2>1. /\ op # Idle /\ ~At("apply") /\ Return(op.by, TRUE) /\ status' = "failed"
        /\ UNCHANGED <<current, step, pending, scope, agent, execs, used, interrupts>>
    BY <1>7, <1>b DEF MarkFailed, At, Same, asked
  <2>2. op' = Idle /\ StoreKept
    BY <1>0, <2>1, OpTyped, ReturnKeeps
  <2> QED BY <1>0, <2>1, <2>2, SameSteps DEF Returns, RunStatus, Ended
<1>8. CASE CancelRun
  <2> DEFINE s == op.step
             r == [[step[s] EXCEPT !.status = "failed"] EXCEPT !.asks = {}]
  <2>1. /\ op # Idle /\ ~At("apply") /\ Return(op.by, TRUE) /\ status' = "canceled" /\ current' = None
        /\ pending' = pending \ step[s].asks
        /\ step' = [step EXCEPT ![s] = r]
        /\ UNCHANGED <<scope, agent, execs, used, interrupts>>
    BY <1>8, <1>b DEF CancelRun, At, Same, asked
  <2>2. op' = Idle /\ StoreKept
    BY <1>0, <2>1, OpTyped, ReturnKeeps
  <2>3. s \in Steps
    BY <1>a, <2>1
  <2>4. r \in StepRecord /\ r.status = "failed" /\ r.attempts = step[s].attempts
        /\ r.asks = {} /\ r.started = step[s].started
    BY <1>0, <2>3, CanceledRecord
  <2> HIDE DEF r, s
  <2>5. step' \in [Steps -> StepRecord] /\ StepsKept
    BY <1>0, <2>1, <2>3, <2>4, StepUpdate DEF StepsKept
  <2> QED BY <1>0, <2>1, <2>2, <2>5 DEF Returns, RunStatus, Ended
<1> QED BY <1>1, <1>2, <1>3, <1>4, <1>5, <1>6, <1>7, <1>8

\* A call that is cut off leaves the run as it is.
LEMMA InterruptKeeps == KernelInv /\ Interrupt => KernelInv'
<1> SUFFICES ASSUME KernelInv, Interrupt PROVE KernelInv'
  OBVIOUS
<1>0. TypeOK /\ AtCurrent /\ phase \in [Requests -> Phases] /\ status \in RunStatus
      /\ current \in Steps \cup {None} /\ pending \subseteq Requests
  BY TypeParts DEF KernelInv
<1>1. op' = Idle /\ StoreKept
  BY <1>0, OpTyped, ReturnKeeps DEF Interrupt
<1>2. UNCHANGED <<status, current, step, pending, scope, agent, execs, used>> /\ op # Idle
  BY DEF Interrupt, run, asked
<1>3. interrupts' = interrupts + 1 /\ interrupts' \in 0..MaxInterrupts
  BY <1>0, FlowAssumption, TypeParts DEF Interrupt, FlowAssumption
<1>4. Returns
  BY <1>0, <1>1, <1>2, SameSteps DEF Returns, AtCurrent
<1> QED BY <1>3, <1>4, ReturnsKeepsInv

-----------------------------------------------------------------------------
(* Calls that go on, and the store                                         *)

LEMMA StoreMovesKeep ==
    ASSUME KernelInv, UNCHANGED <<run, op, scope, execs, used, interrupts>>,
           agent' \in [Requests -> {"none", "waiting_human", "completed", "failed"}],
           phase' \in [Requests -> Phases], answer' \in [Requests -> Sayings \cup {None}],
           \A r \in Requests : /\ phase'[r] = "absent" => phase[r] = "absent"
                               /\ answer'[r] # None => phase'[r] \notin {"absent", "open"}
                               /\ answer[r] # None => answer'[r] # None
    PROVE  KernelInv'
<1>1. UNCHANGED <<status, current, step, pending>>
  BY DEF run
<1>2. TypeOK'
  BY <1>1 DEF KernelInv, TypeOK
<1>3. AtCurrent' /\ Attempts' /\ Executions'
  BY <1>1 DEF KernelInv, AtCurrent, Attempts, Limit, Executions, Applying, At
<1>4. Answers'
  BY <1>1 DEF KernelInv, Answers
<1> QED BY <1>2, <1>3, <1>4 DEF KernelInv

\* A request that moves on, and not back.
LEMMA OnwardKeeps ==
    ASSUME KernelInv, UNCHANGED <<run, op, scope, execs, used, interrupts, answer>>,
           agent' \in [Requests -> {"none", "waiting_human", "completed", "failed"}],
           NEW r \in Requests, NEW from \in SUBSET (Phases \ {"absent", "open"}),
           NEW to \in Phases \ {"absent", "open"}, Move(r, from, to)
    PROVE  KernelInv'
<1>1. phase \in [Requests -> Phases] /\ answer \in [Requests -> Sayings \cup {None}]
  BY TypeParts DEF KernelInv
<1>2. /\ phase' \in [Requests -> Phases] /\ phase[r] \in from
      /\ \A q \in Requests : phase'[q] = (IF q = r THEN to ELSE phase[q])
  BY <1>1, MoveTyped
<1>3. \A q \in Requests : /\ phase'[q] = "absent" => phase[q] = "absent"
                          /\ answer'[q] # None => phase'[q] \notin {"absent", "open"}
                          /\ answer[q] # None => answer'[q] # None
  BY <1>2 DEF KernelInv, Answers
<1> QED BY <1>1, <1>2, <1>3, StoreMovesKeep

LEMMA RespondKeeps ==
    ASSUME KernelInv, NEW r \in Requests, Respond(r)
    PROVE  KernelInv'
<1>0. /\ phase \in [Requests -> Phases] /\ answer \in [Requests -> Sayings \cup {None}]
      /\ agent \in [Requests -> {"none", "waiting_human", "completed", "failed"}]
  BY TypeParts DEF KernelInv
<1>1. ASSUME NEW a \in Sayings, Answer(r, a)
      PROVE  KernelInv'
  <2>1. /\ Move(r, {"open"}, "answered") /\ answer' = [answer EXCEPT ![r] = a]
        /\ UNCHANGED <<run, op, scope, execs, used, interrupts, agent>>
    BY <1>1 DEF Answer, Accept, Frame
  <2>2. /\ phase' \in [Requests -> Phases]
        /\ \A q \in Requests : phase'[q] = (IF q = r THEN "answered" ELSE phase[q])
    BY <1>0, <2>1, MoveTyped DEF Phases
  <2>3. a # None
    BY FlowAssumption DEF FlowAssumption
  <2>4. \A q \in Requests : answer'[q] = (IF q = r THEN a ELSE answer[q])
    BY <1>0, <2>1
  <2>5. \A q \in Requests : /\ phase'[q] = "absent" => phase[q] = "absent"
                            /\ answer'[q] # None => phase'[q] \notin {"absent", "open"}
                            /\ answer[q] # None => answer'[q] # None
    BY <2>2, <2>3, <2>4 DEF KernelInv, Answers
  <2>6. answer' \in [Requests -> Sayings \cup {None}]
    BY <1>0, <2>1
  <2> QED BY <1>0, <2>1, <2>2, <2>5, <2>6, StoreMovesKeep
<1>2. CASE Dispatch(r)
  <2>1. /\ Move(r, {"answered", "retry"}, "resuming")
        /\ UNCHANGED <<run, op, scope, execs, used, interrupts, agent, answer>>
    BY <1>2 DEF Dispatch, Claim, Frame
  <2> QED BY <1>0, <2>1, OnwardKeeps DEF Phases
<1>3. CASE AgentResumes(r)
  <2>1. /\ Move(r, {"resuming"}, "done")
        /\ UNCHANGED <<run, op, scope, execs, used, interrupts, answer>>
    BY <1>3 DEF AgentResumes, Finish, Frame
  <2>2. PICK st \in {"completed", "failed"} : agent' = [agent EXCEPT ![r] = st]
    BY <1>3 DEF AgentResumes
  <2>3. agent' \in [Requests -> {"none", "waiting_human", "completed", "failed"}]
    BY <1>0, <2>2
  <2> QED BY <2>1, <2>3, OnwardKeeps DEF Phases
<1>4. CASE DispatchReturns(r)
  <2>1. PICK to \in {"done", "retry"} :
            /\ Move(r, {"resuming"}, to)
            /\ UNCHANGED <<run, op, scope, execs, used, interrupts, agent, answer>>
    BY <1>4 DEF DispatchReturns, Finish, GiveUp, Frame
  <2> QED BY <1>0, <2>1, OnwardKeeps DEF Phases
<1> QED BY <1>1, <1>2, <1>3, <1>4 DEF Respond

LEMMA StartKeeps == KernelInv /\ StartRun => KernelInv'
<1> SUFFICES ASSUME KernelInv, StartRun PROVE KernelInv'
  OBVIOUS
<1>1. /\ status = "absent" /\ status' = "pending" /\ current' = First
      /\ op' = Op("start", First, None, NoResult) /\ First \in Steps
      /\ UNCHANGED <<step, pending, phase, answer, scope, agent, execs, used, interrupts>>
  BY FlowAssumption DEF StartRun, Same, asked, store, FlowAssumption
<1>2. /\ op' \in OpRecord /\ op'.stage = "start" /\ op'.step = First /\ op'.result.asks = {}
      /\ op # Idle => FALSE
  BY <1>1, IdleTyped DEF Op, OpRecord, NoResult, Result, StartRun
<1>3. TypeOK'
  BY <1>1, <1>2, TypeParts DEF KernelInv, TypeOK, RunStatus, OpRecord, ResultRecord
<1>4. AtCurrent'
  BY <1>1, <1>2 DEF KernelInv, AtCurrent, At
<1>5. Attempts'
  BY <1>1 DEF KernelInv, Attempts, Limit
<1>6. Executions'
  BY <1>1, <1>2, IdleTyped DEF KernelInv, Executions, Applying, At
<1>7. Answers'
  BY <1>1, <1>2 DEF KernelInv, Answers
<1> QED BY <1>3, <1>4, <1>5, <1>6, <1>7 DEF KernelInv

LEMMA BegunRecord ==
    ASSUME NEW x \in StepRecord
    PROVE  LET r == [[[x EXCEPT !.status = "running"] EXCEPT !.started = TRUE]
                        EXCEPT !.attempts = IF x.started THEN @ ELSE @ + 1]
           IN /\ r \in StepRecord /\ r.status = "running" /\ r.started /\ r.asks = x.asks
              /\ r.attempts = (IF x.started THEN x.attempts ELSE x.attempts + 1)
<1> DEFINE y == [[x EXCEPT !.status = "running"] EXCEPT !.started = TRUE]
<1>1. y \in StepRecord /\ y.status = "running" /\ y.started /\ y.asks = x.asks /\ y.attempts = x.attempts
  BY DEF StepRecord, StepStatus
<1>2. x.attempts \in Nat
  BY DEF StepRecord
<1> HIDE DEF y
<1>3. ASSUME NEW n \in Nat
      PROVE  LET z == [y EXCEPT !.attempts = n]
             IN z \in StepRecord /\ z.status = y.status /\ z.started = y.started /\ z.asks = y.asks /\ z.attempts = n
  BY <1>1 DEF StepRecord
<1>4. CASE x.started
  BY <1>1, <1>2, <1>3, <1>4 DEF y
<1>5. CASE ~x.started
  <2>1. x.attempts + 1 \in Nat
    BY <1>2
  <2>2. LET z == [y EXCEPT !.attempts = x.attempts + 1]
        IN /\ z \in StepRecord /\ z.status = y.status /\ z.started = y.started /\ z.asks = y.asks
           /\ z.attempts = x.attempts + 1
    BY <2>1, <1>3
  <2> QED BY <1>1, <2>2, <1>5 DEF y
<1> QED BY <1>4, <1>5

LEMMA BeginKeeps == KernelInv /\ BeginStep => KernelInv'
<1> SUFFICES ASSUME KernelInv, BeginStep PROVE KernelInv'
  OBVIOUS
<1> DEFINE s == current
           x == step[s]
           r == [[[x EXCEPT !.status = "running"] EXCEPT !.started = TRUE]
                    EXCEPT !.attempts = IF x.started THEN @ ELSE @ + 1]
<1>0. /\ step \in [Steps -> StepRecord] /\ s \in Steps /\ op = Idle
      /\ execs \in [Steps -> Nat] /\ interrupts \in Nat
      /\ status # "absent"
  BY TypeParts, FlowAssumption DEF KernelInv, BeginStep, Advancing, AtCurrent, FlowAssumption
<1>1. /\ step' = [step EXCEPT ![s].status = "running", ![s].started = TRUE,
                              ![s].attempts = IF step[s].started THEN @ ELSE @ + 1]
      /\ x.status \in {"absent", "pending", "running"}
      /\ op' = Op("execute", s, None, NoResult)
      /\ UNCHANGED <<status, current, pending, phase, answer, scope, agent, execs, used, interrupts>>
  BY DEF BeginStep, Same, asked, store
<1>2. x \in StepRecord
  BY <1>0
<1>3. \E y \in StepRecord :
          /\ step' = [step EXCEPT ![s] = y]
          /\ y.status = "running" /\ y.started /\ y.asks = x.asks
          /\ y.attempts = (IF x.started THEN x.attempts ELSE x.attempts + 1)
  <2>1. r \in StepRecord /\ r.status = "running" /\ r.started /\ r.asks = x.asks
        /\ r.attempts = (IF x.started THEN x.attempts ELSE x.attempts + 1)
    BY <1>2, BegunRecord
  <2>2. step' = [step EXCEPT ![s] = r]
    BY <1>1
  <2> QED BY <2>1, <2>2
<1>4. PICK y \in StepRecord :
          /\ step' = [step EXCEPT ![s] = y]
          /\ y.status = "running" /\ y.started /\ y.asks = x.asks
          /\ y.attempts = (IF x.started THEN x.attempts ELSE x.attempts + 1)
  BY <1>3
<1>5. step' \in [Steps -> StepRecord] /\ \A t \in Steps : step'[t] = (IF t = s THEN y ELSE step[t])
  BY <1>0, <1>4, StepUpdate
<1>6. /\ op' \in OpRecord /\ op'.stage = "execute" /\ op'.step = s /\ op'.result.asks = {}
  BY <1>0, <1>1 DEF Op, OpRecord, NoResult, Result, ResultRecord, StepStatus
<1> HIDE DEF r
<1>7. TypeOK'
  BY <1>1, <1>5, <1>6, TypeParts DEF KernelInv, TypeOK, StepRecord, OpRecord, ResultRecord
<1>8. AtCurrent'
  BY <1>0, <1>1, <1>4, <1>5, <1>6 DEF KernelInv, AtCurrent, At
<1>9. x.attempts \in Nat /\ execs[s] \in Nat /\ x.started \in BOOLEAN /\ Limit(s) \in Nat \ {0}
  BY <1>0, <1>2, LimitPositive DEF StepRecord
<1>10. Attempts'
  <2>1. y.attempts <= Limit(s)
    BY <1>0, <1>1, <1>4, <1>9 DEF KernelInv, Attempts
  <2> QED BY <1>1, <1>4, <1>5, <2>1 DEF KernelInv, Attempts, Limit
<1>11. Executions'
  <2>1. ~At("apply") /\ ~At("apply")'
    BY <1>0, <1>6, IdleTyped DEF At
  <2>2. execs[s] + 1 <= y.attempts + interrupts
    BY <1>0, <1>1, <1>4, <1>9, <2>1 DEF KernelInv, Attempts, Executions, Applying
  <2>3. y.attempts \in Nat
    BY <1>4 DEF StepRecord
  <2> QED BY <1>0, <1>1, <1>4, <1>5, <1>9, <2>1, <2>2, <2>3 DEF KernelInv, Executions, Applying
<1>12. Answers'
  BY <1>1, <1>4, <1>5, <1>6 DEF KernelInv, Answers
<1> QED BY <1>7, <1>8, <1>10, <1>11, <1>12 DEF KernelInv

\* What an execution may do to the requests: new ones get a step, the step
\* itself asks for requests of its own that nobody has used.
AsksOf(result) ==
    /\ phase' \in [Requests -> Phases] /\ UNCHANGED answer
    /\ scope' \in [Requests -> Steps \cup {None}]
    /\ agent' \in [Requests -> {"none", "waiting_human", "completed", "failed"}]
    /\ \A r \in Requests :
          /\ phase'[r] = "absent" => phase[r] = "absent" /\ scope'[r] = scope[r]
          /\ scope'[r] # scope[r] => phase[r] = "absent"
          /\ phase[r] \notin {"absent", "open"} => phase'[r] \notin {"absent", "open"}
          /\ r \in result.asks => scope'[r] = op.step /\ used[r] # 1

LEMMA ExecutedKeeps ==
    ASSUME KernelInv, NEW result \in ResultRecord, result.status \in {"completed", "failed", "waiting_human"},
           Executed(result), AsksOf(result)
    PROVE  KernelInv'
<1>0. /\ step \in [Steps -> StepRecord] /\ execs \in [Steps -> Nat] /\ interrupts \in Nat
      /\ op \in OpRecord
  BY TypeParts, FlowAssumption DEF KernelInv, FlowAssumption
<1>1. /\ op.stage = "execute" /\ UNCHANGED <<status, current, step, pending, interrupts, used>>
      /\ execs' = [execs EXCEPT ![op.step] = @ + 1]
      /\ op' = [op EXCEPT !.stage = "apply", !.result = result]
  BY DEF Executed, At, run
<1>2. /\ op' \in OpRecord /\ op'.stage = "apply" /\ op'.step = op.step /\ op'.result = result
  BY <1>0, <1>1 DEF OpRecord
<1>3. op # Idle
  BY <1>1, IdleTyped
<1>4. op.step = current /\ current \in Steps /\ step[op.step].status = "running" /\ status # "absent"
  BY <1>1, <1>3 DEF KernelInv, AtCurrent, At
<1>5. /\ execs' \in [Steps -> Nat] /\ \A s \in Steps : execs'[s] = (IF s = op.step THEN execs[s] + 1 ELSE execs[s])
  BY <1>0, <1>1, <1>4
<1>6. TypeOK'
  BY <1>1, <1>2, <1>5, TypeParts DEF KernelInv, TypeOK, AsksOf, StepRecord, OpRecord, ResultRecord
<1>7. AtCurrent'
  BY <1>1, <1>2, <1>4 DEF KernelInv, AtCurrent, At
<1>8. Attempts'
  <2>1. \A s \in Steps : step[s].status = "absent" => execs'[s] = execs[s]
    BY <1>4, <1>5
  <2> QED BY <1>1, <2>1 DEF KernelInv, Attempts, Limit
<1>9. Executions'
  <2> SUFFICES ASSUME NEW s \in Steps
               PROVE  /\ execs'[s] <= step[s].attempts + interrupts
                      /\ step[s].status = "running" /\ s # op.step => execs'[s] + 1 <= step[s].attempts + interrupts
    BY <1>1, <1>2 DEF Executions, Applying, At
  <2>1. step[s].attempts \in Nat /\ execs[s] \in Nat
    BY <1>0 DEF StepRecord
  <2> QED BY <1>0, <1>1, <1>4, <1>5, <2>1 DEF KernelInv, Executions, Applying, At
<1>10. Answers'
  <2> SUFFICES ASSUME NEW r \in Requests
               PROVE  /\ phase'[r] = "absent" => scope'[r] = None
                      /\ answer[r] # None => phase'[r] \notin {"absent", "open"}
                      /\ \A s \in Steps : r \in step[s].asks => scope'[r] = s
                      /\ r \in result.asks => scope'[r] = op.step
                      /\ used[r] <= 1
                      /\ used[r] = 1 => /\ answer[r] # None
                                        /\ r \notin result.asks
                                        /\ \A s \in Steps : r \notin step[s].asks
    BY <1>1, <1>2 DEF Answers, AsksOf
  <2>1. ASSUME NEW s \in Steps, r \in step[s].asks
        PROVE  scope'[r] = s
    <3>1. scope[r] = s /\ s # None
      BY <2>1, FlowAssumption DEF KernelInv, Answers, FlowAssumption
    <3> QED BY <3>1 DEF KernelInv, Answers, AsksOf
  <2> QED BY <2>1 DEF KernelInv, Answers, AsksOf
<1> QED BY <1>6, <1>7, <1>8, <1>9, <1>10 DEF KernelInv

\* Asking for a new request.
LEMMA AskAsks ==
    ASSUME KernelInv, NEW q \in Requests, Ask(q), op.step \in Steps, scope' = [scope EXCEPT ![q] = op.step],
           agent' \in [Requests -> {"none", "waiting_human", "completed", "failed"}],
           NEW result, result.asks = {q}
    PROVE  AsksOf(result)
<1>0. /\ phase \in [Requests -> Phases] /\ scope \in [Requests -> Steps \cup {None}]
      /\ Move(q, {"absent"}, "open") /\ UNCHANGED answer
  BY TypeParts DEF KernelInv, Ask
<1>1. /\ phase' \in [Requests -> Phases] /\ phase[q] = "absent"
      /\ \A r \in Requests : phase'[r] = (IF r = q THEN "open" ELSE phase[r])
  BY <1>0, MoveTyped DEF Phases
<1>2. /\ scope' \in [Requests -> Steps \cup {None}]
      /\ \A r \in Requests : scope'[r] = (IF r = q THEN op.step ELSE scope[r])
  BY <1>0
<1>3. used[q] # 1
  BY <1>1 DEF KernelInv, Answers
<1> QED BY <1>0, <1>1, <1>2, <1>3 DEF AsksOf

LEMMA ExecuteKeeps == KernelInv /\ Execute => KernelInv'
<1> SUFFICES ASSUME KernelInv, Execute PROVE KernelInv'
  OBVIOUS
<1>0. /\ phase \in [Requests -> Phases] /\ scope \in [Requests -> Steps \cup {None}]
      /\ agent \in [Requests -> {"none", "waiting_human", "completed", "failed"}]
      /\ op.stage = "execute"
  BY TypeParts DEF KernelInv, Execute, Decide, AgentCompletes, ExecutionFails, AgentAsks, AskApproval, At
<1>1. op.step \in Steps
  BY <1>0, IdleTyped DEF KernelInv, AtCurrent
<1>2. ASSUME NEW st \in {"completed", "failed"}, NEW v \in AgentOutputs \cup {None},
             Executed(Result(st, {}, v)), UNCHANGED <<store, asked>>
      PROVE  KernelInv'
  <2>1. Result(st, {}, v) \in ResultRecord /\ Result(st, {}, v).asks = {} /\ Result(st, {}, v).status = st
    BY DEF Result, ResultRecord, StepStatus
  <2>2. AsksOf(Result(st, {}, v))
    BY <1>0, <1>2, <2>1 DEF store, asked, AsksOf
  <2> QED BY <1>2, <2>1, <2>2, ExecutedKeeps
<1>3. ASSUME NEW q \in Requests, Executed(Result("waiting_human", {q}, None)),
             AsksOf(Result("waiting_human", {q}, None))
      PROVE  KernelInv'
  <2>1. Result("waiting_human", {q}, None) \in ResultRecord
        /\ Result("waiting_human", {q}, None).status = "waiting_human"
    BY DEF Result, ResultRecord, StepStatus
  <2> QED BY <1>3, <2>1, ExecutedKeeps
<1>4. \A q \in Requests : Result("waiting_human", {q}, None).asks = {q}
  BY DEF Result
<1>5. CASE Decide
  BY <1>2, <1>5 DEF Decide
<1>6. CASE AgentCompletes
  BY <1>2, <1>6 DEF AgentCompletes
<1>7. CASE ExecutionFails
  BY <1>2, <1>7 DEF ExecutionFails
<1>8. ASSUME NEW q \in Requests, AgentAsks(q)
      PROVE  KernelInv'
  <2>1. agent' \in [Requests -> {"none", "waiting_human", "completed", "failed"}]
    BY <1>0, <1>8 DEF AgentAsks
  <2>2. AsksOf(Result("waiting_human", {q}, None))
    BY <1>1, <1>4, <1>8, <2>1, AskAsks DEF AgentAsks
  <2> QED BY <1>3, <1>8, <2>2 DEF AgentAsks
<1>9. ASSUME NEW q \in Requests, AskApproval(q)
      PROVE  KernelInv'
  <2>1. CASE OpenFor(op.step) # {}
    <3>1. q \in OpenFor(op.step) /\ UNCHANGED <<store, scope, agent>>
      BY <1>9, <2>1 DEF AskApproval
    <3>2. scope[q] = op.step /\ phase[q] = "open"
      BY <3>1 DEF OpenFor
    <3>3. used[q] # 1
      BY <3>2 DEF KernelInv, Answers
    <3>4. AsksOf(Result("waiting_human", {q}, None))
      BY <1>0, <1>4, <3>1, <3>2, <3>3 DEF store, AsksOf
    <3> QED BY <1>3, <1>9, <3>4 DEF AskApproval
  <2>2. CASE OpenFor(op.step) = {}
    <3>1. Ask(q) /\ scope' = [scope EXCEPT ![q] = op.step] /\ UNCHANGED agent
      BY <1>9, <2>2 DEF AskApproval
    <3>2. AsksOf(Result("waiting_human", {q}, None))
      BY <1>0, <1>1, <1>4, <3>1, AskAsks
    <3> QED BY <1>3, <1>9, <3>2 DEF AskApproval
  <2> QED BY <2>1, <2>2
<1> QED BY <1>5, <1>6, <1>7, <1>8, <1>9 DEF Execute

LEMMA ApplyKeeps == KernelInv /\ ApplyResult => KernelInv'
<1> SUFFICES ASSUME KernelInv, ApplyResult PROVE KernelInv'
  OBVIOUS
<1> DEFINE s == op.step
           x == step[s]
           res == op.result
           a == IF Executor(s) = "agent" \/ res.asks # {} THEN res.asks ELSE x.asks
           o == IF res.status = "completed" THEN res.output ELSE x.output
           r == [[[x EXCEPT !.status = res.status] EXCEPT !.asks = a] EXCEPT !.output = o]
<1>0. /\ step \in [Steps -> StepRecord] /\ op \in OpRecord /\ res \in ResultRecord /\ op.stage = "apply"
      /\ execs \in [Steps -> Nat] /\ interrupts \in Nat
  BY TypeParts, FlowAssumption DEF KernelInv, ApplyResult, At, OpRecord, FlowAssumption
<1>1. /\ op # Idle /\ s = current /\ s \in Steps /\ status # "absent"
      /\ res.status \in {"completed", "failed", "waiting_human"}
  BY <1>0, IdleTyped DEF KernelInv, AtCurrent, At
<1>2. /\ step' = Applied(s, res)
      /\ UNCHANGED <<status, current, pending, phase, answer, scope, agent, execs, used, interrupts>>
  BY DEF ApplyResult, Same, asked, store
<1>3. \E stage \in {"pause", "failure", "route"} : op' = [op EXCEPT !.stage = stage, !.result = NoResult]
  BY <1>1 DEF ApplyResult
<1>4. op' \in OpRecord /\ op'.stage \in {"pause", "failure", "route"} /\ op'.step = s /\ op'.result.asks = {}
  BY <1>0, <1>3, IdleTyped DEF OpRecord, Idle, Op
<1>5. \E y \in StepRecord :
          /\ step' = [step EXCEPT ![s] = y]
          /\ y.status = res.status /\ y.started = x.started
          /\ y.attempts = x.attempts /\ y.asks \subseteq x.asks \cup res.asks
  <2>1. /\ r \in StepRecord /\ r.status = res.status /\ r.started = x.started
        /\ r.attempts = x.attempts /\ r.asks \subseteq x.asks \cup res.asks
    <3>1. /\ x \in StepRecord /\ a \in SUBSET Requests /\ a \subseteq x.asks \cup res.asks
          /\ o \in Sayings \cup AgentOutputs \cup {None}
      BY <1>0, <1>1 DEF StepRecord, ResultRecord
    <3> HIDE DEF x, a, o
    <3> QED BY <1>0, <3>1 DEF StepRecord, ResultRecord
  <2>2. step' = [step EXCEPT ![s] = r]
    BY <1>0, <1>1, <1>2 DEF Applied, StepRecord
  <2> HIDE DEF r
  <2> QED BY <2>1, <2>2
<1> HIDE DEF r
<1>6. PICK y \in StepRecord :
          /\ step' = [step EXCEPT ![s] = y]
          /\ y.status = res.status /\ y.started = x.started
          /\ y.attempts = x.attempts /\ y.asks \subseteq x.asks \cup res.asks
  BY <1>5
<1>7. step' \in [Steps -> StepRecord] /\ \A t \in Steps : step'[t] = (IF t = s THEN y ELSE step[t])
  BY <1>0, <1>1, <1>6, StepUpdate
<1>8. TypeOK'
  BY <1>2, <1>4, <1>7, TypeParts DEF KernelInv, TypeOK, StepRecord, OpRecord, ResultRecord
<1>9. AtCurrent'
  BY <1>1, <1>2, <1>4 DEF KernelInv, AtCurrent, At
<1>10. Attempts'
  BY <1>1, <1>2, <1>6, <1>7 DEF KernelInv, Attempts, Limit
<1>11. Executions'
  BY <1>0, <1>1, <1>2, <1>4, <1>6, <1>7 DEF KernelInv, Executions, Applying, At
<1>12. Answers'
  <2> SUFFICES ASSUME NEW q \in Requests
               PROVE  /\ \A t \in Steps : q \in step'[t].asks => scope[q] = t
                      /\ used[q] = 1 => \A t \in Steps : q \notin step'[t].asks
    BY <1>2, <1>4 DEF KernelInv, Answers
  <2>1. \A t \in Steps : q \in step'[t].asks => q \in step[t].asks \/ (t = s /\ q \in res.asks)
    BY <1>1, <1>6, <1>7
  <2> QED BY <2>1 DEF KernelInv, Answers
<1> QED BY <1>8, <1>9, <1>10, <1>11, <1>12 DEF KernelInv

-----------------------------------------------------------------------------
(* Resume                                                                  *)

LEMMA EndStepKeeps ==
    ASSUME KernelInv, op = Idle, NEW r \in Requests, Linked(r), NEW by \in Requests \cup {None},
           NEW stage \in {"route", "cancel", "fail"}, NEW st \in {"completed", "failed"},
           NEW output \in Sayings \cup AgentOutputs \cup {None},
           EndStep(st, output), Resume(r, stage, by)
    PROVE  KernelInv'
<1> DEFINE s == current
           x == step[s]
           z == [[[x EXCEPT !.status = st] EXCEPT !.asks = {}] EXCEPT !.output = output]
<1>0. /\ step \in [Steps -> StepRecord] /\ execs \in [Steps -> Nat] /\ interrupts \in Nat
      /\ used \in [Requests -> Nat] /\ pending \subseteq Requests
  BY TypeParts, FlowAssumption DEF KernelInv, FlowAssumption
<1>1. s \in Steps /\ r \in x.asks /\ answer[r] # None /\ status = "waiting_human"
  BY DEF KernelInv, AtCurrent, Linked
<1>2. /\ UNCHANGED <<current, phase, answer, scope, agent, execs, interrupts>>
      /\ status' = "running" /\ pending' \subseteq Requests
      /\ used' = [used EXCEPT ![r] = @ + 1]
      /\ op' = Op(stage, s, by, NoResult)
  BY <1>0 DEF EndStep, Resume, store, asked
<1>3. op' \in OpRecord /\ op'.stage = stage /\ op'.step = s /\ op'.result.asks = {}
  BY <1>1, <1>2 DEF Op, OpRecord, NoResult, Result, ResultRecord, StepStatus
<1>4. z \in StepRecord /\ z.status = st /\ z.started = x.started /\ z.attempts = x.attempts /\ z.asks = {}
  <2>1. x \in StepRecord /\ st \in StepStatus
    BY <1>0, <1>1 DEF StepStatus
  <2> HIDE DEF x
  <2> QED BY <2>1 DEF StepRecord
<1>5. step' = [step EXCEPT ![s] = z]
  BY DEF EndStep
<1> HIDE DEF z
<1>6. step' \in [Steps -> StepRecord] /\ \A t \in Steps : step'[t] = (IF t = s THEN z ELSE step[t])
  BY <1>0, <1>1, <1>4, <1>5, StepUpdate
<1>7. used' \in [Requests -> Nat] /\ \A q \in Requests : used'[q] = (IF q = r THEN used[q] + 1 ELSE used[q])
  BY <1>0, <1>2
<1>8. TypeOK'
  BY <1>2, <1>3, <1>6, <1>7, TypeParts DEF KernelInv, TypeOK, RunStatus, StepRecord, OpRecord, ResultRecord
<1>9. AtCurrent'
  BY <1>1, <1>2, <1>3 DEF KernelInv, AtCurrent, At
<1>10. Attempts'
  BY <1>1, <1>2, <1>4, <1>6 DEF KernelInv, Attempts, Limit
<1>11. Executions'
  <2>1. ~At("apply")
    BY IdleTyped DEF At
  <2> QED BY <1>0, <1>1, <1>2, <1>3, <1>4, <1>6, <2>1 DEF KernelInv, Executions, Applying, At
<1>12. Answers'
  <2> SUFFICES ASSUME NEW q \in Requests
               PROVE  /\ \A t \in Steps : q \in step'[t].asks => scope[q] = t
                      /\ used'[q] <= 1
                      /\ used'[q] = 1 => answer[q] # None /\ \A t \in Steps : q \notin step'[t].asks
    BY <1>2, <1>3 DEF KernelInv, Answers
  <2>1. \A t \in Steps : q \in step'[t].asks => q \in step[t].asks /\ t # s
    BY <1>4, <1>6
  <2>2. CASE q = r
    <3>1. used[r] \in Nat /\ used[r] <= 1 /\ used[r] # 1
      BY <1>0, <1>1 DEF KernelInv, Answers
    <3>2. used'[r] = 1
      BY <1>7, <3>1
    <3>3. scope[r] = s
      BY <1>1 DEF KernelInv, Answers
    <3> QED BY <1>1, <2>1, <2>2, <3>2, <3>3 DEF KernelInv, Answers
  <2>3. CASE q # r
    BY <1>7, <2>1, <2>3 DEF KernelInv, Answers
  <2> QED BY <2>2, <2>3
<1> QED BY <1>8, <1>9, <1>10, <1>11, <1>12 DEF KernelInv

LEMMA ResumeKeeps ==
    ASSUME KernelInv, NEW r \in Requests, ResumeFlow(r)
    PROVE  KernelInv'
<1>0. /\ answer \in [Requests -> Sayings \cup {None}] /\ step \in [Steps -> StepRecord]
      /\ status = "waiting_human" => current \in Steps
  BY TypeParts DEF KernelInv, AtCurrent
<1>1. ASSUME NEW by \in Callers(r), ResumeExplicitApproval(r, by)
      PROVE  KernelInv'
  <2>1. by \in Requests \cup {None} /\ op = Idle /\ Linked(r)
    BY <1>1 DEF Callers, ResumeExplicitApproval
  <2>2. Signal(current, answer[r]) \in Sayings
    BY <1>0, <2>1, SignalTyped DEF Linked
  <2>3. PICK stage \in {"route", "cancel"} :
            /\ EndStep("completed", Signal(current, answer[r]))
            /\ Resume(r, stage, by)
    BY <1>1 DEF ResumeExplicitApproval
  <2> QED BY <2>1, <2>2, <2>3, EndStepKeeps
<1>2. CASE ResumeAgentGenerated(r)
  <2>1. PICK stage \in {"route", "fail"} :
            /\ op = Idle /\ Linked(r) /\ AgentEnd(r) \in {"completed", "failed"}
            /\ EndStep(AgentEnd(r), step[current].output)
            /\ Resume(r, stage, None)
    BY <1>2 DEF ResumeAgentGenerated
  <2>2. step[current].output \in Sayings \cup AgentOutputs \cup {None}
    BY <1>0, <2>1 DEF Linked, StepRecord
  <2> QED BY <2>1, <2>2, EndStepKeeps
<1> QED BY <1>1, <1>2 DEF ResumeFlow

-----------------------------------------------------------------------------
(* The theorem                                                             *)

LEMMA KernelInit == Init => KernelInv
<1> SUFFICES ASSUME Init PROVE KernelInv
  OBVIOUS
<1>1. NoStep \in StepRecord /\ NoStep.status = "absent" /\ NoStep.attempts = 0 /\ ~NoStep.started /\ NoStep.asks = {}
  BY DEF NoStep, StepState, StepRecord, StepStatus
<1>2. TypeOK
  BY <1>1, IdleTyped, TypeParts, FlowAssumption DEF Init, LInit, FlowAssumption, RunStatus, Phases
<1>3. \A s \in Steps : step[s] = NoStep /\ execs[s] = 0
  BY DEF Init
<1>4. AtCurrent
  BY <1>1, <1>3, IdleTyped DEF Init, AtCurrent, At
<1>5. Attempts /\ Executions
  BY <1>1, <1>3, LimitPositive DEF Init, Attempts, Executions
<1>6. Answers
  <2>1. \A r \in Requests : scope[r] = None /\ answer[r] = None /\ used[r] = 0 /\ r \notin op.result.asks
    BY IdleTyped DEF Init, LInit
  <2>2. \A s \in Steps : step[s].asks = {}
    BY <1>1, <1>3
  <2> SUFFICES ASSUME NEW r \in Requests
               PROVE  /\ phase[r] = "absent" => scope[r] = None
                      /\ answer[r] # None => phase[r] \notin {"absent", "open"}
                      /\ \A s \in Steps : r \in step[s].asks => scope[r] = s
                      /\ r \in op.result.asks => scope[r] = op.step
                      /\ used[r] <= 1
                      /\ used[r] = 1 => /\ answer[r] # None
                                        /\ r \notin op.result.asks
                                        /\ \A s \in Steps : r \notin step[s].asks
    BY DEF Answers
  <2>3. \A s \in Steps : r \notin step[s].asks
    BY <2>2
  <2>4. scope[r] = None /\ answer[r] = None /\ r \notin op.result.asks
    BY <2>1
  <2>5. used[r] <= 1 /\ used[r] # 1
    BY <2>1
  <2> QED BY <2>3, <2>4, <2>5
<1> QED BY <1>2, <1>4, <1>5, <1>6 DEF KernelInv

LEMMA KernelStutters == KernelInv /\ UNCHANGED vars => KernelInv'
BY DEF vars, run, store, asked, KernelInv, TypeOK, AtCurrent, Attempts, Limit, Executions, Applying, Answers, At

LEMMA KernelStep == KernelInv /\ [Next]_vars => KernelInv'
<1> SUFFICES ASSUME KernelInv, Next PROVE KernelInv'
  BY KernelStutters
<1>1. interrupts \in 0..MaxInterrupts
  BY TypeParts DEF KernelInv
<1>2. CASE StartRun
  BY <1>2, StartKeeps
<1>3. CASE BeginStep
  BY <1>3, BeginKeeps
<1>4. CASE Execute
  BY <1>4, ExecuteKeeps
<1>5. CASE ApplyResult
  BY <1>5, ApplyKeeps
<1>6. CASE \/ ScheduleFirst \/ LeaveStep \/ PauseAgain \/ MarkWaitingHuman \/ RouteOn
           \/ HandleStepFailure \/ MarkFailed \/ CancelRun
  BY <1>1, <1>6, CallReturns, ReturnsKeepsInv
<1>7. CASE Interrupt
  BY <1>7, InterruptKeeps
<1>8. ASSUME NEW r \in Requests, Respond(r) \/ ResumeFlow(r)
      PROVE  KernelInv'
  BY <1>8, RespondKeeps, ResumeKeeps
<1> QED BY <1>2, <1>3, <1>4, <1>5, <1>6, <1>7, <1>8 DEF Next, Advance, Proceed

\* Nothing is done twice, in any flow definition, with loops or without: an
\* answer advances a run at most once, a step starts no more attempts than its
\* retry policy allows (MarkStepRunning, handleStepFailure) and is executed no
\* more often than it was started, but for the calls that were cut off.
THEOREM NothingDoneTwice == Spec => []NothingTwice
<1>1. KernelInv => NothingTwice
  BY DEF KernelInv, Attempts, Executions, Answers, NothingTwice, Limit
<1> QED BY <1>1, KernelInit, KernelStep, PTL DEF Spec

-----------------------------------------------------------------------------
(***************************************************************************)
(* What a run of FlowKernel waits for, for every flow definition: a paused *)
(* run waits for the requests of its current step, and one of them can     *)
(* still move it.                                                          *)
(***************************************************************************)

\* A run with a call in hand has neither ended nor paused.
Busy == op # Idle => status \in {"pending", "running"}

\* Where a call stands says how the step is that it is about.
StageStep ==
    /\ At("route") \/ At("cancel") => step[op.step].status = "completed"
    /\ At("failure") \/ At("fail") => step[op.step].status = "failed"
    /\ At("pause") => step[op.step].status = "waiting_human"
    /\ At("apply") => (op.result.asks # {} <=> op.result.status = "waiting_human")
    /\ ~At("apply") => op.result.asks = {}

\* Only the current step waits, for some request; and the run waits with it unless
\* a call is about to pause it, or was cut off before.
Waits ==
    /\ status # "waiting_human" => pending = {}
    /\ status = "waiting_human" => step[current].status = "waiting_human" /\ pending = step[current].asks
    /\ \A s \in Steps :
          /\ step[s].asks # {} <=> step[s].status = "waiting_human"
          /\ step[s].status = "waiting_human" =>
                /\ s = current
                /\ op = Idle \/ At("pause")
                /\ interrupts = 0 => status = "waiting_human" \/ At("pause")

Awaited(r) == r \in op.result.asks \/ \E s \in Steps : r \in step[s].asks

\* A call dispatched for a request has used its answer.  A request somebody waits
\* for was asked, and is done only when its agent has ended.
Movable ==
    \A r \in Requests :
        /\ phase[r] # "undeliverable"
        /\ op.by = r => used[r] = 1
        /\ Awaited(r) => phase[r] # "absent"
        /\ interrupts = 0 /\ Awaited(r) /\ phase[r] = "done" => agent[r] \in {"completed", "failed"}

PauseInv == KernelInv /\ Busy /\ StageStep /\ Waits /\ Movable

-----------------------------------------------------------------------------
(* What the calls do to the steps                                          *)

\* Step s is changed to this, and no other.
OneStep(s, st, asks, output) ==
    /\ step'[s].status = st /\ step'[s].asks = asks /\ step'[s].output = output
    /\ \A t \in Steps : t # s => step'[t] = step[t]

LEMMA OneStepChanged ==
    ASSUME step \in [Steps -> StepRecord], NEW s \in Steps, NEW r \in StepRecord,
           step' = [step EXCEPT ![s] = r]
    PROVE  OneStep(s, r.status, r.asks, r.output)
BY StepUpdate DEF OneStep

LEMMA ScheduledStep ==
    ASSUME step \in [Steps -> StepRecord], NEW s \in Steps, GoTo(s)
    PROVE  /\ step[s].status = "absent" => OneStep(s, "pending", step[s].asks, step[s].output)
           /\ step[s].status # "absent" => UNCHANGED step
<1> DEFINE x == step[s]
           r == [x EXCEPT !.status = "pending"]
<1>1. CASE x.status # "absent"
  BY <1>1 DEF GoTo, Scheduled
<1>2. CASE x.status = "absent"
  <2>1. step' = [step EXCEPT ![s] = r]
    BY <1>2 DEF GoTo, Scheduled
  <2>2. r \in StepRecord /\ r.status = "pending" /\ r.asks = x.asks /\ r.output = x.output
    BY DEF StepRecord, StepStatus
  <2> HIDE DEF r
  <2>3. OneStep(s, "pending", x.asks, x.output)
    BY <2>1, <2>2, StepUpdate DEF OneStep
  <2> QED BY <1>2, <2>3
<1> QED BY <1>1, <1>2

LEMMA FailedStep ==
    ASSUME step \in [Steps -> StepRecord], NEW s \in Steps, FailTransition(s)
    PROVE  OneStep(s, "failed", step[s].asks, step[s].output)
<1> DEFINE x == step[s]
           r == [x EXCEPT !.status = "failed"]
<1>1. step' = [step EXCEPT ![s] = r]
  BY DEF FailTransition
<1>2. r \in StepRecord /\ r.status = "failed" /\ r.asks = x.asks /\ r.output = x.output
  BY DEF StepRecord, StepStatus
<1> HIDE DEF r
<1> QED BY <1>1, <1>2, StepUpdate DEF OneStep

LEMMA RetriedStep ==
    ASSUME step \in [Steps -> StepRecord], NEW s \in Steps, Retry(s)
    PROVE  OneStep(s, "pending", step[s].asks, step[s].output)
<1> DEFINE x == step[s]
           r == [[x EXCEPT !.status = "pending"] EXCEPT !.started = FALSE]
<1>1. step' = [step EXCEPT ![s] = r]
  BY DEF Retry
<1>2. r \in StepRecord /\ r.status = "pending" /\ r.asks = x.asks /\ r.output = x.output
  <2>1. x \in StepRecord
    OBVIOUS
  <2> HIDE DEF x
  <2> QED BY <2>1 DEF StepRecord, StepStatus
<1> HIDE DEF r
<1> QED BY <1>1, <1>2, StepUpdate DEF OneStep

LEMMA CanceledStep ==
    ASSUME step \in [Steps -> StepRecord], op.step \in Steps, CancelRun
    PROVE  OneStep(op.step, "failed", {}, step[op.step].output)
<1> DEFINE s == op.step
           x == step[s]
           r == [[x EXCEPT !.status = "failed"] EXCEPT !.asks = {}]
<1>1. step' = [step EXCEPT ![s] = r]
  BY DEF CancelRun
<1>2. r \in StepRecord /\ r.status = "failed" /\ r.asks = {} /\ r.output = x.output
  <2>1. x \in StepRecord
    OBVIOUS
  <2> HIDE DEF x
  <2> QED BY <2>1 DEF StepRecord, StepStatus
<1> HIDE DEF r
<1> QED BY <1>1, <1>2, StepUpdate DEF OneStep

LEMMA FirstStep ==
    ASSUME step \in [Steps -> StepRecord], First \in Steps, ScheduleFirst
    PROVE  OneStep(First, "pending", {}, None)
<1> DEFINE r == StepState("pending", 0, FALSE, {}, None)
<1>1. step' = [step EXCEPT ![First] = r]
  BY DEF ScheduleFirst
<1>2. r \in StepRecord /\ r.status = "pending" /\ r.asks = {} /\ r.output = None
  BY DEF StepState, StepRecord, StepStatus
<1> HIDE DEF r
<1> QED BY <1>1, <1>2, StepUpdate DEF OneStep

LEMMA BegunStep ==
    ASSUME step \in [Steps -> StepRecord], current \in Steps, BeginStep
    PROVE  OneStep(current, "running", step[current].asks, step[current].output)
<1> DEFINE s == current
           x == step[s]
           n == IF x.started THEN x.attempts ELSE x.attempts + 1
           r == [[[x EXCEPT !.status = "running"] EXCEPT !.started = TRUE] EXCEPT !.attempts = n]
<1>1. x \in StepRecord /\ n \in Nat
  BY DEF StepRecord
<1>2. step' = [step EXCEPT ![s] = r]
  BY <1>1 DEF BeginStep, StepRecord
<1>3. r \in StepRecord /\ r.status = "running" /\ r.asks = x.asks /\ r.output = x.output
  <2> HIDE DEF x, n
  <2> QED BY <1>1 DEF StepRecord, StepStatus
<1> HIDE DEF r
<1> QED BY <1>2, <1>3, StepUpdate DEF OneStep

LEMMA AppliedStep ==
    ASSUME step \in [Steps -> StepRecord], op.step \in Steps, op.result \in ResultRecord, ApplyResult
    PROVE  OneStep(op.step, op.result.status,
                   IF Executor(op.step) = "agent" \/ op.result.asks # {} THEN op.result.asks
                   ELSE step[op.step].asks,
                   IF op.result.status = "completed" THEN op.result.output ELSE step[op.step].output)
<1> DEFINE s == op.step
           x == step[s]
           res == op.result
           a == IF Executor(s) = "agent" \/ res.asks # {} THEN res.asks ELSE x.asks
           o == IF res.status = "completed" THEN res.output ELSE x.output
           r == [[[x EXCEPT !.status = res.status] EXCEPT !.asks = a] EXCEPT !.output = o]
<1>1. /\ x \in StepRecord /\ a \in SUBSET Requests /\ o \in Sayings \cup AgentOutputs \cup {None}
      /\ res.status \in StepStatus
  BY DEF StepRecord, ResultRecord
<1>2. step' = [step EXCEPT ![s] = r]
  BY <1>1 DEF ApplyResult, Applied, StepRecord
<1>3. r \in StepRecord /\ r.status = res.status /\ r.asks = a /\ r.output = o
  <2> HIDE DEF x, a, o, res
  <2> QED BY <1>1 DEF StepRecord
<1> HIDE DEF r
<1> QED BY <1>2, <1>3, StepUpdate DEF OneStep

LEMMA EndedStep ==
    ASSUME step \in [Steps -> StepRecord], current \in Steps, NEW st \in {"completed", "failed"},
           NEW output \in Sayings \cup AgentOutputs \cup {None}, EndStep(st, output)
    PROVE  OneStep(current, st, {}, output)
<1> DEFINE s == current
           x == step[s]
           r == [[[x EXCEPT !.status = st] EXCEPT !.asks = {}] EXCEPT !.output = output]
<1>1. x \in StepRecord /\ st \in StepStatus
  BY DEF StepStatus
<1>2. step' = [step EXCEPT ![s] = r]
  BY DEF EndStep
<1>3. r \in StepRecord /\ r.status = st /\ r.asks = {} /\ r.output = output
  <2> HIDE DEF x
  <2> QED BY <1>1 DEF StepRecord
<1> HIDE DEF r
<1> QED BY <1>2, <1>3, StepUpdate DEF OneStep

-----------------------------------------------------------------------------
(* Calls that return                                                       *)

LEMMA IdleOp == Idle.by = None /\ Idle.step = None /\ Idle.stage = "idle" /\ Idle.result.asks = {}
BY DEF Idle, Op, NoResult, Result

\* What the typing of PauseInv says of each variable.
LEMMA PauseParts ==
    ASSUME PauseInv
    PROVE  /\ TypeOK /\ AtCurrent
           /\ status \in RunStatus /\ current \in Steps \cup {None}
           /\ step \in [Steps -> StepRecord] /\ pending \subseteq Requests
           /\ op \in OpRecord /\ op.result \in ResultRecord
           /\ phase \in [Requests -> Phases] /\ answer \in [Requests -> Sayings \cup {None}]
           /\ scope \in [Requests -> Steps \cup {None}]
           /\ agent \in [Requests -> {"none", "waiting_human", "completed", "failed"}]
           /\ used \in [Requests -> Nat] /\ interrupts \in Nat
           /\ First \in Steps /\ None \notin Requests
           /\ op # Idle => op.step = current /\ current \in Steps
BY TypeParts, FlowAssumption DEF PauseInv, KernelInv, AtCurrent, OpRecord, FlowAssumption

\* The call that returns, or one that was not in hand at all, leaves what can still
\* move the run.
LEMMA ReturnMovable ==
    ASSUME PauseInv, NEW by \in {op.by, None}, NEW ok \in BOOLEAN, Return(by, ok),
           UNCHANGED <<agent, used>>,
           interrupts' = 0 => interrupts = 0,
           \A s \in Steps : step'[s].asks \subseteq step[s].asks
    PROVE  op' = Idle /\ Movable' /\ Busy' /\ StageStep'
<1>1. op' = Idle
  BY DEF Return
<1>2. Busy' /\ StageStep'
  BY <1>1, IdleOp DEF Busy, StageStep, At
<1>3. ASSUME NEW r \in Requests
      PROVE  \/ phase'[r] = phase[r]
             \/ r = op.by /\ phase'[r] \in {"done", "retry"}
  <2>1. CASE by = None
    BY <2>1 DEF Return, store
  <2>2. CASE by # None
    <3>1. PICK to \in {"done", "retry"} : Move(op.by, {"resuming"}, to)
      BY <2>2 DEF Return, Finish, GiveUp
    <3>2. op.by \in Requests /\ to \in Phases
      BY <2>2, OpTyped, PauseParts DEF Phases
    <3> QED BY <3>1, <3>2, PauseParts, MoveTyped
  <2> QED BY <2>1, <2>2
<1>4. Movable'
  <2> SUFFICES ASSUME NEW r \in Requests
               PROVE  /\ phase'[r] # "undeliverable"
                      /\ op'.by = r => used'[r] = 1
                      /\ Awaited(r)' => phase'[r] # "absent"
                      /\ interrupts' = 0 /\ Awaited(r)' /\ phase'[r] = "done" =>
                            agent'[r] \in {"completed", "failed"}
    BY DEF Movable
  <2>1. op'.by # r
    BY <1>1, IdleOp, PauseParts
  <2>2. Awaited(r)' => Awaited(r)
    BY <1>1, IdleOp DEF Awaited
  <2>3. op.by = r => ~Awaited(r)
    BY DEF PauseInv, KernelInv, Movable, Answers, Awaited
  <2> QED BY <1>3, <2>1, <2>2, <2>3 DEF PauseInv, Movable
<1> QED BY <1>1, <1>2, <1>4

\* No step waits while a call is at work on one that does not.
LEMMA NobodyWaits ==
    ASSUME PauseInv, \/ op # Idle /\ ~At("pause")
                     \/ current \in Steps /\ step[current].status # "waiting_human"
    PROVE  \A s \in Steps : step[s].status # "waiting_human" /\ step[s].asks = {}
BY DEF PauseInv, Waits

\* An update after which no step waits, and neither does the run.
LEMMA NobodyWaitsLater ==
    ASSUME pending' = {}, status' # "waiting_human",
           \A s \in Steps : step'[s].status # "waiting_human" /\ step'[s].asks = {}
    PROVE  Waits'
BY DEF Waits

LEMMA TransitionPauses ==
    ASSUME PauseInv, current \in Steps, step[current].status = "completed",
           status \in {"pending", "running"},
           AdvanceTransition(current, op.by), UNCHANGED <<agent, used, interrupts>>
    PROVE  PauseInv' \/ ~KernelInv'
<1>1. /\ step \in [Steps -> StepRecord] /\ pending = {}
      /\ \A s \in Steps : step[s].status # "waiting_human" /\ step[s].asks = {}
  BY PauseParts, NobodyWaits DEF PauseInv, Waits
<1>2. CASE FailTransition(current) /\ Return(op.by, FALSE)
  <2>1. OneStep(current, "failed", {}, step[current].output) /\ pending' = {} /\ status' = "failed"
    BY <1>1, <1>2, FailedStep DEF FailTransition
  <2>2. Waits'
    BY <1>1, <2>1, NobodyWaitsLater DEF OneStep
  <2> QED BY <1>1, <1>2, <2>1, <2>2, ReturnMovable DEF PauseInv, OneStep
<1>3. CASE Complete /\ Return(op.by, TRUE)
  <2>1. UNCHANGED step /\ pending' = {} /\ status' = "completed"
    BY <1>1, <1>3 DEF Complete
  <2>2. Waits'
    BY <1>1, <2>1, NobodyWaitsLater
  <2> QED BY <1>1, <1>3, <2>1, <2>2, ReturnMovable DEF PauseInv
<1>4. ASSUME NEW next \in Route(current) \ {None}, GoTo(next), UNCHANGED status, Return(op.by, TRUE)
      PROVE  PauseInv' \/ ~KernelInv'
  <2>1. next \in Steps /\ pending' = {}
    BY <1>1, <1>4, RouteTyped DEF GoTo
  <2>2. \A s \in Steps : step'[s].status # "waiting_human" /\ step'[s].asks = {}
    BY <1>1, <1>4, <2>1, ScheduledStep DEF OneStep
  <2>3. Waits'
    BY <1>4, <2>1, <2>2, NobodyWaitsLater
  <2> QED BY <1>1, <1>4, <2>2, <2>3, ReturnMovable DEF PauseInv
<1> QED BY <1>2, <1>3, <1>4 DEF AdvanceTransition

LEMMA PausePauses ==
    ASSUME PauseInv, current \in Steps, step[current].status = "waiting_human",
           op = Idle \/ At("pause"), status \in {"pending", "running"},
           Pause(current), UNCHANGED <<agent, used, interrupts>>
    PROVE  PauseInv' \/ ~KernelInv'
<1>1. UNCHANGED <<current, step>> /\ pending' = step[current].asks /\ status' = "waiting_human"
      /\ Return(op.by, TRUE)
  BY DEF Pause, PauseInv, Waits
<1>2. op' = Idle /\ Movable' /\ Busy' /\ StageStep'
  BY <1>1, ReturnMovable
<1>3. Waits'
  BY <1>1, <1>2 DEF PauseInv, Waits
<1> QED BY <1>2, <1>3 DEF PauseInv

\* A call returns to a run that does not wait.
LEMMA ReturnPauses ==
    ASSUME PauseInv, NEW by \in {op.by, None}, NEW ok \in BOOLEAN, Return(by, ok),
           UNCHANGED <<agent, used, interrupts>>,
           pending' = {}, status' # "waiting_human",
           \A s \in Steps : step'[s].status # "waiting_human" /\ step'[s].asks = {}
    PROVE  PauseInv' \/ ~KernelInv'
<1>1. op' = Idle /\ Movable' /\ Busy' /\ StageStep'
  BY ReturnMovable
<1>2. Waits'
  BY NobodyWaitsLater
<1> QED BY <1>1, <1>2 DEF PauseInv

\* The run of a call in hand.
LEMMA InHand ==
    ASSUME PauseInv, op # Idle
    PROVE  op.step = current /\ current \in Steps /\ status \in {"pending", "running"} /\ pending = {}
BY PauseParts DEF PauseInv, Busy, Waits

LEMMA SchedulePauses == PauseInv /\ ScheduleFirst => PauseInv' \/ ~KernelInv'
<1> SUFFICES ASSUME PauseInv, ScheduleFirst PROVE PauseInv' \/ ~KernelInv'
  OBVIOUS
<1>1. op # Idle /\ ~At("pause")
  BY IdleOp DEF ScheduleFirst, At
<1>2. \A s \in Steps : step[s].status # "waiting_human" /\ step[s].asks = {}
  BY <1>1, NobodyWaits
<1>3. OneStep(First, "pending", {}, None)
  BY PauseParts, FirstStep
<1>4. pending' = {} /\ status' = "running" /\ Return(None, TRUE) /\ UNCHANGED <<agent, used, interrupts>>
  BY <1>1, InHand DEF ScheduleFirst, Same, asked
<1>5. \A s \in Steps : step'[s].status # "waiting_human" /\ step'[s].asks = {}
  BY <1>2, <1>3 DEF OneStep
<1> QED BY <1>4, <1>5, ReturnPauses

LEMMA FailurePauses == PauseInv /\ HandleStepFailure => PauseInv' \/ ~KernelInv'
<1> SUFFICES ASSUME PauseInv, HandleStepFailure PROVE PauseInv' \/ ~KernelInv'
  OBVIOUS
<1>1. op # Idle /\ ~At("pause")
  BY IdleOp DEF HandleStepFailure, At
<1>2. \A s \in Steps : step[s].status # "waiting_human" /\ step[s].asks = {}
  BY <1>1, NobodyWaits
<1>3. op.step = current /\ current \in Steps /\ pending = {} /\ step \in [Steps -> StepRecord]
  BY <1>1, InHand, PauseParts
<1>4. Return(op.by, TRUE) /\ UNCHANGED <<agent, used, interrupts>>
  BY DEF HandleStepFailure, Same, asked
<1>5. CASE Retry(current)
  <2>1. OneStep(current, "pending", {}, step[current].output)
    BY <1>2, <1>3, <1>5, RetriedStep
  <2>2. pending' = {} /\ status' = "running"
    BY <1>3, <1>5 DEF Retry
  <2>3. \A s \in Steps : step'[s].status # "waiting_human" /\ step'[s].asks = {}
    BY <1>2, <2>1 DEF OneStep
  <2> QED BY <1>4, <2>2, <2>3, ReturnPauses
<1>6. CASE RouteAfterFailure(current)
  <2> DEFINE next == FailureRoute(current)
  <2>1. next \in Steps /\ GoTo(next)
    BY <1>3, <1>6, LimitPositive DEF RouteAfterFailure
  <2>2. pending' = {} /\ status' = "running"
    BY <1>3, <1>6 DEF RouteAfterFailure, GoTo
  <2> HIDE DEF next
  <2>3. \A s \in Steps : step'[s].status # "waiting_human" /\ step'[s].asks = {}
    BY <1>2, <1>3, <2>1, ScheduledStep DEF OneStep
  <2> QED BY <1>4, <2>2, <2>3, ReturnPauses
<1>7. CASE GiveUpRun(current)
  <2>1. pending' = {} /\ status' = "failed" /\ UNCHANGED step
    BY <1>3, <1>7 DEF GiveUpRun
  <2> QED BY <1>2, <1>4, <2>1, ReturnPauses
<1> QED BY <1>3, <1>5, <1>6, <1>7 DEF HandleStepFailure

LEMMA EndPauses == PauseInv /\ (MarkFailed \/ CancelRun) => PauseInv' \/ ~KernelInv'
<1> SUFFICES ASSUME PauseInv, MarkFailed \/ CancelRun PROVE PauseInv' \/ ~KernelInv'
  OBVIOUS
<1>1. op # Idle /\ ~At("pause")
  BY IdleOp DEF MarkFailed, CancelRun, At
<1>2. \A s \in Steps : step[s].status # "waiting_human" /\ step[s].asks = {}
  BY <1>1, NobodyWaits
<1>3. op.step \in Steps /\ pending = {} /\ step \in [Steps -> StepRecord]
  BY <1>1, InHand, PauseParts
<1>4. Return(op.by, TRUE) /\ UNCHANGED <<agent, used, interrupts>>
      /\ status' \in {"failed", "canceled"} /\ pending' = {}
  BY <1>3 DEF MarkFailed, CancelRun, Same, asked
<1>5. \A s \in Steps : step'[s].status # "waiting_human" /\ step'[s].asks = {}
  <2>1. CASE MarkFailed
    BY <1>2, <2>1 DEF MarkFailed
  <2>2. CASE CancelRun
    BY <1>2, <1>3, <2>2, CanceledStep DEF OneStep
  <2> QED BY <2>1, <2>2
<1> QED BY <1>4, <1>5, ReturnPauses

LEMMA LeavePauses == PauseInv /\ (LeaveStep \/ RouteOn) => PauseInv' \/ ~KernelInv'
<1> SUFFICES ASSUME PauseInv, LeaveStep \/ RouteOn PROVE PauseInv' \/ ~KernelInv'
  OBVIOUS
<1>1. CASE LeaveStep
  <2>1. op.by = None /\ status \in {"pending", "running"}
    BY <1>1, IdleOp DEF LeaveStep, Advancing
  <2>2. current \in Steps
    BY <2>1, PauseParts DEF AtCurrent
  <2> QED BY <1>1, <2>1, <2>2, TransitionPauses DEF LeaveStep, Same, asked
<1>2. CASE RouteOn
  <2>1. At("route") /\ op # Idle
    BY <1>2, IdleOp DEF RouteOn, At
  <2>2. op.step = current /\ current \in Steps /\ status \in {"pending", "running"}
    BY <2>1, InHand
  <2>3. step[current].status = "completed"
    BY <2>1, <2>2 DEF PauseInv, StageStep
  <2> QED BY <1>2, <2>2, <2>3, TransitionPauses DEF RouteOn, Same, asked
<1> QED BY <1>1, <1>2

LEMMA WaitPauses == PauseInv /\ (PauseAgain \/ MarkWaitingHuman) => PauseInv' \/ ~KernelInv'
<1> SUFFICES ASSUME PauseInv, PauseAgain \/ MarkWaitingHuman PROVE PauseInv' \/ ~KernelInv'
  OBVIOUS
<1>1. CASE PauseAgain
  <2>1. op = Idle /\ status \in {"pending", "running"}
    BY <1>1 DEF PauseAgain, Advancing
  <2>2. current \in Steps
    BY <2>1, PauseParts DEF AtCurrent
  <2> QED BY <1>1, <2>1, <2>2, PausePauses DEF PauseAgain, Same, asked
<1>2. CASE MarkWaitingHuman
  <2>1. At("pause") /\ op # Idle
    BY <1>2, IdleOp DEF MarkWaitingHuman, At
  <2>2. op.step = current /\ current \in Steps /\ status \in {"pending", "running"}
    BY <2>1, InHand
  <2>3. step[current].status = "waiting_human"
    BY <2>1, <2>2 DEF PauseInv, StageStep
  <2> QED BY <1>2, <2>1, <2>2, <2>3, PausePauses DEF MarkWaitingHuman, Same, asked
<1> QED BY <1>1, <1>2

LEMMA InterruptPauses == PauseInv /\ Interrupt => PauseInv' \/ ~KernelInv'
<1> SUFFICES ASSUME PauseInv, Interrupt PROVE PauseInv' \/ ~KernelInv'
  OBVIOUS
<1>0. interrupts' # 0
  <2>1. interrupts \in Nat /\ interrupts' = interrupts + 1
    BY PauseParts DEF Interrupt
  <2> QED BY <2>1
<1>1. op # Idle /\ Return(op.by, FALSE) /\ UNCHANGED <<status, current, step, pending, agent, used>>
  BY DEF Interrupt, run, asked
<1>2. op' = Idle /\ Movable' /\ Busy' /\ StageStep'
  BY <1>0, <1>1, ReturnMovable
<1>3. status # "waiting_human"
  BY <1>1, InHand
<1>4. Waits'
  BY <1>0, <1>1, <1>2, <1>3 DEF PauseInv, Waits
<1> QED BY <1>2, <1>4 DEF PauseInv

-----------------------------------------------------------------------------
(* Calls that go on                                                        *)

\* Somebody waits for no request that nobody waited for.
LEMMA MovableKept ==
    ASSUME PauseInv, UNCHANGED <<phase, agent, interrupts>>,
           \A r \in Requests : Awaited(r)' => Awaited(r),
           \A r \in Requests : op'.by = r => used'[r] = 1
    PROVE  Movable'
BY DEF PauseInv, Movable

\* Before a run is created none of its steps is.
LEMMA NothingYet ==
    ASSUME PauseInv, status = "absent"
    PROVE  pending = {} /\ \A s \in Steps : step[s].status = "absent" /\ step[s].asks = {}
BY PauseParts DEF PauseInv, Waits, AtCurrent

LEMMA StartPauses == PauseInv /\ StartRun => PauseInv' \/ ~KernelInv'
<1> SUFFICES ASSUME PauseInv, StartRun PROVE PauseInv' \/ ~KernelInv'
  OBVIOUS
<1>1. /\ pending' = {} /\ status' = "pending" /\ UNCHANGED <<step, phase, agent, interrupts, used>>
      /\ \A s \in Steps : step'[s].status # "waiting_human" /\ step'[s].asks = {}
  BY NothingYet DEF StartRun, Same, asked, store
<1>2. op'.by = None /\ op'.stage = "start" /\ op'.result.asks = {}
  BY DEF StartRun, Op, NoResult, Result
<1>3. Waits'
  BY <1>1, NobodyWaitsLater
<1>4. Movable'
  BY <1>1, <1>2, MovableKept, PauseParts DEF Awaited
<1>5. Busy' /\ StageStep'
  BY <1>1, <1>2 DEF Busy, StageStep, At
<1> QED BY <1>3, <1>4, <1>5 DEF PauseInv

LEMMA BeginPauses == PauseInv /\ BeginStep => PauseInv' \/ ~KernelInv'
<1> SUFFICES ASSUME PauseInv, BeginStep PROVE PauseInv' \/ ~KernelInv'
  OBVIOUS
<1>1. status \in {"pending", "running"} /\ step[current].status # "waiting_human"
      /\ UNCHANGED <<status, pending, phase, agent, interrupts, used>>
  BY DEF BeginStep, Advancing, Same, asked, store
<1>2. current \in Steps /\ pending = {} /\ step \in [Steps -> StepRecord]
  BY <1>1, PauseParts DEF AtCurrent, PauseInv, Waits
<1>3. \A s \in Steps : step[s].status # "waiting_human" /\ step[s].asks = {}
  BY <1>1, <1>2, NobodyWaits
<1>4. \A s \in Steps : step'[s].status # "waiting_human" /\ step'[s].asks = {}
  BY <1>2, <1>3, BegunStep DEF OneStep
<1>5. op'.by = None /\ op'.stage = "execute" /\ op'.result.asks = {}
  BY DEF BeginStep, Op, NoResult, Result
<1>6. Waits'
  BY <1>1, <1>2, <1>4, NobodyWaitsLater
<1>7. Movable'
  BY <1>1, <1>4, <1>5, MovableKept, PauseParts DEF Awaited
<1>8. Busy' /\ StageStep'
  BY <1>1, <1>5 DEF Busy, StageStep, At
<1> QED BY <1>6, <1>7, <1>8 DEF PauseInv

\* A step is executed; it waits for requests that are open.
LEMMA ExecutedPauses ==
    ASSUME PauseInv, NEW st, NEW asks, NEW output,
           Executed(Result(st, asks, output)),
           asks # {} <=> st = "waiting_human",
           \A r \in Requests : \/ phase'[r] = phase[r] /\ agent'[r] = agent[r] /\ r \notin asks
                               \/ phase'[r] = "open"
    PROVE  PauseInv' \/ ~KernelInv'
<1>1. At("execute") /\ op # Idle /\ op \in OpRecord
  BY IdleOp, PauseParts DEF Executed, At
<1>2. /\ op'.step = op.step /\ op'.by = op.by /\ op'.stage = "apply"
      /\ op'.result.asks = asks /\ op'.result.status = st
      /\ UNCHANGED <<status, current, step, pending, interrupts, used>>
  BY <1>1 DEF Executed, OpRecord, Result, run
<1>3. \A s \in Steps : step[s].status # "waiting_human" /\ step[s].asks = {}
  BY <1>1, NobodyWaits DEF At
<1>4. status \in {"pending", "running"} /\ pending = {}
  BY <1>1, InHand
<1>5. Waits'
  BY <1>2, <1>3, <1>4, NobodyWaitsLater
<1>6. Busy' /\ StageStep'
  BY <1>2, <1>4 DEF Busy, StageStep, At
<1>7. Movable'
  <2> SUFFICES ASSUME NEW r \in Requests
               PROVE  /\ phase'[r] # "undeliverable"
                      /\ op'.by = r => used'[r] = 1
                      /\ Awaited(r)' => phase'[r] # "absent"
                      /\ interrupts' = 0 /\ Awaited(r)' /\ phase'[r] = "done" =>
                            agent'[r] \in {"completed", "failed"}
    BY DEF Movable
  <2>1. Awaited(r)' => r \in asks
    BY <1>2, <1>3 DEF Awaited
  <2> QED BY <1>2, <2>1 DEF PauseInv, Movable
<1> QED BY <1>5, <1>6, <1>7 DEF PauseInv

LEMMA ExecutePauses == PauseInv /\ Execute => PauseInv' \/ ~KernelInv'
<1> SUFFICES ASSUME PauseInv, Execute PROVE PauseInv' \/ ~KernelInv'
  OBVIOUS
<1>1. CASE Decide
  <2>1. Executed(Result("completed", {}, None)) /\ UNCHANGED <<phase, agent>>
    BY <1>1 DEF Decide, store, asked
  <2> QED BY <2>1, ExecutedPauses
<1>2. CASE AgentCompletes
  <2>1. PICK v \in AgentOutputs : Executed(Result("completed", {}, v)) /\ UNCHANGED <<phase, agent>>
    BY <1>2 DEF AgentCompletes, store, asked
  <2> QED BY <2>1, ExecutedPauses
<1>3. CASE ExecutionFails
  <2>1. Executed(Result("failed", {}, None)) /\ UNCHANGED <<phase, agent>>
    BY <1>3 DEF ExecutionFails, store, asked
  <2> QED BY <2>1, ExecutedPauses
<1>4. ASSUME NEW q \in Requests, AgentAsks(q)
      PROVE  PauseInv' \/ ~KernelInv'
  <2>1. Executed(Result("waiting_human", {q}, None)) /\ Move(q, {"absent"}, "open")
        /\ agent' = [agent EXCEPT ![q] = "waiting_human"]
    BY <1>4 DEF AgentAsks, Ask
  <2>2. \A r \in Requests : \/ phase'[r] = phase[r] /\ agent'[r] = agent[r] /\ r # q
                            \/ phase'[r] = "open"
    BY <2>1, PauseParts, MoveTyped DEF Phases
  <2> QED BY <2>1, <2>2, ExecutedPauses
<1>5. ASSUME NEW q \in Requests, AskApproval(q)
      PROVE  PauseInv' \/ ~KernelInv'
  <2>1. Executed(Result("waiting_human", {q}, None)) /\ UNCHANGED agent
        /\ ((phase[q] = "open" /\ UNCHANGED phase) \/ Move(q, {"absent"}, "open"))
    BY <1>5 DEF AskApproval, Ask, OpenFor, store
  <2>2. \A r \in Requests : \/ phase'[r] = phase[r] /\ agent'[r] = agent[r] /\ r # q
                            \/ phase'[r] = "open"
    BY <2>1, PauseParts, MoveTyped DEF Phases
  <2> QED BY <2>1, <2>2, ExecutedPauses
<1> QED BY <1>1, <1>2, <1>3, <1>4, <1>5 DEF Execute

LEMMA ApplyPauses == PauseInv /\ ApplyResult => PauseInv' \/ ~KernelInv'
<1> SUFFICES ASSUME PauseInv, ApplyResult PROVE PauseInv' \/ ~KernelInv'
  OBVIOUS
<1> DEFINE s == op.step
<1>1. At("apply") /\ op # Idle /\ op \in OpRecord /\ op.result \in ResultRecord
  BY IdleOp, PauseParts DEF ApplyResult, At
<1>2. s = current /\ s \in Steps /\ status \in {"pending", "running"} /\ pending = {}
  BY <1>1, InHand
<1>3. \A t \in Steps : step[t].status # "waiting_human" /\ step[t].asks = {}
  BY <1>1, NobodyWaits DEF At
<1>4. /\ op.result.status \in {"completed", "failed", "waiting_human"}
      /\ op.result.asks # {} <=> op.result.status = "waiting_human"
  BY <1>1, PauseParts DEF PauseInv, StageStep, AtCurrent
<1>5. /\ step'[s].status = op.result.status /\ step'[s].asks = op.result.asks
      /\ \A t \in Steps : t # s => step'[t].status # "waiting_human" /\ step'[t].asks = {}
  BY <1>1, <1>2, <1>3, PauseParts, AppliedStep DEF OneStep
<1>6. /\ op'.step = s /\ op'.by = op.by /\ op'.result.asks = {}
      /\ op'.stage = (IF op.result.status = "waiting_human" THEN "pause"
                      ELSE IF op.result.status = "failed" THEN "failure" ELSE "route")
  BY <1>1 DEF ApplyResult, OpRecord, NoResult, Result
<1>7. UNCHANGED <<status, current, pending, phase, agent, interrupts, used>>
  BY DEF ApplyResult, Same, asked, store
<1>8. Busy' /\ StageStep'
  BY <1>2, <1>4, <1>5, <1>6, <1>7 DEF Busy, StageStep, At
<1>9. Waits'
  BY <1>2, <1>4, <1>5, <1>6, <1>7 DEF Waits, At
<1>10. Movable'
  <2>1. \A r \in Requests : Awaited(r)' => Awaited(r)
    BY <1>5, <1>6 DEF Awaited
  <2> QED BY <1>6, <1>7, <2>1, MovableKept DEF PauseInv, Movable
<1> QED BY <1>8, <1>9, <1>10 DEF PauseInv

-----------------------------------------------------------------------------
(* Answers and Resume                                                      *)

\* A request moves on in the store, and the flow stays as it is.
LEMMA StoreMovePauses ==
    ASSUME PauseInv, NEW r \in Requests, NEW from, NEW to \in Phases \ {"absent", "undeliverable"},
           Move(r, from, to), Frame,
           \A q \in Requests : q # r => agent'[q] = agent[q],
           IF to = "done" THEN Awaited(r) /\ interrupts = 0 => agent'[r] \in {"completed", "failed"}
           ELSE agent'[r] = agent[r]
    PROVE  PauseInv' \/ ~KernelInv'
<1>1. UNCHANGED <<status, current, step, pending, op, used, interrupts>>
  BY DEF Frame, run
<1>2. \A q \in Requests : phase'[q] = IF q = r THEN to ELSE phase[q]
  BY PauseParts, MoveTyped
<1>3. Busy' /\ StageStep' /\ Waits'
  BY <1>1 DEF PauseInv, Busy, StageStep, Waits, At
<1>4. \A q \in Requests : Awaited(q)' <=> Awaited(q)
  BY <1>1 DEF Awaited
<1>5. Movable'
  BY <1>1, <1>2, <1>4 DEF PauseInv, Movable
<1> QED BY <1>3, <1>5 DEF PauseInv

LEMMA RespondPauses ==
    ASSUME PauseInv, NEW r \in Requests, Respond(r)
    PROVE  PauseInv' \/ ~KernelInv'
<1>1. CASE \E a \in Sayings : Answer(r, a)
  <2>1. Move(r, {"open"}, "answered") /\ Frame /\ UNCHANGED agent
    BY <1>1 DEF Answer, Accept
  <2> QED BY <2>1, StoreMovePauses DEF Phases
<1>2. CASE Dispatch(r)
  <2>1. Move(r, {"answered", "retry"}, "resuming") /\ Frame /\ UNCHANGED agent
    BY <1>2 DEF Dispatch, Claim
  <2> QED BY <2>1, StoreMovePauses DEF Phases
<1>3. CASE AgentResumes(r)
  <2>1. Move(r, {"resuming"}, "done") /\ Frame
    BY <1>3 DEF AgentResumes, Finish
  <2>2. PICK st \in {"completed", "failed"} : agent' = [agent EXCEPT ![r] = st]
    BY <1>3 DEF AgentResumes
  <2>3. agent'[r] \in {"completed", "failed"} /\ \A q \in Requests : q # r => agent'[q] = agent[q]
    BY <2>2, PauseParts
  <2> QED BY <2>1, <2>3, StoreMovePauses DEF Phases
<1>4. CASE DispatchReturns(r)
  <2>1. op = Idle /\ Frame /\ UNCHANGED agent
    BY <1>4 DEF DispatchReturns
  <2>2. CASE status # "waiting_human" /\ Finish(r)
    <3>1. interrupts = 0 => ~Awaited(r)
      BY <2>1, <2>2, IdleOp DEF PauseInv, Waits, Awaited, At
    <3>2. Move(r, {"resuming"}, "done")
      BY <2>2 DEF Finish
    <3> QED BY <2>1, <3>1, <3>2, StoreMovePauses DEF Phases
  <2>3. CASE GiveUp(r)
    <3>1. Move(r, {"resuming"}, "retry")
      BY <2>3 DEF GiveUp
    <3> QED BY <2>1, <3>1, StoreMovePauses DEF Phases
  <2> QED BY <1>4, <2>2, <2>3 DEF DispatchReturns
<1> QED BY <1>1, <1>2, <1>3, <1>4 DEF Respond

\* A resume uses an answer for the first time and ends the step that waited for it.
LEMMA EndPausesNot ==
    ASSUME PauseInv, NEW r \in Requests, op = Idle, Linked(r),
           NEW st \in {"completed", "failed"}, NEW output \in Sayings \cup AgentOutputs \cup {None},
           EndStep(st, output),
           NEW stage \in IF st = "completed" THEN {"cancel", "route"} ELSE {"fail"},
           NEW by \in {None, r}, Resume(r, stage, by)
    PROVE  PauseInv' \/ ~KernelInv'
<1>1. status = "waiting_human" /\ r \in step[current].asks
  BY DEF Linked
<1>2. current \in Steps /\ step \in [Steps -> StepRecord] /\ pending = step[current].asks
  BY <1>1, PauseParts DEF PauseInv, Waits, AtCurrent
<1>3. OneStep(current, st, {}, output)
  BY <1>2, EndedStep
<1>4. /\ status' = "running" /\ pending' = {}
      /\ UNCHANGED <<current, phase, agent, interrupts>>
  BY <1>2 DEF EndStep, Resume, store, asked
<1>5. /\ op'.step = current /\ op'.by = by /\ op'.stage = stage /\ op'.result.asks = {}
  BY DEF Resume, Op, NoResult, Result
<1>6. \A s \in Steps : step'[s].status # "waiting_human" /\ step'[s].asks = {}
  BY <1>3 DEF PauseInv, Waits, OneStep
<1>7. Waits'
  BY <1>4, <1>6, NobodyWaitsLater
<1>8. Busy' /\ StageStep'
  BY <1>2, <1>3, <1>4, <1>5 DEF Busy, StageStep, At, OneStep
<1>9. used'[r] = 1
  <2>1. used[r] \in Nat /\ used[r] <= 1 /\ used[r] # 1
    BY <1>1, <1>2, PauseParts DEF PauseInv, KernelInv, Answers
  <2>2. used'[r] = used[r] + 1
    BY PauseParts DEF Resume
  <2> QED BY <2>1, <2>2
<1>10. Movable'
  BY <1>4, <1>5, <1>6, <1>9, MovableKept, PauseParts DEF Awaited
<1> QED BY <1>7, <1>8, <1>10 DEF PauseInv

LEMMA ResumePauses ==
    ASSUME PauseInv, NEW r \in Requests, ResumeFlow(r)
    PROVE  PauseInv' \/ ~KernelInv'
<1>1. ASSUME NEW by \in Callers(r), ResumeExplicitApproval(r, by)
      PROVE  PauseInv' \/ ~KernelInv'
  <2> DEFINE signal == Signal(current, answer[r])
             stage  == IF signal = "cancel" /\ ~HasBranchFor(current, "cancel")
                       THEN "cancel" ELSE "route"
  <2>1. op = Idle /\ Linked(r) /\ EndStep("completed", signal) /\ Resume(r, stage, by)
    BY <1>1 DEF ResumeExplicitApproval
  <2>2. current \in Steps /\ answer[r] \in Sayings
    BY <2>1, PauseParts DEF Linked, AtCurrent
  <2>3. signal \in Sayings
    BY <2>2, SignalTyped
  <2>4. by \in {None, r} /\ stage \in {"cancel", "route"}
    BY <1>1 DEF Callers
  <2> HIDE DEF signal, stage
  <2> QED BY <2>1, <2>3, <2>4, EndPausesNot
<1>2. CASE ResumeAgentGenerated(r)
  <2> DEFINE st     == AgentEnd(r)
             output == step[current].output
             stage  == IF st = "completed" THEN "route" ELSE "fail"
  <2>1. op = Idle /\ Linked(r) /\ st \in {"completed", "failed"}
        /\ EndStep(st, output) /\ Resume(r, stage, None)
    BY <1>2 DEF ResumeAgentGenerated
  <2>2. current \in Steps
    BY <2>1, PauseParts DEF Linked, AtCurrent
  <2>3. output \in Sayings \cup AgentOutputs \cup {None}
    BY <2>2, PauseParts DEF StepRecord
  <2>4. stage \in IF st = "completed" THEN {"cancel", "route"} ELSE {"fail"}
    OBVIOUS
  <2> HIDE DEF st, output, stage
  <2> QED BY <2>1, <2>3, <2>4, EndPausesNot
<1> QED BY <1>1, <1>2 DEF ResumeFlow

-----------------------------------------------------------------------------
(* The theorem                                                             *)

LEMMA PauseInit == Init => PauseInv
<1> SUFFICES ASSUME Init PROVE PauseInv
  OBVIOUS
<1>1. KernelInv
  BY KernelInit
<1>2. \A s \in Steps : step[s].status = "absent" /\ step[s].asks = {}
  BY DEF Init, NoStep, StepState
<1>3. op = Idle /\ status = "absent" /\ pending = {} /\ \A r \in Requests : phase[r] = "absent"
  BY DEF Init, LInit
<1>4. Busy /\ StageStep /\ Waits
  BY <1>2, <1>3, IdleOp DEF Busy, StageStep, Waits, At
<1>5. Movable
  BY <1>2, <1>3, IdleOp, FlowAssumption DEF Movable, Awaited, FlowAssumption
<1> QED BY <1>1, <1>4, <1>5 DEF PauseInv

LEMMA PauseStutters == PauseInv /\ UNCHANGED vars => PauseInv'
<1> SUFFICES ASSUME PauseInv, UNCHANGED vars PROVE PauseInv'
  OBVIOUS
<1>1. KernelInv'
  BY KernelStutters DEF PauseInv
<1> QED BY <1>1 DEF vars, run, store, asked, PauseInv, Busy, StageStep, Waits, Movable, Awaited, At

LEMMA PauseStep == PauseInv /\ [Next]_vars => PauseInv'
<1> SUFFICES ASSUME PauseInv, Next PROVE PauseInv'
  BY PauseStutters
<1>1. KernelInv'
  BY KernelStep DEF PauseInv
<1>2. CASE StartRun
  BY <1>1, <1>2, StartPauses
<1>3. CASE Advance
  BY <1>1, <1>3, BeginPauses, LeavePauses, WaitPauses DEF Advance
<1>4. CASE Proceed
  BY <1>1, <1>4, SchedulePauses, ExecutePauses, ApplyPauses, WaitPauses, LeavePauses,
     FailurePauses, EndPauses DEF Proceed
<1>5. CASE Interrupt
  BY <1>1, <1>5, InterruptPauses
<1>6. ASSUME NEW r \in Requests, Respond(r) \/ ResumeFlow(r)
      PROVE  PauseInv'
  BY <1>1, <1>6, RespondPauses, ResumePauses
<1> QED BY <1>2, <1>3, <1>4, <1>5, <1>6 DEF Next

\* A paused run is paused exactly on the requests of its current step, one that
\* has ended waits for nobody (Pause, EndStep and CancelRun keep
\* PendingHumanRequests in step with the step's own list), and as long as no call
\* is cut off somebody can still move it: whatever the flow's definition and in
\* whatever order answers, dispatches and calls arrive.
THEOREM RunsPauseOnSomething == Spec => []PausedOnSomething
<1>1. PauseInv => PausedOnSomething
  <2> SUFFICES ASSUME PauseInv PROVE PausedOnSomething
    OBVIOUS
  <2>1. status \in Ended => pending = {}
    BY DEF PauseInv, Waits, Ended
  <2>2. CASE status = "waiting_human"
    <3>1. current \in Steps
      BY <2>2, PauseParts DEF AtCurrent
    <3>2. step[current].status = "waiting_human" /\ pending = step[current].asks /\ pending # {}
      BY <2>2, <3>1 DEF PauseInv, Waits
    <3>3. PICK r \in step[current].asks : r \in Requests
      BY <3>2, PauseParts
    <3>4. Awaited(r) /\ phase[r] \in Phases
      BY <3>1, <3>3, PauseParts DEF Awaited
    <3>5. interrupts = 0 => phase[r] \in {"open", "answered", "resuming", "retry"}
                            \/ agent[r] \in {"completed", "failed"}
      BY <3>3, <3>4 DEF PauseInv, Movable, Phases
    <3> QED BY <2>1, <2>2, <3>2, <3>3, <3>5 DEF PausedOnSomething
  <2> QED BY <2>1, <2>2 DEF PausedOnSomething
<1> QED BY <1>1, PauseInit, PauseStep, PTL DEF Spec

-----------------------------------------------------------------------------
(***************************************************************************)
(* How a run of FlowKernel moves, for every flow definition: every step    *)
(* but the first was reached over a transition that is in the definition,  *)
(* and a cancel that no branch takes up ends the run.                      *)
(***************************************************************************)

\* A step that has not ended has left no output, nor has one that may be retried.
Fresh ==
    /\ \A s \in Steps : step[s].status \notin {"completed", "failed"} => step[s].output = None
    /\ At("failure") => step[op.step].output = None

\* A step has ended for good, and its failure or cancel is not being handled.
Settled(t) ==
    /\ step[t].status \in {"completed", "failed"}
    /\ ~(op.step = t /\ (At("failure") \/ At("cancel")))

Leads(t, s) ==
    /\ Settled(t)
    /\ \/ step[t].status = "completed" /\ s \in Route(t)
       \/ step[t].status = "failed" /\ s = FailureRoute(t)

Routed ==
    /\ current \in Steps /\ step[current].status = "absent" => current = First
    /\ \A s \in Steps \ {First} : step[s].status # "absent" => \E t \in Steps : Leads(t, s)

\* The run was canceled at this approval.
Canceled(s) ==
    /\ Executor(s) = "human_approval" /\ step[s].output = "cancel"
    /\ ~HasBranchFor(s, "cancel") /\ interrupts = 0

Cancels ==
    /\ At("apply") /\ op.result.status = "completed" => Executor(op.step) # "human_approval"
    /\ \A s \in Steps : Canceled(s) => status = "canceled" \/ (status = "running" /\ At("cancel"))

RouteInv == PauseInv /\ Fresh /\ Routed /\ Cancels

-----------------------------------------------------------------------------
(* Routes once open stay open                                              *)

\* An output that is set is never changed.
OutputsKept == \A t \in Steps : step[t].output # None => step'[t].output = step[t].output

LEMMA RouteStable ==
    ASSUME NEW t \in Steps, OutputsKept, NEW s \in Route(t)
    PROVE  (s \in Route(t))'
<1>1. CASE Flow[t].branches = <<>>
  BY <1>1 DEF Route
<1>2. CASE Flow[t].branches # <<>>
  <2> DEFINE br        == Flow[t].branches
             Out(i)     == step[br[i].of].output
             Decides(i) == Out(i) = None \/ Matches(br[i])
  <2>1. \A i \in DOMAIN br : br[i].of \in Steps
    BY FlowAssumption DEF FlowAssumption, Branch
  <2>2. PICK i \in DOMAIN br : /\ Decides(i) /\ Out(i) # None /\ s = br[i].next
                               /\ \A j \in DOMAIN br : j < i => ~Decides(j)
    BY <1>2 DEF Route
  <2>3. Decides(i)' /\ Out(i)' # None
    BY <2>1, <2>2 DEF OutputsKept, Matches
  <2>4. \A j \in DOMAIN br : ~Decides(j) => ~Decides(j)'
    BY <2>1 DEF OutputsKept, Matches
  <2>5. \A j \in DOMAIN br : j < i => ~Decides(j)'
    BY <2>2, <2>4
  <2> QED BY <1>2, <2>2, <2>3, <2>5 DEF Route
<1> QED BY <1>1, <1>2

\* A step that has ended for good stays so; one that leads nowhere may fail.
SettledKept ==
    \A t \in Steps : Settled(t) =>
        /\ Settled(t)'
        /\ step'[t].status = step[t].status \/ (step[t].status = "completed" /\ Route(t) = {})

LEMMA LeadsKept ==
    ASSUME OutputsKept, SettledKept, NEW t \in Steps, NEW s \in Steps, Leads(t, s)
    PROVE  Leads(t, s)'
<1>1. Settled(t)'
  BY DEF SettledKept, Leads
<1>2. CASE step[t].status = "completed" /\ s \in Route(t)
  <2>1. step'[t].status = "completed"
    BY <1>2 DEF SettledKept, Leads
  <2>2. (s \in Route(t))'
    BY <1>2, RouteStable
  <2> QED BY <1>1, <2>1, <2>2 DEF Leads
<1>3. CASE step[t].status = "failed" /\ s = FailureRoute(t)
  <2>1. step'[t].status = "failed"
    BY <1>3 DEF SettledKept, Leads
  <2> QED BY <1>1, <1>3, <2>1 DEF Leads
<1> QED BY <1>2, <1>3 DEF Leads

\* Every step that is scheduled now was there before, or is led to.
LEMMA RoutedKept ==
    ASSUME Routed, OutputsKept, SettledKept,
           \A s \in Steps : step[s].status # "absent" => step'[s].status # "absent",
           \A s \in Steps \ {First} : step[s].status = "absent" /\ step'[s].status # "absent" =>
                \E t \in Steps : Leads(t, s)',
           current' \in Steps => \/ current' = current \/ current' = First
                                 \/ step'[current'].status # "absent"
    PROVE  Routed'
<1>1. current' \in Steps /\ step'[current'].status = "absent" => current' = First
  BY DEF Routed
<1>2. ASSUME NEW s \in Steps \ {First}, step'[s].status # "absent"
      PROVE  \E t \in Steps : Leads(t, s)'
  <2>1. CASE step[s].status # "absent"
    <3>1. PICK t \in Steps : Leads(t, s)
      BY <2>1 DEF Routed
    <3> QED BY <3>1, LeadsKept
  <2>2. CASE step[s].status = "absent"
    BY <1>2, <2>2
  <2> QED BY <2>1, <2>2
<1> QED BY <1>1, <1>2 DEF Routed

\* Nothing was canceled where a call other than the cancel itself is at work, or
\* one can begin.
LEMMA NothingCanceled ==
    ASSUME RouteInv, ~At("cancel"), status # "canceled"
    PROVE  \A s \in Steps : ~Canceled(s)
BY DEF RouteInv, Cancels

\* A call returns that left every output as it was.
LEMMA ReturnRoutes ==
    ASSUME RouteInv, op' = Idle, Routed',
           \A s \in Steps : step'[s].output = step[s].output,
           \A s \in Steps : step'[s].status \in {"completed", "failed"} \/ step'[s].output = None,
           interrupts' = 0 => interrupts = 0,
           status' = "canceled" \/ interrupts' # 0 \/ (~At("cancel") /\ status # "canceled")
    PROVE  RouteInv' \/ ~PauseInv'
<1>1. ~At("failure")' /\ ~At("apply")'
  BY IdleOp DEF At
<1>2. Fresh'
  BY <1>1 DEF Fresh
<1>3. Cancels'
  BY <1>1, NothingCanceled DEF Cancels, Canceled
<1> QED BY <1>2, <1>3 DEF RouteInv

-----------------------------------------------------------------------------
(* Calls that return                                                       *)

\* The steps are as they were, and a failure or a cancel is being handled of none
\* that was not.
LEMMA SameStepsRouted ==
    ASSUME RouteInv, UNCHANGED step, current' \in {current, None}, ~At("failure")', ~At("cancel")'
    PROVE  /\ Routed'
           /\ \A s \in Steps : step'[s].output = step[s].output
<1>1. OutputsKept
  BY DEF OutputsKept
<1>2. SettledKept
  BY DEF SettledKept, Settled
<1>3. current' \in Steps => current' = current
  BY PauseParts, FlowAssumption DEF FlowAssumption
<1> QED BY <1>1, <1>2, <1>3, RoutedKept DEF RouteInv

\* The same, when the call returns.
LEMMA SameStepsReturn ==
    ASSUME RouteInv, UNCHANGED step, current' \in {current, None}, op' = Idle, ~At("failure"),
           interrupts' = 0 => interrupts = 0,
           interrupts' # 0 \/ (~At("cancel") /\ status # "canceled")
    PROVE  RouteInv' \/ ~PauseInv'
<1>1. ~At("failure")' /\ ~At("cancel")'
  BY IdleOp DEF At
<1>2. Routed'
  BY <1>1, SameStepsRouted
<1>3. \A s \in Steps : step'[s].status \in {"completed", "failed"} \/ step'[s].output = None
  BY DEF RouteInv, Fresh
<1> QED BY <1>2, <1>3, ReturnRoutes

LEMMA TransitionRoutes ==
    ASSUME RouteInv, current \in Steps, step[current].status = "completed",
           status \in {"pending", "running"}, ~At("failure"), ~At("cancel"),
           AdvanceTransition(current, op.by), UNCHANGED interrupts
    PROVE  RouteInv' \/ ~PauseInv'
<1>1. step \in [Steps -> StepRecord] /\ op' = Idle
  BY PauseParts DEF RouteInv, AdvanceTransition, Return
<1>2. ~At("failure")' /\ ~At("cancel")'
  BY <1>1, IdleOp DEF At
<1>3. CASE Route(current) = {} /\ FailTransition(current)
  <2>1. OneStep(current, "failed", step[current].asks, step[current].output) /\ UNCHANGED current
    BY <1>1, <1>3, FailedStep DEF FailTransition
  <2>2. OutputsKept /\ SettledKept
    BY <1>2, <1>3, <2>1 DEF OutputsKept, SettledKept, Settled, OneStep
  <2>3. \A s \in Steps : step'[s].status = step[s].status \/ (s = current /\ step'[s].status = "failed")
    BY <2>1 DEF OneStep
  <2>4. Routed'
    BY <2>1, <2>2, <2>3, RoutedKept DEF RouteInv
  <2>5. \A s \in Steps : /\ step'[s].output = step[s].output
                         /\ step'[s].status \in {"completed", "failed"} \/ step'[s].output = None
    BY <2>1 DEF OneStep, RouteInv, Fresh
  <2> QED BY <1>1, <2>4, <2>5, ReturnRoutes
<1>4. CASE Complete
  <2>1. UNCHANGED step /\ current' = None
    BY <1>4 DEF Complete
  <2> QED BY <1>1, <2>1, SameStepsReturn
<1>5. ASSUME NEW next \in Route(current) \ {None}, GoTo(next)
      PROVE  RouteInv' \/ ~PauseInv'
  <2>1. next \in Steps /\ current' = next
    BY <1>5, RouteTyped DEF GoTo
  <2>2. /\ \A s \in Steps : /\ step'[s].output = step[s].output
                            /\ step[s].status # "absent" => step'[s] = step[s]
                            /\ s # next => step'[s] = step[s]
        /\ step'[next].status # "absent"
        /\ step[next].status = "absent" => step'[next].status = "pending"
    BY <1>1, <1>5, <2>1, ScheduledStep DEF OneStep
  <2>3. OutputsKept
    BY <2>2 DEF OutputsKept
  <2>4. SettledKept
    BY <1>2, <2>2 DEF SettledKept, Settled
  <2>5. Leads(current, next)
    BY <1>5 DEF Leads, Settled
  <2>7. Routed'
    <3>1. \A s \in Steps \ {First} : step[s].status = "absent" /\ step'[s].status # "absent" => s = next
      BY <2>2
    <3>2. \E t \in Steps : Leads(t, next)'
      BY <2>1, <2>3, <2>4, <2>5, LeadsKept
    <3>3. \A s \in Steps : step[s].status # "absent" => step'[s].status # "absent"
      BY <2>2
    <3>4. current' \in Steps => step'[current'].status # "absent"
      BY <2>1, <2>2
    <3> QED BY <2>3, <2>4, <3>1, <3>2, <3>3, <3>4, RoutedKept DEF RouteInv
  <2>8. \A s \in Steps : step'[s].status \in {"completed", "failed"} \/ step'[s].output = None
    BY <2>2 DEF RouteInv, Fresh
  <2> QED BY <1>1, <2>2, <2>7, <2>8, ReturnRoutes
<1> QED BY <1>3, <1>4, <1>5 DEF AdvanceTransition

LEMMA LeaveRoutes == RouteInv /\ (LeaveStep \/ RouteOn) => RouteInv' \/ ~PauseInv'
<1> SUFFICES ASSUME RouteInv, LeaveStep \/ RouteOn PROVE RouteInv' \/ ~PauseInv'
  OBVIOUS
<1>0. PauseInv
  BY DEF RouteInv
<1>1. CASE LeaveStep
  <2>1. op.by = None /\ status \in {"pending", "running"} /\ ~At("failure") /\ ~At("cancel")
    BY <1>1, IdleOp DEF LeaveStep, Advancing, At
  <2>2. current \in Steps
    BY <1>0, <2>1, PauseParts DEF AtCurrent
  <2> QED BY <1>1, <2>1, <2>2, TransitionRoutes DEF LeaveStep, Same
<1>2. CASE RouteOn
  <2>1. At("route") /\ op # Idle /\ ~At("failure") /\ ~At("cancel")
    BY <1>2, IdleOp DEF RouteOn, At
  <2>2. op.step = current /\ current \in Steps /\ status \in {"pending", "running"}
    BY <1>0, <2>1, InHand
  <2>3. step[current].status = "completed"
    BY <1>0, <2>1, <2>2 DEF PauseInv, StageStep
  <2> QED BY <1>2, <2>1, <2>2, <2>3, TransitionRoutes DEF RouteOn, Same
<1> QED BY <1>1, <1>2

\* The calls that leave the steps as they are.
LEMMA PauseRoutes ==
    RouteInv /\ (PauseAgain \/ MarkWaitingHuman \/ MarkFailed) => RouteInv' \/ ~PauseInv'
<1> SUFFICES ASSUME RouteInv, PauseAgain \/ MarkWaitingHuman \/ MarkFailed
             PROVE  RouteInv' \/ ~PauseInv'
  OBVIOUS
<1>1. /\ UNCHANGED <<step, current, interrupts>> /\ op' = Idle
      /\ ~At("failure") /\ ~At("cancel")
  BY IdleOp DEF PauseAgain, Advancing, MarkWaitingHuman, MarkFailed, Pause, Return, Same, At
<1>2. status # "canceled"
  BY IdleOp DEF RouteInv, PauseInv, Busy, PauseAgain, Advancing, MarkWaitingHuman, MarkFailed, At
<1> QED BY <1>1, <1>2, SameStepsReturn

LEMMA ScheduleRoutes == RouteInv /\ ScheduleFirst => RouteInv' \/ ~PauseInv'
<1> SUFFICES ASSUME RouteInv, ScheduleFirst PROVE RouteInv' \/ ~PauseInv'
  OBVIOUS
<1>0. PauseInv /\ step \in [Steps -> StepRecord] /\ First \in Steps
  BY PauseParts DEF RouteInv
<1>1. op' = Idle /\ UNCHANGED <<current, interrupts>> /\ op # Idle /\ ~At("cancel") /\ At("start")
  BY IdleOp DEF ScheduleFirst, Return, Same, At
<1>2. step[First].status = "absent" /\ status # "canceled" /\ step[First].output = None
  BY <1>0, <1>1, InHand, PauseParts DEF AtCurrent, RouteInv, Fresh
<1>3. OneStep(First, "pending", {}, None)
  BY <1>0, FirstStep
<1>4. \A s \in Steps : /\ step'[s].output = step[s].output
                       /\ s # First => step'[s] = step[s]
                       /\ step'[s].status \in {"completed", "failed"} \/ step'[s].output = None
  BY <1>2, <1>3 DEF OneStep, RouteInv, Fresh
<1>5. OutputsKept
  BY <1>4 DEF OutputsKept
<1>6. SettledKept
  BY <1>1, <1>2, <1>4, IdleOp DEF SettledKept, Settled, At
<1>7. Routed'
  <2>1. step'[First].status = "pending"
    BY <1>3 DEF OneStep
  <2> QED BY <1>1, <1>4, <1>5, <1>6, <2>1, RoutedKept DEF RouteInv
<1> QED BY <1>1, <1>2, <1>4, <1>7, ReturnRoutes

LEMMA InterruptRoutes == RouteInv /\ Interrupt => RouteInv' \/ ~PauseInv'
<1> SUFFICES ASSUME RouteInv, Interrupt PROVE RouteInv' \/ ~PauseInv'
  OBVIOUS
<1>1. interrupts' # 0
  <2>1. interrupts \in Nat /\ interrupts' = interrupts + 1
    BY PauseParts DEF Interrupt, RouteInv
  <2> QED BY <2>1
<1>2. op' = Idle /\ UNCHANGED <<step, current>>
  BY DEF Interrupt, Return, run
<1>3. ~At("failure")' /\ ~At("cancel")'
  BY <1>2, IdleOp DEF At
<1>4. Routed' /\ \A s \in Steps : step'[s].output = step[s].output
  BY <1>2, <1>3, SameStepsRouted
<1>5. \A s \in Steps : step'[s].status \in {"completed", "failed"} \/ step'[s].output = None
  BY <1>2 DEF RouteInv, Fresh
<1> QED BY <1>1, <1>2, <1>4, <1>5, ReturnRoutes

LEMMA FailureRoutes == RouteInv /\ HandleStepFailure => RouteInv' \/ ~PauseInv'
<1> SUFFICES ASSUME RouteInv, HandleStepFailure PROVE RouteInv' \/ ~PauseInv'
  OBVIOUS
<1>0. PauseInv
  BY DEF RouteInv
<1>1. op # Idle /\ At("failure") /\ ~At("cancel") /\ op' = Idle /\ UNCHANGED interrupts
  BY IdleOp DEF HandleStepFailure, At, Return, Same
<1>2. /\ op.step = current /\ current \in Steps /\ step \in [Steps -> StepRecord]
      /\ status # "canceled" /\ step[current].status = "failed" /\ step[current].output = None
  BY <1>0, <1>1, InHand, PauseParts DEF PauseInv, StageStep, RouteInv, Fresh
<1>3. ~At("failure")' /\ ~At("cancel")' /\ ~Settled(current)
  BY <1>1, <1>2, IdleOp DEF At, Settled
<1>4. CASE Retry(current)
  <2>1. OneStep(current, "pending", step[current].asks, None) /\ UNCHANGED current
    BY <1>2, <1>4, RetriedStep DEF Retry
  <2>2. \A s \in Steps : /\ step'[s].output = step[s].output
                         /\ s # current => step'[s] = step[s]
                         /\ step'[s].status \in {"completed", "failed"} \/ step'[s].output = None
                         /\ step'[s].status # "absent" <=> step[s].status # "absent"
    BY <1>2, <2>1 DEF OneStep, RouteInv, Fresh
  <2>3. OutputsKept
    BY <2>2 DEF OutputsKept
  <2>4. SettledKept
    BY <1>3, <2>2 DEF SettledKept, Settled
  <2>5. Routed'
    BY <2>1, <2>2, <2>3, <2>4, RoutedKept DEF RouteInv
  <2> QED BY <1>1, <1>2, <2>2, <2>5, ReturnRoutes
<1>5. CASE RouteAfterFailure(current)
  <2>0. PICK failed \in Steps : failed = current
    BY <1>2
  <2>1. PICK next \in Steps : next = FailureRoute(failed) /\ GoTo(next) /\ current' = next
    BY <1>2, <1>5, <2>0, LimitPositive DEF RouteAfterFailure, GoTo
  <2>2. /\ \A s \in Steps : /\ step'[s].output = step[s].output
                            /\ step[s].status # "absent" => step'[s] = step[s]
                            /\ s # next => step'[s] = step[s]
        /\ step'[next].status # "absent"
        /\ step[next].status = "absent" => step'[next].status = "pending"
    BY <1>2, <2>1, ScheduledStep DEF OneStep
  <2>3. OutputsKept
    BY <2>2 DEF OutputsKept
  <2>4. SettledKept
    BY <1>3, <2>2 DEF SettledKept, Settled
  <2>5. Leads(failed, next)'
    BY <1>2, <1>3, <2>0, <2>1, <2>2 DEF Leads, Settled
  <2>6. Routed'
    <3>1. \A s \in Steps \ {First} : step[s].status = "absent" /\ step'[s].status # "absent" => s = next
      BY <2>2
    <3>2. \A s \in Steps : step[s].status # "absent" => step'[s].status # "absent"
      BY <2>2
    <3>3. current' \in Steps => step'[current'].status # "absent"
      BY <2>1, <2>2
    <3>4. \E t \in Steps : Leads(t, next)'
      BY <2>5
    <3> QED BY <2>3, <2>4, <3>1, <3>2, <3>3, <3>4, RoutedKept DEF RouteInv
  <2>7. \A s \in Steps : step'[s].status \in {"completed", "failed"} \/ step'[s].output = None
    BY <2>2 DEF RouteInv, Fresh
  <2> QED BY <1>1, <1>2, <2>2, <2>6, <2>7, ReturnRoutes
<1>6. CASE GiveUpRun(current)
  <2>1. UNCHANGED <<step, current>>
    BY <1>6 DEF GiveUpRun
  <2>2. Routed' /\ \A s \in Steps : step'[s].output = step[s].output
    BY <1>3, <2>1, SameStepsRouted
  <2>3. \A s \in Steps : step'[s].status \in {"completed", "failed"} \/ step'[s].output = None
    BY <2>1 DEF RouteInv, Fresh
  <2> QED BY <1>1, <1>2, <2>2, <2>3, ReturnRoutes
<1> QED BY <1>2, <1>4, <1>5, <1>6 DEF HandleStepFailure

LEMMA CancelRoutes == RouteInv /\ CancelRun => RouteInv' \/ ~PauseInv'
<1> SUFFICES ASSUME RouteInv, CancelRun PROVE RouteInv' \/ ~PauseInv'
  OBVIOUS
<1> DEFINE s == op.step
<1>0. PauseInv
  BY DEF RouteInv
<1>1. /\ op # Idle /\ At("cancel") /\ op' = Idle /\ UNCHANGED interrupts /\ status' = "canceled"
      /\ current' = None
  BY IdleOp DEF CancelRun, At, Return, Same
<1>2. s \in Steps /\ step \in [Steps -> StepRecord] /\ step[s].status = "completed"
  BY <1>0, <1>1, InHand, PauseParts DEF PauseInv, StageStep
<1>3. OneStep(s, "failed", {}, step[s].output) /\ ~Settled(s)
  BY <1>1, <1>2, CanceledStep DEF Settled
<1>4. ~At("failure")' /\ ~At("cancel")'
  BY <1>1, IdleOp DEF At
<1>5. \A t \in Steps : /\ step'[t].output = step[t].output
                       /\ t # s => step'[t] = step[t]
                       /\ step'[t].status \in {"completed", "failed"} \/ step'[t].output = None
                       /\ step'[t].status # "absent" <=> step[t].status # "absent"
  BY <1>2, <1>3 DEF OneStep, RouteInv, Fresh
<1>6. OutputsKept
  BY <1>5 DEF OutputsKept
<1>7. SettledKept
  BY <1>3, <1>4, <1>5 DEF SettledKept, Settled
<1>8. current' \notin Steps
  BY <1>1, FlowAssumption DEF FlowAssumption
<1>9. Routed'
  BY <1>5, <1>6, <1>7, <1>8, RoutedKept DEF RouteInv
<1> QED BY <1>1, <1>5, <1>9, ReturnRoutes

-----------------------------------------------------------------------------
(* Calls that go on                                                        *)

LEMMA StartRoutes == RouteInv /\ StartRun => RouteInv' \/ ~PauseInv'
<1> SUFFICES ASSUME RouteInv, StartRun PROVE RouteInv' \/ ~PauseInv'
  OBVIOUS
<1>1. /\ UNCHANGED <<step, interrupts>> /\ current' = First /\ op'.stage = "start"
      /\ \A s \in Steps : step[s].status = "absent"
  BY PauseParts DEF StartRun, Same, Op, RouteInv, AtCurrent
<1>2. OutputsKept /\ SettledKept
  BY <1>1 DEF OutputsKept, SettledKept, Settled
<1>3. Routed'
  BY <1>1, <1>2, RoutedKept DEF RouteInv
<1>4. Fresh'
  BY <1>1 DEF RouteInv, Fresh, At
<1>5. ~At("cancel") /\ status # "canceled"
  BY IdleOp DEF StartRun, At
<1>6. Cancels'
  BY <1>1, <1>5, NothingCanceled DEF Cancels, Canceled, At
<1> QED BY <1>3, <1>4, <1>6 DEF RouteInv

LEMMA BeginRoutes == RouteInv /\ BeginStep => RouteInv' \/ ~PauseInv'
<1> SUFFICES ASSUME RouteInv, BeginStep PROVE RouteInv' \/ ~PauseInv'
  OBVIOUS
<1>0. PauseInv
  BY DEF RouteInv
<1>1. /\ UNCHANGED <<interrupts, current>> /\ op'.stage = "execute"
      /\ ~At("cancel") /\ ~At("failure") /\ status \in {"pending", "running"}
      /\ step[current].status \in {"absent", "pending", "running"}
  BY IdleOp DEF BeginStep, Advancing, Same, Op, At
<1>2. current \in Steps /\ step \in [Steps -> StepRecord]
  BY <1>0, <1>1, PauseParts DEF AtCurrent
<1>3. step[current].output = None
  BY <1>1, <1>2 DEF RouteInv, Fresh
<1>4. OneStep(current, "running", step[current].asks, None)
  BY <1>2, <1>3, BegunStep
<1>5. \A s \in Steps : /\ step'[s].output = step[s].output
                       /\ s # current => step'[s] = step[s]
  BY <1>3, <1>4 DEF OneStep
<1>6. OutputsKept
  BY <1>5 DEF OutputsKept
<1>7. SettledKept
  BY <1>1, <1>5 DEF SettledKept, Settled, At
<1>8. step'[current].status = "running" /\ (step[current].status = "absent" => current = First)
  BY <1>2, <1>4 DEF OneStep, RouteInv, Routed
<1>9. Routed'
  <2>1. \A s \in Steps : step[s].status # "absent" => step'[s].status # "absent"
    BY <1>5, <1>8
  <2>2. \A s \in Steps \ {First} : ~(step[s].status = "absent" /\ step'[s].status # "absent")
    BY <1>5, <1>8
  <2> QED BY <1>1, <1>6, <1>7, <2>1, <2>2, RoutedKept DEF RouteInv
<1>10. Fresh'
  BY <1>1, <1>3, <1>5 DEF RouteInv, Fresh, At
<1>11. Cancels'
  BY <1>1, <1>5, NothingCanceled DEF Cancels, Canceled, At
<1> QED BY <1>9, <1>10, <1>11 DEF RouteInv

LEMMA ExecutedRoutes ==
    ASSUME RouteInv, NEW st, NEW asks, NEW output, Executed(Result(st, asks, output)),
           st = "completed" => Executor(op.step) # "human_approval"
    PROVE  RouteInv' \/ ~PauseInv'
<1>1. At("execute") /\ op # Idle /\ op \in OpRecord
  BY IdleOp, PauseParts DEF Executed, At, RouteInv
<1>2. /\ op'.step = op.step /\ op'.stage = "apply" /\ op'.result.status = st
      /\ UNCHANGED <<status, current, step, interrupts>>
  BY <1>1 DEF Executed, OpRecord, Result, run
<1>3. status # "canceled" /\ ~At("cancel")
  BY <1>1, InHand DEF At, RouteInv
<1>4. ~At("failure")' /\ ~At("cancel")'
  BY <1>2 DEF At
<1>5. Routed' /\ \A s \in Steps : step'[s].output = step[s].output
  BY <1>2, <1>4, SameStepsRouted
<1>6. Fresh'
  BY <1>2, <1>4 DEF RouteInv, Fresh
<1>7. Cancels'
  BY <1>2, <1>3, NothingCanceled DEF Cancels, Canceled
<1> QED BY <1>5, <1>6, <1>7 DEF RouteInv

LEMMA ExecuteRoutes == RouteInv /\ Execute => RouteInv' \/ ~PauseInv'
<1> SUFFICES ASSUME RouteInv, Execute PROVE RouteInv' \/ ~PauseInv'
  OBVIOUS
<1>1. CASE Decide
  BY <1>1, ExecutedRoutes DEF Decide
<1>2. CASE AgentCompletes
  <2>1. PICK v \in AgentOutputs : Executed(Result("completed", {}, v))
    BY <1>2 DEF AgentCompletes
  <2> QED BY <1>2, <2>1, ExecutedRoutes DEF AgentCompletes
<1>3. CASE ExecutionFails
  BY <1>3, ExecutedRoutes DEF ExecutionFails
<1>4. ASSUME NEW q \in Requests, AgentAsks(q) \/ AskApproval(q)
      PROVE  RouteInv' \/ ~PauseInv'
  BY <1>4, ExecutedRoutes DEF AgentAsks, AskApproval
<1> QED BY <1>1, <1>2, <1>3, <1>4 DEF Execute

LEMMA ApplyRoutes == RouteInv /\ ApplyResult => RouteInv' \/ ~PauseInv'
<1> SUFFICES ASSUME RouteInv, ApplyResult PROVE RouteInv' \/ ~PauseInv'
  OBVIOUS
<1> DEFINE s == op.step
<1>0. PauseInv
  BY DEF RouteInv
<1>1. At("apply") /\ op # Idle /\ op \in OpRecord /\ op.result \in ResultRecord
  BY <1>0, IdleOp, PauseParts DEF ApplyResult, At
<1>2. /\ s = current /\ s \in Steps /\ step \in [Steps -> StepRecord] /\ status # "canceled"
      /\ ~At("cancel") /\ ~At("failure")
  BY <1>0, <1>1, InHand, PauseParts DEF At
<1>3. step[s].status = "running" /\ op.result.status \in {"completed", "failed", "waiting_human"}
  BY <1>0, <1>1, PauseParts DEF AtCurrent
<1>4. step[s].output = None /\ ~Settled(s)
  BY <1>2, <1>3 DEF RouteInv, Fresh, Settled
<1>5. /\ step'[s].status = op.result.status
      /\ op.result.status # "completed" => step'[s].output = None
      /\ \A t \in Steps : t # s => step'[t] = step[t]
  BY <1>1, <1>2, <1>4, AppliedStep DEF OneStep
<1>6. /\ op'.step = s /\ ~At("cancel")' /\ ~At("apply")'
      /\ At("failure")' => op.result.status = "failed"
      /\ UNCHANGED <<status, current, interrupts>>
  BY <1>1, <1>3 DEF ApplyResult, OpRecord, NoResult, Result, At, Same
<1>7. OutputsKept
  BY <1>4, <1>5 DEF OutputsKept
<1>8. SettledKept
  BY <1>2, <1>4, <1>5, <1>6 DEF SettledKept, Settled
<1>9. Routed'
  <2>1. \A t \in Steps : step'[t].status # "absent" <=> step[t].status # "absent"
    BY <1>3, <1>5
  <2> QED BY <1>6, <1>7, <1>8, <2>1, RoutedKept DEF RouteInv
<1>10. Fresh'
  BY <1>2, <1>5, <1>6 DEF RouteInv, Fresh
<1>11. Cancels'
  <2> SUFFICES ASSUME NEW t \in Steps PROVE ~Canceled(t)'
    BY <1>6 DEF Cancels
  <2>1. CASE t = s
    BY <1>1, <1>2, <1>4, <1>5, <1>6, <2>1, NothingCanceled DEF Canceled, RouteInv, Cancels
  <2>2. CASE t # s
    BY <1>2, <1>5, <1>6, <2>2, NothingCanceled DEF Canceled
  <2> QED BY <2>1, <2>2
<1> QED BY <1>9, <1>10, <1>11 DEF RouteInv

LEMMA RespondRoutes ==
    ASSUME RouteInv, NEW r \in Requests, Respond(r)
    PROVE  RouteInv' \/ ~PauseInv'
<1>1. UNCHANGED <<status, current, step, op, interrupts>>
  BY DEF Respond, Answer, Dispatch, AgentResumes, DispatchReturns, Frame, run
<1>2. OutputsKept /\ SettledKept
  BY <1>1 DEF OutputsKept, SettledKept, Settled, At
<1>3. Routed'
  BY <1>1, <1>2, RoutedKept DEF RouteInv
<1>4. Fresh' /\ Cancels'
  BY <1>1 DEF RouteInv, Fresh, Cancels, Canceled, At
<1> QED BY <1>3, <1>4 DEF RouteInv

\* A resume ends the step that waited; one that cancels goes on to cancel the run.
LEMMA EndRoutes ==
    ASSUME RouteInv, NEW r \in Requests, op = Idle, Linked(r),
           NEW st \in {"completed", "failed"}, NEW output \in Sayings \cup AgentOutputs \cup {None},
           EndStep(st, output),
           NEW stage \in {"cancel", "route", "fail"}, NEW by, Resume(r, stage, by),
           \/ output = step[current].output
           \/ output = "cancel" /\ ~HasBranchFor(current, "cancel") => stage = "cancel"
    PROVE  RouteInv' \/ ~PauseInv'
<1>0. PauseInv
  BY DEF RouteInv
<1>1. status = "waiting_human"
  BY DEF Linked
<1>2. current \in Steps /\ step \in [Steps -> StepRecord] /\ step[current].status = "waiting_human"
  BY <1>0, <1>1, PauseParts DEF PauseInv, Waits, AtCurrent
<1>3. step[current].output = None /\ ~Settled(current) /\ ~At("cancel")
  BY <1>2, IdleOp DEF RouteInv, Fresh, Settled, At
<1>4. OneStep(current, st, {}, output) /\ UNCHANGED current /\ status' = "running"
  BY <1>2, EndedStep DEF EndStep
<1>5. op'.step = current /\ op'.stage = stage /\ UNCHANGED interrupts
  BY DEF Resume, Op
<1>6. OutputsKept
  BY <1>3, <1>4 DEF OutputsKept, OneStep
<1>7. SettledKept
  BY <1>3, <1>4, <1>5, IdleOp DEF SettledKept, Settled, OneStep, At
<1>8. Routed'
  <2>1. \A s \in Steps : step'[s].status # "absent" <=> step[s].status # "absent"
    BY <1>2, <1>4 DEF OneStep
  <2> QED BY <1>4, <1>6, <1>7, <2>1, RoutedKept DEF RouteInv
<1>9. Fresh'
  BY <1>4, <1>5 DEF RouteInv, Fresh, OneStep, At
<1>10. Cancels'
  <2> SUFFICES ASSUME NEW s \in Steps, Canceled(s)' PROVE At("cancel")'
    BY <1>4, <1>5 DEF Cancels, At
  <2>1. ~Canceled(s)
    BY <1>1, <1>3, NothingCanceled
  <2>2. s = current /\ output # step[current].output
    BY <1>4, <1>5, <2>1 DEF OneStep, Canceled
  <2>3. step'[s].output = output
    BY <1>4, <2>2 DEF OneStep
  <2> QED BY <1>5, <2>2, <2>3 DEF Canceled, At
<1> QED BY <1>8, <1>9, <1>10 DEF RouteInv

LEMMA ResumeRoutes ==
    ASSUME RouteInv, NEW r \in Requests, ResumeFlow(r)
    PROVE  RouteInv' \/ ~PauseInv'
<1>0. PauseInv
  BY DEF RouteInv
<1>1. ASSUME NEW by \in Callers(r), ResumeExplicitApproval(r, by)
      PROVE  RouteInv' \/ ~PauseInv'
  <2> DEFINE signal == Signal(current, answer[r])
             stage  == IF signal = "cancel" /\ ~HasBranchFor(current, "cancel")
                       THEN "cancel" ELSE "route"
  <2>1. op = Idle /\ Linked(r) /\ EndStep("completed", signal) /\ Resume(r, stage, by)
    BY <1>1 DEF ResumeExplicitApproval
  <2>2. current \in Steps /\ answer[r] \in Sayings
    BY <1>0, <2>1, PauseParts DEF Linked, AtCurrent
  <2>3. signal \in Sayings
    BY <2>2, SignalTyped
  <2>4. /\ stage \in {"cancel", "route"}
        /\ signal = "cancel" /\ ~HasBranchFor(current, "cancel") => stage = "cancel"
    OBVIOUS
  <2> HIDE DEF signal, stage
  <2> QED BY <2>1, <2>3, <2>4, EndRoutes
<1>2. CASE ResumeAgentGenerated(r)
  <2> DEFINE st     == AgentEnd(r)
             output == step[current].output
             stage  == IF st = "completed" THEN "route" ELSE "fail"
  <2>1. op = Idle /\ Linked(r) /\ st \in {"completed", "failed"}
        /\ EndStep(st, output) /\ Resume(r, stage, None)
    BY <1>2 DEF ResumeAgentGenerated
  <2>2. current \in Steps
    BY <1>0, <2>1, PauseParts DEF Linked, AtCurrent
  <2>3. output \in Sayings \cup AgentOutputs \cup {None}
    BY <1>0, <2>2, PauseParts DEF StepRecord
  <2>4. stage \in {"route", "fail"} /\ output = step[current].output
    OBVIOUS
  <2> HIDE DEF st, output, stage
  <2> QED BY <2>1, <2>3, <2>4, EndRoutes
<1> QED BY <1>1, <1>2 DEF ResumeFlow

-----------------------------------------------------------------------------
(* The theorem                                                             *)

LEMMA RouteInit == Init => RouteInv
<1> SUFFICES ASSUME Init PROVE RouteInv
  OBVIOUS
<1>1. \A s \in Steps : step[s].status = "absent" /\ step[s].output = None
  BY DEF Init, NoStep, StepState
<1>2. op = Idle /\ current = None
  BY DEF Init
<1>3. Fresh
  BY <1>1, <1>2, IdleOp DEF Fresh, At
<1>4. Routed
  BY <1>1, <1>2, FlowAssumption DEF Routed, FlowAssumption
<1>5. Cancels
  <2>1. status = "absent" /\ ~At("apply")
    BY <1>2, IdleOp DEF Init, At
  <2>2. None # "cancel"
    BY FlowAssumption DEF FlowAssumption
  <2>3. \A s \in Steps : ~Canceled(s)
    BY <1>1, <2>2 DEF Canceled
  <2> QED BY <2>1, <2>3 DEF Cancels
<1> QED BY <1>3, <1>4, <1>5, PauseInit DEF RouteInv

LEMMA RouteStep == RouteInv /\ [Next]_vars => RouteInv'
<1> SUFFICES ASSUME RouteInv, [Next]_vars PROVE RouteInv'
  OBVIOUS
<1>1. PauseInv'
  BY PauseStep DEF RouteInv
<1>2. CASE StartRun
  BY <1>1, <1>2, StartRoutes
<1>3. CASE Advance
  BY <1>1, <1>3, BeginRoutes, LeaveRoutes, PauseRoutes DEF Advance
<1>4. CASE Proceed
  BY <1>1, <1>4, ScheduleRoutes, ExecuteRoutes, ApplyRoutes, PauseRoutes, LeaveRoutes,
     FailureRoutes, CancelRoutes DEF Proceed
<1>5. CASE Interrupt
  BY <1>1, <1>5, InterruptRoutes
<1>6. ASSUME NEW r \in Requests, Respond(r) \/ ResumeFlow(r)
      PROVE  RouteInv'
  BY <1>1, <1>6, RespondRoutes, ResumeRoutes
<1>7. CASE UNCHANGED vars
  <2>1. UNCHANGED <<status, current, step, op, interrupts>>
    BY <1>7 DEF vars, run
  <2>2. OutputsKept /\ SettledKept
    BY <2>1 DEF OutputsKept, SettledKept, Settled, At
  <2>3. Routed'
    BY <2>1, <2>2, RoutedKept DEF RouteInv
  <2> QED BY <1>1, <2>1, <2>3 DEF RouteInv, Fresh, Cancels, Canceled, At
<1> QED BY <1>2, <1>3, <1>4, <1>5, <1>6, <1>7 DEF Next

\* A run moves only along its definition: each step that was scheduled is led to
\* by a step that completed with the output its branch asks for, or that failed
\* and names it for that case (resolveNext, handleStepFailure), so nothing behind
\* an approval runs without the answer; and a cancel that no branch takes up ends
\* the run (resumeExplicitApproval).  In any definition, with loops or without.
THEOREM RunsFollowRoutes == Spec => []OnlyRouted
<1>1. RouteInv => OnlyRouted
  BY DEF RouteInv, Routed, Cancels, Canceled, Leads, OnlyRouted, At
<1> QED BY <1>1, RouteInit, RouteStep, PTL DEF Spec

=============================================================================
