---------------------------- MODULE HitlResume ----------------------------
(***************************************************************************)
(* Pausing a run on a human request and resuming it with the answer        *)
(* (package runtime: human_requests.go, human_request_resume.go, RunAgent  *)
(* in service.go, RunStore in store.go; reconciliation in cmd/xira).       *)
(*                                                                         *)
(* The human request store is HumanRequestLifecycle, which the files of    *)
(* HumanRequestStore implement.  The run lives in a second store, run.json,*)
(* which is rewritten whole, in place, and without comparing what was      *)
(* loaded with what is there now.  Between the two stores work the turn    *)
(* that started the run and one resume for each answered request, every    *)
(* one a goroutine of its own.                                             *)
(***************************************************************************)
EXTENDS HumanRequestLifecycle, Naturals, FiniteSets

CONSTANTS
    Runs,           \* agent runs
    Refusals,       \* the answers that deny or cancel
    Situations,     \* what a behaviour is about: its runs and requests, whether a
                    \* resumed turn may ask again, whether humans are patient enough to
                    \* answer after the turn that asked has ended, and bounds on crashes
                    \* and errors
    AgentsMayGo,    \* may a run's agent disappear from the configuration?
    CrashInSave,    \* may a crash cut run.json short?
    MaxRepeats      \* bound on repeated answers

ASSUME HitlAssumption ==
    /\ Runs \cap Requests = {}
    /\ None \notin Runs \cup Requests \cup Sayings
    /\ Refusals \subseteq Sayings
    /\ AgentsMayGo \in BOOLEAN /\ CrashInSave \in BOOLEAN
    /\ MaxRepeats \in Nat
    /\ Situations \subseteq [runs : SUBSET Runs, requests : SUBSET Requests, chained : BOOLEAN,
                             patient : BOOLEAN, crashes : Nat, errors : Nat]

VARIABLES
    situation,      \* the situation of this behaviour
    saved,          \* per run, what run.json holds
    runOf,          \* per request, the run that asked
    job,            \* per run the turn that started it, per request its resume
    callers,        \* per request, the callers about to claim its resume
    early,          \* <<w, r>>: r was answered while w, which asked it, was at work
    server,         \* "down", "recovering" or "up"
    backlog,        \* the resumable requests reconciliation has yet to try
    listed,         \* has reconciliation listed them?
    reconciling,    \* the request reconciliation is resuming
    applied,        \* per request, how often its answer was saved into the run
    finals,         \* per run, the final answers a resume delivered
    crashes, errors, repeats

store   == <<phase, answer, accepted>>
serving == <<server, backlog, listed>>
counts  == <<crashes, errors, repeats>>
vars == <<situation, store, saved, runOf, job, callers, early, serving,
          reconciling, applied, finals, counts>>

Workers == Runs \cup Requests
Closed  == {"completed", "failed"}
Saves   == {"none", "torn", "waiting"} \cup Closed
Stages  == {"idle", "load", "generate", "deliver", "truncate", "write", "emit", "finish",
            "fail"}

\* What a worker has in hand: the request it asked, the status it is about to
\* save, and whether it has a final answer to deliver.
Job(stage, asked, status, final) ==
    [stage |-> stage, asked |-> asked, status |-> status, final |-> final]

NoJob == Job("idle", None, "none", FALSE)

RunOf(w) == IF w \in Runs THEN w ELSE runOf[w]

Resumable(r) == phase[r] \in {"answered", "retry"}

-----------------------------------------------------------------------------
(* Calling for a resume                                                    *)

AskerAtWork(q) == \E w \in Workers : job[w].asked = q

\* Somebody answers and is about to resume: ResolveHumanRequest and the exact
\* and asynchronous paths.
Answer(r, a) ==
    /\ server = "up"
    /\ situation.patient => ~AskerAtWork(r)
    /\ early' = early \cup {<<w, r>> : w \in {v \in Workers : job[v].asked = r}}
    /\ Accept(r, a)
    /\ callers' = [callers EXCEPT ![r] = @ + 1]
    /\ UNCHANGED <<situation, saved, runOf, job, serving, reconciling, applied, finals,
                   counts>>

\* An exact retry of a recorded answer calls for the resume again.
AnswerAgain(r) ==
    /\ server = "up"
    /\ repeats < MaxRepeats
    /\ repeats' = repeats + 1
    /\ AcceptAgain(r)
    /\ callers' = [callers EXCEPT ![r] = @ + 1]
    /\ UNCHANGED <<situation, early, saved, runOf, job, serving, reconciling, applied, finals,
                   crashes, errors>>

StartResume(r) ==
    /\ Claim(r)
    /\ job' = [job EXCEPT ![r] = Job("load", None, "none", FALSE)]

NoResume(r) == ~Resumable(r) /\ UNCHANGED <<store, job>>

\* Only one of the callers gets the claim; the others return.
CallerClaims(r) ==
    /\ callers[r] > 0
    /\ callers' = [callers EXCEPT ![r] = @ - 1]
    /\ StartResume(r) \/ NoResume(r)
    /\ UNCHANGED <<situation, early, saved, runOf, serving, reconciling, applied, finals, counts>>

ListResumable ==
    /\ server = "up" /\ ~listed
    /\ listed' = TRUE
    /\ backlog' = {r \in Requests : Resumable(r)}
    /\ UNCHANGED <<situation, early, store, saved, runOf, job, callers, server, reconciling,
                   applied, finals, counts>>

\* ReconcileHumanRequests tries the listed requests one after another.
Reconcile(r) ==
    /\ r \in backlog /\ reconciling = None
    /\ backlog' = backlog \ {r}
    /\ \/ StartResume(r) /\ reconciling' = r
       \/ NoResume(r) /\ UNCHANGED reconciling
    /\ UNCHANGED <<situation, early, saved, runOf, callers, server, listed, applied, finals,
                   counts>>

-----------------------------------------------------------------------------
(* The turn and the resume                                                 *)

At(w, stage) == job[w].stage = stage

\* w goes on to `stage`; everything but its job and the store is left alone.
Goes(w, next) ==
    /\ job' = [job EXCEPT ![w] = next]
    /\ UNCHANGED <<situation, early, saved, callers, serving, reconciling, applied, finals>>

Steps(w, next) == Goes(w, next) /\ UNCHANGED <<store, runOf, counts>>

Save(status, final)  == Job("truncate", None, status, final)
SavePause(q)         == Job("truncate", q, "waiting", FALSE)

\* An error ends a turn as a failed run, and a resume without saving anything.
Broken(w) == IF w \in Runs THEN Save("failed", FALSE) ELSE Job("fail", None, "none", FALSE)

StartTurn(u) ==
    /\ server = "up"
    /\ u \in situation.runs
    /\ At(u, "idle") /\ saved[u] = "none"
    /\ \A q \in Requests : runOf[q] # u
    /\ Steps(u, Job("generate", None, "none", FALSE))

\* Fault model: a resume goes on whatever the run's status.
LoadUnchecked(r) ==
    /\ At(r, "load")
    /\ \/ saved[runOf[r]] \in {"none", "torn"} /\ Steps(r, Broken(r))
       \/ saved[runOf[r]] \notin {"none", "torn"} /\
            IF answer[r] \in Refusals THEN Steps(r, Save("failed", FALSE))
            ELSE Steps(r, Job("generate", None, "none", FALSE))

\* resumeDirectHumanRequest, up to the model call.
Load(r) ==
    /\ At(r, "load")
    /\ \/ saved[runOf[r]] \in {"none", "torn"} /\ Steps(r, Broken(r))
       \/ saved[runOf[r]] \in Closed /\ Steps(r, Job("finish", None, "none", FALSE))
       \/ /\ saved[runOf[r]] = "waiting"
          /\ IF answer[r] \in Refusals THEN Steps(r, Save("failed", FALSE))
             ELSE \/ Steps(r, Job("generate", None, "none", FALSE))
                  \/ AgentsMayGo /\ Steps(r, Job("finish", None, "none", FALSE))

Conclude(w, status) ==
    At(w, "generate") /\ Steps(w, Save(status, w \in Requests))

\* Fault model: a resume that timed out is taken for one that is done.
TimeOutUnsaved(r) == At(r, "generate") /\ Steps(r, Job("finish", None, "none", FALSE))

\* The resume deadline fails the run instead of leaving it paused.
TimeOut(r) == At(r, "generate") /\ Steps(r, Save("failed", FALSE))

Err == errors < situation.errors /\ errors' = errors + 1 /\ UNCHANGED <<crashes, repeats>>

ModelFails(w) ==
    At(w, "generate") /\ Err /\ Goes(w, Broken(w)) /\ UNCHANGED <<store, runOf>>

AskHuman(w, q) ==
    /\ At(w, "generate")
    /\ situation.chained \/ w \in Runs
    /\ q \in situation.requests
    /\ Ask(q)
    /\ runOf' = [runOf EXCEPT ![q] = RunOf(w)]
    /\ Goes(w, Job("deliver", q, "none", FALSE))
    /\ UNCHANGED counts

Delivered(w) == At(w, "deliver") /\ Steps(w, SavePause(job[w].asked))

\* Fault model: an undeliverable request stays open.
DeliveryFailsOpen(w) ==
    /\ At(w, "deliver")
    /\ Err
    /\ Goes(w, Broken(w))
    /\ UNCHANGED <<store, runOf>>

\* FailDelivery closes the request, unless it was answered meanwhile.
DeliveryFails(w) ==
    LET q == job[w].asked
    IN /\ At(w, "deliver")
       /\ Err
       /\ IF phase[q] = "open" THEN Close(q) ELSE UNCHANGED store
       /\ Goes(w, Broken(w))
       /\ UNCHANGED runOf

\* SaveRun, under the mutex of the run store: os.WriteFile truncates run.json
\* before it writes.  Load takes no lock.
Truncate(w) ==
    /\ At(w, "truncate")
    /\ \A v \in Workers : ~At(v, "write")
    /\ saved' = [saved EXCEPT ![RunOf(w)] = "torn"]
    /\ job' = [job EXCEPT ![w].stage = "write"]
    /\ UNCHANGED <<situation, early, store, runOf, callers, serving, reconciling, applied,
                   finals, counts>>

AfterSave(w) == IF w \in Runs THEN NoJob
                ELSE IF job[w].final THEN Job("emit", None, "none", TRUE)
                ELSE Job("finish", None, "none", FALSE)

Write(w) ==
    /\ At(w, "write")
    /\ saved' = [saved EXCEPT ![RunOf(w)] = job[w].status]
    /\ applied' = IF w \in Requests THEN [applied EXCEPT ![w] = @ + 1] ELSE applied
    /\ job' = [job EXCEPT ![w] = AfterSave(w)]
    /\ UNCHANGED <<situation, early, store, runOf, callers, serving, reconciling, finals, counts>>

\* deliverResumeFinal
Emit(r) ==
    /\ At(r, "emit")
    /\ finals' = [finals EXCEPT ![runOf[r]] = @ + 1]
    /\ job' = [job EXCEPT ![r] = Job("finish", None, "none", FALSE)]
    /\ UNCHANGED <<situation, early, store, saved, runOf, callers, serving, reconciling,
                   applied, counts>>

\* CompleteResume and FailResume
EndResume(r) ==
    /\ \/ At(r, "finish") /\ Finish(r)
       \/ At(r, "fail") /\ GiveUp(r)
    /\ job' = [job EXCEPT ![r] = NoJob]
    /\ reconciling' = IF reconciling = r THEN None ELSE reconciling
    /\ UNCHANGED <<situation, early, saved, runOf, callers, serving, applied, finals, counts>>

-----------------------------------------------------------------------------
(* The process                                                             *)

Crash ==
    /\ server # "down"
    /\ crashes < situation.crashes
    /\ CrashInSave \/ \A w \in Workers : ~At(w, "write")
    /\ crashes' = crashes + 1
    /\ server' = "down"
    /\ job' = [w \in Workers |-> NoJob]
    /\ callers' = [r \in Requests |-> 0]
    /\ backlog' = {}
    /\ listed' = FALSE
    /\ reconciling' = None
    /\ UNCHANGED <<situation, early, store, saved, runOf, applied, finals, errors, repeats>>

Restart ==
    /\ server = "down"
    /\ server' = "recovering"
    /\ UNCHANGED <<situation, early, store, saved, runOf, job, callers, backlog, listed,
                   reconciling, applied, finals, counts>>

\* RecoverInterruptedResumes
Recover(r) ==
    /\ server = "recovering"
    /\ GiveUp(r)
    /\ UNCHANGED <<situation, early, saved, runOf, job, callers, serving, reconciling, applied,
                   finals, counts>>

\* Fault model: channels open before the interrupted resumes are recovered.
ServeAtOnce ==
    /\ server = "recovering"
    /\ server' = "up"
    /\ UNCHANGED <<situation, early, store, saved, runOf, job, callers, backlog, listed,
                   reconciling, applied, finals, counts>>

Serve ==
    /\ server = "recovering"
    /\ \A r \in Requests : phase[r] # "resuming"
    /\ server' = "up"
    /\ UNCHANGED <<situation, early, store, saved, runOf, job, callers, backlog, listed,
                   reconciling, applied, finals, counts>>

-----------------------------------------------------------------------------
Init ==
    /\ LInit
    /\ situation \in Situations
    /\ saved       = [u \in Runs |-> "none"]
    /\ runOf       = [r \in Requests |-> None]
    /\ job         = [w \in Workers |-> NoJob]
    /\ callers     = [r \in Requests |-> 0]
    /\ early       = {}
    /\ server      = "down"
    /\ backlog     = {}
    /\ listed      = FALSE
    /\ reconciling = None
    /\ applied     = [r \in Requests |-> 0]
    /\ finals      = [u \in Runs |-> 0]
    /\ crashes = 0 /\ errors = 0 /\ repeats = 0

Human(r) == (\E a \in Sayings : Answer(r, a)) \/ AnswerAgain(r)

\* What a worker always gets round to, once the process is up.
Work(w) ==
    \/ \E status \in Closed : Conclude(w, status)
    \/ \E q \in Requests : AskHuman(w, q)
    \/ Delivered(w) \/ Truncate(w) \/ Write(w)

ResumeWork(r) == CallerClaims(r) \/ Load(r) \/ TimeOut(r) \/ Emit(r) \/ EndResume(r)

Fails(w) == ModelFails(w) \/ DeliveryFails(w)

Next ==
    \/ \E r \in Requests : Human(r) \/ ResumeWork(r) \/ Reconcile(r) \/ Recover(r)
    \/ \E w \in Workers : Work(w) \/ Fails(w)
    \/ \E u \in Runs : StartTurn(u)
    \/ Crash \/ Restart \/ Serve \/ ListResumable

\* Goroutines keep running and a stopped process is started again.  Nobody has
\* to answer, to repeat an answer or to start a turn, and nothing has to fail.
Fairness ==
    /\ WF_vars(Restart) /\ WF_vars(Serve) /\ WF_vars(ListResumable)
    /\ \A r \in Requests : /\ WF_vars(Recover(r)) /\ WF_vars(Reconcile(r))
                           /\ WF_vars(ResumeWork(r))
    /\ \A w \in Workers : WF_vars(Work(w))

Spec == Init /\ [][Next]_vars /\ Fairness

-----------------------------------------------------------------------------
(* What the resume promises                                                *)

\* The type of every variable; requests belong to runs once they are asked.
TypeOK ==
    /\ \A r \in Requests : runOf[r] = None <=> phase[r] = "absent"
    /\ phase \in [Requests -> Phases]
    /\ answer \in [Requests -> Sayings \cup {None}]
    /\ accepted \in [Requests -> SUBSET Sayings]
    /\ saved \in [Runs -> Saves]
    /\ runOf \in [Requests -> Runs \cup {None}]
    /\ job \in [Workers -> [stage : Stages, asked : Requests \cup {None},
                            status : Saves, final : BOOLEAN]]
    /\ callers \in [Requests -> Nat]
    /\ early \subseteq Workers \X Requests
    /\ server \in {"down", "recovering", "up"}
    /\ backlog \subseteq Requests
    /\ listed \in BOOLEAN
    /\ reconciling \in Requests \cup {None}
    /\ applied \in [Requests -> Nat]
    /\ finals \in [Runs -> Nat]
    /\ situation \in Situations
    /\ crashes \in 0..situation.crashes
    /\ errors \in 0..situation.errors
    /\ repeats \in 0..MaxRepeats

Asked(u) == {r \in Requests : runOf[r] = u}

WorksOn(w, u) == ~At(w, "idle") /\ RunOf(w) = u

\* A question of the run was answered while the resumed turn that had asked it
\* was still at work.
Overtaken(u) ==
    \E w \in Requests : \E r \in Asked(u) : <<w, r>> \in early

\* The state is well-formed, and a paused run is waiting for something: a
\* question that can still be answered, or an answer still to be acted on.  That
\* includes answers that came before the turn that started the run had saved its
\* pause; those that overtake a resumed turn are the one way to strand a run.
NotStranded ==
    /\ TypeOK
    /\ \A u \in Runs : saved[u] = "waiting" =>
          \/ \E r \in Asked(u) : phase[r] \in {"open", "answered", "resuming", "retry"}
          \/ \E w \in Workers : WorksOn(w, u)
          \/ Overtaken(u)

\* An answer takes effect once: it is saved into its run exactly once before its
\* request is done, neither dropped nor acted on again by a retry; a refusal
\* leaves the run failed; and a run sends at most one final answer from its
\* resumes, after which it is closed.
AnswerAppliedOnce ==
    /\ \A r \in Requests :
          /\ applied[r] <= 1
          /\ phase[r] = "done" =>
                /\ applied[r] = 1
                /\ answer[r] \in Refusals => saved[runOf[r]] = "failed"
    /\ \A u \in Runs : /\ finals[u] <= 1
                       /\ finals[u] = 1 => saved[u] \in Closed

\* A run that has ended is never rewritten, by a resume that loaded it before
\* or by a retry of one that had already finished it.
ClosedRunKept ==
    [][\A u \in Runs : saved[u] \in Closed => saved'[u] = saved[u]]_vars

\* No two workers act on one run at the same time.
OneWorkerPerRun ==
    \A v, w \in Workers : \A u \in Runs :
        /\ WorksOn(v, u) /\ job[v].stage \notin {"load", "finish", "fail"}
        /\ WorksOn(w, u) /\ job[w].stage \notin {"load", "finish", "fail"}
        => v = w

\* An answer is eventually acted on, across a crash: unless a model call or a
\* delivery failed, no run was saved that could be resumed, or the answer came
\* while the run was being saved.
AnswerActedOn ==
    \A r \in Requests :
        phase[r] = "answered" ~>
            \/ phase[r] = "done"
            \/ errors > 0
            \/ \E u \in Runs : runOf[r] = u /\ saved[u] = "none"
            \/ \E w \in Workers : <<w, r>> \in early

=============================================================================
