------------------------- MODULE HitlResumeProofs -------------------------
(***************************************************************************)
(* What pausing and resuming promise, for any runs, requests, answers,     *)
(* situations and bounds.                                                  *)
(*                                                                         *)
(* Nothing in the code locks a run while a worker acts on it: that there   *)
(* is one worker at a time follows from the claims of the requests, from   *)
(* their order (a request is opened before the run is saved as waiting,    *)
(* and an answer is refused by a closed request) and from what each worker *)
(* finds in run.json when it loads it.  Inv says how these fit together.   *)
(***************************************************************************)
EXTENDS HitlResume, TLAPS

USE HitlAssumption DEF HitlAssumption

\* Answers come when the asking turn has ended, and nothing crashes where resumed
\* turns ask again.
Undisturbed ==
    \A s \in Situations : s.patient /\ (s.chained => s.crashes = 0)

\* The answer of r can still take effect.
Live(r) == phase[r] \in {"open", "answered", "resuming", "retry"} /\ applied[r] = 0

\* w acts on its run, and has not saved what comes of it.
Unsaved(w) == job[w].stage \in {"generate", "deliver", "truncate", "write"}

\* The job of a request is a claimed resume, and lives as long as the process.
Claimed ==
    /\ server # "up" => /\ \A w \in Workers : At(w, "idle")
                        /\ \A r \in Requests : callers[r] = 0
                        /\ backlog = {} /\ reconciling = None
    /\ \A r \in Requests :
          /\ ~At(r, "idle") => phase[r] = "resuming"
          /\ server = "up" /\ phase[r] = "resuming" => ~At(r, "idle")
          /\ answer[r] = None <=> phase[r] \in {"absent", "open", "undeliverable"}
          /\ applied[r] > 0 => phase[r] \in {"resuming", "retry", "done"}

\* What a worker has in hand at each stage; the request it asks is open.
InHand ==
    \A w \in Workers :
        /\ job[w].stage \in {"load", "emit", "finish", "fail"} => w \in Requests
        /\ job[w].asked # None =>
              /\ job[w].stage \in {"deliver", "truncate", "write"}
              /\ w \in Runs \/ situation.chained
              /\ phase[job[w].asked] = "open" /\ applied[job[w].asked] = 0
              /\ runOf[job[w].asked] = RunOf(w)
        /\ At(w, "deliver") => job[w].asked # None
        /\ job[w].stage \in {"truncate", "write"} =>
              IF job[w].asked # None THEN job[w].status = "waiting" /\ ~job[w].final
              ELSE job[w].status \in Closed

\* A run has one live request at most, besides the one its turn or its resume is
\* asking; that turn or resume is its only one.
OneLive ==
    /\ \A u \in Runs, q \in Requests :
          /\ At(u, "generate") => runOf[q] # u
          /\ ~At(u, "idle") /\ runOf[q] = u /\ Live(q) => job[u].asked = q
    /\ \A q, r \in Requests :
          /\ Live(q) /\ Live(r) /\ runOf[q] = runOf[r] /\ q # r
          => job[q].asked = r \/ job[r].asked = q

\* run.json while a worker has something to save into it.
Loaded ==
    \A w \in Workers : Unsaved(w) =>
        /\ saved[RunOf(w)] = IF At(w, "write") THEN "torn"
                             ELSE IF w \in Runs THEN "none" ELSE "waiting"
        /\ w \in Requests => applied[w] = 0

\* A closed run has nothing live, and an answer that was applied closed its run
\* or let it ask again and was done with.
Results ==
    /\ \A r \in Requests :
          /\ runOf[r] # None /\ saved[runOf[r]] \in Closed => ~Live(r)
          /\ applied[r] <= 1
          /\ applied[r] > 0 =>
                \/ saved[runOf[r]] \in Closed
                \/ situation.chained /\ (phase[r] = "done" \/ At(r, "finish"))
          /\ At(r, "emit") =>
                saved[runOf[r]] \in Closed /\ applied[r] = 1 /\ finals[runOf[r]] = 0
    /\ \A q, r \in Requests :
          At(q, "emit") /\ At(r, "emit") /\ runOf[q] = runOf[r] => q = r
    /\ \A u \in Runs : finals[u] <= 1 /\ (finals[u] = 1 => saved[u] \in Closed)

\* A refusal fails its run.
Refused ==
    \A r \in Requests : answer[r] \in Refusals =>
        /\ job[r].stage \notin {"generate", "deliver"}
        /\ job[r].stage \in {"truncate", "write"} => job[r].status = "failed"
        /\ applied[r] > 0 => saved[runOf[r]] = "failed"

\* With its agent there a resume is not done before its answer is applied.
ActedOn ==
    ~AgentsMayGo =>
        \A r \in Requests : At(r, "finish") \/ phase[r] = "done" => applied[r] = 1

Inv == TypeOK /\ Claimed /\ InHand /\ OneLive /\ Loaded /\ Results /\ Refused /\ ActedOn

-----------------------------------------------------------------------------
(* Types                                                                   *)

Jobs == [stage : Stages, asked : Requests \cup {None}, status : Saves, final : BOOLEAN]

LEMMA JobTyped ==
    ASSUME NEW stage \in Stages, NEW asked \in Requests \cup {None},
           NEW status \in Saves, NEW final \in BOOLEAN
    PROVE  /\ Job(stage, asked, status, final) \in Jobs
           /\ Job(stage, asked, status, final).stage = stage
           /\ Job(stage, asked, status, final).asked = asked
           /\ Job(stage, asked, status, final).status = status
           /\ Job(stage, asked, status, final).final = final
BY DEF Job, Jobs

LEMMA NoJobTyped ==
    NoJob \in Jobs /\ NoJob.stage = "idle" /\ NoJob.asked = None /\ NoJob.final = FALSE
BY DEF NoJob, Job, Jobs, Stages, Saves

LEMMA JobOf ==
    ASSUME TypeOK, NEW w \in Workers
    PROVE  /\ job[w] \in Jobs /\ job[w].stage \in Stages /\ job[w].asked \in Requests \cup {None}
           /\ job[w].status \in Saves /\ job[w].final \in BOOLEAN
BY DEF TypeOK, Jobs

LEMMA TypeInit == Init => TypeOK
<1> SUFFICES ASSUME Init PROVE TypeOK
  OBVIOUS
<1>1. job \in [Workers -> Jobs]
  BY NoJobTyped DEF Init
<1>2. situation \in Situations /\ situation.crashes \in Nat /\ situation.errors \in Nat
  BY DEF Init
<1>3. /\ phase \in [Requests -> Phases] /\ runOf \in [Requests -> Runs \cup {None}]
      /\ answer \in [Requests -> Sayings \cup {None}]
      /\ accepted \in [Requests -> SUBSET Sayings]
      /\ saved \in [Runs -> Saves]
  BY DEF Init, LInit, Phases, Saves
<1>4. \A r \in Requests : runOf[r] = None <=> phase[r] = "absent"
  BY DEF Init, LInit
<1>5. /\ callers \in [Requests -> Nat] /\ applied \in [Requests -> Nat]
      /\ finals \in [Runs -> Nat]
      /\ server \in {"down", "recovering", "up"} /\ backlog \subseteq Requests
      /\ listed \in BOOLEAN /\ reconciling \in Requests \cup {None}
      /\ early \subseteq Workers \X Requests
  BY DEF Init
<1>6. crashes \in 0..situation.crashes /\ errors \in 0..situation.errors /\ repeats \in 0..MaxRepeats
  BY <1>2 DEF Init
<1> QED BY <1>1, <1>2, <1>3, <1>4, <1>5, <1>6 DEF TypeOK, Jobs

\* A worker at work belongs to a run.
LEMMA RunOfTyped ==
    ASSUME TypeOK, Claimed, NEW w \in Workers, ~At(w, "idle")
    PROVE  RunOf(w) \in Runs
BY DEF TypeOK, Claimed, RunOf, Workers

LEMMA BrokenTyped ==
    ASSUME NEW w \in Workers
    PROVE  /\ Broken(w) \in Jobs /\ Broken(w).asked = None /\ Broken(w).final = FALSE
           /\ w \in Runs => Broken(w).stage = "truncate" /\ Broken(w).status = "failed"
           /\ w \notin Runs => Broken(w).stage = "fail"
BY DEF Broken, Save, Job, Jobs, Stages, Saves, Closed

\* The jobs that steps hand out.
LEMMA NextJobs ==
    /\ Job("generate", None, "none", FALSE) \in Jobs
    /\ Job("finish", None, "none", FALSE) \in Jobs
    /\ Job("emit", None, "none", TRUE) \in Jobs
    /\ Save("failed", FALSE) \in Jobs
<1>1. {"generate", "finish", "emit", "truncate"} \subseteq Stages /\ {"none", "failed"} \subseteq Saves
  BY DEF Stages, Saves, Closed
<1> QED BY <1>1, JobTyped DEF Save

\* One worker's job changes, the store does not.
LEMMA StepsTyped ==
    ASSUME TypeOK, NEW w \in Workers, NEW next \in Jobs, Steps(w, next)
    PROVE  TypeOK'
<1>1. job' \in [Workers -> Jobs]
  BY DEF TypeOK, Steps, Goes, Jobs
<1> QED BY <1>1 DEF TypeOK, Steps, Goes, store, serving, counts, Jobs

\* A claim starts a resume.
LEMMA StartTyped ==
    ASSUME TypeOK, NEW r \in Requests, StartResume(r)
    PROVE  /\ job' \in [Workers -> Jobs] /\ phase' \in [Requests -> Phases]
           /\ answer' = answer /\ accepted' = accepted
           /\ \A x \in Requests : phase'[x] = "absent" <=> phase[x] = "absent"
<1>1. Job("load", None, "none", FALSE) \in Jobs
  BY JobTyped DEF Stages, Saves
<1>2. job' \in [Workers -> Jobs]
  BY <1>1 DEF TypeOK, StartResume, Jobs
<1> QED BY <1>2 DEF TypeOK, StartResume, Claim, Move, Phases

LEMMA TypeStep ==
    ASSUME TypeOK, Claimed, [Next]_vars
    PROVE  TypeOK'
<1> USE DEF TypeOK, store, serving, counts
<1>1. ASSUME NEW r \in Requests, NEW a \in Sayings, Answer(r, a)
      PROVE  TypeOK'
  BY <1>1 DEF Answer, Accept, Move, Phases
<1>2. ASSUME NEW r \in Requests, AnswerAgain(r)
      PROVE  TypeOK'
  BY <1>2 DEF AnswerAgain, AcceptAgain
<1>4. ASSUME NEW r \in Requests, CallerClaims(r)
      PROVE  TypeOK'
  <2>1. callers' \in [Requests -> Nat]
    BY <1>4 DEF CallerClaims
  <2>2. CASE StartResume(r)
    BY <1>4, StartTyped, <2>1, <2>2 DEF CallerClaims, Jobs
  <2>3. CASE NoResume(r)
    BY <1>4, <2>1, <2>3 DEF CallerClaims, NoResume
  <2> QED BY <1>4, <2>2, <2>3 DEF CallerClaims
<1>5. ASSUME NEW r \in Requests, Reconcile(r)
      PROVE  TypeOK'
  <2>1. CASE StartResume(r)
    BY <1>5, StartTyped, <2>1 DEF Reconcile, Jobs
  <2>2. CASE NoResume(r)
    BY <1>5, <2>2 DEF Reconcile, NoResume
  <2> QED BY <1>5, <2>1, <2>2 DEF Reconcile
<1>6. CASE ListResumable
  BY <1>6 DEF ListResumable
<1>7. ASSUME NEW u \in Runs, StartTurn(u)
      PROVE  TypeOK'
  <2>1. u \in Workers /\ Steps(u, Job("generate", None, "none", FALSE))
    BY <1>7 DEF StartTurn, Workers
  <2> QED BY <2>1, StepsTyped, NextJobs
<1>8. ASSUME NEW r \in Requests, Load(r)
      PROVE  TypeOK'
  <2>1. r \in Workers
    BY DEF Workers
  <2>2. \E next \in Jobs : Steps(r, next)
    BY <1>8, <2>1, NextJobs, BrokenTyped DEF Load
  <2> QED BY <2>1, <2>2, StepsTyped
<1>9. ASSUME NEW w \in Workers, NEW status \in Closed, Conclude(w, status)
      PROVE  TypeOK'
  <2>1. (w \in Requests) \in BOOLEAN /\ status \in Saves
    BY DEF Saves
  <2>2. Save(status, w \in Requests) \in Jobs
    BY <2>1, JobTyped DEF Save, Stages
  <2> QED BY <1>9, <2>2, StepsTyped DEF Conclude
<1>10. ASSUME NEW r \in Requests, TimeOut(r)
       PROVE  TypeOK'
  <2>1. r \in Workers /\ Steps(r, Save("failed", FALSE))
    BY <1>10 DEF TimeOut, Workers
  <2> QED BY <2>1, StepsTyped, NextJobs
<1>11. ASSUME NEW w \in Workers, Fails(w)
       PROVE  TypeOK'
  <2>1. errors' \in 0..situation.errors
    BY <1>11 DEF Fails, ModelFails, DeliveryFails, Err
  <2>2. job' \in [Workers -> Jobs]
    <3>1. job' = [job EXCEPT ![w] = Broken(w)]
      BY <1>11 DEF Fails, ModelFails, DeliveryFails, Goes
    <3> QED BY <3>1, BrokenTyped DEF Jobs
  <2>3. CASE ModelFails(w)
    BY <2>1, <2>2, <2>3 DEF ModelFails, Goes, Err, Jobs
  <2>4. CASE DeliveryFails(w)
    <3>1. /\ phase' \in [Requests -> Phases] /\ answer' = answer /\ accepted' = accepted
          /\ \A x \in Requests : phase'[x] = "absent" <=> phase[x] = "absent"
      BY <2>4 DEF DeliveryFails, Close, Move, Phases
    <3> QED BY <2>1, <2>2, <2>4, <3>1 DEF DeliveryFails, Goes, Err, Jobs
  <2> QED BY <1>11, <2>3, <2>4 DEF Fails
<1>12. ASSUME NEW w \in Workers, NEW q \in Requests, AskHuman(w, q)
       PROVE  TypeOK'
  <2>1. job' \in [Workers -> Jobs]
    BY <1>12, JobTyped DEF AskHuman, Goes, Stages, Saves, Jobs
  <2>2. RunOf(w) \in Runs
    BY <1>12, RunOfTyped DEF AskHuman, At
  <2> QED BY <1>12, <2>1, <2>2 DEF AskHuman, Goes, Ask, Move, Phases, Jobs
<1>13. ASSUME NEW w \in Workers, Delivered(w)
       PROVE  TypeOK'
  <2>1. SavePause(job[w].asked) \in Jobs
    BY JobTyped, JobOf DEF SavePause, Stages, Saves
  <2> QED BY <1>13, <2>1, StepsTyped DEF Delivered
<1>14. ASSUME NEW w \in Workers, Truncate(w)
       PROVE  TypeOK'
  <2>1. job' \in [Workers -> Jobs] /\ saved' \in [Runs -> Saves]
    <3>1. "write" \in Stages /\ "torn" \in Saves
      BY DEF Stages, Saves
    <3>2. [job[w] EXCEPT !.stage = "write"] \in Jobs
      BY <3>1, JobOf DEF Jobs
    <3> QED BY <1>14, <3>1, <3>2 DEF Truncate, Jobs
  <2> QED BY <1>14, <2>1 DEF Truncate, Jobs
<1>15. ASSUME NEW w \in Workers, Write(w)
       PROVE  TypeOK'
  <2>1. AfterSave(w) \in Jobs
    BY NextJobs, NoJobTyped DEF AfterSave
  <2>2. job' \in [Workers -> Jobs] /\ saved' \in [Runs -> Saves]
    BY <1>15, <2>1 DEF Write, Jobs
  <2>3. applied' \in [Requests -> Nat]
    BY <1>15 DEF Write
  <2> QED BY <1>15, <2>2, <2>3 DEF Write, Jobs
<1>16. ASSUME NEW r \in Requests, Emit(r) \/ EndResume(r)
       PROVE  TypeOK'
  <2>1. Job("finish", None, "none", FALSE) \in Jobs
    BY JobTyped DEF Stages, Saves
  <2>2. job' \in [Workers -> Jobs]
    <3>1. r \in Workers /\ job \in [Workers -> Jobs]
      BY DEF Workers, Jobs
    <3>2. \E next \in Jobs : job' = [job EXCEPT ![r] = next]
      BY <1>16, <2>1, NoJobTyped DEF Emit, EndResume
    <3> QED BY <3>1, <3>2
  <2>3. CASE Emit(r)
    <3>1. finals' \in [Runs -> Nat]
      <4>1. finals' = [finals EXCEPT ![runOf[r]] = finals[runOf[r]] + 1]
        BY <2>3 DEF Emit
      <4>2. finals \in [Runs -> Nat]
        OBVIOUS
      <4>3. r \in Workers /\ ~At(r, "idle") /\ RunOf(r) = runOf[r]
        BY <2>3 DEF Emit, At, RunOf, Workers
      <4>4. runOf[r] \in Runs
        BY <4>3, RunOfTyped
      <4> QED BY <4>1, <4>2, <4>4
    <3> QED BY <2>3, <2>2, <3>1 DEF Emit, Jobs
  <2>4. CASE EndResume(r)
    <3>1. /\ phase' \in [Requests -> Phases] /\ answer' = answer /\ accepted' = accepted
          /\ \A x \in Requests : phase'[x] = "absent" <=> phase[x] = "absent"
      BY <2>4 DEF EndResume, Finish, GiveUp, Move, Phases
    <3> QED BY <2>4, <2>2, <3>1 DEF EndResume, Jobs
  <2> QED BY <1>16, <2>3, <2>4
<1>17. CASE Crash
  <2>1. job' \in [Workers -> Jobs] /\ callers' \in [Requests -> Nat]
    BY <1>17, NoJobTyped DEF Crash
  <2>2. crashes' \in 0..situation.crashes
    BY <1>17 DEF Crash
  <2> QED BY <1>17, <2>1, <2>2 DEF Crash, Jobs
<1>18. ASSUME NEW r \in Requests, Recover(r)
       PROVE  TypeOK'
  BY <1>18 DEF Recover, GiveUp, Move, Phases
<1>19. CASE Restart \/ Serve
  BY <1>19 DEF Restart, Serve
<1>20. CASE UNCHANGED vars
  BY <1>20 DEF vars
<1> QED
  BY <1>1, <1>2, <1>4, <1>5, <1>6, <1>7, <1>8, <1>9, <1>10, <1>11, <1>12, <1>13, <1>14,
     <1>15, <1>16, <1>17, <1>18, <1>19, <1>20
     DEF Next, Human, ResumeWork, Work, Fails, Workers

LEMMA AppliedOnce ==
    ASSUME Inv, NEW r \in Requests
    PROVE  applied[r] \in {0, 1} /\ (applied[r] > 0 <=> applied[r] = 1)
BY DEF Inv, TypeOK, Results

NothingLeft == Job("finish", None, "none", FALSE)

LEMMA NothingLeftTyped ==
    NothingLeft \in Jobs /\ NothingLeft.stage = "finish" /\ NothingLeft.asked = None
BY DEF NothingLeft, Job, Jobs, Stages, Saves

-----------------------------------------------------------------------------
(* Who acts on a run                                                       *)

\* A worker that acts on a run is the only one that does.
LEMMA OneAtWork ==
    ASSUME Inv, NEW v \in Workers, NEW w \in Workers, Unsaved(v), Unsaved(w),
           RunOf(v) = RunOf(w)
    PROVE  v = w
<1> USE DEF Inv, Unsaved, At
<1>1. ASSUME NEW x \in Requests, x \in Workers, Unsaved(x)
      PROVE  /\ Live(x) /\ phase[x] = "resuming" /\ RunOf(x) = runOf[x]
             /\ \A y \in Workers : job[y].asked # x
  <2>1. phase[x] = "resuming"
    BY <1>1 DEF Claimed
  <2>2. applied[x] = 0
    BY <1>1 DEF Loaded
  <2>3. \A y \in Workers : job[y].asked # x
    BY <2>1 DEF InHand
  <2> QED BY <2>1, <2>2, <2>3 DEF Live, RunOf
<1>2. CASE v \in Runs /\ w \in Runs
  BY <1>2 DEF RunOf
<1>3. CASE v \in Requests /\ w \in Requests
  BY <1>1, <1>3 DEF OneLive
<1>4. CASE v \in Runs /\ w \in Requests
  BY <1>1, <1>4 DEF OneLive, RunOf
<1>5. CASE v \in Requests /\ w \in Runs
  BY <1>1, <1>5 DEF OneLive, RunOf
<1> QED BY <1>2, <1>3, <1>4, <1>5 DEF Workers

\* A request is asked by one worker.
LEMMA OneAsker ==
    ASSUME Inv, NEW v \in Workers, NEW w \in Workers,
           job[v].asked # None, job[v].asked = job[w].asked
    PROVE  v = w
<1>1. Unsaved(v) /\ Unsaved(w) /\ RunOf(v) = RunOf(w)
  BY DEF Inv, InHand, Unsaved
<1> QED BY <1>1, OneAtWork

-----------------------------------------------------------------------------
(* Steps that change one job only                                          *)

HandOf(w, next) ==
    /\ next.stage \in {"load", "emit", "finish", "fail"} => w \in Requests
    /\ next.asked = job[w].asked
    /\ next.asked # None => next.stage \in {"deliver", "truncate", "write"}
    /\ next.stage = "deliver" => next.asked # None
    /\ next.stage \in {"truncate", "write"} =>
          IF next.asked # None THEN next.status = "waiting" /\ ~next.final
          ELSE next.status \in Closed

OnlyJob(w, next) ==
    /\ job' = [job EXCEPT ![w] = next]
    /\ UNCHANGED <<situation, phase, answer, saved, runOf, server, reconciling, applied, finals>>

LEMMA OnlyJobKeeps ==
    ASSUME Inv, NEW w \in Workers, NEW next \in Jobs, OnlyJob(w, next), TypeOK',
           HandOf(w, next),
           server = "up", next.stage \notin {"idle", "emit", "write"}, ~At(w, "finish"),
           w \in Requests => phase[w] = "resuming",
           w \in Runs /\ (At(w, "idle") \/ next.stage = "generate") => \A q \in Requests : runOf[q] # w,
           next.stage \in {"generate", "deliver", "truncate"} =>
              IF w \in Runs THEN saved[w] = "none"
              ELSE saved[runOf[w]] = "waiting" /\ applied[w] = 0,
           w \in Requests /\ answer[w] \in Refusals =>
              /\ next.stage \notin {"generate", "deliver"}
              /\ next.stage = "truncate" => next.status = "failed",
           next.stage = "finish" => AgentsMayGo \/ applied[w] = 1
    PROVE  Inv'
<1> USE DEF OnlyJob, At
<1>1. /\ job'[w] = next /\ \A x \in Workers : x # w => job'[x] = job[x]
      /\ \A x \in Workers : job'[x].asked = job[x].asked
      /\ \A x \in Requests : Live(x)' <=> Live(x)
      /\ \A x \in Workers : RunOf(x)' = RunOf(x)
  BY DEF Inv, TypeOK, HandOf, Live, RunOf
<1>2. Claimed'
  BY <1>1 DEF Inv, Claimed, Workers
<1>3. InHand'
  BY <1>1 DEF Inv, InHand, HandOf
<1>4. OneLive'
  BY <1>1 DEF Inv, OneLive, Workers
<1>5. Loaded'
  BY <1>1 DEF Inv, Loaded, Unsaved, RunOf, Workers
<1>6. Results'
  BY <1>1 DEF Inv, Results, Workers
<1>7. Refused'
  BY <1>1 DEF Inv, Refused, Workers
<1>8. ActedOn'
  BY <1>1 DEF Inv, ActedOn, Workers
<1> QED BY <1>2, <1>3, <1>4, <1>5, <1>6, <1>7, <1>8 DEF Inv

LEMMA GoesIsOnlyJob ==
    ASSUME NEW w \in Workers, NEW next \in Jobs, Goes(w, next), UNCHANGED <<phase, answer, runOf>>
    PROVE  OnlyJob(w, next)
BY DEF Goes, OnlyJob, serving

LEMMA Up ==
    ASSUME Inv, NEW w \in Workers, ~At(w, "idle")
    PROVE  server = "up" /\ (w \in Requests => phase[w] = "resuming")
BY DEF Inv, Claimed

LEMMA StartTurnKeeps ==
    ASSUME Inv, TypeOK', NEW u \in Runs, StartTurn(u)
    PROVE  Inv'
<1> DEFINE next == Job("generate", None, "none", FALSE)
<1>1. next \in Jobs /\ next.stage = "generate" /\ next.asked = None
  BY DEF Job, Jobs, Stages, Saves
<1>2. u \in Workers /\ u \notin Requests
  BY DEF Workers
<1>3. OnlyJob(u, next)
  BY <1>1, <1>2, GoesIsOnlyJob DEF StartTurn, Steps, store
<1>4. job[u].asked = None
  BY <1>2 DEF Inv, InHand, StartTurn, At
<1>5. HandOf(u, next)
  BY <1>1, <1>4 DEF HandOf
<1>6. /\ server = "up" /\ ~At(u, "finish") /\ saved[u] = "none"
      /\ \A q \in Requests : runOf[q] # u
  BY DEF StartTurn, At
<1> HIDE DEF next
<1> QED BY <1>1, <1>2, <1>3, <1>5, <1>6, OnlyJobKeeps

\* A job at these stages asks nothing.
LEMMA AsksNothing ==
    ASSUME Inv, NEW w \in Workers, job[w].stage \in {"idle", "load", "generate", "emit", "finish", "fail"}
    PROVE  job[w].asked = None
BY DEF Inv, InHand

\* An answer that has not closed its run when it is loaded has not been applied.
LEMMA LoadKeeps ==
    ASSUME Inv, TypeOK', NEW r \in Requests, Load(r)
    PROVE  Inv'
<1>1. /\ r \in Workers /\ r \notin Runs /\ job[r].stage = "load" /\ job[r].asked = None
      /\ server = "up" /\ phase[r] = "resuming" /\ runOf[r] # None
  BY Up, AsksNothing DEF Load, At, Workers, Inv, TypeOK
<1>2. saved[runOf[r]] = "waiting" => applied[r] = 0
  BY <1>1, AppliedOnce DEF Inv, Results, At, Closed
<1>3. saved[runOf[r]] \in Closed => applied[r] = 1
  BY <1>1, AppliedOnce DEF Inv, Results, Live
<1>4. ASSUME NEW next \in Jobs, Steps(r, next), next.asked = None,
             next.stage \in {"generate", "truncate", "finish", "fail"},
             next.stage = "truncate" => next.status \in Closed,
             next.stage \in {"generate", "truncate"} => saved[runOf[r]] = "waiting",
             answer[r] \in Refusals =>
                /\ next.stage # "generate"
                /\ next.stage = "truncate" => next.status = "failed",
             next.stage = "finish" => AgentsMayGo \/ saved[runOf[r]] \in Closed
      PROVE  Inv'
  <2>1. OnlyJob(r, next)
    BY <1>4, <1>1, GoesIsOnlyJob DEF Steps, store
  <2>2. HandOf(r, next)
    BY <1>4, <1>1 DEF HandOf
  <2>3. ~At(r, "finish") /\ next.stage \notin {"idle", "emit", "write", "deliver"}
    BY <1>4, <1>1 DEF At
  <2> QED BY <1>1, <1>2, <1>3, <1>4, <2>1, <2>2, <2>3, OnlyJobKeeps
<1>5. CASE saved[runOf[r]] \in {"none", "torn"}
  BY <1>1, <1>4, <1>5, BrokenTyped DEF Load, Closed
<1>6. CASE saved[runOf[r]] \in Closed
  <2>1. Steps(r, NothingLeft)
    BY <1>6 DEF Load, Closed, NothingLeft
  <2> QED BY <1>1, <1>4, <1>6, <2>1, NothingLeftTyped
<1>7. CASE saved[runOf[r]] = "waiting" /\ answer[r] \in Refusals
  <2>1. Steps(r, Save("failed", FALSE))
    BY <1>7 DEF Load, Closed
  <2>2. /\ Save("failed", FALSE) \in Jobs /\ Save("failed", FALSE).asked = None
        /\ Save("failed", FALSE).stage = "truncate" /\ Save("failed", FALSE).status = "failed"
    BY DEF Save, Job, Jobs, Stages, Closed, Saves
  <2> QED BY <1>1, <1>4, <1>7, <2>1, <2>2 DEF Closed
<1>8. CASE saved[runOf[r]] = "waiting" /\ answer[r] \notin Refusals
  <2> DEFINE next == Job("generate", None, "none", FALSE)
  <2>1. next \in Jobs /\ next.stage = "generate" /\ next.asked = None
    BY DEF Job, Jobs, Stages, Saves
  <2>2. Steps(r, next) \/ (AgentsMayGo /\ Steps(r, NothingLeft))
    BY <1>8 DEF Load, Closed, NothingLeft
  <2> HIDE DEF next
  <2> QED BY <1>1, <1>4, <1>8, <2>1, <2>2, NothingLeftTyped
<1> QED BY <1>5, <1>6, <1>7, <1>8 DEF Load

\* What a turn or a resume goes on to when the model has been called.
LEMMA GenerateKeeps ==
    ASSUME Inv, TypeOK', NEW w \in Workers, At(w, "generate"), NEW next \in Jobs, Goes(w, next),
           UNCHANGED <<phase, answer, runOf>>,
           next.asked = None,
           \/ next.stage = "fail" /\ w \in Requests
           \/ next.stage = "truncate" /\ next.status \in Closed
    PROVE  Inv'
<1>1. /\ job[w].asked = None
      /\ server = "up"
      /\ w \in Requests => phase[w] = "resuming"
  BY Up, AsksNothing DEF At
<1>2. OnlyJob(w, next)
  BY GoesIsOnlyJob
<1>3. HandOf(w, next)
  BY <1>1 DEF HandOf
<1>4. IF w \in Runs THEN saved[w] = "none"
      ELSE saved[runOf[w]] = "waiting" /\ applied[w] = 0
  BY DEF Inv, Loaded, Unsaved, At, RunOf, Workers
<1>5. /\ ~At(w, "finish") /\ ~At(w, "idle")
      /\ next.stage \notin {"idle", "emit", "write", "generate", "deliver", "finish"}
  BY DEF At
<1>6. w \in Requests => answer[w] \notin Refusals
  BY DEF Inv, Refused, At
<1> QED BY <1>1, <1>2, <1>3, <1>4, <1>5, <1>6, OnlyJobKeeps

LEMMA ConcludeKeeps ==
    ASSUME Inv, TypeOK', NEW w \in Workers, NEW status \in Closed, Conclude(w, status)
    PROVE  Inv'
<1> DEFINE next == Save(status, w \in Requests)
<1>1. (w \in Requests) \in BOOLEAN /\ status \in Saves
  BY DEF Saves
<1>2. next \in Jobs /\ next.stage = "truncate" /\ next.asked = None /\ next.status = status
  BY <1>1 DEF Save, Job, Jobs, Stages
<1>3. At(w, "generate") /\ Goes(w, next) /\ UNCHANGED <<phase, answer, runOf>>
  BY DEF Conclude, Steps, store
<1> HIDE DEF next
<1> QED BY <1>2, <1>3, GenerateKeeps

LEMMA TimeOutKeeps ==
    ASSUME Inv, TypeOK', NEW r \in Requests, TimeOut(r)
    PROVE  Inv'
<1> DEFINE next == Save("failed", FALSE)
<1>1. next \in Jobs /\ next.stage = "truncate" /\ next.asked = None /\ next.status \in Closed
  BY DEF Save, Job, Jobs, Stages, Closed, Saves
<1>2. r \in Workers /\ At(r, "generate") /\ Goes(r, next) /\ UNCHANGED <<phase, answer, runOf>>
  BY DEF TimeOut, Steps, store, Workers
<1> HIDE DEF next
<1> QED BY <1>1, <1>2, GenerateKeeps

LEMMA ModelFailsKeeps ==
    ASSUME Inv, TypeOK', NEW w \in Workers, ModelFails(w)
    PROVE  Inv'
<1>1. At(w, "generate") /\ Goes(w, Broken(w)) /\ UNCHANGED <<phase, answer, runOf>>
  BY DEF ModelFails, store
<1>2. "failed" \in Closed
  BY DEF Closed
<1> QED BY <1>1, <1>2, BrokenTyped, GenerateKeeps DEF Workers

LEMMA DeliveredKeeps ==
    ASSUME Inv, TypeOK', NEW w \in Workers, Delivered(w)
    PROVE  Inv'
<1> DEFINE next == SavePause(job[w].asked)
<1>1. /\ next \in Jobs /\ next.stage = "truncate" /\ next.asked = job[w].asked
      /\ next.status = "waiting" /\ ~next.final
  BY JobOf DEF SavePause, Job, Jobs, Stages, Saves, Inv
<1>2. At(w, "deliver") /\ OnlyJob(w, next)
  BY <1>1, GoesIsOnlyJob DEF Delivered, Steps, store
<1>3. job[w].asked # None
  BY <1>2 DEF Inv, InHand
<1>4. HandOf(w, next)
  BY <1>1, <1>3 DEF HandOf
<1>5. IF w \in Runs THEN saved[w] = "none"
      ELSE saved[runOf[w]] = "waiting" /\ applied[w] = 0
  BY <1>2 DEF Inv, Loaded, Unsaved, At, RunOf, Workers
<1>6. /\ ~At(w, "finish") /\ ~At(w, "idle") /\ server = "up"
      /\ w \in Requests => phase[w] = "resuming"
  BY <1>2, Up DEF At
<1>7. w \in Requests => answer[w] \notin Refusals
  BY <1>2 DEF Inv, Refused, At
<1> HIDE DEF next
<1> QED BY <1>1, <1>2, <1>4, <1>5, <1>6, <1>7, OnlyJobKeeps

-----------------------------------------------------------------------------
(* Steps of the process and of the callers                                 *)

LEMMA QuietKeeps ==
    ASSUME Inv, TypeOK', UNCHANGED <<situation, phase, answer, saved, runOf, job, applied, finals>>,
           Claimed'
    PROVE  Inv'
BY DEF Inv, InHand, OneLive, Loaded, Results, Refused, ActedOn, Live, Unsaved, At, RunOf

LEMMA CallersKeep ==
    ASSUME Inv, TypeOK',
           \/ \E r \in Requests : AnswerAgain(r) \/ (CallerClaims(r) /\ NoResume(r))
                                  \/ (Reconcile(r) /\ NoResume(r) /\ UNCHANGED reconciling)
           \/ ListResumable
    PROVE  Inv'
<1>1. UNCHANGED <<situation, phase, answer, saved, runOf, job, server, reconciling, applied, finals>>
  BY DEF AnswerAgain, AcceptAgain, CallerClaims, Reconcile, NoResume, ListResumable, store,
         serving, counts
<1>2. server = "up"
  BY DEF AnswerAgain, CallerClaims, Reconcile, ListResumable, Inv, Claimed, TypeOK
<1>3. Claimed'
  BY <1>1, <1>2 DEF Inv, Claimed, At
<1> QED BY <1>1, <1>3, QuietKeeps

LEMMA StartServerKeeps ==
    ASSUME Inv, TypeOK', Restart \/ Serve
    PROVE  Inv'
<1>1. UNCHANGED <<situation, phase, answer, saved, runOf, job, callers, backlog, reconciling,
                  applied, finals>>
  BY DEF Restart, Serve, store, counts
<1>2. /\ server # "up"
      /\ server' = "up" => \A r \in Requests : phase[r] # "resuming"
  BY DEF Restart, Serve
<1>3. Claimed'
  BY <1>1, <1>2 DEF Inv, Claimed, At
<1> QED BY <1>1, <1>3, QuietKeeps

\* A crash leaves the claims behind, and no job.
LEMMA CrashKeeps ==
    ASSUME Undisturbed, Inv, TypeOK', Crash
    PROVE  Inv'
<1>1. /\ UNCHANGED <<situation, phase, answer, saved, runOf, applied, finals>>
      /\ server' = "down" /\ reconciling' = None /\ backlog' = {}
      /\ \A r \in Requests : callers'[r] = 0
      /\ \A w \in Workers : /\ job'[w].stage = "idle" /\ job'[w].asked = None
  BY NoJobTyped DEF Crash, store
<1>2. ~situation.chained
  <2>1. situation \in Situations /\ crashes \in Nat /\ crashes < situation.crashes
    BY DEF Crash, Inv, TypeOK
  <2> QED BY <2>1 DEF Undisturbed
<1>3. Claimed'
  BY <1>1 DEF Inv, Claimed, At, Workers
<1>4. InHand'
  BY <1>1 DEF InHand, At
<1>5. OneLive'
  <2>1. \A w \in Requests : job[w].asked = None
    BY <1>2 DEF Inv, InHand, TypeOK, Workers
  <2> QED BY <1>1, <2>1 DEF Inv, OneLive, At, Live, Workers
<1>6. Loaded'
  BY <1>1 DEF Loaded, Unsaved
<1>7. Results'
  BY <1>1, <1>2 DEF Inv, Results, At, Live, Workers
<1>8. Refused'
  BY <1>1 DEF Inv, Refused, Workers
<1>9. ActedOn'
  BY <1>1 DEF Inv, ActedOn, At, Live, Workers
<1> QED BY <1>3, <1>4, <1>5, <1>6, <1>7, <1>8, <1>9 DEF Inv

LEMMA RecoverKeeps ==
    ASSUME Inv, TypeOK', NEW r \in Requests, Recover(r)
    PROVE  Inv'
<1>1. /\ UNCHANGED <<situation, answer, saved, runOf, job, callers, server, backlog, reconciling,
                     applied, finals>>
      /\ phase[r] = "resuming" /\ phase'[r] = "retry" /\ server = "recovering"
      /\ \A x \in Requests : x # r => phase'[x] = phase[x]
  BY DEF Recover, GiveUp, Move, serving, counts, Inv, TypeOK
<1>2. /\ \A w \in Workers : At(w, "idle") /\ job[w].asked = None
      /\ \A x \in Requests : Live(x)' <=> Live(x)
  BY <1>1, AsksNothing DEF Inv, Claimed, At, Live
<1>3. Claimed'
  BY <1>1, <1>2 DEF Inv, Claimed, At, Workers
<1>4. InHand'
  BY <1>1, <1>2 DEF InHand, At
<1>5. OneLive'
  BY <1>1, <1>2 DEF Inv, OneLive, At
<1>6. Loaded'
  BY <1>1, <1>2 DEF Loaded, Unsaved, At
<1>7. Results'
  BY <1>1, <1>2 DEF Inv, Results, At
<1>8. Refused'
  BY <1>1 DEF Inv, Refused
<1>9. ActedOn'
  BY <1>1, <1>2 DEF Inv, ActedOn, At
<1> QED BY <1>3, <1>4, <1>5, <1>6, <1>7, <1>8, <1>9 DEF Inv

\* An answer finds nobody asking.
LEMMA AnswerKeeps ==
    ASSUME Undisturbed, Inv, TypeOK', NEW r \in Requests, NEW a \in Sayings, Answer(r, a)
    PROVE  Inv'
<1>1. /\ UNCHANGED <<situation, saved, runOf, job, server, reconciling, applied, finals>>
      /\ server = "up" /\ phase[r] = "open" /\ phase'[r] = "answered" /\ answer'[r] = a /\ a # None
      /\ \A x \in Requests : x # r => phase'[x] = phase[x] /\ answer'[x] = answer[x]
  BY DEF Answer, Accept, Move, serving, counts, Inv, TypeOK
<1>2. /\ \A w \in Workers : job[w].asked # r
      /\ At(r, "idle") /\ applied[r] = 0
      /\ \A x \in Requests : Live(x)' <=> Live(x)
  <2>1. \A w \in Workers : job[w].asked # r
    BY DEF Answer, Undisturbed, AskerAtWork, Inv, TypeOK
  <2>2. At(r, "idle") /\ applied[r] = 0
    BY <1>1, AppliedOnce DEF Inv, Claimed
  <2> QED BY <1>1, <2>1, <2>2 DEF Live
<1>3. Claimed'
  BY <1>1, <1>2 DEF Inv, Claimed, At
<1>4. InHand'
  BY <1>1, <1>2 DEF Inv, InHand, At, RunOf, TypeOK
<1>5. OneLive'
  BY <1>1, <1>2 DEF Inv, OneLive, At
<1>6. Loaded'
  BY <1>1 DEF Inv, Loaded, Unsaved, At, RunOf
<1>7. Results'
  BY <1>1, <1>2 DEF Inv, Results, At
<1>8. Refused'
  BY <1>1, <1>2 DEF Inv, Refused, At
<1>9. ActedOn'
  BY <1>1, <1>2 DEF Inv, ActedOn, At
<1> QED BY <1>3, <1>4, <1>5, <1>6, <1>7, <1>8, <1>9 DEF Inv

\* A claim finds the request without a job.
LEMMA StartResumeKeeps ==
    ASSUME Inv, TypeOK', NEW r \in Requests, StartResume(r), server = "up", server' = "up",
           UNCHANGED <<situation, saved, runOf, applied, finals>>
    PROVE  Inv'
<1>1. /\ UNCHANGED answer
      /\ phase[r] \in {"answered", "retry"} /\ phase'[r] = "resuming"
      /\ \A x \in Requests : x # r => phase'[x] = phase[x]
  BY DEF StartResume, Claim, Move, Inv, TypeOK
<1>2. /\ job'[r].stage = "load" /\ job'[r].asked = None
      /\ \A w \in Workers : w # r => job'[w] = job[w]
  <2>1. job' = [job EXCEPT ![r] = Job("load", None, "none", FALSE)]
    BY DEF StartResume
  <2> QED BY <2>1 DEF Job, Inv, TypeOK, Workers
<1>3. /\ job[r].stage = "idle" /\ job[r].asked = None
      /\ \A w \in Workers : job[w].asked # r
      /\ \A x \in Requests : Live(x)' <=> Live(x)
      /\ r \in Workers
  BY <1>1, AsksNothing DEF Inv, Claimed, InHand, At, Live, Workers
<1>4. \A w \in Workers : job'[w].asked = job[w].asked
  BY <1>2, <1>3
<1>5. Claimed'
  BY <1>1, <1>2, <1>3 DEF Inv, Claimed, At, Workers
<1>6. InHand'
  BY <1>1, <1>2, <1>3, <1>4 DEF Inv, InHand, At, RunOf, TypeOK
<1>7. OneLive'
  BY <1>1, <1>2, <1>3, <1>4 DEF Inv, OneLive, At, Workers
<1>8. Loaded'
  BY <1>1, <1>2 DEF Inv, Loaded, Unsaved, At, RunOf
<1>9. Results'
  BY <1>1, <1>2, <1>3 DEF Inv, Results, At, Workers
<1>10. Refused'
  BY <1>1, <1>2, <1>3 DEF Inv, Refused, Workers
<1>11. ActedOn'
  BY <1>1, <1>2, <1>3 DEF Inv, ActedOn, At, Workers
<1> QED BY <1>5, <1>6, <1>7, <1>8, <1>9, <1>10, <1>11 DEF Inv

-----------------------------------------------------------------------------
(* Asking                                                                  *)

\* Whoever asks is alone on its run, and nothing else of it is live.
LEMMA AskHumanKeeps ==
    ASSUME Inv, TypeOK', NEW w \in Workers, NEW q \in Requests, AskHuman(w, q)
    PROVE  Inv'
<1>1. /\ UNCHANGED <<situation, answer, saved, server, reconciling, applied, finals>>
      /\ phase[q] = "absent" /\ phase'[q] = "open"
      /\ \A x \in Requests : x # q => phase'[x] = phase[x] /\ runOf'[x] = runOf[x]
      /\ runOf[q] = None /\ runOf'[q] = RunOf(w)
      /\ situation.chained \/ w \in Runs
  BY DEF AskHuman, Goes, Ask, Move, serving, Inv, TypeOK
<1>2. /\ job[w].stage = "generate" /\ job[w].asked = None
      /\ job'[w].stage = "deliver" /\ job'[w].asked = q
      /\ \A x \in Workers : x # w => job'[x] = job[x]
  <2>1. job' = [job EXCEPT ![w] = Job("deliver", q, "none", FALSE)] /\ job[w].stage = "generate"
    BY DEF AskHuman, Goes, At
  <2> QED BY <2>1, AsksNothing DEF Job, Inv, TypeOK
<1>3. /\ server = "up" /\ (w \in Requests => phase[w] = "resuming") /\ w # q
      /\ RunOf(w) \in Runs
  BY <1>1, <1>2, Up, RunOfTyped DEF At, Inv
<1>4. /\ job[q].stage = "idle" /\ job[q].asked = None /\ applied[q] = 0
      /\ \A x \in Workers : job[x].asked # q
  BY <1>1, AppliedOnce, AsksNothing DEF Inv, Claimed, InHand, At, Workers
<1>5. /\ \A x \in Requests : x # q => (Live(x)' <=> Live(x))
      /\ ~Live(q) /\ Live(q)'
      /\ \A x \in Workers : x # q => RunOf(x)' = RunOf(x)
  BY <1>1, <1>4 DEF Live, RunOf, Workers
<1>6. Claimed'
  BY <1>1, <1>2, <1>3, <1>4 DEF Inv, Claimed, At, Workers
<1>7. InHand'
  <2>1. ASSUME NEW x \in Workers, x # w, job[x].asked # None
        PROVE  /\ job[x].asked \in Requests /\ job[x].asked # q /\ x # q
               /\ runOf'[job[x].asked] = RunOf(x)' /\ phase'[job[x].asked] = "open"
    BY <1>1, <1>4, <1>5, <2>1, JobOf DEF Inv, InHand
  <2> QED BY <1>1, <1>2, <1>3, <1>4, <1>5, <2>1 DEF Inv, InHand, At
<1>8. ASSUME NEW x \in Requests, Live(x), runOf[x] = RunOf(w), x # w
      PROVE  FALSE
  <2>1. CASE w \in Runs
    BY <1>2, <1>8, <2>1 DEF Inv, OneLive, RunOf, At
  <2>2. CASE w \in Requests /\ w \notin Runs
    <3>1. Live(w)
      BY <1>2, <1>3, <2>2 DEF Inv, Loaded, Unsaved, Live
    <3>2. job[w].asked = x \/ job[x].asked = w
      BY <1>8, <2>2, <3>1 DEF Inv, OneLive, RunOf
    <3>3. job[x].asked # w
      BY <1>3, <2>2 DEF Inv, InHand, Workers
    <3> QED BY <1>2, <3>2, <3>3
  <2> QED BY <2>1, <2>2 DEF Workers
<1>9. ASSUME NEW u \in Runs, u = RunOf(w), u # w
      PROVE  job[u].stage = "idle"
  <2>1. w \in Requests /\ runOf[w] = u /\ Live(w)
    BY <1>2, <1>3, <1>9 DEF Inv, Loaded, Unsaved, Live, RunOf, Workers
  <2>2. job[u].asked # w
    BY <1>3, <2>1 DEF Inv, InHand, Workers
  <2> QED BY <2>1, <2>2 DEF Inv, OneLive, At
<1>10. OneLive'
  <2>1. ASSUME NEW u \in Runs, NEW x \in Requests
        PROVE  /\ At(u, "generate")' => runOf'[x] # u
               /\ ~At(u, "idle")' /\ runOf'[x] = u /\ Live(x)' => job'[u].asked = x
    <3>1. CASE x = q
      BY <1>1, <1>2, <1>9, <2>1, <3>1 DEF At, Workers
    <3>2. CASE x # q /\ u # w
      BY <1>1, <1>2, <1>5, <2>1, <3>2 DEF Inv, OneLive, At, Workers
    <3>3. CASE x # q /\ u = w
      BY <1>1, <1>2, <1>5, <1>8, <2>1, <3>3 DEF Inv, OneLive, At, RunOf
    <3> QED BY <3>1, <3>2, <3>3
  <2>2. ASSUME NEW x \in Requests, NEW y \in Requests,
               Live(x)', Live(y)', runOf'[x] = runOf'[y], x # y
        PROVE  job'[x].asked = y \/ job'[y].asked = x
    <3>1. CASE x # q /\ y # q
      BY <1>1, <1>2, <1>5, <2>2, <3>1 DEF Inv, OneLive, Workers
    <3>2. CASE x = q
      BY <1>1, <1>2, <1>5, <1>8, <2>2, <3>2
    <3>3. CASE y = q
      BY <1>1, <1>2, <1>5, <1>8, <2>2, <3>3
    <3> QED BY <3>1, <3>2, <3>3
  <2> QED BY <2>1, <2>2 DEF OneLive
<1>11. Loaded'
  BY <1>1, <1>2, <1>4, <1>5 DEF Inv, Loaded, Unsaved, At, Workers
<1>12. saved[RunOf(w)] \notin Closed
  BY <1>2 DEF Inv, Loaded, Unsaved, At, Closed
<1>13. Results'
  BY <1>1, <1>2, <1>3, <1>4, <1>5, <1>12 DEF Inv, Results, At, Workers
<1>14. Refused'
  BY <1>1, <1>2, <1>4 DEF Inv, Refused, Claimed, Workers
<1>15. ActedOn'
  BY <1>1, <1>2, <1>5 DEF Inv, ActedOn, At, Workers
<1> QED BY <1>6, <1>7, <1>10, <1>11, <1>13, <1>14, <1>15 DEF Inv

\* A request that cannot be delivered is closed before its turn ends.
LEMMA DeliveryFailsKeeps ==
    ASSUME Inv, TypeOK', NEW w \in Workers, DeliveryFails(w)
    PROVE  Inv'
<1> PICK q \in Requests : q = job[w].asked
  BY JobOf DEF DeliveryFails, Inv, InHand, At
<1>1. /\ job[w].stage = "deliver" /\ job[w].asked = q /\ phase[q] = "open"
      /\ applied[q] = 0 /\ runOf[q] = RunOf(w) /\ (w \in Runs \/ situation.chained)
  BY DEF DeliveryFails, Inv, InHand, At
<1>2. /\ UNCHANGED <<situation, answer, saved, runOf, server, reconciling, applied, finals>>
      /\ phase'[q] = "undeliverable"
      /\ \A x \in Requests : x # q => phase'[x] = phase[x]
  BY <1>1 DEF DeliveryFails, Goes, Close, Move, serving, Inv, TypeOK
<1>3. /\ job'[w].asked = None
      /\ w \in Runs => job'[w].stage = "truncate" /\ job'[w].status = "failed"
      /\ w \notin Runs => job'[w].stage = "fail"
      /\ \A x \in Workers : x # w => job'[x] = job[x]
  <2>1. job' = [job EXCEPT ![w] = Broken(w)]
    BY DEF DeliveryFails, Goes
  <2>2. job \in [Workers -> Jobs]
    BY DEF Inv, TypeOK, Jobs
  <2> QED BY <2>1, <2>2, BrokenTyped
<1>4. /\ server = "up" /\ (w \in Requests => phase[w] = "resuming") /\ w # q
      /\ RunOf(w) \in Runs
  BY <1>1, Up, RunOfTyped DEF At, Inv
<1>5. \A x \in Workers : x # w => job[x].asked # q
  BY <1>1, OneAsker DEF Inv
<1>6. job[q].stage = "idle" /\ q \in Workers
  BY <1>1 DEF Inv, Claimed, At, Workers
<1>7. /\ \A x \in Requests : x # q => (Live(x)' <=> Live(x))
      /\ Live(q) /\ ~Live(q)'
      /\ \A x \in Workers : RunOf(x)' = RunOf(x)
  BY <1>1, <1>2 DEF Live, RunOf
<1>8. Claimed'
  BY <1>1, <1>2, <1>3, <1>4, <1>6 DEF Inv, Claimed, At, Workers
<1>9. InHand'
  <2>1. ASSUME NEW x \in Workers, x # w, job[x].asked # None
        PROVE  /\ job[x].asked \in Requests
               /\ runOf'[job[x].asked] = RunOf(x)' /\ phase'[job[x].asked] = "open"
    BY <1>2, <1>5, <1>7, <2>1, JobOf DEF Inv, InHand
  <2> QED BY <1>1, <1>2, <1>3, <1>4, <1>7, <2>1 DEF Inv, InHand, At, Workers, Closed
<1>10. OneLive'
  <2>1. ASSUME NEW u \in Runs, NEW x \in Requests
        PROVE  /\ At(u, "generate")' => runOf'[x] # u
               /\ ~At(u, "idle")' /\ runOf'[x] = u /\ Live(x)' => job'[u].asked = x
    <3>1. CASE u = w
      BY <1>1, <1>2, <1>3, <1>7, <2>1, <3>1 DEF Inv, OneLive, At
    <3>2. CASE u # w
      BY <1>1, <1>2, <1>3, <1>7, <2>1, <3>2 DEF Inv, OneLive, At, Workers
    <3> QED BY <3>1, <3>2
  <2>2. ASSUME NEW x \in Requests, NEW y \in Requests,
               Live(x)', Live(y)', runOf'[x] = runOf'[y], x # y
        PROVE  job'[x].asked = y \/ job'[y].asked = x
    <3>1. x # q /\ y # q
      BY <1>7, <2>2
    <3> QED BY <1>1, <1>2, <1>3, <1>7, <2>2, <3>1 DEF Inv, OneLive, Workers
  <2> QED BY <2>1, <2>2 DEF OneLive
<1>11. Loaded'
  BY <1>1, <1>2, <1>3, <1>7 DEF Inv, Loaded, Unsaved, At, Workers
<1>12. Results'
  BY <1>1, <1>2, <1>3, <1>6, <1>7 DEF Inv, Results, At, Workers
<1>13. Refused'
  BY <1>1, <1>2, <1>3 DEF Inv, Refused, Workers
<1>14. ActedOn'
  BY <1>1, <1>2, <1>3 DEF Inv, ActedOn, At, Workers
<1> QED BY <1>8, <1>9, <1>10, <1>11, <1>12, <1>13, <1>14 DEF Inv

-----------------------------------------------------------------------------
(* Saving                                                                  *)

LEMMA TruncateKeeps ==
    ASSUME Inv, TypeOK', NEW w \in Workers, Truncate(w)
    PROVE  Inv'
<1> PICK u \in Runs : u = RunOf(w)
  BY RunOfTyped DEF Inv, Truncate, At
<1>1. /\ UNCHANGED <<situation, phase, answer, runOf, server, reconciling, applied, finals>>
      /\ saved'[u] = "torn" /\ \A v \in Runs : v # u => saved'[v] = saved[v]
      /\ job[w].stage = "truncate"
  BY DEF Truncate, store, serving, Inv, TypeOK, At
<1>2. /\ job'[w].stage = "write" /\ job'[w].asked = job[w].asked
      /\ job'[w].status = job[w].status /\ job'[w].final = job[w].final
      /\ \A x \in Workers : x # w => job'[x] = job[x]
  <2>1. job' = [job EXCEPT ![w].stage = "write"]
    BY DEF Truncate
  <2> QED BY <2>1, JobOf DEF Inv, TypeOK
<1>3. /\ server = "up" /\ (w \in Requests => phase[w] = "resuming")
      /\ saved[u] \notin Closed
  BY <1>1, Up DEF At, Inv, Loaded, Unsaved, Closed
<1>4. /\ \A x \in Requests : Live(x)' <=> Live(x)
      /\ \A x \in Workers : RunOf(x)' = RunOf(x)
      /\ \A x \in Workers : job'[x].asked = job[x].asked
  BY <1>1, <1>2 DEF Live, RunOf
<1>5. \A x \in Workers : Unsaved(x) /\ x # w => RunOf(x) # u
  BY <1>1, OneAtWork DEF Unsaved
<1>6. \A x \in Workers : Unsaved(x) => RunOf(x) \in Runs
  BY RunOfTyped DEF Unsaved, At, Inv
<1>7. Claimed'
  BY <1>1, <1>2, <1>3 DEF Inv, Claimed, At, Workers
<1>8. InHand'
  BY <1>1, <1>2, <1>4 DEF Inv, InHand, At
<1>9. OneLive'
  BY <1>1, <1>2, <1>4 DEF Inv, OneLive, At, Workers
<1>10. Loaded'
  <2>1. ASSUME NEW x \in Workers, Unsaved(x)', x # w
        PROVE  saved'[RunOf(x)] = saved[RunOf(x)] /\ Unsaved(x)
    BY <1>1, <1>2, <1>5, <1>6, <2>1 DEF Unsaved
  <2>2. w \in Requests => applied[w] = 0
    BY <1>1 DEF Inv, Loaded, Unsaved
  <2> QED BY <1>1, <1>2, <1>4, <2>1, <2>2 DEF Inv, Loaded, At
<1>11. \A r \in Requests : runOf[r] \in Runs \cup {None}
  BY DEF Inv, TypeOK
<1>12. \A r \in Requests : applied[r] > 0 => runOf[r] \in Runs
  BY DEF Inv, TypeOK, Claimed
<1>13. \A v \in Runs : saved'[v] \in Closed <=> saved[v] \in Closed
  BY <1>1, <1>3 DEF Closed
<1>14. Results'
  BY <1>1, <1>2, <1>4, <1>11, <1>12, <1>13 DEF Inv, Results, At, Workers
<1>15. Refused'
  BY <1>1, <1>2, <1>3, <1>12 DEF Inv, Refused, Closed, Workers
<1>16. ActedOn'
  BY <1>1, <1>2, <1>4 DEF Inv, ActedOn, At, Workers
<1> QED BY <1>7, <1>8, <1>9, <1>10, <1>14, <1>15, <1>16 DEF Inv

\* What is saved closes the run, or leaves it waiting for the request just asked.
LEMMA WriteKeeps ==
    ASSUME Inv, TypeOK', NEW w \in Workers, Write(w)
    PROVE  Inv'
<1> PICK u \in Runs : u = RunOf(w)
  BY RunOfTyped DEF Inv, Write, At
<1>1. /\ UNCHANGED <<situation, phase, answer, runOf, server, reconciling, finals>>
      /\ saved'[u] = job[w].status /\ \A v \in Runs : v # u => saved'[v] = saved[v]
      /\ job[w].stage = "write" /\ saved[u] = "torn"
  BY DEF Write, store, serving, Inv, TypeOK, Loaded, Unsaved, At
<1>2. /\ \A x \in Workers : x # w => job'[x] = job[x]
      /\ w \in Runs => job'[w].stage = "idle"
      /\ w \notin Runs => job'[w].stage = IF job[w].final THEN "emit" ELSE "finish"
      /\ job'[w].asked = None
  <2>1. job' = [job EXCEPT ![w] = AfterSave(w)]
    BY DEF Write
  <2> QED BY <2>1, NoJobTyped DEF AfterSave, Job, Inv, TypeOK
<1>3. /\ \A x \in Requests : x # w => applied'[x] = applied[x]
      /\ w \in Requests => applied[w] = 0 /\ applied'[w] = 1
  <2>1. w \in Requests => applied[w] = 0
    BY <1>1 DEF Inv, Loaded, Unsaved
  <2>2. applied' = IF w \in Requests THEN [applied EXCEPT ![w] = applied[w] + 1] ELSE applied
    BY DEF Write
  <2> QED BY <2>1, <2>2 DEF Inv, TypeOK
<1>4. /\ server = "up" /\ (w \in Requests => phase[w] = "resuming")
  BY <1>1, Up DEF At
<1>5. /\ \A x \in Requests : x # w => (Live(x)' <=> Live(x))
      /\ w \in Requests => Live(w) /\ ~Live(w)'
      /\ \A x \in Workers : RunOf(x)' = RunOf(x)
  BY <1>1, <1>3, <1>4 DEF Live, RunOf
<1>6. /\ \A x \in Workers : job[x].asked # w
  BY <1>4, JobOf DEF Inv, InHand, Workers
<1>7. \A x \in Workers : Unsaved(x) /\ x # w => RunOf(x) # u /\ RunOf(x) \in Runs
  BY <1>1, OneAtWork, RunOfTyped DEF Unsaved, At, Inv
<1>8. ASSUME NEW x \in Requests, Live(x), runOf[x] = u, x # w
      PROVE  job[w].asked = x
  <2>1. CASE w \in Runs
    BY <1>1, <1>8, <2>1 DEF Inv, OneLive, RunOf, At
  <2>2. CASE w \in Requests /\ w \notin Runs
    BY <1>5, <1>6, <1>8, <2>2 DEF Inv, OneLive, RunOf, Workers
  <2> QED BY <2>1, <2>2 DEF Workers
<1>9. IF job[w].asked = None THEN job[w].status \in Closed
      ELSE /\ job[w].asked \in Requests /\ job[w].status = "waiting" /\ ~job[w].final
           /\ (w \in Runs \/ situation.chained)
           /\ runOf[job[w].asked] = u /\ Live(job[w].asked) /\ job[w].asked # w
  BY <1>1, <1>6, JobOf DEF Inv, InHand, Live
<1>10. Claimed'
  <2>1. ASSUME NEW r \in Requests
        PROVE  applied'[r] > 0 => phase[r] \in {"resuming", "retry", "done"}
    BY <1>3, <1>4 DEF Inv, Claimed
  <2> QED BY <1>1, <1>2, <1>4, <2>1 DEF Inv, Claimed, At, Workers
<1>11. InHand'
  <2>1. \A x \in Workers : job[x].asked # None =>
           applied'[job[x].asked] = applied[job[x].asked]
    BY <1>3, <1>6, JobOf DEF Inv
  <2> QED BY <1>1, <1>2, <1>5, <2>1 DEF Inv, InHand, At, Workers
<1>12. OneLive'
  <2>1. ASSUME NEW v \in Runs, NEW x \in Requests
        PROVE  /\ At(v, "generate")' => runOf'[x] # v
               /\ ~At(v, "idle")' /\ runOf'[x] = v /\ Live(x)' => job'[v].asked = x
    BY <1>1, <1>2, <1>5, <2>1 DEF Inv, OneLive, At, Workers
  <2>2. ASSUME NEW x \in Requests, NEW y \in Requests,
               Live(x)', Live(y)', runOf'[x] = runOf'[y], x # y
        PROVE  job'[x].asked = y \/ job'[y].asked = x
    <3>1. x # w /\ y # w
      BY <1>5, <2>2
    <3> QED BY <1>1, <1>2, <1>5, <2>2, <3>1 DEF Inv, OneLive, Workers
  <2> QED BY <2>1, <2>2 DEF OneLive
<1>13. Loaded'
  <2>1. ASSUME NEW x \in Workers, Unsaved(x)'
        PROVE  /\ x # w /\ job'[x] = job[x] /\ Unsaved(x)
               /\ saved'[RunOf(x)] = saved[RunOf(x)]
               /\ x \in Requests => applied'[x] = applied[x]
    <3>1. x # w
      BY <1>2, <2>1 DEF Unsaved
    <3> QED BY <1>1, <1>2, <1>3, <1>7, <2>1, <3>1 DEF Unsaved
  <2> QED BY <1>5, <2>1 DEF Inv, Loaded, At
<1>14. \A r \in Requests : runOf[r] \in Runs \cup {None}
  BY DEF Inv, TypeOK
<1>15. \A v \in Runs : saved[v] \in Closed => v # u /\ saved'[v] = saved[v]
  BY <1>1 DEF Closed
<1>16. \A r \in Requests :
          r # w /\ runOf[r] # None /\ saved'[runOf[r]] \in Closed => ~Live(r)
  <2>1. ASSUME NEW r \in Requests, r # w, runOf[r] # None, saved'[runOf[r]] \in Closed, Live(r)
        PROVE  FALSE
    <3>1. runOf[r] = u
      BY <1>1, <1>14, <2>1 DEF Inv, Results
    <3>2. job[w].asked = r
      BY <1>8, <2>1, <3>1
    <3> QED BY <1>1, <1>9, <2>1, <3>1, <3>2 DEF Closed
  <2> QED BY <2>1
<1>17. w \in Requests => runOf[w] = u /\ w \notin Runs
  BY DEF RunOf
<1>18. \A r \in Requests : applied[r] > 0 => runOf[r] \in Runs
  BY DEF Inv, TypeOK, Claimed
<1>19. Results'
  <2>1. ASSUME NEW r \in Requests
        PROVE  /\ runOf'[r] # None /\ saved'[runOf'[r]] \in Closed => ~Live(r)'
               /\ applied'[r] <= 1
               /\ applied'[r] > 0 =>
                     \/ saved'[runOf'[r]] \in Closed
                     \/ situation'.chained /\ (phase'[r] = "done" \/ At(r, "finish")')
               /\ At(r, "emit")' =>
                     saved'[runOf'[r]] \in Closed /\ applied'[r] = 1 /\ finals'[runOf'[r]] = 0
    <3>1. CASE r = w
      <4>1. finals[u] # 1 /\ finals[u] <= 1 /\ finals[u] \in Nat
        BY <1>1 DEF Inv, Results, Closed, TypeOK
      <4>2. finals[u] = 0
        BY <4>1
      <4> QED BY <1>1, <1>2, <1>3, <1>5, <1>9, <1>17, <2>1, <3>1, <4>2 DEF At, Closed
    <3>2. CASE r # w
      <4>1. applied'[r] = applied[r] /\ job'[r] = job[r] /\ (Live(r)' <=> Live(r))
        BY <1>2, <1>3, <1>5, <3>2 DEF Workers
      <4>2. applied[r] > 0 =>
               \/ saved'[runOf[r]] \in Closed
               \/ situation.chained /\ (phase[r] = "done" \/ At(r, "finish"))
        BY <1>15, <1>18, <2>1 DEF Inv, Results
      <4>3. At(r, "emit") => saved'[runOf[r]] \in Closed /\ applied[r] = 1 /\ finals[runOf[r]] = 0
        BY <1>15, <1>18, <2>1 DEF Inv, Results
      <4> QED BY <1>1, <1>16, <2>1, <3>2, <4>1, <4>2, <4>3 DEF Inv, Results, At
    <3> QED BY <3>1, <3>2
  <2>2. ASSUME NEW x \in Requests, NEW y \in Requests, At(x, "emit")', At(y, "emit")',
               runOf'[x] = runOf'[y]
        PROVE  x = y
    <3>1. \A r \in Requests : At(r, "emit") => runOf[r] # u
      BY <1>15, <1>18 DEF Inv, Results
    <3> QED BY <1>1, <1>2, <1>17, <2>2, <3>1 DEF Inv, Results, At, Workers
  <2>3. ASSUME NEW v \in Runs
        PROVE  finals'[v] <= 1 /\ (finals'[v] = 1 => saved'[v] \in Closed)
    BY <1>1, <1>15, <2>3 DEF Inv, Results
  <2> QED BY <2>1, <2>2, <2>3 DEF Results
<1>20. Refused'
  <2>1. ASSUME NEW r \in Requests, answer[r] \in Refusals, applied'[r] > 0
        PROVE  saved'[runOf[r]] = "failed"
    <3>1. CASE r = w
      BY <1>1, <1>17, <2>1, <3>1 DEF Inv, Refused
    <3>2. CASE r # w
      <4>1. applied[r] > 0 /\ runOf[r] \in Runs /\ saved[runOf[r]] = "failed"
        BY <1>3, <1>18, <2>1, <3>2 DEF Inv, Refused
      <4> QED BY <1>15, <4>1 DEF Closed
    <3> QED BY <3>1, <3>2
  <2> QED BY <1>1, <1>2, <2>1 DEF Inv, Refused, Workers
<1>21. ActedOn'
  BY <1>1, <1>2, <1>3 DEF Inv, ActedOn, At, Workers
<1> QED BY <1>10, <1>11, <1>12, <1>13, <1>19, <1>20, <1>21 DEF Inv

-----------------------------------------------------------------------------
(* Ending a resume                                                         *)

LEMMA EmitKeeps ==
    ASSUME Inv, TypeOK', NEW r \in Requests, Emit(r)
    PROVE  Inv'
<1> PICK u \in Runs : u = runOf[r]
  BY RunOfTyped DEF Inv, Emit, At, RunOf, Workers
<1>1. /\ UNCHANGED <<situation, phase, answer, saved, runOf, server, reconciling, applied>>
      /\ job[r].stage = "emit" /\ job[r].asked = None /\ r \in Workers /\ r \notin Runs
  BY AsksNothing DEF Emit, store, serving, At, Workers
<1>2. /\ saved[u] \in Closed /\ applied[r] = 1 /\ finals[u] = 0
      /\ server = "up" /\ phase[r] = "resuming"
      /\ \A x \in Requests : At(x, "emit") /\ runOf[x] = u => x = r
  BY <1>1, Up DEF Inv, Results, At
<1>3. finals'[u] = 1 /\ \A v \in Runs : v # u => finals'[v] = finals[v]
  <2>1. finals' = [finals EXCEPT ![u] = finals[u] + 1]
    BY DEF Emit
  <2> QED BY <1>2, <2>1 DEF Inv, TypeOK
<1>4. /\ job'[r].stage = "finish" /\ job'[r].asked = None
      /\ \A x \in Workers : x # r => job'[x] = job[x]
  BY <1>1 DEF Emit, Job, Inv, TypeOK
<1>5. /\ \A x \in Requests : Live(x)' <=> Live(x)
      /\ \A x \in Workers : RunOf(x)' = RunOf(x)
      /\ \A x \in Workers : job'[x].asked = job[x].asked
  BY <1>1, <1>4 DEF Live, RunOf
<1>6. Claimed'
  BY <1>1, <1>2, <1>4 DEF Inv, Claimed, At, Workers
<1>7. InHand'
  BY <1>1, <1>4, <1>5 DEF Inv, InHand, At
<1>8. OneLive'
  BY <1>1, <1>4, <1>5 DEF Inv, OneLive, At, Workers
<1>9. Loaded'
  BY <1>1, <1>4, <1>5 DEF Inv, Loaded, Unsaved, At
<1>10. Results'
  <2>1. ASSUME NEW x \in Requests
        PROVE  At(x, "emit")' => At(x, "emit") /\ x # r /\ runOf[x] # u /\ runOf[x] \in Runs
    <3>1. At(x, "emit") => applied[x] = 1 /\ runOf[x] # None
      <4>1. At(x, "emit") => applied[x] = 1 /\ phase[x] = "resuming"
        BY <2>1 DEF Inv, Results, Claimed, At, Workers
      <4> QED BY <4>1 DEF Inv, TypeOK
    <3> QED BY <1>2, <1>4, <2>1, <3>1 DEF At, Workers, Inv, TypeOK
  <2>2. \A x \in Requests : At(x, "finish") => At(x, "finish")'
    BY <1>1, <1>4 DEF At, Workers
  <2> QED BY <1>1, <1>2, <1>3, <1>5, <2>1, <2>2 DEF Inv, Results
<1>11. Refused'
  BY <1>1, <1>4 DEF Inv, Refused, Workers
<1>12. ActedOn'
  BY <1>1, <1>2, <1>4, <1>5 DEF Inv, ActedOn, At, Workers
<1> QED BY <1>6, <1>7, <1>8, <1>9, <1>10, <1>11, <1>12 DEF Inv

\* A resume that failed to save anything leaves its answer to a retry.
LEMMA EndResumeKeeps ==
    ASSUME Inv, TypeOK', NEW r \in Requests, EndResume(r)
    PROVE  Inv'
<1>1. /\ UNCHANGED <<situation, answer, saved, runOf, server, applied, finals>>
      /\ job[r].stage \in {"finish", "fail"} /\ phase[r] = "resuming"
      /\ phase'[r] = IF job[r].stage = "finish" THEN "done" ELSE "retry"
      /\ \A x \in Requests : x # r => phase'[x] = phase[x]
  BY DEF EndResume, Finish, GiveUp, Move, At, serving, counts, Inv, TypeOK
<1>2. /\ job[r].asked = None /\ r \in Workers /\ r \notin Runs /\ server = "up"
      /\ \A x \in Workers : job[x].asked # r
  BY <1>1, AsksNothing, Up DEF At, Workers, Inv, InHand
<1>3. /\ job'[r].stage = "idle" /\ job'[r].asked = None
      /\ \A x \in Workers : x # r => job'[x] = job[x]
  BY <1>2, NoJobTyped DEF EndResume, Inv, TypeOK
<1>4. /\ \A x \in Requests : Live(x)' => Live(x)
      /\ \A x \in Requests : Live(x) /\ (x = r => job[r].stage = "fail") => Live(x)'
      /\ \A x \in Workers : RunOf(x)' = RunOf(x)
      /\ \A x \in Workers : job'[x].asked = job[x].asked
  BY <1>1, <1>2, <1>3 DEF Live, RunOf
<1>5. Claimed'
  BY <1>1, <1>2, <1>3 DEF Inv, Claimed, At, Workers
<1>6. InHand'
  <2>1. ASSUME NEW x \in Workers, x # r, job[x].asked # None
        PROVE  phase'[job[x].asked] = "open"
    BY <1>1, <1>2, <2>1, JobOf DEF Inv, InHand
  <2> QED BY <1>1, <1>2, <1>3, <1>4, <2>1 DEF Inv, InHand, At
<1>7. OneLive'
  BY <1>1, <1>2, <1>3, <1>4 DEF Inv, OneLive, At, Workers
<1>8. Loaded'
  BY <1>1, <1>3, <1>4 DEF Inv, Loaded, Unsaved, At
<1>9. Results'
  BY <1>1, <1>2, <1>3, <1>4 DEF Inv, Results, At, Workers
<1>10. Refused'
  BY <1>1, <1>2, <1>3 DEF Inv, Refused, Workers
<1>11. ActedOn'
  BY <1>1, <1>2, <1>3 DEF Inv, ActedOn, At, Workers
<1> QED BY <1>5, <1>6, <1>7, <1>8, <1>9, <1>10, <1>11 DEF Inv

-----------------------------------------------------------------------------
LEMMA InitInv == Init => Inv
<1> SUFFICES ASSUME Init PROVE Inv
  OBVIOUS
<1>1. TypeOK
  BY TypeInit
<1>2. /\ \A w \in Workers : job[w].stage = "idle" /\ job[w].asked = None
      /\ \A r \in Requests : phase[r] = "absent" /\ answer[r] = None /\ runOf[r] = None
                             /\ applied[r] = 0
      /\ \A u \in Runs : saved[u] = "none" /\ finals[u] = 0
      /\ server = "down" /\ reconciling = None /\ backlog = {}
      /\ \A r \in Requests : callers[r] = 0
  BY NoJobTyped DEF Init, LInit
<1>3. \A r \in Requests : answer[r] \notin Refusals /\ r \in Workers
  BY <1>2 DEF Workers
<1>4. Claimed /\ InHand
  BY <1>2, <1>3 DEF Claimed, InHand, At
<1>5. OneLive /\ Loaded
  BY <1>2, <1>3 DEF OneLive, Loaded, Live, Unsaved, At, Workers
<1>6. Results /\ Refused /\ ActedOn
  BY <1>2, <1>3 DEF Results, Refused, ActedOn, Live, At, Closed, Workers
<1> QED BY <1>1, <1>4, <1>5, <1>6 DEF Inv

LEMMA StepInv ==
    ASSUME Undisturbed, Inv, [Next]_vars
    PROVE  Inv'
<1>1. TypeOK'
  BY TypeStep DEF Inv
<1>2. ASSUME NEW r \in Requests, Human(r)
      PROVE  Inv'
  BY <1>1, <1>2, AnswerKeeps, CallersKeep DEF Human
<1>3. ASSUME NEW r \in Requests, CallerClaims(r)
      PROVE  Inv'
  <2>1. CASE StartResume(r)
    <3>1. server = "up" /\ server' = "up"
      BY <1>3 DEF CallerClaims, serving, Inv, Claimed, TypeOK
    <3> QED BY <1>1, <1>3, <2>1, <3>1, StartResumeKeeps DEF CallerClaims
  <2>2. CASE NoResume(r)
    BY <1>1, <1>3, <2>2, CallersKeep
  <2> QED BY <1>3, <2>1, <2>2 DEF CallerClaims
<1>4. ASSUME NEW r \in Requests, Reconcile(r)
      PROVE  Inv'
  <2>1. CASE StartResume(r)
    <3>1. server = "up" /\ server' = "up"
      BY <1>4 DEF Reconcile, Inv, Claimed, TypeOK
    <3> QED BY <1>1, <1>4, <2>1, <3>1, StartResumeKeeps DEF Reconcile
  <2>2. CASE NoResume(r) /\ UNCHANGED reconciling
    BY <1>1, <1>4, <2>2, CallersKeep
  <2> QED BY <1>4, <2>1, <2>2 DEF Reconcile
<1>5. ASSUME NEW r \in Requests, Load(r) \/ TimeOut(r) \/ Emit(r) \/ EndResume(r) \/ Recover(r)
      PROVE  Inv'
  BY <1>1, <1>5, LoadKeeps, TimeOutKeeps, EmitKeeps, EndResumeKeeps, RecoverKeeps
<1>6. ASSUME NEW w \in Workers, Work(w)
      PROVE  Inv'
  BY <1>1, <1>6, ConcludeKeeps, AskHumanKeeps, DeliveredKeeps, TruncateKeeps, WriteKeeps DEF Work
<1>7. ASSUME NEW w \in Workers, Fails(w)
      PROVE  Inv'
  BY <1>1, <1>7, ModelFailsKeeps, DeliveryFailsKeeps DEF Fails
<1>8. ASSUME NEW u \in Runs, StartTurn(u)
      PROVE  Inv'
  BY <1>1, <1>8, StartTurnKeeps
<1>9. CASE Crash \/ Restart \/ Serve \/ ListResumable
  BY <1>1, <1>9, CrashKeeps, StartServerKeeps, CallersKeep
<1>10. CASE UNCHANGED vars
  <2>1. /\ UNCHANGED <<situation, phase, answer, saved, runOf, job, applied, finals>>
        /\ UNCHANGED <<server, callers, backlog, reconciling>>
    BY <1>10 DEF vars, store, serving
  <2>2. Claimed'
    BY <2>1 DEF Inv, Claimed, At
  <2> QED BY <1>1, <2>1, <2>2, QuietKeeps
<1> QED
  BY <1>2, <1>3, <1>4, <1>5, <1>6, <1>7, <1>8, <1>9, <1>10 DEF Next, ResumeWork

LEMMA InvHolds ==
    ASSUME Undisturbed
    PROVE  Spec => []Inv
BY InitInv, StepInv, PTL DEF Spec

\* No two workers act on one run at the same time: the turn that started it and
\* the resumes of its requests (RunAgent and resumeDirectHumanRequest, each in a
\* goroutine of its own) never overlap from the model call to the final message.
THEOREM RunHasOneWorker ==
    ASSUME Undisturbed
    PROVE  Spec => []OneWorkerPerRun
<1>1. ASSUME Inv PROVE OneWorkerPerRun
  <2> SUFFICES ASSUME NEW v \in Workers, NEW w \in Workers, RunOf(v) = RunOf(w),
                      ~At(v, "idle"), job[v].stage \notin {"load", "finish", "fail"},
                      ~At(w, "idle"), job[w].stage \notin {"load", "finish", "fail"}
               PROVE  v = w
    BY DEF OneWorkerPerRun, WorksOn
  <2>1. /\ Unsaved(v) \/ At(v, "emit")
        /\ Unsaved(w) \/ At(w, "emit")
    BY <1>1, JobOf DEF Inv, Unsaved, At, Stages
  <2>2. \A x \in Workers : At(x, "emit") => x \in Requests /\ RunOf(x) = runOf[x]
    BY <1>1 DEF Inv, InHand, At, RunOf
  <2>3. \A x \in Workers : Unsaved(x) => saved[RunOf(x)] \notin Closed
    BY <1>1 DEF Inv, Loaded, Closed
  <2>4. CASE Unsaved(v) /\ Unsaved(w)
    BY <1>1, <2>4, OneAtWork
  <2>5. CASE At(v, "emit") /\ At(w, "emit")
    BY <1>1, <2>2, <2>5 DEF Inv, Results
  <2>6. CASE At(v, "emit") /\ Unsaved(w)
    BY <1>1, <2>2, <2>3, <2>6 DEF Inv, Results
  <2>7. CASE Unsaved(v) /\ At(w, "emit")
    BY <1>1, <2>2, <2>3, <2>7 DEF Inv, Results
  <2> QED BY <2>1, <2>4, <2>5, <2>6, <2>7
<1> QED BY <1>1, InvHolds, PTL

\* A run that has ended is never rewritten: run.json is replaced only by a worker
\* that loaded it unfinished and is alone (SaveRun compares nothing).
THEOREM ClosedRunStays ==
    ASSUME Undisturbed
    PROVE  Spec => ClosedRunKept
<1>1. ASSUME Inv, [Next]_vars
      PROVE  [\A u \in Runs : saved[u] \in Closed => saved'[u] = saved[u]]_vars
  <2>1. ASSUME NEW w \in Workers, Truncate(w) \/ Write(w), NEW u \in Runs, saved[u] \in Closed
        PROVE  saved'[u] = saved[u]
    <3>1. Unsaved(w)
      BY <2>1 DEF Truncate, Write, Unsaved, At
    <3>2. saved[RunOf(w)] \notin Closed
      BY <1>1, <3>1 DEF Inv, Loaded, Closed
    <3> QED BY <1>1, <2>1, <3>2 DEF Truncate, Write, Inv, TypeOK
  <2>2. (\E w \in Workers : Truncate(w) \/ Write(w)) \/ UNCHANGED saved
    BY <1>1 DEF Next, Human, ResumeWork, Work, Fails, Answer, AnswerAgain, CallerClaims, Load,
                TimeOut, Emit, EndResume, Reconcile, Recover, Conclude, AskHuman, Delivered,
                ModelFails, DeliveryFails, StartTurn, Crash, Restart, Serve, ListResumable,
                Steps, Goes, vars
  <2> QED BY <2>1, <2>2
<1> QED BY <1>1, InvHolds, PTL DEF Spec, ClosedRunKept

\* With its agent still configured, an answer is saved into its run exactly once
\* before its request is done, a refusal fails the run, and the resumes of a run
\* deliver one final answer at most, of a closed run (resumeDirectHumanRequest,
\* CompleteResume and deliverResumeFinal, under retries, errors and crashes).
THEOREM AnswersTakeEffectOnce ==
    ASSUME Undisturbed, ~AgentsMayGo
    PROVE  Spec => []AnswerAppliedOnce
<1>1. ASSUME Inv PROVE AnswerAppliedOnce
  <2>1. ASSUME NEW r \in Requests
        PROVE  /\ applied[r] <= 1
               /\ phase[r] = "done" =>
                     /\ applied[r] = 1
                     /\ answer[r] \in Refusals => saved[runOf[r]] = "failed"
    BY <1>1 DEF Inv, Results, ActedOn, Refused
  <2> QED BY <1>1, <2>1 DEF Inv, Results, AnswerAppliedOnce
<1> QED BY <1>1, InvHolds, PTL

-----------------------------------------------------------------------------
(* Waiting for something, whatever crashes                                 *)

\* What a worker asks is open, unless it was answered meanwhile, and asked by no
\* other.
Asking ==
    /\ \A w \in Workers :
          /\ job[w].stage \in {"load", "emit", "finish", "fail"} => w \in Requests
          /\ job[w].asked # None =>
                /\ job[w].stage \in {"deliver", "truncate", "write"}
                /\ runOf[job[w].asked] = RunOf(w)
                /\ phase[job[w].asked] \notin {"absent", "undeliverable"}
                /\ phase[job[w].asked] = "open" \/ <<w, job[w].asked>> \in early
          /\ At(w, "deliver") => job[w].asked # None
          /\ job[w].stage \in {"truncate", "write"} =>
                IF job[w].asked # None THEN job[w].status = "waiting" ELSE job[w].status \in Closed
    /\ \A v, w \in Workers : job[v].asked # None /\ job[v].asked = job[w].asked => v = w

\* As long as the turn that started a run has not saved it, the resumes of the run
\* find nothing to go on with.
Alone(u) ==
    /\ saved[u] \in {"none", "torn"}
    /\ \A q \in Requests : runOf[q] = u =>
          job[q].stage \in {"idle", "load", "fail"} /\ phase[q] # "done"

FirstTurn == \A u \in Runs : ~At(u, "idle") => Alone(u)

\* An answer to r can be given, or will still change the run.
Pending(r) ==
    /\ phase[r] \in {"open", "answered", "resuming", "retry"}
    /\ job[r].stage \notin {"emit", "finish"}

Expecting ==
    \A u \in Runs : saved[u] = "waiting" /\ ~Overtaken(u) =>
        \E r \in Requests : runOf[r] = u /\ Pending(r)

PauseInv == TypeOK /\ Claimed /\ Asking /\ FirstTurn /\ Expecting

LEMMA PauseInit == Init => PauseInv
<1> SUFFICES ASSUME Init PROVE PauseInv
  OBVIOUS
<1>1. \A w \in Workers : job[w].stage = "idle" /\ job[w].asked = None
  BY NoJobTyped DEF Init
<1>2. /\ Claimed /\ Asking
  BY <1>1 DEF Init, LInit, Claimed, Asking, At, Workers
<1>3. FirstTurn /\ Expecting
  BY <1>1 DEF Init, FirstTurn, Expecting, At, Workers
<1> QED BY <1>2, <1>3, TypeInit DEF PauseInv

\* Steps of one worker that leave the requests alone and close nothing.
LEMMA JobMoves ==
    ASSUME PauseInv, TypeOK', NEW w \in Workers, NEW next \in Jobs, job' = [job EXCEPT ![w] = next],
           UNCHANGED <<phase, answer, runOf, server, callers, early, backlog, reconciling, applied>>,
           \A u \in Runs : saved'[u] = saved[u] \/ saved'[u] = "torn",
           server = "up", w \in Requests => phase[w] = "resuming",
           next.stage # "idle", next.asked \in {None, job[w].asked},
           next.stage \in {"load", "emit", "finish", "fail"} => w \in Requests,
           next.asked # None => next.stage \in {"deliver", "truncate", "write"},
           next.stage = "deliver" => next.asked # None,
           next.stage \in {"truncate", "write"} =>
               IF next.asked # None THEN next.status = "waiting" ELSE next.status \in Closed,
           w \in Runs => Alone(w),
           \/ w \notin Requests \/ next.stage \in {"load", "fail"}
           \/ job[w].stage \notin {"idle", "load", "fail"}
           \/ saved[RunOf(w)] \notin {"none", "torn"},
           next.stage \in {"emit", "finish"} =>
               job[w].stage \in {"emit", "finish"} \/ saved[RunOf(w)] # "waiting"
    PROVE  PauseInv'
<1>1. \A v \in Workers : job'[v] = (IF v = w THEN next ELSE job[v])
  BY DEF PauseInv, TypeOK
<1>2. Claimed'
  BY <1>1 DEF PauseInv, Claimed, At, Workers
<1>3. Asking'
  BY <1>1 DEF PauseInv, Asking, At, RunOf
<1>4. FirstTurn'
  <2> SUFFICES ASSUME NEW u \in Runs, ~At(u, "idle")'
               PROVE  /\ saved'[u] \in {"none", "torn"}
                      /\ \A q \in Requests : runOf[q] = u =>
                            job'[q].stage \in {"idle", "load", "fail"} /\ phase[q] # "done"
    BY DEF FirstTurn, Alone
  <2>1. u \in Workers /\ Alone(u)
    BY <1>1 DEF PauseInv, FirstTurn, At, Workers
  <2>2. \A q \in Requests : q \in Workers /\ q \notin Runs /\ RunOf(q) = runOf[q]
    BY DEF Workers, RunOf
  <2> QED BY <1>1, <2>1, <2>2 DEF Alone
<1>5. Expecting'
  <2> SUFFICES ASSUME NEW u \in Runs, saved'[u] = "waiting", ~Overtaken(u)
               PROVE  \E r \in Requests : runOf[r] = u /\ Pending(r)'
    BY DEF Expecting, Overtaken, Asked
  <2>1. PICK r \in Requests : runOf[r] = u /\ Pending(r)
    BY DEF PauseInv, Expecting
  <2>2. CASE r # w
    BY <1>1, <2>1, <2>2 DEF Pending, Workers
  <2>3. CASE r = w
    <3>1. RunOf(w) = u
      BY <2>1, <2>3 DEF RunOf
    <3> QED BY <1>1, <2>1, <2>3, <3>1 DEF Pending
  <2> QED BY <2>2, <2>3
<1> QED BY <1>2, <1>3, <1>4, <1>5 DEF PauseInv

\* Whoever is at work has its claim, and the process is up.
LEMMA AtWork ==
    ASSUME PauseInv, NEW w \in Workers, ~At(w, "idle")
    PROVE  /\ server = "up" /\ (w \in Requests => phase[w] = "resuming") /\ RunOf(w) \in Runs
           /\ w \in Runs => Alone(w)
           /\ w \in Requests /\ job[w].stage \notin {"load", "fail"} => At(RunOf(w), "idle")
<1>1. ASSUME w \in Requests, job[w].stage \notin {"load", "fail"}
      PROVE  At(RunOf(w), "idle")
  <2>1. RunOf(w) = runOf[w] /\ runOf[w] \in Runs
    BY <1>1, RunOfTyped DEF PauseInv, RunOf
  <2> QED BY <1>1, <2>1 DEF PauseInv, FirstTurn, Alone, At
<1> QED BY <1>1, RunOfTyped DEF PauseInv, Claimed, FirstTurn

LEMMA Asks ==
    ASSUME PauseInv, NEW w \in Workers, job[w].stage \notin {"deliver", "truncate", "write"}
    PROVE  job[w].asked = None
BY DEF PauseInv, Asking

LEMMA WorkerMoves ==
    ASSUME PauseInv, TypeOK', NEW w \in Workers,
           \/ w \in Requests /\ (Load(w) \/ TimeOut(w) \/ Emit(w))
           \/ \E status \in Closed : Conclude(w, status)
           \/ Delivered(w) \/ ModelFails(w) \/ Truncate(w)
           \/ w \in Runs /\ StartTurn(w),
           ~AgentsMayGo
    PROVE  PauseInv'
<1> USE DEF store, serving
<1>1. CASE w \in Requests /\ Load(w)
  <2>1. ~At(w, "idle") /\ w \notin Runs /\ job[w].stage = "load" /\ RunOf(w) = runOf[w]
    BY <1>1 DEF Load, At, RunOf
  <2>2. job[w].asked = None /\ server = "up" /\ phase[w] = "resuming"
    BY <1>1, <2>1, AtWork, Asks
  <2>3. PICK next \in Jobs :
           /\ Steps(w, next) /\ next.asked = None
           /\ \/ next.stage \in {"fail", "generate"}
              \/ next.stage = "truncate" /\ next.status \in Closed
              \/ next.stage = "finish" /\ saved[RunOf(w)] # "waiting"
           /\ next.stage = "fail" \/ saved[RunOf(w)] \notin {"none", "torn"}
    <3>1. CASE Steps(w, Broken(w))
      BY <2>1, <3>1, BrokenTyped
    <3>2. CASE saved[runOf[w]] \in Closed /\ Steps(w, Job("finish", None, "none", FALSE))
      <4>1. Job("finish", None, "none", FALSE).asked = None /\ Job("finish", None, "none", FALSE).stage = "finish"
        BY DEF Job
      <4> QED BY <2>1, <3>2, <4>1, NextJobs DEF Closed
    <3>3. CASE saved[runOf[w]] = "waiting" /\ Steps(w, Save("failed", FALSE))
      <4>1. Save("failed", FALSE).asked = None /\ Save("failed", FALSE).stage = "truncate"
            /\ Save("failed", FALSE).status \in Closed
        BY DEF Save, Job, Closed
      <4> QED BY <2>1, <3>3, <4>1, NextJobs
    <3>4. CASE saved[runOf[w]] = "waiting" /\ Steps(w, Job("generate", None, "none", FALSE))
      <4>1. Job("generate", None, "none", FALSE).asked = None /\ Job("generate", None, "none", FALSE).stage = "generate"
        BY DEF Job
      <4> QED BY <2>1, <3>4, <4>1, NextJobs
    <3> QED BY <1>1, <3>1, <3>2, <3>3, <3>4 DEF Load
  <2> QED BY <1>1, <2>1, <2>2, <2>3, JobMoves DEF Steps, Goes
<1>2. CASE (w \in Requests /\ TimeOut(w)) \/ (\E status \in Closed : Conclude(w, status)) \/ ModelFails(w)
  <2>1. job[w].stage = "generate" /\ ~At(w, "idle")
    BY <1>2 DEF TimeOut, Conclude, ModelFails, At
  <2>2. job[w].asked = None
    BY <2>1, Asks
  <2>3. PICK next \in Jobs :
           /\ Goes(w, next) /\ UNCHANGED <<store, runOf>> /\ next.asked = None
           /\ \/ next.stage = "fail" /\ w \in Requests
              \/ next.stage = "truncate" /\ next.status \in Closed
    <3>1. CASE \E status \in Closed : Conclude(w, status)
      <4>1. PICK status \in Closed : Conclude(w, status)
        BY <3>1
      <4> DEFINE next == Save(status, w \in Requests)
      <4>2. (w \in Requests) \in BOOLEAN /\ status \in Saves
        BY DEF Saves
      <4>3. next \in Jobs /\ next.stage = "truncate" /\ next.asked = None /\ next.status = status
        BY <4>2 DEF Save, Job, Jobs, Stages
      <4>4. Goes(w, next) /\ UNCHANGED <<store, runOf>>
        BY <4>1 DEF Conclude, Steps
      <4> HIDE DEF next
      <4> QED BY <4>3, <4>4
    <3>2. CASE TimeOut(w)
      <4>1. Save("failed", FALSE).asked = None /\ Save("failed", FALSE).stage = "truncate"
            /\ Save("failed", FALSE).status \in Closed
        BY DEF Save, Job, Closed
      <4> QED BY <3>2, <4>1, NextJobs DEF TimeOut, Steps
    <3>3. CASE ModelFails(w)
      BY <3>3, BrokenTyped DEF ModelFails, Workers, Closed
    <3> QED BY <1>2, <3>1, <3>2, <3>3
  <2> QED BY <2>1, <2>2, <2>3, AtWork, JobMoves DEF Goes
<1>3. CASE w \in Requests /\ Emit(w)
  <2>1. job[w].stage = "emit" /\ ~At(w, "idle") /\ w \notin Runs
    BY <1>3 DEF Emit, At
  <2>2. job[w].asked = None
    BY <2>1, Asks
  <2> DEFINE next == Job("finish", None, "none", FALSE)
  <2>3. next \in Jobs /\ next.asked = None /\ next.stage = "finish"
    BY NextJobs DEF Job
  <2>4. job' = [job EXCEPT ![w] = next]
        /\ UNCHANGED <<phase, answer, runOf, saved, server, callers, early, backlog, reconciling, applied>>
    BY <1>3 DEF Emit
  <2>5. server = "up" /\ phase[w] = "resuming"
    BY <1>3, <2>1, AtWork
  <2> HIDE DEF next
  <2> QED BY <1>3, <2>1, <2>2, <2>3, <2>4, <2>5, JobMoves
<1>4. CASE Delivered(w)
  <2> DEFINE next == SavePause(job[w].asked)
  <2>1. job[w].stage = "deliver" /\ ~At(w, "idle") /\ job[w].asked # None
    BY <1>4 DEF Delivered, At, PauseInv, Asking
  <2>2. /\ next \in Jobs /\ next.asked = job[w].asked /\ next.stage = "truncate"
        /\ next.status = "waiting"
    BY JobOf DEF SavePause, Job, Jobs, Stages, Saves, PauseInv
  <2>3. Goes(w, next) /\ UNCHANGED <<store, runOf>>
    BY <1>4 DEF Delivered, Steps
  <2> HIDE DEF next
  <2> QED BY <2>1, <2>2, <2>3, AtWork, JobMoves DEF Goes
<1>5. CASE Truncate(w)
  <2>1. job[w].stage = "truncate" /\ ~At(w, "idle")
    BY <1>5 DEF Truncate, At
  <2> DEFINE next == [job[w] EXCEPT !.stage = "write"]
  <2>2. /\ next \in Jobs /\ next.asked = job[w].asked /\ next.stage = "write"
        /\ next.status = job[w].status
    BY JobOf DEF Stages, Jobs, PauseInv
  <2>3. job' = [job EXCEPT ![w] = next]
    BY <1>5 DEF Truncate, At
  <2>4. \A u \in Runs : saved'[u] = saved[u] \/ saved'[u] = "torn"
    BY <1>5 DEF Truncate, PauseInv, TypeOK
  <2>5. IF next.asked # None THEN next.status = "waiting" ELSE next.status \in Closed
    BY <2>1, <2>2 DEF PauseInv, Asking
  <2>6. UNCHANGED <<phase, answer, runOf, server, callers, early, backlog, reconciling, applied>>
    BY <1>5 DEF Truncate
  <2>7. /\ server = "up" /\ (w \in Requests => phase[w] = "resuming")
        /\ w \in Runs => Alone(w)
    BY <2>1, AtWork
  <2> HIDE DEF next
  <2> QED BY <2>1, <2>2, <2>3, <2>4, <2>5, <2>6, <2>7, JobMoves
<1>6. CASE w \in Runs /\ StartTurn(w)
  <2>1. /\ Job("generate", None, "none", FALSE).asked = None
        /\ Job("generate", None, "none", FALSE).stage = "generate"
    BY DEF Job
  <2>2. job[w].asked = None
    BY <1>6, Asks DEF StartTurn, At
  <2>3. Alone(w)
    BY <1>6 DEF StartTurn, Alone
  <2> QED BY <1>6, <2>1, <2>2, <2>3, NextJobs, JobMoves DEF StartTurn, Steps, Goes
<1> QED BY <1>1, <1>2, <1>3, <1>4, <1>5, <1>6

\* Nothing that matters to a pause changes.
LEMMA PausesKept ==
    ASSUME PauseInv, TypeOK', UNCHANGED <<phase, runOf, job, saved, early>>, Claimed'
    PROVE  PauseInv'
<1>1. Asking'
  BY DEF PauseInv, Asking, At, RunOf
<1>2. FirstTurn'
  BY DEF PauseInv, FirstTurn, Alone, At
<1>3. Expecting'
  BY DEF PauseInv, Expecting, Overtaken, Asked, Pending
<1> QED BY <1>1, <1>2, <1>3 DEF PauseInv

\* One request moves, to where it can still be answered or acted on; whoever is
\* asking it was overtaken by the answer.
LEMMA RequestMoves ==
    ASSUME PauseInv, TypeOK', Claimed', NEW r \in Requests, NEW to \in {"answered", "resuming", "retry"},
           phase' = [phase EXCEPT ![r] = to], phase[r] \notin {"absent", "undeliverable"},
           \A w \in Workers : job[w].asked = r => <<w, r>> \in early',
           early \subseteq early',
           UNCHANGED <<runOf, saved>>,
           \/ UNCHANGED job
           \/ /\ job' = [job EXCEPT ![r] = Job("load", None, "none", FALSE)] /\ job[r].asked = None
           \/ /\ job' = [job EXCEPT ![r] = NoJob] /\ job[r].asked = None
    PROVE  PauseInv'
<1>1. /\ \A q \in Requests : phase'[q] = (IF q = r THEN to ELSE phase[q])
      /\ r \in Workers /\ r \notin Runs
  BY DEF PauseInv, TypeOK, Workers
<1>2. /\ \A w \in Workers \ {r} : job'[w] = job[w]
      /\ job'[r] = job[r] \/ (job'[r].asked = None /\ job'[r].stage \in {"load", "idle"})
  <2>1. job \in [Workers -> Jobs]
    BY DEF PauseInv, TypeOK, Jobs
  <2> QED BY <1>1, <2>1, NoJobTyped DEF Job
<1>3. Asking'
  BY <1>1, <1>2 DEF PauseInv, Asking, At, RunOf
<1>4. FirstTurn'
  BY <1>1, <1>2 DEF PauseInv, FirstTurn, Alone, At, Workers
<1>5. \A q \in Requests : Pending(q) => Pending(q)'
  BY <1>1, <1>2 DEF Pending, Workers
<1>6. Expecting'
  BY <1>5 DEF PauseInv, Expecting, Overtaken, Asked
<1> QED BY <1>3, <1>4, <1>6 DEF PauseInv

LEMMA PauseRequests ==
    ASSUME PauseInv, TypeOK', NEW r \in Requests,
           \/ Human(r) \/ CallerClaims(r) \/ Reconcile(r) \/ Recover(r)
           \/ EndResume(r)
    PROVE  PauseInv'
<1> USE DEF store, serving
<1>0. phase[r] # "open" => \A w \in Workers : job[w].asked = r => <<w, r>> \in early
  BY DEF PauseInv, Asking
<1>t. phase \in [Requests -> Phases] /\ job \in [Workers -> Jobs] /\ r \in Workers
  BY DEF PauseInv, TypeOK, Jobs, Workers
<1>1. ASSUME NEW a \in Sayings, Answer(r, a)
      PROVE  PauseInv'
  <2>1. /\ phase[r] = "open" /\ phase' = [phase EXCEPT ![r] = "answered"]
        /\ answer' = [answer EXCEPT ![r] = a] /\ a # None /\ server = "up"
        /\ callers' = [callers EXCEPT ![r] = @ + 1]
        /\ UNCHANGED <<runOf, job, saved, server, backlog, reconciling, applied>>
        /\ early \subseteq early'
        /\ \A w \in Workers : job[w].asked = r => <<w, r>> \in early'
    BY <1>1 DEF Answer, Accept, Move
  <2>2. Claimed'
    BY <1>t, <2>1 DEF PauseInv, TypeOK, Claimed, At, Workers
  <2> QED BY <2>1, <2>2, RequestMoves
<1>2. CASE AnswerAgain(r)
  <2>1. server = "up" /\ UNCHANGED <<phase, answer, runOf, job, saved, early, server, backlog, reconciling, applied>>
    BY <1>2 DEF AnswerAgain, AcceptAgain
  <2>2. Claimed'
    BY <2>1 DEF PauseInv, Claimed, At
  <2> QED BY <2>1, <2>2, PausesKept
<1>3. CASE CallerClaims(r) \/ Reconcile(r)
  <2>1. /\ server = "up" /\ UNCHANGED <<runOf, saved, early, server, applied>>
    BY <1>3 DEF CallerClaims, Reconcile, PauseInv, Claimed, TypeOK
  <2>2. CASE StartResume(r)
    <3>1. /\ phase[r] \in {"answered", "retry"} /\ phase' = [phase EXCEPT ![r] = "resuming"]
          /\ job' = [job EXCEPT ![r] = Job("load", None, "none", FALSE)] /\ UNCHANGED answer
      BY <2>2 DEF StartResume, Claim, Move
    <3>2. At(r, "idle")
      BY <3>1 DEF PauseInv, Claimed
    <3>3. job[r].asked = None /\ \A w \in Workers : job[w].asked = r => <<w, r>> \in early
      BY <1>0, <1>t, <3>1, <3>2, Asks DEF At
    <3>4. /\ \A q \in Requests : phase'[q] = (IF q = r THEN "resuming" ELSE phase[q])
          /\ \A w \in Workers \ {r} : job'[w] = job[w]
          /\ job'[r].stage = "load"
      BY <1>t, <3>1 DEF Job
    <3>5. answer[r] # None /\ applied' = applied /\ server' = "up"
      BY <2>1, <3>1 DEF PauseInv, Claimed
    <3>6. ASSUME NEW q \in Requests
          PROVE  /\ ~At(q, "idle")' => phase'[q] = "resuming"
                 /\ phase'[q] = "resuming" => ~At(q, "idle")'
                 /\ answer[q] = None <=> phase'[q] \in {"absent", "open", "undeliverable"}
                 /\ applied[q] > 0 => phase'[q] \in {"resuming", "retry", "done"}
      <4>1. CASE q = r
        BY <3>4, <3>5, <4>1 DEF At
      <4>2. CASE q # r
        BY <2>1, <3>4, <4>2 DEF PauseInv, Claimed, At, Workers
      <4> QED BY <4>1, <4>2
    <3>7. Claimed'
      BY <3>1, <3>5, <3>6 DEF Claimed
    <3> QED BY <2>1, <3>1, <3>3, <3>7, RequestMoves
  <2>3. CASE NoResume(r)
    <3>1. UNCHANGED <<phase, answer, job>>
      BY <2>3 DEF NoResume
    <3>2. Claimed'
      BY <2>1, <3>1 DEF PauseInv, Claimed, At
    <3> QED BY <2>1, <3>1, <3>2, PausesKept
  <2> QED BY <1>3, <2>2, <2>3 DEF CallerClaims, Reconcile
<1>4. CASE Recover(r)
  <2>1. /\ server = "recovering" /\ phase[r] = "resuming" /\ phase' = [phase EXCEPT ![r] = "retry"]
        /\ UNCHANGED <<answer, runOf, saved, job, callers, early, server, backlog, reconciling, applied>>
    BY <1>4 DEF Recover, GiveUp, Move
  <2>2. \A q \in Requests : phase'[q] = (IF q = r THEN "retry" ELSE phase[q])
    BY <1>t, <2>1
  <2>3. Claimed'
    BY <2>1, <2>2 DEF PauseInv, Claimed, At, Workers
  <2>4. \A w \in Workers : job[w].asked = r => <<w, r>> \in early
    BY <1>0, <2>1
  <2> QED BY <2>1, <2>3, <2>4, RequestMoves
<1>5. CASE EndResume(r)
  <2>1. /\ ~At(r, "idle") /\ job[r].stage \in {"finish", "fail"} /\ job' = [job EXCEPT ![r] = NoJob]
        /\ UNCHANGED <<answer, runOf, saved, callers, early, server, backlog, applied>>
        /\ phase[r] = "resuming"
        /\ \/ phase' = [phase EXCEPT ![r] = "retry"]
           \/ phase' = [phase EXCEPT ![r] = "done"] /\ job[r].stage = "finish"
    BY <1>5 DEF EndResume, Finish, GiveUp, Move, At
  <2>2. server = "up" /\ job[r].asked = None
    BY <1>t, <2>1, AtWork, Asks
  <2>3. \A w \in Workers : job[w].asked = r => <<w, r>> \in early
    BY <1>0, <2>1
  <2>4. /\ \A q \in Requests \ {r} : phase'[q] = phase[q]
        /\ phase'[r] \in {"retry", "done"}
        /\ \A w \in Workers \ {r} : job'[w] = job[w]
        /\ job'[r].stage = "idle" /\ job'[r].asked = None
    BY <1>t, <2>1, NoJobTyped
  <2>5. Claimed'
    BY <2>1, <2>2, <2>4 DEF PauseInv, Claimed, At, Workers
  <2>6. CASE phase' = [phase EXCEPT ![r] = "retry"]
    BY <2>1, <2>2, <2>3, <2>5, <2>6, RequestMoves
  <2>7. CASE job[r].stage = "finish"
    <3>1. r \notin Runs /\ ~Pending(r)
      BY <2>7 DEF Pending
    <3>2. Asking'
      <4>1. ASSUME NEW w \in Workers, job'[w].asked # None
            PROVE  /\ w # r /\ job'[w] = job[w] /\ RunOf(w)' = RunOf(w)
                   /\ phase'[job[w].asked] \notin {"absent", "undeliverable"}
                   /\ phase'[job[w].asked] = "open" \/ <<w, job[w].asked>> \in early
        <5>1. w # r /\ job'[w] = job[w] /\ RunOf(w)' = RunOf(w)
          BY <2>1, <2>4, <4>1 DEF RunOf
        <5>2. job[w].asked \in Requests
          BY <4>1, <5>1, JobOf DEF PauseInv
        <5>3. CASE job[w].asked = r
          BY <2>3, <2>4, <5>1, <5>3
        <5>4. CASE job[w].asked # r
          BY <2>4, <4>1, <5>1, <5>2, <5>4 DEF PauseInv, Asking
        <5> QED BY <5>1, <5>3, <5>4
      <4>2. \A w \in Workers : w # r => job'[w] = job[w]
        BY <2>4
      <4> QED BY <2>1, <2>4, <4>1, <4>2 DEF PauseInv, Asking, At
    <3>3. FirstTurn'
      <4>1. At(RunOf(r), "idle") /\ RunOf(r) = runOf[r]
        BY <1>t, <2>1, <2>7, <3>1, AtWork DEF RunOf
      <4>2. ASSUME NEW u \in Runs, ~At(u, "idle")'
            PROVE  Alone(u)'
        <5>1. ~At(u, "idle") /\ runOf[r] # u
          BY <2>4, <3>1, <4>1, <4>2 DEF At, Workers
        <5>2. Alone(u)
          BY <5>1 DEF PauseInv, FirstTurn
        <5> QED BY <2>1, <2>4, <5>1, <5>2 DEF Alone, Workers
      <4> QED BY <4>2 DEF FirstTurn
    <3>4. \A q \in Requests : Pending(q) => Pending(q)'
      BY <2>4, <3>1 DEF Pending, Workers
    <3>5. Expecting'
      BY <2>1, <3>4 DEF PauseInv, Expecting, Overtaken, Asked
    <3> QED BY <2>5, <3>2, <3>3, <3>5 DEF PauseInv
  <2> QED BY <2>1, <2>6, <2>7
<1> QED BY <1>1, <1>2, <1>3, <1>4, <1>5 DEF Human

\* A question is asked, or cannot be delivered.
LEMMA PauseAsks ==
    ASSUME PauseInv, TypeOK', NEW w \in Workers,
           (\E q \in Requests : AskHuman(w, q)) \/ DeliveryFails(w)
    PROVE  PauseInv'
<1> USE DEF store, serving
<1>t. phase \in [Requests -> Phases] /\ job \in [Workers -> Jobs] /\ runOf \in [Requests -> Runs \cup {None}]
  BY DEF PauseInv, TypeOK, Jobs
<1>0. ~At(w, "idle") /\ job[w].stage \in {"generate", "deliver"}
  BY DEF AskHuman, DeliveryFails, At
<1>w. /\ server = "up" /\ (w \in Requests => phase[w] = "resuming") /\ RunOf(w) \in Runs
      /\ w \in Runs => Alone(w)
      /\ w \in Requests => At(RunOf(w), "idle")
  BY <1>0, AtWork
<1>1. ASSUME NEW q \in Requests, AskHuman(w, q)
      PROVE  PauseInv'
  <2> DEFINE next == Job("deliver", q, "none", FALSE)
  <2>1. /\ job[w].stage = "generate" /\ phase[q] = "absent" /\ phase' = [phase EXCEPT ![q] = "open"]
        /\ runOf' = [runOf EXCEPT ![q] = RunOf(w)] /\ job' = [job EXCEPT ![w] = next]
        /\ UNCHANGED <<answer, saved, callers, early, server, backlog, reconciling, applied>>
    BY <1>1 DEF AskHuman, Ask, Move, Goes, At
  <2>2. /\ next.stage = "deliver" /\ next.asked = q
    BY DEF Job
  <2>3. /\ \A r \in Requests : /\ phase'[r] = (IF r = q THEN "open" ELSE phase[r])
                               /\ runOf'[r] = (IF r = q THEN RunOf(w) ELSE runOf[r])
        /\ \A v \in Workers : job'[v] = (IF v = w THEN next ELSE job[v])
    BY <1>t, <2>1
  <2>4. job[w].asked = None /\ q # w
    BY <1>w, <2>1, Asks
  <2>5. runOf[q] = None /\ \A v \in Workers : job[v].asked # q
    <3>1. runOf[q] = None
      BY <2>1 DEF PauseInv, TypeOK
    <3>2. ASSUME NEW v \in Workers, job[v].asked = q PROVE FALSE
      BY <2>1, <3>2 DEF PauseInv, Asking
    <3> QED BY <3>1, <3>2
  <2>6. At(q, "idle")
    BY <2>1 DEF PauseInv, Claimed
  <2>7. \A v \in Workers : ~At(v, "idle") => v # q
    BY <2>6
  <2> HIDE DEF next
  <2>8. Claimed'
    BY <1>w, <2>1, <2>2, <2>3, <2>4 DEF PauseInv, Claimed, At, Workers
  <2>9. \A v \in Workers : job[v].asked # None => RunOf(v)' = RunOf(v)
    BY <2>3, <2>6 DEF PauseInv, Asking, RunOf, At, Workers
  <2>10. RunOf(w)' = RunOf(w)
    BY <2>3, <2>4 DEF RunOf, Workers
  <2>11. Asking'
    <3>1. ASSUME NEW v \in Workers, v # w
          PROVE  /\ job'[v] = job[v] /\ job[v].asked # q /\ early' = early
                 /\ job[v].asked # None => /\ phase'[job[v].asked] = phase[job[v].asked]
                                           /\ runOf'[job[v].asked] = runOf[job[v].asked]
                                           /\ RunOf(v)' = RunOf(v)
      <4>1. job[v].asked \in Requests \cup {None}
        BY JobOf DEF PauseInv
      <4> QED BY <2>1, <2>3, <2>5, <2>9, <3>1, <4>1
    <3>2. /\ job'[w].stage = "deliver" /\ job'[w].asked = q
          /\ phase'[q] = "open" /\ runOf'[q] = RunOf(w)'
      BY <2>2, <2>3, <2>10
    <3> QED BY <3>1, <3>2 DEF PauseInv, Asking, At
  <2>12. FirstTurn'
    <3> SUFFICES ASSUME NEW u \in Runs, ~At(u, "idle")', NEW r \in Requests, runOf'[r] = u
                 PROVE  /\ job'[r].stage \in {"idle", "load", "fail"} /\ phase'[r] # "done"
      <4>1. \A u \in Runs : ~At(u, "idle")' => saved[u] \in {"none", "torn"}
        BY <1>w, <2>3 DEF PauseInv, FirstTurn, Alone, At, Workers
      <4> QED BY <2>1, <4>1 DEF FirstTurn, Alone
    <3>1. u \in Workers /\ ~At(u, "idle") /\ r \in Workers /\ r \notin Runs
      BY <1>0, <2>3 DEF At, Workers
    <3>2. Alone(u)
      BY <3>1 DEF PauseInv, FirstTurn
    <3>3. CASE r = q
      BY <2>3, <2>4, <2>6, <3>1, <3>3 DEF At
    <3>4. CASE r # q
      <4>1. runOf[r] = u /\ job[r].stage \in {"idle", "load", "fail"} /\ phase[r] # "done"
        BY <2>3, <3>2, <3>4 DEF Alone
      <4>2. r # w
        BY <2>1, <4>1
      <4> QED BY <2>3, <3>1, <3>4, <4>1, <4>2
    <3> QED BY <3>3, <3>4
  <2>13. Expecting'
    <3> SUFFICES ASSUME NEW u \in Runs, saved[u] = "waiting", ~Overtaken(u)'
                 PROVE  \E r \in Requests : runOf'[r] = u /\ Pending(r)'
      BY <2>1 DEF Expecting
    <3>0. ~Overtaken(u)
      BY <2>1, <2>3, <2>5 DEF Overtaken, Asked
    <3>1. PICK r \in Requests : runOf[r] = u /\ Pending(r)
      BY <3>0 DEF PauseInv, Expecting
    <3>2. r # q
      BY <2>5, <3>1
    <3> QED BY <2>2, <2>3, <3>1, <3>2 DEF Pending, Workers
  <2> QED BY <2>8, <2>11, <2>12, <2>13 DEF PauseInv
<1>2. CASE DeliveryFails(w)
  <2> PICK q \in Requests : q = job[w].asked
    BY <1>2, JobOf DEF DeliveryFails, PauseInv, Asking, At
  <2>1. /\ job[w].stage = "deliver" /\ runOf[q] = RunOf(w)
        /\ phase[q] \notin {"absent", "undeliverable"}
        /\ \A v \in Workers : job[v].asked = q => v = w
    BY <1>2 DEF DeliveryFails, At, PauseInv, Asking
  <2>2. /\ \/ phase[q] = "open" /\ phase' = [phase EXCEPT ![q] = "undeliverable"]
           \/ phase[q] # "open" /\ phase' = phase
        /\ job' = [job EXCEPT ![w] = Broken(w)]
        /\ UNCHANGED <<answer, runOf, saved, callers, early, server, backlog, reconciling, applied>>
    BY <1>2, <2>1 DEF DeliveryFails, Close, Move, Goes
  <2>3. /\ \A r \in Requests :
              \/ phase'[r] = phase[r]
              \/ r = q /\ phase[r] = "open" /\ phase'[r] = "undeliverable"
        /\ \A v \in Workers : job'[v] = (IF v = w THEN Broken(w) ELSE job[v])
    BY <1>t, <2>2
  <2>4. /\ Broken(w).asked = None
        /\ w \in Runs => Broken(w).stage = "truncate" /\ Broken(w).status = "failed"
        /\ w \notin Runs => Broken(w).stage = "fail"
    BY BrokenTyped
  <2>6. Claimed'
    <3>1. ASSUME NEW x \in Requests
          PROVE  /\ ~At(x, "idle")' <=> ~At(x, "idle")
                 /\ phase'[x] = "resuming" <=> phase[x] = "resuming"
                 /\ phase'[x] \in {"absent", "open", "undeliverable"}
                    <=> phase[x] \in {"absent", "open", "undeliverable"}
                 /\ phase'[x] \in {"resuming", "retry", "done"} <=> phase[x] \in {"resuming", "retry", "done"}
      BY <1>0, <2>1, <2>3, <2>4 DEF At, Workers
    <3> QED BY <1>w, <2>2, <3>1 DEF PauseInv, Claimed
  <2>7. Asking'
    <3>1. ASSUME NEW v \in Workers, v # w, job[v].asked # None
          PROVE  phase'[job[v].asked] = phase[job[v].asked]
      <4>1. job[v].asked \in Requests /\ job[v].asked # q
        BY <2>1, <3>1, JobOf DEF PauseInv
      <4> QED BY <2>3, <4>1
    <3> QED BY <2>1, <2>2, <2>3, <2>4, <3>1 DEF PauseInv, Asking, At, RunOf, Closed, Workers
  <2>8. FirstTurn'
    <3> SUFFICES ASSUME NEW u \in Runs, ~At(u, "idle")'
                 PROVE  Alone(u)'
      BY DEF FirstTurn
    <3>1. ~At(u, "idle")
      BY <1>0, <2>3 DEF At, Workers
    <3>2. Alone(u)
      BY <3>1 DEF PauseInv, FirstTurn
    <3>3. \A r \in Requests : runOf[r] = u => r # w
      BY <2>1, <3>2 DEF Alone
    <3> QED BY <2>2, <2>3, <3>2, <3>3 DEF Alone, Workers
  <2>9. Expecting'
    <3> SUFFICES ASSUME NEW u \in Runs, saved[u] = "waiting", ~Overtaken(u)
                 PROVE  \E r \in Requests : runOf[r] = u /\ Pending(r)'
      BY <2>2 DEF Expecting, Overtaken, Asked
    <3>1. PICK r \in Requests : runOf[r] = u /\ Pending(r)
      BY DEF PauseInv, Expecting
    <3>2. CASE phase'[r] = phase[r]
      BY <2>3, <2>4, <3>1, <3>2 DEF Pending, Workers
    <3>3. CASE r = q
      <4>1. RunOf(w) = u /\ w \notin Runs /\ w \in Requests
        BY <1>w, <2>1, <3>1, <3>3 DEF RunOf, Workers, Alone
      <4>2. runOf[w] = u /\ phase[w] = "resuming"
        BY <1>w, <4>1 DEF RunOf
      <4>3. Pending(w)'
        BY <2>3, <2>4, <4>1, <4>2 DEF Pending, Workers
      <4> QED BY <4>1, <4>2, <4>3
    <3> QED BY <2>3, <3>2, <3>3
  <2> QED BY <2>6, <2>7, <2>8, <2>9 DEF PauseInv
<1> QED BY <1>1, <1>2

LEMMA PauseWritten ==
    ASSUME PauseInv, TypeOK', NEW w \in Workers, Write(w)
    PROVE  PauseInv'
<1> USE DEF store, serving
<1>t. /\ phase \in [Requests -> Phases] /\ job \in [Workers -> Jobs] /\ saved \in [Runs -> Saves]
      /\ applied \in [Requests -> Nat]
  BY DEF PauseInv, TypeOK, Jobs
<1>0. ~At(w, "idle") /\ job[w].stage = "write"
  BY DEF Write, At
<1> PICK u \in Runs : u = RunOf(w)
  BY <1>0, AtWork
<1>w. /\ server = "up" /\ (w \in Requests => phase[w] = "resuming")
  BY <1>0, AtWork
<1>1. /\ \A x \in Runs : saved'[x] = (IF x = u THEN job[w].status ELSE saved[x])
      /\ \A v \in Workers : job'[v] = (IF v = w THEN AfterSave(w) ELSE job[v])
      /\ \A r \in Requests : applied'[r] > 0 => applied[r] > 0 \/ r = w
      /\ UNCHANGED <<phase, answer, runOf, callers, early, server, backlog, reconciling>>
  BY <1>t DEF Write
<1>2. /\ AfterSave(w).asked = None
      /\ w \in Runs => AfterSave(w).stage = "idle"
      /\ w \notin Runs => AfterSave(w).stage \in {"emit", "finish"}
  BY NoJobTyped DEF AfterSave, Job
<1>3. Claimed'
  BY <1>w, <1>1, <1>2 DEF PauseInv, Claimed, At, Workers
<1>4. Asking'
  BY <1>1, <1>2 DEF PauseInv, Asking, At, RunOf, Workers
<1>5. FirstTurn'
  <2> SUFFICES ASSUME NEW x \in Runs, ~At(x, "idle")'
               PROVE  Alone(x)'
    BY DEF FirstTurn
  <2>1. x # w /\ x \in Workers /\ ~At(x, "idle")
    BY <1>1, <1>2 DEF At, Workers
  <2>2. Alone(x)
    BY <2>1 DEF PauseInv, FirstTurn
  <2>3. \A q \in Requests : runOf[q] = x => q # w
    BY <1>0, <2>2 DEF Alone
  <2>4. x # u
    BY <2>1, <2>3 DEF RunOf, Workers
  <2> QED BY <1>1, <2>2, <2>3, <2>4 DEF Alone, Workers
<1>6. Expecting'
  <2> SUFFICES ASSUME NEW x \in Runs, saved'[x] = "waiting", ~Overtaken(x)
               PROVE  \E r \in Requests : runOf[r] = x /\ Pending(r)'
    BY <1>1 DEF Expecting, Overtaken, Asked
  <2>1. CASE x = u
    <3>1. job[w].status = "waiting"
      BY <1>1, <2>1
    <3>2. PICK q \in Requests : q = job[w].asked
      BY <1>0, <3>1, JobOf DEF PauseInv, Asking, Closed
    <3>3. /\ runOf[q] = x /\ phase[q] \in Phases \ {"absent", "undeliverable"}
          /\ phase[q] = "open" \/ <<w, q>> \in early
      BY <1>t, <2>1, <3>2 DEF PauseInv, Asking
    <3>4. CASE w \in Requests
      <4>1. phase[q] = "open"
        BY <3>3, <3>4 DEF Overtaken, Asked
      <4>2. At(q, "idle") /\ q # w
        BY <1>0, <4>1 DEF PauseInv, Claimed, At
      <4> QED BY <1>1, <3>3, <4>1, <4>2 DEF Pending, At, Workers
    <3>5. CASE w \in Runs
      <4>1. Alone(x) /\ q # w
        BY <1>0, <2>1, <3>5, AtWork DEF RunOf
      <4> QED BY <1>1, <3>3, <4>1 DEF Alone, Pending, Phases, Workers
    <3> QED BY <3>4, <3>5 DEF Workers
  <2>2. CASE x # u
    <3>1. PICK r \in Requests : runOf[r] = x /\ Pending(r)
      BY <1>1, <2>2 DEF PauseInv, Expecting
    <3>2. r # w
      BY <2>2, <3>1 DEF RunOf
    <3> QED BY <1>1, <3>1, <3>2 DEF Pending, Workers
  <2> QED BY <2>1, <2>2
<1> QED BY <1>3, <1>4, <1>5, <1>6 DEF PauseInv

LEMMA PauseRestarts ==
    ASSUME PauseInv, TypeOK', Crash \/ Restart \/ Serve \/ ListResumable \/ UNCHANGED vars
    PROVE  PauseInv'
<1> USE DEF store, serving
<1>1. CASE Crash
  <2>1. /\ \A w \in Workers : job'[w].stage = "idle" /\ job'[w].asked = None
        /\ \A r \in Requests : callers'[r] = 0
        /\ server' = "down" /\ backlog' = {} /\ reconciling' = None
        /\ UNCHANGED <<phase, answer, runOf, saved, early, applied>>
    BY <1>1, NoJobTyped DEF Crash
  <2>2. Claimed'
    BY <2>1 DEF PauseInv, Claimed, At, Workers
  <2>3. Asking'
    BY <2>1 DEF Asking, At
  <2>4. FirstTurn'
    BY <2>1 DEF FirstTurn, At, Workers
  <2>5. \A r \in Requests : Pending(r) => Pending(r)'
    BY <2>1 DEF Pending, Workers
  <2>6. Expecting'
    BY <2>1, <2>5 DEF PauseInv, Expecting, Overtaken, Asked
  <2> QED BY <2>2, <2>3, <2>4, <2>6 DEF PauseInv
<1>2. CASE Restart \/ Serve \/ ListResumable \/ UNCHANGED vars
  <2>1. /\ UNCHANGED <<phase, answer, runOf, job, saved, callers, early, applied, reconciling>>
        /\ server' # "up" => server # "up" /\ backlog' = backlog
        /\ server' = "up" => server = "up" \/ \A r \in Requests : phase[r] # "resuming"
    BY <1>2 DEF Restart, Serve, ListResumable, vars
  <2>2. Claimed'
    BY <2>1 DEF PauseInv, Claimed, At
  <2> QED BY <2>1, <2>2, PausesKept
<1> QED BY <1>1, <1>2

LEMMA PauseStep ==
    ASSUME ~AgentsMayGo, PauseInv, [Next]_vars
    PROVE  PauseInv'
<1>1. TypeOK'
  BY TypeStep DEF PauseInv
<1>2. ASSUME NEW r \in Requests, Human(r) \/ ResumeWork(r) \/ Reconcile(r) \/ Recover(r)
      PROVE  PauseInv'
  BY <1>1, <1>2, PauseRequests, WorkerMoves DEF ResumeWork, Workers
<1>3. ASSUME NEW w \in Workers, Work(w) \/ Fails(w)
      PROVE  PauseInv'
  BY <1>1, <1>3, PauseAsks, PauseWritten, WorkerMoves DEF Work, Fails
<1>4. ASSUME NEW u \in Runs, StartTurn(u)
      PROVE  PauseInv'
  BY <1>1, <1>4, WorkerMoves DEF Workers
<1> QED BY <1>1, <1>2, <1>3, <1>4, PauseRestarts DEF Next

\* A run saved as waiting has a question that can be answered or an answer still to
\* be acted on, whatever crashes, is cut short or is retried, and however early an
\* answer comes while the turn that started the run is at work; only an answer that
\* overtakes a resumed turn can strand its run (createAndDeliverHumanRequest,
\* resumeDirectHumanRequest, CompleteResume).
THEOREM NobodyStranded ==
    ASSUME ~AgentsMayGo
    PROVE  Spec => []NotStranded
<1>1. PauseInv => NotStranded
  BY DEF PauseInv, Expecting, Pending, NotStranded, Asked
<1>2. PauseInv /\ [Next]_vars => PauseInv'
  BY PauseStep
<1> QED BY PauseInit, <1>1, <1>2, PTL DEF Spec

=============================================================================
