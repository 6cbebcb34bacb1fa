------------------------- MODULE HumanRequestStore -------------------------
(***************************************************************************)
(* The file-backed store of human requests (package humanrequest,          *)
(* store.go, interaction_store.go, file_store.go).                         *)
(*                                                                         *)
(* Every operation loads a record, decides, and writes it back as a        *)
(* temporary file that is renamed over the old one, all under the store's  *)
(* mutex.  The mutex belongs to one operating-system process: op[p] is the *)
(* operation the goroutine holding the mutex of process p has in hand, and *)
(* two processes on one state directory (`xira serve` and any other xira   *)
(* command) exclude each other from nothing.  A process may crash at any   *)
(* step; the temporary file it was writing then stays in the directory,    *)
(* where the next listing reads it like any other request.                 *)
(*                                                                         *)
(* An operation that is refused, or that finds nothing to do, writes       *)
(* nothing and is not a step of this module.                               *)
(***************************************************************************)
EXTENDS HumanRequestRecord, Naturals, FiniteSets

CONSTANTS
    Procs,              \* processes that open the state directory
    Answers,            \* the answers somebody may send
    Asks,               \* the requests somebody may create
    Torn,               \* a temporary file cut short: it does not parse
    Absent,             \* no file
    CrashInWrite,       \* may a crash fall between CreateTemp and Rename?
    MaxCrashes,         \* bound on crashes
    MaxWriteFailures    \* bound on writes that fail

ASSUME StoreAssumption ==
    /\ Answers \subseteq Answer
    /\ Asks \subseteq Ask
    /\ Torn \notin Record
    /\ Absent \notin Record
    /\ Torn # Absent
    /\ None # Absent
    /\ None \notin Record
    /\ CrashInWrite \in BOOLEAN
    /\ MaxCrashes \in Nat
    /\ MaxWriteFailures \in Nat

VARIABLES
    file,           \* the request files, by id
    leftover,       \* temporary files that crashes left among them
    responses,      \* the response files, by request id
    op,             \* per process, the operation inside the critical section
    holders,        \* per request and process, the resumes in progress
    acked,          \* per request, the answers callers were told were recorded
    crashes,
    writeFailures

disk == <<file, leftover, responses>>
vars == <<disk, op, holders, acked, crashes, writeFailures>>

Kinds  == {"down", "idle", "create", "deliver", "resolve", "claim", "complete",
           "fail", "recover"}
Stages == {"none", "response", "open", "fill", "rename"}

Op(kind, stage, rec, todo) ==
    [kind |-> kind, stage |-> stage, rec |-> rec, todo |-> todo]

Down == Op("down", "none", Absent, {})
Idle == Op("idle", "none", Absent, {})

Stored(r) == file[r] # Absent

-----------------------------------------------------------------------------
(* Listing the directory                                                   *)

\* The temporary file of a write in progress is in the directory too.
LiveTemps == {Torn : p \in {q \in Procs : op[q].stage = "fill"}}
        \cup {op[p].rec : p \in {q \in Procs : op[q].stage = "rename"}}

Temps == leftover \cup LiveTemps

\* One file that does not parse fails the whole listing.
ListFails == Torn \in Temps

Listed == {file[r] : r \in {q \in Requests : Stored(q)}} \cup Temps

\* Fault model: only delivered requests count as duplicates.
DuplicateDelivered(key) ==
    /\ key # None
    /\ \E rec \in Listed : rec.status = "pending" /\ rec.key = key /\ rec.delivery = "sent"

DuplicatePending(key) ==
    /\ key # None
    /\ \E rec \in Listed : rec.status = "pending" /\ rec.key = key

-----------------------------------------------------------------------------
(* Beginning an operation: lock, load, decide                              *)

Begin(p, kind, stage, rec) ==
    /\ op[p] = Idle
    /\ op' = [op EXCEPT ![p] = Op(kind, stage, rec, {})]
    /\ UNCHANGED <<disk, holders, acked, crashes, writeFailures>>

\* Ids are fresh uuids: no file and no temporary file carries one yet.
Fresh(r) == /\ ~Stored(r)
            /\ \A rec \in leftover \ {Torn} : rec.id # r
            /\ \A p \in Procs : op[p].rec # Absent => op[p].rec.id # r

\* Only a request with a dedupe key lists the directory.
Create(p, r, ask) ==
    /\ Fresh(r)
    /\ ask.key # None => ~ListFails /\ ~DuplicatePending(ask.key)
    /\ Begin(p, "create", "open", NewRequest(r, ask))

RecordDelivery(p, r, m) ==
    /\ Stored(r) /\ DeliveryOpen(file[r])
    /\ Begin(p, "deliver", "open",
             IF m = None THEN NotSent(file[r]) ELSE Sent(file[r], m))

FailDelivery(p, r) ==
    /\ Stored(r) /\ DeliveryOpen(file[r])
    /\ Begin(p, "deliver", "open", Undeliverable(file[r]))

\* Resolve (exact = FALSE) and ResolveExact.
Authorized(r, a, exact, genuine, late) ==
    Stored(r) /\ (exact => ExactlyAuthorized(file[r], a, genuine, late))

\* Fault model: the response file is not written.
ResolveWithoutResponse(p, r, a, exact, genuine, late) ==
    /\ Authorized(r, a, exact, genuine, late)
    /\ file[r].status = "pending"
    /\ Begin(p, "resolve", "open",
             Resolved(file[r], IF exact THEN a ELSE Said(a)))

Resolve(p, r, a, exact, genuine, late) ==
    /\ Authorized(r, a, exact, genuine, late)
    /\ file[r].status = "pending"
    /\ Begin(p, "resolve", "response",
             Resolved(file[r], IF exact THEN a ELSE Said(a)))

\* An exact retry is told that its answer is the recorded one.
ResolveAgain(p, r, a, exact, genuine, late) ==
    /\ op[p] = Idle
    /\ Authorized(r, a, exact, genuine, late)
    /\ file[r].status # "pending"
    /\ SameResponseRetry(file[r], a, exact)
    /\ acked' = [acked EXCEPT ![r] = @ \cup {Said(a)}]
    /\ UNCHANGED <<disk, op, holders, crashes, writeFailures>>

ClaimResume(p, r) ==
    /\ Stored(r) /\ Claimable(file[r])
    /\ Begin(p, "claim", "open", Claimed(file[r]))

Release(r, p) == holders' = [holders EXCEPT ![r][p] = @ - 1]

\* Fault model: a resume is finished that nobody claimed.
FinishUnclaimed(p, r, ok) ==
    /\ op[p] = Idle
    /\ Stored(r)
    /\ IF Finishable(file[r])
       THEN Begin(p, IF ok THEN "complete" ELSE "fail", "open", Finished(file[r], ok))
       ELSE Release(r, p) /\ UNCHANGED <<disk, op, acked, crashes, writeFailures>>

\* CompleteResume (ok) and FailResume, called by whoever claimed.  A record
\* that is no longer running refuses both, and the caller gives up.
FinishResume(p, r, ok) ==
    /\ op[p] = Idle
    /\ Stored(r)
    /\ holders[r][p] > 0
    /\ IF Finishable(file[r])
       THEN Begin(p, IF ok THEN "complete" ELSE "fail", "open", Finished(file[r], ok))
       ELSE Release(r, p) /\ UNCHANGED <<disk, op, acked, crashes, writeFailures>>

-----------------------------------------------------------------------------
(* Inside the critical section: writing                                    *)

\* Fault model: recovery stops at the first record.
AfterFirstWrite(o) == IF o.stage # "none" \/ o.todo = {} THEN {Idle}
                      ELSE {Op("recover", "open", x, {}) : x \in o.todo}

\* Recovery goes on to the next interrupted record, whether or not the last
\* one could be written; every other operation ends with its write.
AfterWrite(o) == IF o.todo = {} THEN {Idle}
                 ELSE {Op("recover", "open", x, o.todo \ {x}) : x \in o.todo}

Advance(p, from, to) == /\ op[p].stage = from
                        /\ op' = [op EXCEPT ![p].stage = to]

WriteResponse(p) ==
    /\ Advance(p, "response", "open")
    /\ responses' = [responses EXCEPT ![op[p].rec.id] = @ \cup {op[p].rec.response}]
    /\ UNCHANGED <<file, leftover, holders, acked, crashes, writeFailures>>

CreateTemp(p) ==
    /\ Advance(p, "open", "fill")
    /\ UNCHANGED <<disk, holders, acked, crashes, writeFailures>>

FillTemp(p) ==
    /\ Advance(p, "fill", "rename")
    /\ UNCHANGED <<disk, holders, acked, crashes, writeFailures>>

\* The rename publishes the record; the operation returns to its caller.
Rename(p) ==
    LET o == op[p]
        r == op[p].rec.id
    IN /\ o.stage = "rename"
       /\ file' = [file EXCEPT ![r] = o.rec]
       /\ \E next \in AfterWrite(o) : op' = [op EXCEPT ![p] = next]
       /\ holders' = CASE o.kind = "claim" -> [holders EXCEPT ![r][p] = @ + 1]
                       [] o.kind \in {"complete", "fail"} -> [holders EXCEPT ![r][p] = @ - 1]
                       [] OTHER -> holders
       /\ acked' = IF o.kind = "resolve"
                   THEN [acked EXCEPT ![r] = @ \cup {Said(o.rec.response)}]
                   ELSE acked
       /\ UNCHANGED <<leftover, responses, crashes, writeFailures>>

\* Creating, filling or renaming fails: the temporary file is removed and the
\* caller gets the error.  A resumer that cannot record its result gives up.
WriteFails(p) ==
    LET o == op[p]
    IN /\ o.stage # "none"
       /\ writeFailures < MaxWriteFailures
       /\ writeFailures' = writeFailures + 1
       /\ \E next \in AfterWrite(o) : op' = [op EXCEPT ![p] = next]
       /\ IF o.kind \in {"complete", "fail"} THEN Release(o.rec.id, p)
          ELSE UNCHANGED holders
       /\ UNCHANGED <<disk, acked, crashes>>

-----------------------------------------------------------------------------
(* Processes                                                               *)

\* NewService recovers the interrupted resumes it finds, and starts anyway
\* when the directory cannot be listed.
Start(p) ==
    /\ op[p] = Down
    /\ LET stale == IF ListFails THEN {} ELSE {x \in Listed : Interrupted(x)}
       IN \E next \in AfterWrite(Op("recover", "none", Absent, {Recovered(x) : x \in stale})) :
             op' = [op EXCEPT ![p] = next]
    /\ UNCHANGED <<disk, holders, acked, crashes, writeFailures>>

\* The deferred removal of the temporary file does not run.
Crash(p) ==
    /\ op[p] # Down
    /\ crashes < MaxCrashes
    /\ CrashInWrite \/ op[p].stage \in {"none", "response", "open"}
    /\ crashes' = crashes + 1
    /\ leftover' = leftover \cup (CASE op[p].stage = "fill"   -> {Torn}
                                    [] op[p].stage = "rename" -> {op[p].rec}
                                    [] OTHER -> {})
    /\ op' = [op EXCEPT ![p] = Down]
    /\ holders' = [r \in Requests |-> [holders[r] EXCEPT ![p] = 0]]
    /\ UNCHANGED <<file, responses, acked, writeFailures>>

-----------------------------------------------------------------------------
Init ==
    /\ file          = [r \in Requests |-> Absent]
    /\ leftover      = {}
    /\ responses     = [r \in Requests |-> {}]
    /\ op            = [p \in Procs |-> Down]
    /\ holders       = [r \in Requests |-> [p \in Procs |-> 0]]
    /\ acked         = [r \in Requests |-> {}]
    /\ crashes       = 0
    /\ writeFailures = 0

Deliver(p, r) ==
    \/ \E m \in Messages \cup {None} : RecordDelivery(p, r, m)
    \/ FailDelivery(p, r)

Respond(p, r) ==
    \E a \in Answers : \E exact, genuine, late \in BOOLEAN :
        \/ Resolve(p, r, a, exact, genuine, late)
        \/ ResolveAgain(p, r, a, exact, genuine, late)

ResumeWork(p, r) ==
    \/ ClaimResume(p, r)
    \/ \E ok \in BOOLEAN : FinishResume(p, r, ok)

Write(p) == WriteResponse(p) \/ CreateTemp(p) \/ FillTemp(p) \/ Rename(p) \/ WriteFails(p)

Next == \E p \in Procs :
           \/ Start(p) \/ Crash(p) \/ Write(p)
           \/ \E r \in Requests : Deliver(p, r) \/ Respond(p, r) \/ ResumeWork(p, r)
           \/ \E r \in Requests, ask \in Asks : Create(p, r, ask)

Spec == Init /\ [][Next]_vars

-----------------------------------------------------------------------------
(* What the store promises                                                 *)

TypeOK ==
    /\ file \in [Requests -> Record \cup {Absent}]
    /\ \A r \in Requests : Stored(r) => file[r].id = r
    /\ leftover \subseteq Record \cup {Torn}
    /\ responses \in [Requests -> SUBSET Answer]
    /\ op \in [Procs -> [kind : Kinds, stage : Stages, rec : Record \cup {Absent},
                         todo : SUBSET Record]]
    /\ holders \in [Requests -> [Procs -> Nat]]
    /\ acked \in [Requests -> SUBSET Answer]
    /\ crashes \in 0..MaxCrashes
    /\ writeFailures \in 0..MaxWriteFailures

\* ClaimResume "atomically selects one process/goroutine to resume a resolved
\* request": no two resumes of one request are ever in progress, and none once
\* the record says that it failed or is completed.
ClaimExclusive ==
    \A r \in Requests, p \in Procs : holders[r][p] > 0 =>
        /\ Stored(r) /\ Interrupted(file[r])
        /\ holders[r][p] = 1
        /\ \A q \in Procs \ {p} : holders[r][q] = 0

\* Whoever was told that an answer is recorded, by the call that recorded it or
\* by a retry of it, said what the request holds, after any crash.
AckedAnswerPersisted ==
    \A r \in Requests : \A said \in acked[r] :
        Stored(r) /\ file[r].response # None /\ Said(file[r].response) = said

\* A request is never seen resolved before its response file is written, though
\* the two are separate writes.
ResponseFileFirst ==
    \A r \in Requests : Stored(r) /\ file[r].status = "resolved" =>
        file[r].response \in responses[r]

\* At most one request per run, tool call and dedupe key waits for an answer.
OnePendingPerKey ==
    \A q, r \in Requests :
        /\ Stored(q) /\ file[q].status = "pending" /\ file[q].key # None
        /\ Stored(r) /\ file[r].status = "pending" /\ file[r].key = file[q].key
        => q = r

\* Once a request is resolved or failed nothing reopens it or changes its
\* answer: not a late delivery receipt, a second answer, or recovery.
ClosedStaysClosed ==
    [][\A r \in Requests : Stored(r) /\ file[r].status # "pending" =>
          /\ file'[r] # Absent
          /\ file'[r].status = file[r].status
          /\ file'[r].response = file[r].response]_vars

\* RecoverInterruptedResumes "converts stale running claims from a previous
\* process into retryable failures": once a process has started, a running
\* record has its resumer, unless a write failed.
StaleClaimsRecovered ==
    \A r \in Requests :
        /\ Stored(r) /\ file[r].resume = "running"
        /\ writeFailures = 0
        /\ \A p \in Procs : op[p].kind \notin {"down", "recover"}
        => \E p \in Procs : holders[r][p] > 0

\* FindByCorrelation: the records that carry the token of a request, which it has
\* from its creation.
WithTokenOf(r) == {rec \in Listed : rec.id = r}

\* FindByCorrelation "returns the unique request carrying one full opaque
\* correlation token across pending and resolved states": while no operation is
\* in hand, the directory can be listed and has one record per stored request.
FoundByCorrelation ==
    (\A p \in Procs : op[p] \in {Down, Idle}) =>
        \A r \in Requests : Stored(r) => ~ListFails /\ WithTokenOf(r) = {file[r]}

-----------------------------------------------------------------------------
(* The lifecycle the store implements                                      *)

Phase(r) ==
    CASE ~Stored(r) -> "absent"
      [] Stored(r) /\ file[r].status = "pending" -> "open"
      [] Stored(r) /\ file[r].status = "failed"  -> "undeliverable"
      [] Stored(r) /\ file[r].status = "resolved" /\ file[r].resume = "pending"   -> "answered"
      [] Stored(r) /\ file[r].status = "resolved" /\ file[r].resume = "running"   -> "resuming"
      [] Stored(r) /\ file[r].status = "resolved" /\ file[r].resume = "completed" -> "done"
      [] OTHER -> "retry"

AnswerOf(r) == IF Stored(r) /\ file[r].response # None THEN Said(file[r].response) ELSE None

Lifecycle == INSTANCE HumanRequestLifecycle
             WITH Sayings  <- {Said(a) : a \in Answer},
                  phase    <- [r \in Requests |-> Phase(r)],
                  answer   <- [r \in Requests |-> AnswerOf(r)],
                  accepted <- acked

\* Whatever crashes, retries and recoveries happen between the writes, each
\* request goes through the lifecycle of HumanRequestLifecycle: asked once, one
\* answer, resumed by one resumer at a time until one succeeds.
LifecycleSpec == Lifecycle!LSpec

=============================================================================
