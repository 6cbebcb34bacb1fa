---------------------------- MODULE OwnerBind ----------------------------
(***************************************************************************)
(* Who owns an entrypoint: /bind and its one-time codes, the bindings in   *)
(* memory and in owner-bindings.json (package runtime, owner_bind.go),     *)
(* and those who rely on it: the question to an owner and its answer       *)
(* (human_requests.go), and the tool notify_owner of one run.              *)
(*                                                                         *)
(* /bind holds the write lock of the bindings from its check to its last   *)
(* write; an answer holds the read lock from its check to the end of the   *)
(* store's write; everybody else reads the bindings and goes on.  An       *)
(* answer that does not come as an exact response looks at no binding.     *)
(*                                                                         *)
(* The file is overwritten in place.  A write that fails has left it as it *)
(* was or has left less than all of it; so does a crash.                   *)
(***************************************************************************)
EXTENDS Naturals, FiniteSets

CONSTANTS
    Entrypoints,    \* the entrypoints
    Senders,        \* those who may write to them
    StaticOwner,    \* the owner in the configuration of an entrypoint, or Nobody
    Calls,          \* calls of notify_owner in the run, all for NotifyFor
    NotifyFor,      \* the entrypoint of that run
    Nobody,
    MaxLoads,       \* bound on the starts of the process
    MaxFailures     \* bound on failing writes

ASSUME OwnerAssumption ==
    /\ Nobody \notin Senders
    /\ StaticOwner \in [Entrypoints -> Senders \cup {Nobody}]
    /\ NotifyFor \in Entrypoints
    /\ MaxLoads \in Nat \ {0} /\ MaxFailures \in Nat

VARIABLES
    running,    \* whether the process is up
    bindings,   \* the bindings in memory
    file,       \* owner-bindings.json: its bindings, and whether it is whole
    codes,      \* the entrypoints for which a code is valid
    writer,     \* the /bind that holds the write lock
    replies,    \* what a /bind is about to tell its sender: that they own the entrypoint
    told,       \* whom a /bind has told so
    lost,       \* the entrypoints whose owner was told, and whose file was torn at a start
    question,   \* per entrypoint, a question to its owner and how it was answered
    reading,    \* answers that hold the read lock, on their way into the store
    call,       \* the calls of notify_owner
    sent,       \* the run's flag that its owner was notified
    notified,   \* how many notifications the run has sent
    loads, failures

locks == <<writer, reading>>
binds == <<codes, replies, told, lost>>
notices == <<call, sent, notified>>
counts == <<loads, failures>>
ownerVars == <<running, bindings, file, locks, binds, question, notices, counts>>

Unbound == [owner |-> Nobody, typed |-> FALSE]
NoBindings == [e \in Entrypoints |-> Unbound]
NoWriter == [entrypoint |-> Nobody, previous |-> Unbound, stage |-> "none"]
NoQuestion == [responder |-> Nobody, actor |-> Nobody, via |-> "none"]
NoCall == [stage |-> "none", target |-> Nobody]

Bound(e) == bindings[e].owner # Nobody

\* The dynamic binding counts before the configured owner.
Owner(e) == IF Bound(e) THEN bindings[e].owner ELSE StaticOwner[e]

IsOwner(s, e) == s = Owner(e)

\* A private message needs the kind of the owner's identity as well; a
\* configured owner has one.
Reachable(e) == Owner(e) # Nobody /\ (Bound(e) => bindings[e].typed)

Writing == writer.stage # "none"

-----------------------------------------------------------------------------
(* /bind                                                                   *)

TakesWriteLock(e) ==
    /\ running /\ ~Writing /\ reading = {}
    /\ writer' = [entrypoint |-> e, previous |-> bindings[e], stage |-> "begun"]

\* Fault model: /bind does not wait for those who hold the read lock.
BindAnytime(e, s, typed) ==
    /\ running /\ ~Writing /\ ~Bound(e) /\ e \in codes
    /\ writer' = [entrypoint |-> e, previous |-> bindings[e], stage |-> "begun"]
    /\ bindings' = [bindings EXCEPT ![e] = [owner |-> s, typed |-> typed]]
    /\ UNCHANGED <<running, file, binds, question, reading, notices, counts>>

\* The right code for an entrypoint without a binding.
Bind(e, s, typed) ==
    /\ TakesWriteLock(e)
    /\ ~Bound(e) /\ e \in codes
    /\ bindings' = [bindings EXCEPT ![e] = [owner |-> s, typed |-> typed]]
    /\ UNCHANGED <<running, file, binds, question, reading, notices, counts>>

\* The bound owner binds again, with any code, and the kind of identity is now
\* known...
Enrich(e, s) ==
    /\ TakesWriteLock(e)
    /\ bindings[e].owner = s /\ ~bindings[e].typed
    /\ bindings' = [bindings EXCEPT ![e].typed = TRUE]
    /\ UNCHANGED <<running, file, binds, question, reading, notices, counts>>

\* ... or nothing new is, and the answer is that they own it already.
BindAgain(e, s) ==
    /\ running /\ ~Writing /\ reading = {}
    /\ bindings[e].owner = s
    /\ replies' = replies \cup {<<e, s>>}
    /\ UNCHANGED <<running, bindings, file, locks, codes, told, lost, question, notices, counts>>

\* persistLocked opens and thereby empties the file...
Truncate ==
    /\ running /\ writer.stage = "begun"
    /\ file' = [whole |-> FALSE, bindings |-> NoBindings]
    /\ writer' = [writer EXCEPT !.stage = "truncated"]
    /\ UNCHANGED <<running, bindings, binds, question, reading, notices, counts>>

\* Fault model: the file gets the new binding alone.
WriteOwn ==
    LET e == writer.entrypoint
    IN /\ running /\ writer.stage = "truncated"
       /\ file' = [whole |-> TRUE, bindings |-> [NoBindings EXCEPT ![e] = bindings[e]]]
       /\ writer' = [writer EXCEPT !.stage = "written"]
       /\ UNCHANGED <<running, bindings, binds, question, reading, notices, counts>>

\* ... and writes all bindings...
Write ==
    /\ running /\ writer.stage = "truncated"
    /\ file' = [whole |-> TRUE, bindings |-> bindings]
    /\ writer' = [writer EXCEPT !.stage = "written"]
    /\ UNCHANGED <<running, bindings, binds, question, reading, notices, counts>>

\* ... or fails before or after it has emptied the file: memory is rolled back and
\* the code stays valid; the file is left as it is.
WriteFails ==
    /\ running /\ failures < MaxFailures
    /\ writer.stage \in {"begun", "truncated"}
    /\ failures' = failures + 1
    /\ bindings' = [bindings EXCEPT ![writer.entrypoint] = writer.previous]
    /\ writer' = NoWriter
    /\ UNCHANGED <<running, file, binds, question, reading, notices, loads>>

\* The code of a new binding is revoked and the lock released...
Revoke ==
    LET e == writer.entrypoint
    IN /\ running /\ writer.stage = "written"
       /\ codes' = codes \ (IF writer.previous.owner = Nobody THEN {e} ELSE {})
       /\ replies' = replies \cup {<<e, bindings[e].owner>>}
       /\ writer' = NoWriter
       /\ UNCHANGED <<running, bindings, file, told, lost, question, reading, notices, counts>>

\* ... and the channel tells the sender.
Reply(e, s) ==
    /\ running /\ <<e, s>> \in replies
    /\ replies' = replies \ {<<e, s>>}
    /\ told' = [told EXCEPT ![e] = s]
    /\ lost' = lost \ {e}
    /\ UNCHANGED <<running, bindings, file, locks, codes, question, notices, counts>>

-----------------------------------------------------------------------------
(* A question to the owner                                                 *)

\* The responder is the owner of this moment.
AskOwner(e) ==
    /\ running /\ ~Writing
    /\ question[e].responder = Nobody /\ Reachable(e)
    /\ question' = [question EXCEPT ![e].responder = Owner(e)]
    /\ UNCHANGED <<running, bindings, file, locks, binds, notices, counts>>

\* An exact response must come from the owner then and now; the read lock is kept...
BeginAnswer(e, s) ==
    /\ running /\ ~Writing
    /\ IsOwner(s, e) /\ s = question[e].responder /\ question[e].via = "none"
    /\ reading' = reading \cup {<<e, s>>}
    /\ UNCHANGED <<running, bindings, file, writer, binds, question, notices, counts>>

\* ... until the answer is stored, or has met one that was faster.
StoreAnswer(e, s) ==
    /\ running /\ <<e, s>> \in reading
    /\ reading' = reading \ {<<e, s>>}
    /\ question' = IF question[e].via = "none"
                   THEN [question EXCEPT ![e].actor = s, ![e].via = "exact"]
                   ELSE question
    /\ UNCHANGED <<running, bindings, file, writer, binds, notices, counts>>

\* The HTTP API, the command line, a parent agent and the agent that interprets
\* free text answer through ResolveHumanRequest, for whomever they name.
AnswerUnchecked(e, s) ==
    /\ running
    /\ question[e].responder # Nobody /\ question[e].via = "none"
    /\ question' = [question EXCEPT ![e].actor = s, ![e].via = "unchecked"]
    /\ UNCHANGED <<running, bindings, file, locks, binds, notices, counts>>

-----------------------------------------------------------------------------
(* notify_owner, called several times by one message of the model          *)

StateLocked == \E k \in Calls : call[k].stage = "sending"

\* Fault model: the state of the run is looked at without its lock.
BeginNotifyUnlocked(k) ==
    /\ running /\ ~Writing /\ call[k].stage = "none"
    /\ ~sent /\ Reachable(NotifyFor)
    /\ call' = [call EXCEPT ![k] = [stage |-> "sending", target |-> Owner(NotifyFor)]]
    /\ UNCHANGED <<running, bindings, file, locks, binds, question, sent, notified, counts>>

\* The lock of the run's state is held from the check to the end of the call.
BeginNotify(k) ==
    /\ running /\ ~Writing /\ call[k].stage = "none"
    /\ ~StateLocked /\ ~sent /\ Reachable(NotifyFor)
    /\ call' = [call EXCEPT ![k] = [stage |-> "sending", target |-> Owner(NotifyFor)]]
    /\ UNCHANGED <<running, bindings, file, locks, binds, question, sent, notified, counts>>

\* Manager.Emit and the runner of the entrypoint deliver the notification...
Emit(k) ==
    /\ running /\ call[k].stage = "sending"
    /\ call' = [call EXCEPT ![k] = [stage |-> "done", target |-> @.target]]
    /\ sent' = TRUE
    /\ notified' = notified + 1
    /\ UNCHANGED <<running, bindings, file, locks, binds, question, counts>>

\* ... or do not, and the model may try again.
EmitFails(k) ==
    /\ running /\ call[k].stage = "sending"
    /\ call' = [call EXCEPT ![k] = NoCall]
    /\ UNCHANGED <<running, bindings, file, locks, binds, question, sent, notified, counts>>

-----------------------------------------------------------------------------
(* The process                                                             *)

\* Memory is lost, and with it what nobody was told; the questions are files of
\* their own.
Crash ==
    /\ running /\ loads < MaxLoads
    /\ running' = FALSE
    /\ bindings' = NoBindings /\ codes' = {} /\ replies' = {}
    /\ writer' = NoWriter /\ reading' = {}
    /\ call' = [k \in Calls |-> NoCall] /\ sent' = FALSE /\ notified' = 0
    /\ UNCHANGED <<file, told, lost, question, counts>>

\* A file that cannot be read counts as no binding; codes are made for the
\* entrypoints that then have none.
Load ==
    /\ ~running
    /\ running' = TRUE
    /\ loads' = loads + 1
    /\ bindings' = file.bindings
    /\ codes' = {e \in Entrypoints : bindings'[e].owner = Nobody}
    /\ lost' = lost \cup (IF file.whole THEN {} ELSE {e \in Entrypoints : told[e] # Nobody})
    /\ UNCHANGED <<file, locks, replies, told, question, notices, failures>>

-----------------------------------------------------------------------------
OwnerInit ==
    /\ running = TRUE /\ loads = 1 /\ failures = 0
    /\ bindings = NoBindings
    /\ file = [whole |-> TRUE, bindings |-> NoBindings]
    /\ codes = Entrypoints
    /\ writer = NoWriter /\ reading = {}
    /\ replies = {} /\ lost = {}
    /\ told = [e \in Entrypoints |-> Nobody]
    /\ question = [e \in Entrypoints |-> NoQuestion]
    /\ call = [k \in Calls |-> NoCall] /\ sent = FALSE /\ notified = 0

OwnerNext ==
    \/ \E e \in Entrypoints, s \in Senders :
          \/ \E typed \in BOOLEAN : Bind(e, s, typed)
          \/ Enrich(e, s) \/ BindAgain(e, s) \/ Reply(e, s)
          \/ BeginAnswer(e, s) \/ StoreAnswer(e, s) \/ AnswerUnchecked(e, s)
    \/ \E e \in Entrypoints : AskOwner(e)
    \/ \E k \in Calls : BeginNotify(k) \/ Emit(k) \/ EmitFails(k)
    \/ Truncate \/ Write \/ WriteFails \/ Revoke
    \/ Crash \/ Load

OwnerSpec == OwnerInit /\ [][OwnerNext]_ownerVars

-----------------------------------------------------------------------------
(* What owners are promised                                                *)

Bindings == [Entrypoints -> [owner : Senders \cup {Nobody}, typed : BOOLEAN]]

\* The type of every variable; whoever writes is alone with the bindings, and has an
\* owner to write.
OwnerTypeOK ==
    /\ Writing => reading = {} /\ writer.entrypoint \in Entrypoints /\ Bound(writer.entrypoint)
    /\ running \in BOOLEAN
    /\ bindings \in Bindings
    /\ file \in [whole : BOOLEAN, bindings : Bindings]
    /\ codes \subseteq Entrypoints
    /\ writer \in [entrypoint : Entrypoints \cup {Nobody},
                   previous : [owner : Senders \cup {Nobody}, typed : BOOLEAN],
                   stage : {"none", "begun", "truncated", "written"}]
    /\ replies \subseteq Entrypoints \X Senders
    /\ told \in [Entrypoints -> Senders \cup {Nobody}]
    /\ lost \subseteq Entrypoints
    /\ question \in [Entrypoints -> [responder : Senders \cup {Nobody},
                                     actor : Senders \cup {Nobody},
                                     via : {"none", "exact", "unchecked"}]]
    /\ reading \subseteq Entrypoints \X Senders
    /\ call \in [Calls -> [stage : {"none", "sending", "done"}, target : Senders \cup {Nobody}]]
    /\ sent \in BOOLEAN
    /\ notified \in Nat
    /\ loads \in 1..MaxLoads
    /\ failures \in 0..MaxFailures

\* A sender who was told to be the owner is the owner from then on, in memory and
\* after every restart, whichever writes fail and wherever a crash falls, unless a
\* start found the file torn.  A code outlives a failed write and can be used
\* exactly as long as its entrypoint is unbound; and a file that can be read says
\* what memory says whenever no /bind is at work.
SuccessLasts ==
    /\ OwnerTypeOK
    /\ \A e \in Entrypoints \ lost :
          told[e] # Nobody =>
              /\ running => bindings[e].owner = told[e]
              /\ ~running /\ file.whole => file.bindings[e].owner = told[e]
    /\ running /\ ~Writing =>
          /\ \A e \in Entrypoints : e \in codes <=> ~Bound(e)
          /\ file.whole => file.bindings = bindings

\* Success means that the binding is on disk (owner_bind.go, before the write).
SuccessIsOnDisk ==
    \A e \in Entrypoints :
        told[e] # Nobody /\ ~Writing => file.whole /\ file.bindings[e].owner = told[e]

\* An exact response that is stored comes from the one who owns the entrypoint at
\* that moment and was asked, although others may bind it while the answer is on
\* its way (human_requests.go: "closing the rebind-vs-response TOCTOU window");
\* and an answer, exact or not, is never replaced by a slower one.
AnsweredByOwner ==
    [][\A e \in Entrypoints :
          question'[e].via # question[e].via \/ question'[e].actor # question[e].actor =>
              /\ question[e].via = "none"
              /\ question'[e].via = "exact" =>
                    question'[e].actor = question[e].responder /\ IsOwner(question'[e].actor, e)]_ownerVars

\* A run notifies its owner at most once, however many calls its model makes at
\* the same time and however many of them fail.
NotifiedOnce == notified <= 1

=============================================================================
