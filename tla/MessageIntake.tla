--------------------------- MODULE MessageIntake ---------------------------
(***************************************************************************)
(* How the messages of a group reach the history of a session: the gate,   *)
(* the deduper and Observe (channelrunner/ingest, channelrunner/dedupe),   *)
(* the turn of a message that is for the agent, and the append to memory   *)
(* and messages.jsonl (package session).                                   *)
(*                                                                         *)
(* A channel may deliver a message again at any time, and calls its        *)
(* handler in a goroutine of its own.  A message that meets a running turn *)
(* is queued for it, and taken up by it or by a later one (ChatSession has *)
(* the router).  Everything that is appended is written under the locks of *)
(* the manager and of its store; messages.jsonl, and dedupe.json if the    *)
(* channel has one, are all that a restart finds.                          *)
(***************************************************************************)
EXTENDS Naturals, Sequences, FiniteSets

CONSTANTS
    Messages,       \* the messages of one chat
    Inbound,        \* what the gate looks at in each of them
    Workers,        \* goroutines that handle deliveries
    None,
    DedupeFile,     \* whether the channel keeps its deduper in a file (websocket does not)
    CrashInAppend,  \* whether a crash may come between two lines of one append
    TornWrites,     \* whether a crash or failure may leave part of a file
    MaxStarts,      \* bound on the starts of the process
    MaxErrors,      \* bound on writes and turns that fail
    MaxExpiries     \* bound on entries of the deduper that expire

ASSUME IntakeAssumption ==
    /\ Inbound \in [Messages -> [group : BOOLEAN, addressed : BOOLEAN,
                                 allowed : BOOLEAN, bind : BOOLEAN]]
    /\ None \notin Messages
    /\ DedupeFile \in BOOLEAN /\ CrashInAppend \in BOOLEAN /\ TornWrites \in BOOLEAN
    /\ MaxStarts \in Nat \ {0} /\ MaxErrors \in Nat /\ MaxExpiries \in Nat

\* The gate: what is not for the agent is observed, what is runs a turn; only
\* the latter may be the /bind of somebody not allowed yet.
Decision(m) ==
    IF Inbound[m].group /\ ~Inbound[m].addressed
        THEN IF Inbound[m].allowed THEN "observe" ELSE "reject"
        ELSE IF Inbound[m].bind \/ Inbound[m].allowed THEN "dispatch" ELSE "reject"

Observed == {m \in Messages : Decision(m) = "observe"}

Lines == Messages \X {"user", "reply"}

\* What is appended for a message; /bind is answered without a run.
Batch(m) ==
    CASE m \in Observed                             -> <<<<m, "user">>>>
      [] m \notin Observed /\ Inbound[m].bind       -> <<>>
      [] m \notin Observed /\ ~Inbound[m].bind      -> <<<<m, "user">>, <<m, "reply">>>>

VARIABLES
    up,         \* whether the process runs
    entries,    \* the deduper in memory
    seenFile,   \* dedupe.json
    worker,     \* what each goroutine works on, and the message that started its turn
    steered,    \* how often each message is queued for a running turn
    memory,     \* how often the history in memory has each line
    disk,       \* how often messages.jsonl has each line, whole
    torn,       \* whether messages.jsonl ends in part of a line
    expired,    \* how often the entry of each message has expired
    forgets,    \* how often each message was forgotten after a failure
    handed,     \* the messages that were ever queued for a running turn
    starts, errors

session == <<memory, disk, torn>>
ghosts == <<expired, forgets, handed>>
vars == <<up, entries, seenFile, worker, steered, session, ghosts, starts, errors>>

IdleWorker == [message |-> None, stage |-> "idle", line |-> 0, turn |-> None, cut |-> FALSE]
Absent == [m \in Messages |-> "absent"]
NoLines == [l \in Lines |-> 0]

At(w, stage) == worker[w].stage = stage
Step(w, stage) == worker' = [worker EXCEPT ![w].stage = stage]

\* The locks of the manager and its store are one: whoever has one has both.
AppendStages == {"conversation", "lines", "agent"}
Appending == \E w \in Workers : worker[w].stage \in AppendStages

-----------------------------------------------------------------------------
(* The deduper                                                             *)

\* Every change rewrites the file, in place; that it failed is ignored.
Persist(e) ==
    /\ entries' = e
    /\ \/ seenFile' = (IF DedupeFile THEN e ELSE seenFile) /\ UNCHANGED errors
       \/ /\ DedupeFile /\ errors < MaxErrors /\ errors' = errors + 1
          /\ seenFile' \in {seenFile} \cup (IF TornWrites THEN {Absent} ELSE {})

\* Fault model: a message that is being worked on is begun again.
BeginUnlessCompleted(m) ==
    entries[m] # "completed" /\ Persist([entries EXCEPT ![m] = "processing"])

Begin(m) == entries[m] = "absent" /\ Persist([entries EXCEPT ![m] = "processing"])

\* An hour is over; the deduper and a restart pass over the entry.
Expire(m) ==
    /\ entries[m] # "absent" \/ seenFile[m] # "absent"
    /\ expired[m] < MaxExpiries
    /\ entries' = [entries EXCEPT ![m] = "absent"]
    /\ seenFile' = [seenFile EXCEPT ![m] = "absent"]
    /\ expired' = [expired EXCEPT ![m] = @ + 1]
    /\ UNCHANGED <<up, worker, steered, session, forgets, handed, starts, errors>>

-----------------------------------------------------------------------------
(* The handler of a delivery                                               *)

Receive(w, m) ==
    /\ up /\ At(w, "idle")
    /\ Decision(m) # "reject"
    /\ Begin(m)
    /\ worker' = [worker EXCEPT ![w] =
          [message |-> m, stage |-> IF m \in Observed THEN "append" ELSE "begun", line |-> 1,
           turn |-> m, cut |-> FALSE]]
    /\ UNCHANGED <<up, steered, session, ghosts, starts>>

\* The router starts a turn, and the handler ends...
StartTurn(w) ==
    /\ up /\ At(w, "begun")
    /\ Step(w, "turn")
    /\ UNCHANGED <<up, entries, seenFile, steered, session, ghosts, starts, errors>>

InTurn(v) == ~At(v, "idle") /\ ~At(v, "begun") /\ worker[v].turn \notin Observed

\* ... or it queues the message for a turn that runs, and the handler ends without a
\* turn; nobody settles the message any more.
Steered(w) ==
    LET m == worker[w].message
    IN /\ up /\ At(w, "begun") /\ \E v \in Workers : InTurn(v)
       /\ steered' = [steered EXCEPT ![m] = @ + 1]
       /\ handed' = handed \cup {m}
       /\ worker' = [worker EXCEPT ![w] = IdleWorker]
       /\ UNCHANGED <<up, entries, seenFile, session, expired, forgets, starts, errors>>

Waiting == \E k \in Messages : steered[k] > 0

\* The run is over, with an answer or without, or cut short for a message that is
\* queued: its messages are kept anyway.  A /bind is answered without a run.
TurnEnds(w, cut) ==
    LET m == worker[w].message
    IN /\ up /\ At(w, "turn")
       /\ cut => Waiting /\ Batch(m) # <<>>
       /\ worker' = [worker EXCEPT ![w].stage = IF Batch(m) = <<>> THEN "saved" ELSE "append",
                                   ![w].cut = cut]
       /\ UNCHANGED <<up, entries, seenFile, steered, session, ghosts, starts, errors>>

\* The turn goes on with a message from the queue.
TakeUp(w, k) ==
    /\ up /\ worker[w].stage \in {"saved", "failed"} /\ worker[w].cut
    /\ steered[k] > 0
    /\ steered' = [steered EXCEPT ![k] = @ - 1]
    /\ worker' = [worker EXCEPT ![w] =
          [message |-> k, stage |-> "turn", line |-> 1, turn |-> @.turn, cut |-> FALSE]]
    /\ UNCHANGED <<up, entries, seenFile, session, ghosts, starts, errors>>

\* Fault model: Observe counts a failed append as seen, too.
SettleSeen(w, ok) ==
    LET m == worker[w].turn
    IN /\ up /\ worker[w].stage \in {"saved", "failed"}
       /\ ok
       /\ Persist([entries EXCEPT ![m] = "completed"])
       /\ worker' = [worker EXCEPT ![w] = IdleWorker]
       /\ UNCHANGED <<up, steered, session, ghosts, starts>>

\* Observe settles by how the append ended; a turn settles the message that started
\* it by whether its last run succeeded and the answer was sent, in spite of a failed
\* append.
Settle(w, ok) ==
    LET m == worker[w].turn
    IN /\ up /\ worker[w].stage \in {"saved", "failed"}
       /\ worker[w].cut => ~Waiting /\ ~ok
       /\ m \in Observed => ok = At(w, "saved")
       /\ m \notin Observed => ok \/ forgets[m] < MaxErrors
       /\ Persist([entries EXCEPT ![m] = IF ok THEN "completed" ELSE "absent"])
       /\ forgets' = [forgets EXCEPT ![m] = IF ok THEN @ ELSE @ + 1]
       /\ worker' = [worker EXCEPT ![w] = IdleWorker]
       /\ UNCHANGED <<up, steered, session, expired, handed, starts>>

-----------------------------------------------------------------------------
(* Manager.AppendAgentMessages                                             *)

TakeLocks(w) ==
    /\ up /\ At(w, "append") /\ ~Appending
    /\ Step(w, "conversation")
    /\ UNCHANGED <<up, entries, seenFile, steered, session, ghosts, starts, errors>>

WriteConversationMeta(w) ==
    /\ up /\ At(w, "conversation")
    /\ Step(w, "lines")
    /\ UNCHANGED <<up, entries, seenFile, steered, session, ghosts, starts, errors>>

\* A line that follows part of a line is read together with it, that is, not.
WriteLine(w) ==
    LET m == worker[w].message
        n == worker[w].line
    IN /\ up /\ At(w, "lines")
       /\ disk' = IF torn THEN disk ELSE [disk EXCEPT ![Batch(m)[n]] = @ + 1]
       /\ torn' = FALSE
       /\ worker' = [worker EXCEPT ![w].stage = IF n = Len(Batch(m)) THEN "agent" ELSE "lines",
                                   ![w].line = n + 1]
       /\ UNCHANGED <<up, entries, seenFile, steered, memory, ghosts, starts, errors>>

Published(m) == [l \in Lines |-> memory[l] + Cardinality({n \in DOMAIN Batch(m) : Batch(m)[n] = l})]

\* Only what is on disk becomes visible to the runs.
WriteAgentMeta(w) ==
    /\ up /\ At(w, "agent")
    /\ memory' = Published(worker[w].message)
    /\ Step(w, "saved")
    /\ UNCHANGED <<up, entries, seenFile, steered, disk, torn, ghosts, starts, errors>>

\* Fault model: memory keeps what could not be written.
AppendFailsPublished(w) ==
    /\ up /\ worker[w].stage \in AppendStages
    /\ errors < MaxErrors /\ errors' = errors + 1
    /\ memory' = Published(worker[w].message)
    /\ Step(w, "failed")
    /\ UNCHANGED <<up, entries, seenFile, steered, disk, torn, ghosts, starts>>

\* Any of the three writes may fail; the lines that are written stay.
AppendFails(w) ==
    /\ up /\ worker[w].stage \in AppendStages
    /\ errors < MaxErrors /\ errors' = errors + 1
    /\ Step(w, "failed")
    /\ torn' \in {torn} \cup (IF TornWrites /\ At(w, "lines") THEN {TRUE} ELSE {})
    /\ UNCHANGED <<up, entries, seenFile, steered, memory, disk, ghosts, starts>>

-----------------------------------------------------------------------------
(* The process                                                             *)

\* Memory is lost, also what is queued; a file that is being written may be torn.
Crash ==
    /\ up /\ starts < MaxStarts
    /\ CrashInAppend \/ \A w \in Workers : At(w, "lines") => worker[w].line = 1
    /\ up' = FALSE
    /\ entries' = Absent /\ memory' = NoLines
    /\ worker' = [w \in Workers |-> IdleWorker]
    /\ steered' = [m \in Messages |-> 0]
    /\ \/ UNCHANGED <<seenFile, torn>>
       \/ TornWrites /\ seenFile' = Absent /\ UNCHANGED torn
       \/ TornWrites /\ (\E w \in Workers : At(w, "lines")) /\ torn' = TRUE /\ UNCHANGED seenFile
    /\ UNCHANGED <<disk, ghosts, starts, errors>>

\* LoadHistories and the load of the deduper, which believes what it reads.
Start ==
    /\ ~up
    /\ up' = TRUE /\ starts' = starts + 1
    /\ memory' = disk
    /\ entries' = seenFile
    /\ UNCHANGED <<seenFile, worker, steered, disk, torn, ghosts, errors>>

-----------------------------------------------------------------------------
Init ==
    /\ up = TRUE /\ starts = 1 /\ errors = 0
    /\ entries = Absent /\ seenFile = Absent
    /\ worker = [w \in Workers |-> IdleWorker] /\ steered = [m \in Messages |-> 0]
    /\ memory = NoLines /\ disk = NoLines /\ torn = FALSE
    /\ expired = [m \in Messages |-> 0] /\ forgets = [m \in Messages |-> 0] /\ handed = {}

Next ==
    \/ \E w \in Workers :
          \/ \E m \in Messages : Receive(w, m) \/ TakeUp(w, m)
          \/ StartTurn(w) \/ Steered(w) \/ \E cut \in BOOLEAN : TurnEnds(w, cut)
          \/ TakeLocks(w) \/ WriteConversationMeta(w) \/ WriteLine(w)
          \/ WriteAgentMeta(w) \/ AppendFails(w)
          \/ \E ok \in BOOLEAN : Settle(w, ok)
    \/ \E m \in Messages : Expire(m)
    \/ Crash \/ Start

Spec == Init /\ [][Next]_vars

-----------------------------------------------------------------------------
(* What the history is                                                     *)

\* The type of every variable.  One goroutine appends at a time, and what it
\* appends comes from somebody who is allowed: the /bind of a stranger never
\* gets into a history (ingest.go, Gate).
TypeOK ==
    /\ up \in BOOLEAN
    /\ entries \in [Messages -> {"absent", "processing", "completed"}]
    /\ seenFile \in [Messages -> {"absent", "processing", "completed"}]
    /\ worker \in [Workers -> [message : Messages \cup {None}, line : 0..3,
                               turn : Messages \cup {None}, cut : BOOLEAN,
                               stage : AppendStages \cup
                                  {"idle", "begun", "turn", "append", "saved", "failed"}]]
    /\ steered \in [Messages -> Nat] /\ handed \subseteq Messages
    /\ \A v, w \in Workers : worker[v].stage \in AppendStages /\ worker[w].stage \in AppendStages => v = w
    /\ memory \in [Lines -> Nat] /\ disk \in [Lines -> Nat] /\ torn \in BOOLEAN
    /\ \A l \in Lines : memory[l] + disk[l] > 0 => Inbound[l[1]].allowed
    /\ expired \in [Messages -> 0..MaxExpiries] /\ forgets \in [Messages -> Nat]
    /\ starts \in 1..MaxStarts /\ errors \in 0..MaxErrors

Log == IF up THEN memory ELSE disk

\* What the runs have seen of a conversation they see for ever: no step, no
\* failing write and no restart takes a line away (manager.go: "Publish to
\* memory only after persistence succeeds").
NothingForgotten == [][\A l \in Lines : Log'[l] >= Log[l]]_vars

\* The starts before which a deduper in memory forgot everything.
Forgetful == IF DedupeFile THEN 0 ELSE starts - 1

\* The state is well-formed, and a redelivery adds a copy only when the deduper had
\* reason to let it through: its hour was over, or the attempt before had failed or
\* could not be noted, or the process started again and its deduper has no file.  The
\* history in memory does not even have the observed
\* messages whose append failed half-way, until a restart reads them.
CopiesAccounted ==
    /\ TypeOK
    /\ \A m \in Messages : \A l \in {m} \X {"user", "reply"} :
          /\ disk[l] <= 1 + expired[m] + forgets[m] + errors + Forgetful
          /\ m \in Observed /\ starts = 1 => memory[l] <= 1 + expired[m]

Works(w, m) == worker[w].message = m \/ worker[w].turn = m

\* The deduper tells the truth: an observed message it calls completed is in the
\* history, also after a crash, and what it calls processing is being worked on,
\* unless a crash cut the work off or it was handed to a running turn.
SeenIsKept ==
    \A m \in Messages :
        /\ m \in Observed /\ "completed" \in {entries[m], seenFile[m]} => disk[<<m, "user">>] > 0
        /\ starts = 1 /\ up /\ entries[m] = "processing" /\ m \notin handed =>
              \E w \in Workers : Works(w, m)

\* Somebody is there to complete what is in progress (ilink/runner.go: "If
\* router.Handle was called, the onNewTurn closure will Complete").
InProgressIsCompleted ==
    \A m \in Messages :
        starts = 1 /\ up /\ entries[m] = "processing" => \E w \in Workers : worker[w].turn = m

\* A round is in the history with its question and its answer or not at all
\* (xira-chatkey-session-engine-rfc-v0.zh.md: a turn that crashes leaves nothing
\* half-written).
RoundsWhole ==
    up => \A m \in Messages \ Observed : memory[<<m, "user">>] = memory[<<m, "reply">>]

=============================================================================
