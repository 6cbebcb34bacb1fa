--------------------------- MODULE ChatSession ---------------------------
(***************************************************************************)
(* The messages of one chat: deduplication (package dedupe), the router    *)
(* that starts a turn or steers the running one, and the turn engine that  *)
(* restarts a run with an interjection (package progress), as the channels *)
(* call them.                                                              *)
(*                                                                         *)
(* Every message is handled by a goroutine of its own, every turn is       *)
(* another, and a turn is named by the message that started it.  Entries   *)
(* of the router are objects: a handler keeps the entry it has looked up   *)
(* while the router may already have put another in its place.             *)
(***************************************************************************)
EXTENDS Naturals, Sequences

CONSTANTS
    Messages,       \* the messages of the chat
    Commands,       \* those that are /answer commands to a human request
    Entries,        \* identities of the router's entries
    None,
    Channels,       \* which of "im" and "websocket" are considered
    AgeWhileRouting,\* whether an idle hour may end between a lookup and its lock
    MaxDeliveries,  \* bound on deliveries that are not duplicates
    MaxCrashes      \* bound on crashes

ASSUME ChatAssumption ==
    /\ None \notin Messages \cup Entries
    /\ Commands \subseteq Messages
    /\ Channels \subseteq {"im", "websocket"}
    /\ AgeWhileRouting \in BOOLEAN
    /\ MaxDeliveries \in Nat /\ MaxCrashes \in Nat

VARIABLES
    channel,        \* the kind of channel the chat is on
    seen,           \* the deduper's entry of a message
    handler,        \* how far the handling of a message has come
    routed,         \* the router's entry of the chat
    entry,          \* the entries
    turn,           \* per message, the turn it started
    answered,       \* per message, how many finals were sent in answer to it
    deliveries, crashes

counts == <<deliveries, crashes>>
vars == <<channel, seen, handler, routed, entry, turn, answered, counts>>

Idle     == [stage |-> "idle", entry |-> None]
NoTurn   == [stage |-> "none", entry |-> None, current |-> None]
NewEntry == [active |-> FALSE, queue |-> <<>>, idle |-> "never"]

Underway(m) == turn[m].stage # "none"

\* The run of a turn is before its last look at the queue.
Running(m)  == turn[m].stage \in {"reserved", "run", "steered"}

-----------------------------------------------------------------------------
(* Handling a message                                                      *)

Begun(m) == handler[m].stage = "begun"

\* The handler of a websocket connection takes one message after the other.
ConnectionFree ==
    \A n \in Messages : handler[n] = Idle /\ turn[n].stage \notin {"reserved", "aborted"}

\* Fault model: a message is accepted again while it is being worked on.
BeginUnlessCompleted(m) ==
    /\ handler[m] = Idle /\ seen[m] # "completed"
    /\ channel = "websocket" => ConnectionFree
    /\ deliveries < MaxDeliveries
    /\ deliveries' = deliveries + 1
    /\ seen' = [seen EXCEPT ![m] = "processing"]
    /\ handler' = [handler EXCEPT ![m].stage = "begun"]
    /\ UNCHANGED <<channel, routed, entry, turn, answered, crashes>>

\* The platform delivers m, and not as a duplicate.
Begin(m) ==
    /\ handler[m] = Idle /\ seen[m] = "absent"
    /\ channel = "websocket" => ConnectionFree
    /\ deliveries < MaxDeliveries
    /\ deliveries' = deliveries + 1
    /\ seen' = [seen EXCEPT ![m] = "processing"]
    /\ handler' = [handler EXCEPT ![m].stage = "begun"]
    /\ UNCHANGED <<channel, routed, entry, turn, answered, crashes>>

\* An /answer command is consumed before it could become a turn.  It may be
\* delivered again when neither it nor its refusal got through.
ConsumeCommand(m) ==
    /\ Begun(m) /\ m \in Commands /\ channel = "im"
    /\ \E status \in {"completed", "absent"} : seen' = [seen EXCEPT ![m] = status]
    /\ handler' = [handler EXCEPT ![m] = Idle]
    /\ UNCHANGED <<channel, routed, entry, turn, answered, counts>>

\* Fault model: pruning looks at the age of an entry only.
EvictableByAge(e) == entry[e].idle = "old"

Evictable(e) == ~entry[e].active /\ entry[e].idle = "old"

Unused(e) == e # routed /\ \A m \in Messages : e \notin {handler[m].entry, turn[m].entry}

\* Route and Handle, first part: prune, then find or create the entry.
LookUp(m) ==
    /\ Begun(m) /\ (m \in Commands => channel # "im")
    /\ IF routed # None /\ ~Evictable(routed)
       THEN UNCHANGED <<routed, entry>>
       ELSE \E e \in Entries : /\ Unused(e)
                               /\ routed' = e
                               /\ entry' = [entry EXCEPT ![e] = NewEntry]
    /\ handler' = [handler EXCEPT ![m] = [stage |-> "routing", entry |-> routed']]
    /\ UNCHANGED <<channel, seen, turn, answered, counts>>

\* Route and Handle, second part, under the lock of the entry.
Enter(m) ==
    LET e == handler[m].entry
    IN /\ handler[m].stage = "routing"
       /\ handler' = [handler EXCEPT ![m] = Idle]
       /\ \/ /\ entry[e].active
             /\ entry' = [entry EXCEPT ![e].queue = Append(@, m)]
             /\ UNCHANGED turn
          \/ /\ ~entry[e].active
             /\ entry' = [entry EXCEPT ![e].active = TRUE]
             /\ turn' = [turn EXCEPT ![m] = [stage |-> "reserved", entry |-> e, current |-> m]]
       /\ UNCHANGED <<channel, seen, routed, answered, counts>>

-----------------------------------------------------------------------------
(* The turn                                                                *)

Goes(m, from, to) ==
    /\ turn[m].stage = from
    /\ turn' = [turn EXCEPT ![m].stage = to]

Turns(m, from, to) ==
    Goes(m, from, to) /\ UNCHANGED <<channel, seen, handler, routed, entry, answered, counts>>

Queue(m) == entry[turn[m].entry].queue

HasPending(m) == Underway(m) /\ Queue(m) # <<>>

Start(m) == Turns(m, "reserved", "run")

\* The acknowledgement of a websocket message could not be written.
AckFails(m) ==
    /\ channel = "websocket"
    /\ Goes(m, "reserved", "aborted")
    /\ seen' = [seen EXCEPT ![m] = "absent"]
    /\ UNCHANGED <<channel, handler, routed, entry, answered, counts>>

\* The checkpoint after each event of the run peeks at the queue...
Checkpoint(m) == HasPending(m) /\ Turns(m, "run", "steered")

\* Fault model: the interjection is looked at, but stays in the queue.
TakeUpPeeking(m) ==
    /\ turn[m].stage = "steered"
    /\ turn' = [turn EXCEPT ![m].stage = "run", ![m].current = Head(Queue(m))]
    /\ UNCHANGED <<channel, seen, handler, routed, entry, answered, counts>>

\* ... and the restart takes the interjection from it.
TakeUp(m) ==
    /\ turn[m].stage = "steered"
    /\ IF Queue(m) = <<>>
       THEN /\ turn' = [turn EXCEPT ![m].stage = "failed"]
            /\ UNCHANGED entry
       ELSE /\ turn' = [turn EXCEPT ![m].stage = "run", ![m].current = Head(Queue(m))]
            /\ entry' = [entry EXCEPT ![turn[m].entry].queue = Tail(@)]
    /\ UNCHANGED <<channel, seen, handler, routed, answered, counts>>

\* The last event of the run has been looked at.
Conclude(m) == ~HasPending(m) /\ Turns(m, "run", "concluded")

\* The run ends at a question to a human, before any checkpoint.
Suspend(m) == Turns(m, "run", "concluded")

RunFails(m) == Turns(m, "run", "failed")

SendFinal(m) ==
    /\ Goes(m, "concluded", "succeeded")
    /\ answered' = [answered EXCEPT ![turn[m].current] = @ + 1]
    /\ UNCHANGED <<channel, seen, handler, routed, entry, counts>>

SendFails(m) == Turns(m, "concluded", "failed")

\* An empty final is the agent's choice and counts as processed; a websocket
\* gets its frame all the same.
StaySilent(m) == channel = "im" /\ Turns(m, "concluded", "succeeded")

\* Fault model: every turn makes its message available again.
SettleForgetting(m) ==
    /\ \E from \in {"succeeded", "failed"} : Goes(m, from, "settled")
    /\ seen' = [seen EXCEPT ![m] = "absent"]
    /\ UNCHANGED <<channel, handler, routed, entry, answered, counts>>

\* DedupeComplete or DedupeForget, for the message that started the turn.
Settle(m) ==
    /\ \/ Goes(m, "succeeded", "settled") /\ seen' = [seen EXCEPT ![m] = "completed"]
       \/ Goes(m, "failed", "settled") /\ seen' = [seen EXCEPT ![m] = "absent"]
    /\ UNCHANGED <<channel, handler, routed, entry, answered, counts>>

\* markComplete finds the entry by the key of the chat.
MarkComplete(m) ==
    /\ turn[m].stage \in {"settled", "aborted"}
    /\ turn' = [turn EXCEPT ![m] = NoTurn]
    /\ IF routed = None THEN UNCHANGED entry
       ELSE entry' = [entry EXCEPT ![routed].active = FALSE, ![routed].idle = "recent"]
    /\ UNCHANGED <<channel, seen, handler, routed, answered, counts>>

-----------------------------------------------------------------------------
(* Time and crashes                                                        *)

\* The hour after which an idle entry may be evicted is nearly over: this takes
\* longer than any handler needs from its lookup to the lock of the entry.
NearAge(e) ==
    /\ entry[e].idle = "recent"
    /\ \A m \in Messages : handler[m].entry # e
    /\ entry' = [entry EXCEPT ![e].idle = "due"]
    /\ UNCHANGED <<channel, seen, handler, routed, turn, answered, counts>>

\* The hour is over.  A handler may have looked the entry up just before.
Age(e) ==
    /\ entry[e].idle = "due"
    /\ AgeWhileRouting \/ \A m \in Messages : handler[m].entry # e
    /\ entry' = [entry EXCEPT ![e].idle = "old"]
    /\ UNCHANGED <<channel, seen, handler, routed, turn, answered, counts>>

\* A message of another chat prunes the entry of this one.
Prune ==
    /\ routed # None /\ Evictable(routed)
    /\ routed' = None
    /\ UNCHANGED <<channel, seen, handler, entry, turn, answered, counts>>

\* Only the channels for instant messengers keep the deduper's entries on disk.
Crash ==
    /\ crashes < MaxCrashes
    /\ crashes' = crashes + 1
    /\ seen' = IF channel = "im" THEN seen ELSE [m \in Messages |-> "absent"]
    /\ handler' = [m \in Messages |-> Idle]
    /\ routed' = None
    /\ entry' = [e \in Entries |-> NewEntry]
    /\ turn' = [m \in Messages |-> NoTurn]
    /\ UNCHANGED <<channel, answered, deliveries>>

-----------------------------------------------------------------------------
Init ==
    /\ channel \in Channels
    /\ seen = [m \in Messages |-> "absent"]
    /\ handler = [m \in Messages |-> Idle]
    /\ routed = None
    /\ entry = [e \in Entries |-> NewEntry]
    /\ turn = [m \in Messages |-> NoTurn]
    /\ answered = [m \in Messages |-> 0]
    /\ deliveries = 0 /\ crashes = 0

Handle(m) == ConsumeCommand(m) \/ LookUp(m) \/ Enter(m)

\* What a turn always gets round to.
Advance(m) ==
    \/ Start(m) \/ Checkpoint(m) \/ TakeUp(m) \/ Conclude(m)
    \/ SendFinal(m) \/ StaySilent(m) \/ Settle(m) \/ MarkComplete(m)

Fails(m) == AckFails(m) \/ RunFails(m) \/ SendFails(m)

Next ==
    \/ \E m \in Messages : Begin(m) \/ Handle(m) \/ Advance(m) \/ Suspend(m) \/ Fails(m)
    \/ \E e \in Entries : NearAge(e) \/ Age(e)
    \/ Prune \/ Crash

Fairness == \A m \in Messages : WF_vars(Handle(m)) /\ WF_vars(Advance(m))

Spec == Init /\ [][Next]_vars /\ Fairness

-----------------------------------------------------------------------------
(* What the messages of a chat are promised                                *)

Stages == {"none", "reserved", "run", "steered", "concluded", "succeeded", "failed",
           "settled", "aborted"}

\* The type of every variable.
TypeOK ==
    /\ channel \in Channels
    /\ seen \in [Messages -> {"absent", "processing", "completed"}]
    /\ handler \in [Messages -> [stage : {"idle", "begun", "routing"}, entry : Entries \cup {None}]]
    /\ routed \in Entries \cup {None}
    /\ entry \in [Entries -> [active : BOOLEAN, queue : Seq(Messages),
                               idle : {"never", "recent", "due", "old"}]]
    /\ turn \in [Messages -> [stage : Stages, entry : Entries \cup {None},
                               current : Messages \cup {None}]]
    /\ \A m \in Messages :
          /\ turn[m].entry = None <=> turn[m].stage = "none"
          /\ handler[m].entry = None <=> handler[m].stage # "routing"
    /\ answered \in [Messages -> Nat]
    /\ deliveries \in 0..MaxDeliveries
    /\ crashes \in 0..MaxCrashes

\* A chat has one turn at a time (router.go: "a second message for an active key
\* is steered, never started concurrently").
NeverConcurrent == \A m, n \in Messages : Underway(m) /\ Underway(n) => m = n

\* A chat has one turn at a time, and its entry says so: while a turn is under
\* way the router finds the turn's entry, active; otherwise it finds none or one
\* that lets the next message start.  Handlers, prunes and the ends of turns may
\* come in any order.
OneTurnPerChat ==
    /\ TypeOK
    /\ NeverConcurrent
    /\ \A m \in Messages : Underway(m) => routed = turn[m].entry /\ entry[routed].active
    /\ (routed # None /\ entry[routed].active) => \E m \in Messages : Underway(m)

Queued(m) == \E e \in Entries : \E i \in DOMAIN entry[e].queue : entry[e].queue[i] = m

WorkedOn(m) == \E n \in Messages : Running(n) /\ turn[n].current = m

\* A message that waits or is worked on is remembered by the deduper, in one
\* place only: it is not handled a second time while it waits in a queue, is the
\* subject of a run, or both.
HeldOnce ==
    /\ \A m \in Messages :
          /\ Queued(m) \/ WorkedOn(m) \/ handler[m] # Idle => seen[m] # "absent"
          /\ handler[m] # Idle => ~Queued(m) /\ ~WorkedOn(m)
          /\ ~(Queued(m) /\ WorkedOn(m))
    /\ \A e \in Entries : \A i, j \in DOMAIN entry[e].queue :
          entry[e].queue[i] = entry[e].queue[j] => i = j

\* A message is held once (HeldOnce) and gets one final answer, however often it
\* is delivered, and whether it started the turn or was taken up by one, across
\* the crash of a channel that keeps its deduper on disk.
AnsweredOnce ==
    /\ HeldOnce
    /\ channel = "im" \/ crashes = 0 => \A m \in Messages : answered[m] <= 1

\* Every turn comes to its end, and then (OneTurnPerChat) its chat is free; and
\* one that ends leaves its message settled, completed or available for another
\* delivery, unless a redelivery is at work on it already.
EndsSettled ==
    /\ \A m \in Messages : Underway(m) ~> ~Underway(m)
    /\ [][\A m \in Messages : Underway(m) /\ ~Underway(m)' /\ crashes' = crashes =>
             seen'[m] # "processing" \/ Queued(m)' \/ handler'[m] # Idle]_vars

\* A message that is steered into a turn is taken up by that turn: none is left
\* behind when the chat falls idle (router.go: "reply comes via that turn's
\* OnTurnResult").
NoneLeftBehind ==
    routed # None /\ ~entry[routed].active => entry[routed].queue = <<>>

=============================================================================
