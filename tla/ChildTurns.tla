---------------------------- MODULE ChildTurns ----------------------------
(***************************************************************************)
(* The children that the runs of one chat spawn: the tools spawn_turn,     *)
(* poll_turn and answer_child (package runtime), the collector of their    *)
(* results and the registry of their cancel functions (package progress),  *)
(* and what the turn engine does with both when it restarts or ends.       *)
(*                                                                         *)
(* The tool calls of one model message run at the same time, every child   *)
(* is a goroutine, and so is every answer of the parent.  A child is named *)
(* by its spawn call.  A child cannot spawn: max_depth is at most 1.       *)
(***************************************************************************)
EXTENDS Naturals, FiniteSets

CONSTANTS
    Children,        \* the spawn calls of the chat
    Askers,          \* the children that may ask a human
    MaxParallel,     \* policy: children of a run that run at the same time
    MaxOutstanding,  \* policy: children of a run that are outstanding
    None,
    MaxRuns          \* bound on the runs of the chat's turns

ASSUME ChildrenAssumption ==
    /\ Askers \subseteq Children
    /\ MaxParallel \in Nat \ {0} /\ MaxOutstanding \in Nat \ {0}
    /\ MaxRuns \in Nat \ {0}
    /\ None \notin 1..MaxRuns /\ None \notin {"ended", "waiting", "parent", "human"}

\* What a result says: the child has ended, well or badly, or it waits for a human.
Outcomes == {"ended", "waiting"}

VARIABLES
    run,        \* number of the parent run, a new one for every restart and turn
    phase,      \* where the turn engine is
    child,      \* the goroutine of each child
    slots,      \* activeChildren, per parent run
    registry,   \* children whose cancel function is registered with the turn
    results,    \* the collector of the chat
    polled,     \* children whose question poll_turn has shown to the parent
    asked,      \* children that have asked a human
    answer,     \* who answered the question of a child
    answering,  \* answers of the parent that are on their way
    told        \* children whose parent was told "answering"

questions == <<asked, answer, answering, told>>
vars == <<run, phase, child, slots, registry, results, polled, questions>>

NotSpawned == [stage |-> "none", run |-> None, canceled |-> FALSE, result |-> None]

At(c, stage) == child[c].stage = stage

\* A tool call is at work on the spawn.
InCall(c) == child[c].stage \in {"checked", "reserved"}

\* The child occupies a slot of its parent run.
Holds(c) == child[c].stage \in {"reserved", "running", "returned", "delivered", "unregistered"}

-----------------------------------------------------------------------------
(* The tool calls of the parent                                            *)

\* evaluateSpawnGuardrails, first critical section: the outstanding children.
CheckOutstanding(c) ==
    /\ phase = "running" /\ At(c, "none")
    /\ slots[run] < MaxOutstanding
    /\ child' = [child EXCEPT ![c].stage = "checked", ![c].run = run]
    /\ UNCHANGED <<run, phase, slots, registry, results, polled, questions>>

\* Fault model: the slot is taken on the strength of the first count.
ReserveUnchecked(c) ==
    /\ At(c, "checked")
    /\ slots' = [slots EXCEPT ![run] = @ + 1]
    /\ child' = [child EXCEPT ![c].stage = "reserved"]
    /\ UNCHANGED <<run, phase, registry, results, polled, questions>>

\* Second critical section: a slot, or the call is rejected.
ReserveSlot(c) ==
    /\ At(c, "checked")
    /\ IF slots[run] < MaxParallel
       THEN /\ slots' = [slots EXCEPT ![run] = @ + 1]
            /\ child' = [child EXCEPT ![c].stage = "reserved"]
       ELSE /\ child' = [child EXCEPT ![c] = NotSpawned]
            /\ UNCHANGED slots
    /\ UNCHANGED <<run, phase, registry, results, polled, questions>>

\* spawnCore: the cancel function is registered before the goroutine starts.
Spawn(c) ==
    /\ At(c, "reserved")
    /\ child' = [child EXCEPT ![c].stage = "running"]
    /\ registry' = registry \cup {c}
    /\ UNCHANGED <<run, phase, slots, results, polled, questions>>

\* Fault model: reading a result takes it out of the collector.
PollDraining(c) ==
    /\ phase = "running" /\ results[c] = "waiting"
    /\ polled' = polled \cup {c}
    /\ results' = [results EXCEPT ![c] = None]
    /\ UNCHANGED <<run, phase, child, slots, registry, questions>>

\* poll_turn, when there is a question to show (other results change nothing):
\* the result stays in the collector.
Poll(c) ==
    /\ phase = "running" /\ results[c] = "waiting"
    /\ polled' = polled \cup {c}
    /\ UNCHANGED <<run, phase, child, slots, registry, results, questions>>

\* answer_child: the question is still open, so the answer is on its way.
AnswerChild(c) ==
    /\ phase = "running" /\ c \in polled
    /\ answer[c] = None
    /\ answering' = answering \cup {c}
    /\ told' = told \cup {c}
    /\ UNCHANGED <<run, phase, child, slots, registry, results, polled, asked, answer>>

\* Fault model: the answer belongs to the turn and ends with it.
ResolveWithinTurn(c) ==
    /\ c \in answering
    /\ answering' = answering \ {c}
    /\ answer' = IF answer[c] = None /\ phase = "running"
                 THEN [answer EXCEPT ![c] = "parent"] ELSE answer
    /\ UNCHANGED <<run, phase, child, slots, registry, results, polled, asked, told>>

\* The detached goroutine stores the answer, unless somebody was faster.
ResolveAnswer(c) ==
    /\ c \in answering
    /\ answering' = answering \ {c}
    /\ answer' = IF answer[c] = None THEN [answer EXCEPT ![c] = "parent"] ELSE answer
    /\ UNCHANGED <<run, phase, child, slots, registry, results, polled, asked, told>>

\* The question has also been delivered to the chat, or is answered over HTTP.
HumanAnswers(c) ==
    /\ c \in asked /\ answer[c] = None
    /\ answer' = [answer EXCEPT ![c] = "human"]
    /\ UNCHANGED <<run, phase, child, slots, registry, results, polled, asked, answering, told>>

-----------------------------------------------------------------------------
(* The goroutine of a child                                                *)

Returns(c, outcome) ==
    /\ At(c, "running")
    /\ child' = [child EXCEPT ![c].stage = "returned", ![c].result = outcome]

\* The child completes, fails, panics, is canceled or times out.
Return(c) ==
    /\ Returns(c, "ended")
    /\ UNCHANGED <<run, phase, slots, registry, results, polled, questions>>

\* The child asks a human and ends.  A canceled one can create no request.
AskHuman(c) ==
    /\ c \in Askers /\ ~child[c].canceled
    /\ Returns(c, "waiting")
    /\ asked' = asked \cup {c}
    /\ UNCHANGED <<run, phase, slots, registry, results, polled, answer, answering, told>>

\* Fault model: the sink is a channel that only the child's own run reads.
DeliverBlocking(c) ==
    /\ At(c, "returned") /\ child[c].run = run
    /\ child' = [child EXCEPT ![c].stage = "delivered"]
    /\ results' = [results EXCEPT ![c] = child[c].result]
    /\ UNCHANGED <<run, phase, slots, registry, polled, questions>>

\* SpawnCollector.Deliver, whatever has become of the parent meanwhile.
Deliver(c) ==
    /\ At(c, "returned")
    /\ child' = [child EXCEPT ![c].stage = "delivered"]
    /\ results' = [results EXCEPT ![c] = child[c].result]
    /\ UNCHANGED <<run, phase, slots, registry, polled, questions>>

\* The deferred calls: unregister, cancel...
Unregister(c) ==
    /\ At(c, "delivered")
    /\ child' = [child EXCEPT ![c].stage = "unregistered"]
    /\ registry' = registry \ {c}
    /\ UNCHANGED <<run, phase, slots, results, polled, questions>>

\* ... and give the slot back.
ReleaseSlot(c) ==
    /\ At(c, "unregistered")
    /\ child' = [child EXCEPT ![c].stage = "gone"]
    /\ slots' = [slots EXCEPT ![child[c].run] = IF @ <= 1 THEN 0 ELSE @ - 1]
    /\ UNCHANGED <<run, phase, registry, results, polled, questions>>

-----------------------------------------------------------------------------
(* The turn engine                                                         *)

\* A run ends, be it for an interjection, after its tool calls have returned.
RunOver == \A c \in Children : ~InCall(c)

CancelAll == child' = [c \in Children |->
    [child[c] EXCEPT !.canceled = @ \/ c \in registry]]

NoResults == [c \in Children |-> None]

\* The run returned ErrSteered and an interjection was taken from the queue.
Steer ==
    /\ phase = "running" /\ RunOver /\ run < MaxRuns
    /\ phase' = "steered"
    /\ UNCHANGED <<run, child, slots, registry, results, polled, questions>>

CancelForSteer ==
    /\ phase = "steered"
    /\ CancelAll
    /\ phase' = "quieted"
    /\ UNCHANGED <<run, slots, registry, results, polled, questions>>

\* SpawnResetter, and the run starts again with the interjection.
Restart ==
    /\ phase = "quieted"
    /\ results' = NoResults
    /\ phase' = "running" /\ run' = run + 1
    /\ UNCHANGED <<child, slots, registry, polled, questions>>

\* The last run is over, in whatever way; the deferred calls begin.
EndTurn ==
    /\ phase = "running" /\ RunOver
    /\ phase' = "ending"
    /\ UNCHANGED <<run, child, slots, registry, results, polled, questions>>

\* SpawnResetter comes first...
ResetAtEnd ==
    /\ phase = "ending"
    /\ results' = NoResults
    /\ phase' = "emptied"
    /\ UNCHANGED <<run, child, slots, registry, polled, questions>>

\* ... then CancelAll and Reset of the registry.
CancelAtEnd ==
    /\ phase = "emptied"
    /\ CancelAll
    /\ registry' = {}
    /\ phase' = "idle"
    /\ UNCHANGED <<run, slots, results, polled, questions>>

\* Another message starts a turn of the chat, with the same collector.
NextTurn ==
    /\ phase = "idle" /\ run < MaxRuns
    /\ phase' = "running" /\ run' = run + 1
    /\ UNCHANGED <<child, slots, registry, results, polled, questions>>

-----------------------------------------------------------------------------
Init ==
    /\ run = 1 /\ phase = "running"
    /\ child = [c \in Children |-> NotSpawned]
    /\ slots = [r \in 1..MaxRuns |-> 0]
    /\ registry = {}
    /\ results = NoResults
    /\ polled = {} /\ asked = {} /\ answering = {} /\ told = {}
    /\ answer = NoResults

ToolCall(c) == CheckOutstanding(c) \/ ReserveSlot(c) \/ Spawn(c) \/ Poll(c) \/ AnswerChild(c)

Goroutine(c) == Return(c) \/ Deliver(c) \/ Unregister(c) \/ ReleaseSlot(c)

Next ==
    \/ \E c \in Children : ToolCall(c) \/ Goroutine(c) \/ AskHuman(c)
                           \/ ResolveAnswer(c) \/ HumanAnswers(c)
    \/ Steer \/ CancelForSteer \/ Restart
    \/ EndTurn \/ ResetAtEnd \/ CancelAtEnd \/ NextTurn

\* A started goroutine goes on; a child ends at the latest at its timeout.
Fairness ==
    \A c \in Children :
        /\ WF_vars(ReserveSlot(c)) /\ WF_vars(Spawn(c))
        /\ WF_vars(Goroutine(c)) /\ WF_vars(ResolveAnswer(c))

Spec == Init /\ [][Next]_vars /\ Fairness

-----------------------------------------------------------------------------
(* What children and their parents are promised                            *)

\* The type of every variable.
TypeOK ==
    /\ run \in 1..MaxRuns
    /\ phase \in {"running", "steered", "quieted", "ending", "emptied", "idle"}
    /\ child \in [Children -> [stage : {"none", "checked", "reserved", "running", "returned",
                                        "delivered", "unregistered", "gone"},
                               run : 1..MaxRuns \cup {None}, canceled : BOOLEAN,
                               result : Outcomes \cup {None}]]
    /\ \A c \in Children : child[c].run = None <=> At(c, "none")
    /\ slots \in [1..MaxRuns -> Nat]
    /\ registry \subseteq Children
    /\ results \in [Children -> Outcomes \cup {None}]
    /\ asked \subseteq Askers /\ polled \subseteq asked /\ told \subseteq polled /\ answering \subseteq told
    /\ answer \in [Children -> {"parent", "human", None}]

HoldersOf(r) == {c \in Children : child[c].run = r /\ Holds(c)}

\* No child is left to run to its timeout: once its run is over and the turn has
\* ended or gone on to the next run, it is canceled (chatkey_session.go: "does not
\* leave them burning tokens to timeout").
NoneLeftRunning ==
    \A c \in Children :
        At(c, "running") /\ (child[c].run # run \/ phase = "idle") => child[c].canceled

\* The state is well-formed; the slots of a run are those its children hold, and
\* never more than the policy allows, although they are counted in one critical
\* section, taken in another, and given back by goroutines that may outlive the
\* run; and a slot that outlives its run is on its way back, for its child is
\* canceled.
SlotsMatch ==
    /\ TypeOK
    /\ \A r \in 1..MaxRuns : /\ slots[r] = Cardinality(HoldersOf(r))
                             /\ slots[r] <= MaxParallel
    /\ NoneLeftRunning

Delivered(c) == child[c].stage \in {"delivered", "unregistered", "gone"}

\* A parent that polls a child of its own run sees the result from the delivery
\* to the end of the run, however often it asks and whatever older children,
\* resets and cancellations do to the collector meanwhile.
ResultsKept ==
    \A c \in Children :
        phase = "running" /\ child[c].run = run /\ Delivered(c) => results[c] = child[c].result

\* Every child that got a slot gives it back in the end.
SlotsReturned == \A c \in Children : Holds(c) ~> At(c, "gone")

\* When the parent was told that its answer is on its way, the question does get
\* answered, also when the turn ends at once: by the parent, or by somebody faster.
AnsweringIsAnswered == \A c \in Children : c \in told ~> answer[c] # None

Open(c) == c \in asked /\ answer[c] = None

\* A child that waits for a human still counts as outstanding (HITL plan: it
\* "still counts against `max_outstanding`").
OutstandingBounded ==
    \A r \in 1..MaxRuns :
        Cardinality(HoldersOf(r) \cup {c \in Children : child[c].run = r /\ Open(c)})
            <= MaxOutstanding

\* A restarted run finds no results of the children of an earlier one
\* (chatkey_session.go: "must not surface the previous run's stale child results").
NoStaleResults ==
    phase = "running" => \A c \in Children : results[c] # None => child[c].run = run

=============================================================================
