---------------------------- MODULE ProgressFeed ----------------------------
(***************************************************************************)
(* What a user sees while a turn is running: the progress messages of one  *)
(* chat.  The run of a turn and the children it spawned hand their events  *)
(* to a feed (runtime/event_dispatch.go); the feed renders them, keeps     *)
(* them within the quotas of the turn, drops what was said already, and a  *)
(* goroutine of its own sends them one after the other, so that a slow     *)
(* channel does not hold up the run.                                       *)
(*                                                                         *)
(* There are two feeds: "raw" is progress/im_renderer.go, which iLink and  *)
(* Feishu use, one for every message that comes in; "bus" is               *)
(* progress/chatcontext.go, one for every turn.  The first filters before  *)
(* its queue, the second behind it, and only the second is bounded, falls  *)
(* silent at the final answer, and is reset when a user steers the turn.   *)
(*                                                                         *)
(* Producers, the sending goroutine and the turn meet in two locks and a   *)
(* channel of capacity one; every critical section is a step.              *)
(***************************************************************************)
EXTENDS Integers, Sequences, SequencesExt

CONSTANTS
    Nothing,
    MaxMessages,    \* bound: inbound messages of the chat, in the order they come in
    MaxChildren,    \* bound: child turns, in the order they are heard of
    Paths,          \* the feeds to be considered, of {"raw", "bus"}
    Offers,         \* the events each producer may report
    ParentQuota,    \* MaxParentProgressMessagesPerTurn, 0 when unlimited
    ChildQuota,     \* MaxChildProgressMessagesPerTurn, 0 when unlimited
    Capacity,       \* chatContextQueueCapacity
    MaxEvents       \* bound: events that are reported

Inbound == 1..MaxMessages

\* The run of a turn, 0, and its children.
Producers == 0..MaxChildren

Children == Producers \ {0}

ASSUME FeedAssumption ==
    /\ MaxMessages \in Nat /\ MaxChildren \in Nat
    /\ Paths \subseteq {"raw", "bus"} /\ Paths # {}
    /\ ParentQuota \in Nat /\ ChildQuota \in Nat /\ Capacity \in Nat \ {0}
    /\ MaxEvents \in Nat
    /\ DOMAIN Offers = Producers
    /\ Nothing \notin Inbound

VARIABLES
    path,       \* the feed of this chat's channel
    turns,      \* for each message, how far its turn has got
    feed,       \* for each message, its feed
    emitter,    \* for each producer, the event it is about to hand over
    parent,     \* for each child that was heard of, the message whose turn it is of
    emits,      \* the number of events that were reported
    owed,       \* for each message, the questions its feed has taken on
    refused,    \* those of them that met a queue full of events as urgent
    tried,      \* for each message, what the channel was given since its feed was reset
    failed      \* what of it the channel failed to send

feedVars == <<path, turns, feed, emitter, parent, emits, owed, refused, tried, failed>>

----------------------------------------------------------------------------
(* Events                                                                  *)

\* The class of a runtime event: what EventFromRuntime maps it to, as far as
\* feeds tell classes apart.  A question that is shown to its owner or on a card
\* is not the feed's to show.  Other kinds of events are only logged.
ClassOf(kind, status) ==
    CASE kind \in {"run.started", "agent.delegate.started", "agent.delegate.completed"} -> "lifecycle"
      [] kind \in {"agent.delegate.failed", "agent.delegate.timeout"} -> "failed"
      [] kind = "run.finished" /\ status \in {"completed", "canceled"} -> "lifecycle"
      [] kind = "run.finished" /\ status \in {"failed", "timeout"} -> "failed"
      [] kind \in {"run.waiting_human", "agent.delegate.waiting_human"} ->
             IF status \in {"owner", "sent"} THEN "lifecycle" ELSE "asked"
      [] kind = "human.request.created" -> "lifecycle"
      [] kind = "assistant.status" -> "status"
      [] kind = "tool.started" -> "tool"
      [] kind \in {"tool.completed", "tool.finished"} -> "result"
      [] kind = "assistant.final" -> "final"
      [] OTHER -> "none"

\* What is shown of an event, and by which two of them are the same.
Rendered(p, offer) ==
    [class |-> ClassOf(offer.kind, offer.status), child |-> p # 0, text |-> offer.text]

Shown(e) == e.class \in {"failed", "asked", "status", "tool"}

Critical(e) == e.class \notin {"status", "tool", "result"}

Counted(e) == e.class # "asked"

\* progressQuotaLimit
Quota(child) == IF child THEN ChildQuota ELSE ParentQuota

NoFeed == [loop |-> "none", taken |-> <<>>, queue |-> <<>>, signal |-> FALSE, done |-> FALSE,
           canceled |-> FALSE, restarted |-> FALSE, drained |-> FALSE,
           counts |-> [child \in BOOLEAN |-> 0], said |-> {}]

NothingInHand == [message |-> Nothing, event |-> Nothing]

TurnUnderway(m) == turns[m] \notin {"new", "steered", "taken", "over"}

\* Fault model: questions count as progress.
PassesCounted(m, e) ==
    /\ ~(Quota(e.child) > 0 /\ feed[m].counts[e.child] >= Quota(e.child))
    /\ e \notin feed[m].said

\* The critical section that decides whether an event is sent.
Passes(m, e) ==
    /\ ~(Counted(e) /\ Quota(e.child) > 0 /\ feed[m].counts[e.child] >= Quota(e.child))
    /\ e \notin feed[m].said

Noted(m, e) ==
    [feed[m] EXCEPT !.said = @ \cup {e},
                    !.counts[e.child] = IF Counted(e) THEN @ + 1 ELSE @]

----------------------------------------------------------------------------
(* The turn                                                                *)

\* A message comes in.  While a turn is under way it is steered into it: of the
\* renderer that was started for it nobody makes use.
Receive(m) ==
    /\ turns[m] = "new" /\ \A n \in 1..m - 1 : turns[n] # "new"
    /\ turns' = [turns EXCEPT ![m] = IF \E n \in Inbound : TurnUnderway(n)
                                          THEN "steered" ELSE "running"]
    /\ feed' = [feed EXCEPT ![m].loop = IF path = "raw" \/ turns'[m] = "running"
                                        THEN "check" ELSE @]
    /\ UNCHANGED <<path, emitter, parent, emits, owed, refused, tried, failed>>

\* The context of the turn is canceled; a reset gives its feed another one.
CancelTurn(m) ==
    /\ path = "bus" /\ TurnUnderway(m) /\ ~feed[m].canceled /\ ~feed[m].restarted
    /\ feed' = [feed EXCEPT ![m].canceled = TRUE]
    /\ UNCHANGED <<path, turns, emitter, parent, emits, owed, refused, tried, failed>>

\* The run is over, as a checkpoint found another message, and starts again with
\* that one.  Only the feed of the turn is reset, not the renderer of a channel.
Steer(m, n) ==
    /\ turns[m] = "running" /\ emitter[0] = NothingInHand
    /\ turns[n] = "steered"
    /\ turns' = [turns EXCEPT ![n] = "taken", ![m] = IF path = "bus" THEN "cancel" ELSE @]
    /\ UNCHANGED <<path, feed, emitter, parent, emits, owed, refused, tried, failed>>

\* The run is over and its final answer is sent.
End(m) ==
    /\ turns[m] = "running" /\ emitter[0] = NothingInHand
    /\ turns' = [turns EXCEPT ![m] = "stop"]
    /\ UNCHANGED <<path, feed, emitter, parent, emits, owed, refused, tried, failed>>

----------------------------------------------------------------------------
(* Producers                                                               *)

\* Fault model: the event is counted when it is queued.
DeliverRawUncounted(p, m, e) ==
    /\ path = "raw"
    /\ IF Shown(e) /\ Passes(m, e)
       THEN emitter' = [emitter EXCEPT ![p] = [message |-> m, event |-> e]]
       ELSE UNCHANGED emitter
    /\ UNCHANGED feed

\* DeliverRaw, first half: an event that passes is counted before it is queued.
DeliverRaw(p, m, e) ==
    /\ path = "raw"
    /\ IF Shown(e) /\ Passes(m, e)
       THEN /\ feed' = [feed EXCEPT ![m] = Noted(m, e)]
            /\ emitter' = [emitter EXCEPT ![p] = [message |-> m, event |-> e]]
       ELSE UNCHANGED <<feed, emitter>>

\* Deliver, first half: nothing is taken on after the final answer.
Deliver(p, m, e) ==
    /\ path = "bus"
    /\ feed' = [feed EXCEPT ![m].drained = @ \/ e.class = "final"]
    /\ emitter' = IF feed'[m].drained THEN emitter
                  ELSE [emitter EXCEPT ![p] = [message |-> m, event |-> e]]

\* One that was spawned by the turn: its sink is that of the turn.
ChildOf(c, m) ==
    \/ parent[c] = m
    \/ /\ parent[c] = Nothing /\ \A b \in 1..c - 1 : parent[b] # Nothing
       /\ TurnUnderway(m) \/ turns[m] = "over"

\* A producer reports an event: the run itself, while it goes on, and children
\* of the turn, also when it has ended.  What the run asks its user, the feed owes.
Emit(p, m, offer) ==
    LET e == Rendered(p, offer) IN
    /\ IF p = 0 THEN turns[m] = "running" ELSE ChildOf(p, m)
    /\ emitter[p] = NothingInHand /\ emits < MaxEvents
    /\ e.class # "none"
    /\ DeliverRaw(p, m, e) \/ Deliver(p, m, e)
    /\ emits' = emits + 1
    /\ parent' = IF p = 0 THEN parent ELSE [parent EXCEPT ![p] = m]
    /\ owed' = IF p = 0 /\ e.class = "asked" /\ ~feed[m].drained
               THEN [owed EXCEPT ![m] = @ \cup {e}] ELSE owed
    /\ UNCHANGED <<path, turns, refused, tried, failed>>

\* evictFor: the first event of a lower priority makes room for this one.
Room(queue, e) ==
    LET lower == {i \in DOMAIN queue : Critical(e) /\ ~Critical(queue[i])} IN
    IF lower = {} THEN queue
    ELSE Append(RemoveAt(queue, CHOOSE i \in lower : \A j \in lower : i <= j), e)

WithEvent(queue, e) ==
    IF path = "raw" \/ Len(queue) < Capacity THEN Append(queue, e) ELSE Room(queue, e)

\* Second half: the event is queued, unless the feed was closed meanwhile or no event
\* in a full queue is less urgent.  The signal follows the unlock; the goroutine cannot
\* tell them apart, for it looks at the queue before it waits for a signal.
Enqueue(p) ==
    /\ emitter[p] # NothingInHand
    /\ LET m == emitter[p].message
           e == emitter[p].event
           queue == WithEvent(feed[m].queue, e)
           accepted == ~feed[m].done
       IN /\ feed' = IF accepted
                     THEN [feed EXCEPT ![m].queue = queue, ![m].signal = TRUE] ELSE feed
          /\ owed' = IF accepted /\ e.class = "asked"
                     THEN [owed EXCEPT ![m] = @ \cup {e}] ELSE owed
          /\ refused' = IF accepted /\ e.class = "asked" /\ Last(queue) # e
                        THEN [refused EXCEPT ![m] = @ \cup {e}] ELSE refused
    /\ emitter' = [emitter EXCEPT ![p] = NothingInHand]
    /\ UNCHANGED <<path, turns, parent, emits, tried, failed>>

----------------------------------------------------------------------------
(* The sending goroutine                                                   *)

At(m, stage) == feed[m].loop = stage

\* Under the lock of the queue: the next event, the end, or a wait.
Dequeue(m) ==
    /\ At(m, "check")
    /\ feed' = [feed EXCEPT ![m] =
           IF feed[m].queue # <<>>
           THEN [feed[m] EXCEPT !.taken = <<Head(feed[m].queue)>>, !.queue = Tail(feed[m].queue),
                                !.loop = IF path = "raw" THEN "send" ELSE "dispatch"]
           ELSE [feed[m] EXCEPT !.loop = IF feed[m].done THEN "exited" ELSE "wait"]]
    /\ UNCHANGED <<path, turns, emitter, parent, emits, owed, refused, tried, failed>>

Wake(m) ==
    /\ At(m, "wait") /\ feed[m].signal
    /\ feed' = [feed EXCEPT ![m].loop = "check", ![m].signal = FALSE]
    /\ UNCHANGED <<path, turns, emitter, parent, emits, owed, refused, tried, failed>>

\* The context of the feed is canceled: what is left is sent, then it ends.
Drain(m) ==
    /\ At(m, "wait") /\ feed[m].canceled
    /\ feed' = [feed EXCEPT ![m] =
           [feed[m] EXCEPT !.done = TRUE, !.queue = <<>>, !.taken = feed[m].queue,
                           !.loop = IF feed[m].queue = <<>> THEN "check" ELSE "dispatch"]]
    /\ UNCHANGED <<path, turns, emitter, parent, emits, owed, refused, tried, failed>>

AfterTaken(f) ==
    [f EXCEPT !.taken = Tail(@), !.loop = IF Len(f.taken) = 1 THEN "check" ELSE "dispatch"]

Dispatch(m) ==
    LET e == Head(feed[m].taken) IN
    /\ At(m, "dispatch")
    /\ feed' = [feed EXCEPT ![m] = IF Shown(e) /\ Passes(m, e)
                                   THEN [Noted(m, e) EXCEPT !.loop = "send"]
                                   ELSE AfterTaken(feed[m])]
    /\ UNCHANGED <<path, turns, emitter, parent, emits, owed, refused, tried, failed>>

\* The channel takes the text, or fails or takes longer than ten seconds; either way
\* the feed goes on, and nobody tries again.
Send(m, ok) ==
    LET e == Head(feed[m].taken) IN
    /\ At(m, "send")
    /\ tried' = [tried EXCEPT ![m] = Append(@, e)]
    /\ failed' = [failed EXCEPT ![m] = IF ok THEN @ ELSE @ \cup {e}]
    /\ feed' = [feed EXCEPT ![m] = AfterTaken(feed[m])]
    /\ UNCHANGED <<path, turns, emitter, parent, emits, owed, refused>>

----------------------------------------------------------------------------
(* Reset and Stop                                                          *)

Step(m, from, to) == turns[m] = from /\ turns' = [turns EXCEPT ![m] = to]

CancelFeed(m) ==
    /\ Step(m, "cancel", "close")
    /\ feed' = [feed EXCEPT ![m].canceled = TRUE, ![m].restarted = TRUE]
    /\ UNCHANGED <<path, emitter, parent, emits, owed, refused, tried, failed>>

\* The queue of the interrupted run is dropped, with the questions in it.
CloseFeed(m) ==
    /\ Step(m, "close", "await")
    /\ feed' = [feed EXCEPT ![m].done = TRUE, ![m].queue = <<>>, ![m].signal = TRUE]
    /\ UNCHANGED <<path, emitter, parent, emits, owed, refused, tried, failed>>

\* The goroutine has exited, and the state of the interrupted run is cleared.
ForgetRun(m) ==
    /\ Step(m, "await", "reopen") /\ At(m, "exited")
    /\ feed' = [feed EXCEPT ![m].counts = NoFeed.counts, ![m].said = {}, ![m].drained = FALSE]
    /\ owed' = [owed EXCEPT ![m] = {}] /\ refused' = [refused EXCEPT ![m] = {}]
    /\ tried' = [tried EXCEPT ![m] = <<>>] /\ failed' = [failed EXCEPT ![m] = {}]
    /\ UNCHANGED <<path, emitter, parent, emits>>

Reopen(m) ==
    /\ Step(m, "reopen", "running")
    /\ feed' = [feed EXCEPT ![m].done = FALSE, ![m].queue = <<>>, ![m].canceled = FALSE,
                            ![m].loop = "check"]
    /\ UNCHANGED <<path, emitter, parent, emits, owed, refused, tried, failed>>

Reset(m) == CancelFeed(m) \/ CloseFeed(m) \/ ForgetRun(m) \/ Reopen(m)

\* Fault model: nobody wakes the goroutine.
StopAsleep(m) ==
    /\ Step(m, "stop", "stopping")
    /\ feed' = [feed EXCEPT ![m].done = TRUE]
    /\ UNCHANGED <<path, emitter, parent, emits, owed, refused, tried, failed>>

StopFeed(m) ==
    /\ Step(m, "stop", "stopping")
    /\ feed' = [feed EXCEPT ![m].done = TRUE, ![m].signal = TRUE]
    /\ UNCHANGED <<path, emitter, parent, emits, owed, refused, tried, failed>>

Stopped(m) ==
    /\ Step(m, "stopping", "over") /\ At(m, "exited")
    /\ UNCHANGED <<path, feed, emitter, parent, emits, owed, refused, tried, failed>>

Stop(m) == StopFeed(m) \/ Stopped(m)

----------------------------------------------------------------------------

FeedInit ==
    /\ path \in Paths
    /\ turns = [m \in Inbound |-> "new"]
    /\ feed = [m \in Inbound |-> NoFeed]
    /\ emitter = [p \in Producers |-> NothingInHand]
    /\ parent = [c \in Children |-> Nothing]
    /\ emits = 0
    /\ owed = [m \in Inbound |-> {}] /\ refused = [m \in Inbound |-> {}]
    /\ tried = [m \in Inbound |-> <<>>] /\ failed = [m \in Inbound |-> {}]

Sender(m) ==
    Dequeue(m) \/ Wake(m) \/ Drain(m) \/ Dispatch(m) \/ \E ok \in BOOLEAN : Send(m, ok)

FeedNext ==
    \/ \E m \in Inbound :
          \/ Receive(m) \/ CancelTurn(m) \/ End(m) \/ Reset(m) \/ Stop(m) \/ Sender(m)
          \/ \E n \in Inbound : Steer(m, n)
          \/ \E p \in Producers : \E offer \in Offers[p] : Emit(p, m, offer)
    \/ \E p \in Producers : Enqueue(p)

\* Goroutines go on and a send returns; whether a run ends is up to the run.
FeedFairness ==
    /\ \A m \in Inbound : WF_feedVars(Reset(m)) /\ WF_feedVars(Stop(m)) /\ WF_feedVars(Sender(m))
    /\ \A p \in Producers : WF_feedVars(Enqueue(p))

FeedSpec == FeedInit /\ [][FeedNext]_feedVars /\ FeedFairness

----------------------------------------------------------------------------
(* What a user may rely on                                                 *)

Events == [class : {"lifecycle", "failed", "asked", "status", "tool", "result", "final"},
           child : BOOLEAN, text : {o.text : o \in UNION {Offers[p] : p \in Producers}}]

FeedTypeOK ==
    /\ path \in Paths
    /\ turns \in [Inbound -> {"new", "running", "steered", "taken", "cancel", "close", "await",
                              "reopen", "stop", "stopping", "over"}]
    /\ feed \in [Inbound -> [loop : {"none", "check", "wait", "dispatch", "send", "exited"},
                              taken : Seq(Events), queue : Seq(Events), signal : BOOLEAN,
                              done : BOOLEAN, canceled : BOOLEAN, restarted : BOOLEAN, drained : BOOLEAN,
                              counts : [BOOLEAN -> Nat], said : SUBSET Events]]
    /\ \A m \in Inbound :
          /\ feed[m].taken = <<>> <=> feed[m].loop \notin {"dispatch", "send"}
          /\ path = "bus" => Len(feed[m].queue) <= Capacity
    /\ emitter \in [Producers -> {NothingInHand} \cup [message : Inbound, event : Events]]
    /\ parent \in [Children -> Inbound \cup {Nothing}]
    /\ emits \in 0..MaxEvents
    /\ owed \in [Inbound -> SUBSET Events] /\ refused \in [Inbound -> SUBSET Events]
    /\ tried \in [Inbound -> Seq(Events)] /\ failed \in [Inbound -> SUBSET Events]

\* The state is well-formed, and a chat is not flooded: since the last reset
\* nothing was handed to the channel twice, and no more progress than the two quotas
\* allow, however many children talk at the same time and whatever the channel does.
NoFlood ==
    /\ FeedTypeOK
    /\ \A m \in Inbound :
          /\ IsInjective(tried[m])
          /\ \A child \in BOOLEAN : Quota(child) > 0 =>
                Cardinality({e \in ToSet(tried[m]) : Counted(e) /\ e.child = child}) <= Quota(child)

\* What the channel took.
Displayed(m) == ToSet(tried[m]) \ failed[m]

\* A question the run asks its user is shown before the turn is over, whatever the
\* quotas and however many events of less urgency there are (types.go: "delivered
\* independently of the progress quota"), unless the turn was canceled, the channel
\* failed, or the question met a queue full of events as urgent.
QuestionsShown ==
    \A m \in Inbound :
        turns[m] = "over" /\ ~feed[m].canceled =>
            owed[m] \subseteq Displayed(m) \cup failed[m] \cup refused[m]

HeldUp(m) == turns[m] \in {"cancel", "close", "await", "reopen", "stop", "stopping"}

\* When a turn is over, or the run it restarts has been forgotten, its feed is silent,
\* whatever was queued or in flight (Stop and Reset wait for the goroutine to exit).
SilentAfterwards ==
    [][\A m \in Inbound : turns[m] \in {"reopen", "over"} => tried'[m] = tried[m]]_feedVars

\* A turn that stops or restarts its feed waits for it, but not for ever, whatever
\* children report meanwhile (chatcontext.go: "sendLoop WILL exit").
TurnReleased ==
    /\ \A m \in Inbound : HeldUp(m) ~> ~HeldUp(m)
    /\ SilentAfterwards

\* A feed has a goroutine only as long as a turn makes use of it (im_renderer.go:
\* "One IMEventRenderer per active turn.  Call Stop() at turn end").
NoneLeftWaiting ==
    \A m \in Inbound : turns[m] \in {"steered", "taken"} => feed[m].loop \in {"none", "exited"}

=============================================================================
