--------------------------- MODULE WsConnections ---------------------------
(***************************************************************************)
(* Which connection speaks for a chat (package websocket): the registry of *)
(* connections, the frames of a connection, and the turns whose answers    *)
(* find their connection in the registry only when they are sent.          *)
(*                                                                         *)
(* A connection's read loop handles one frame after the other; a turn runs *)
(* in a goroutine of its own.  The registry knows a chat by its canonical  *)
(* key, the router by the key as the client spells it.  A connection is    *)
(* used once: a client that comes back has another one.                    *)
(***************************************************************************)
EXTENDS FiniteSets

CONSTANTS
    Conns,          \* connections
    Chats,          \* chat keys, as clients spell them
    Canonical,      \* the canonical key of each
    Messages,       \* messages that clients send and send again
    ChatOf,         \* the chat of each
    None

ASSUME WsAssumption ==
    /\ None \notin Conns \cup Chats \cup Messages
    /\ Canonical \in [Chats -> Chats]
    /\ \A k \in Chats : Canonical[Canonical[k]] = Canonical[k]
    /\ ChatOf \in [Messages -> Chats]

VARIABLES
    conn,       \* new, open, dead (its client is gone) or closed by the server
    fresh,      \* connections with a frame in the last minute
    keys,       \* the keys a connection has ever registered
    registry,   \* the connection registered for a canonical key
    handler,    \* the frame a read loop is working on
    seen,       \* the deduper's entry of a message
    turn,       \* the router's turn of a chat
    question,   \* a question to the sender of a chat
    promised    \* <<c, m>>: c was told to expect the answer to m

vars == <<conn, fresh, keys, registry, handler, seen, turn, question, promised>>

Reading == [at |-> "read", about |-> None]
NoTurn == [stage |-> "none", message |-> None]

Idle(c) == handler[c] = Reading

At(c, stage) == handler[c].at = stage

Owner(k) == registry[Canonical[k]]

IsActive(k) == turn[k].stage # "none"

\* A frame of an open connection reaches its read loop.
Frame(c, at, about) ==
    /\ conn[c] = "open" /\ Idle(c)
    /\ fresh' = fresh \cup {c}
    /\ handler' = [handler EXCEPT ![c] = [at |-> at, about |-> about]]

Goes(c, from, to) ==
    /\ At(c, from)
    /\ handler' = [handler EXCEPT ![c].at = to]

Done(c) == handler' = [handler EXCEPT ![c] = Reading]

-----------------------------------------------------------------------------
(* Connections                                                             *)

Open(c) ==
    /\ conn[c] = "new"
    /\ conn' = [conn EXCEPT ![c] = "open"]
    /\ fresh' = fresh \cup {c}
    /\ UNCHANGED <<keys, registry, handler, seen, turn, question, promised>>

\* A frame that only shows that the client is there.
Ping(c) ==
    /\ Frame(c, "read", None)
    /\ UNCHANGED <<conn, keys, registry, seen, turn, question, promised>>

\* A minute without a frame; no handler takes so long.
GoStale(c) ==
    /\ conn[c] \in {"open", "dead"} /\ c \in fresh /\ Idle(c)
    /\ fresh' = fresh \ {c}
    /\ UNCHANGED <<conn, keys, registry, handler, seen, turn, question, promised>>

\* The client is gone, and nobody may notice.
Lose(c) ==
    /\ conn[c] = "open"
    /\ conn' = [conn EXCEPT ![c] = "dead"]
    /\ UNCHANGED <<fresh, keys, registry, handler, seen, turn, question, promised>>

\* The read fails or a write has cancelled it: releaseConn releases the keys
\* that are still the connection's own.
Close(c) ==
    /\ conn[c] = "dead" /\ Idle(c)
    /\ conn' = [conn EXCEPT ![c] = "closed"]
    /\ registry' = [k \in Chats |-> IF k \in keys[c] /\ registry[k] = c
                                    THEN None ELSE registry[k]]
    /\ UNCHANGED <<fresh, keys, handler, seen, turn, question, promised>>

-----------------------------------------------------------------------------
(* A message                                                               *)

\* A message that its gate lets pass.
Receive(c, m) ==
    /\ Frame(c, "message", m)
    /\ UNCHANGED <<conn, keys, registry, seen, turn, question, promised>>

\* Fault model: a turn does not keep its chat with the connection.
HeldFresh(c, k) == registry[k] \notin {None, c} /\ registry[k] \in fresh

\* Another connection has the key: a live one, or one whose turn is not over.
Held(c, k) ==
    /\ registry[k] \notin {None, c}
    /\ registry[k] \in fresh \/ IsActive(k)

Register(c) ==
    LET k == Canonical[ChatOf[handler[c].about]]
    IN /\ At(c, "message")
       /\ \/ /\ Held(c, k)
             /\ Done(c)
             /\ UNCHANGED <<keys, registry>>
          \/ /\ ~Held(c, k)
             /\ registry' = [registry EXCEPT ![k] = c]
             /\ keys' = [keys EXCEPT ![c] = @ \cup {k}]
             /\ Goes(c, "message", "registered")
       /\ UNCHANGED <<conn, fresh, seen, turn, question, promised>>

\* The answer to the turn of chat k is announced to c.
Announce(c, k) == promised' = promised \cup {<<c, turn[k].message>>}

\* A duplicate is told of the turn that is running, if there is one.
Begin(c) ==
    LET m == handler[c].about
        k == ChatOf[m]
    IN /\ At(c, "registered")
       /\ \/ /\ seen[m] = "absent"
             /\ seen' = [seen EXCEPT ![m] = "processing"]
             /\ Goes(c, "registered", "begun")
             /\ UNCHANGED promised
          \/ /\ seen[m] # "absent"
             /\ Done(c)
             /\ IF IsActive(k) THEN Announce(c, k) ELSE UNCHANGED promised
             /\ UNCHANGED seen
       /\ UNCHANGED <<conn, fresh, keys, registry, turn, question>>

\* The router steers the message into the turn of its chat or starts one.
Route(c) ==
    LET m == handler[c].about
        k == ChatOf[m]
    IN /\ At(c, "begun")
       /\ \/ /\ IsActive(k)
             /\ Announce(c, k)
             /\ Done(c)
             /\ UNCHANGED turn
          \/ /\ ~IsActive(k)
             /\ turn' = [turn EXCEPT ![k] = [stage |-> "reserved", message |-> m]]
             /\ Goes(c, "begun", "routed")
             /\ UNCHANGED promised
       /\ UNCHANGED <<conn, fresh, keys, registry, seen, question>>

\* The message is acknowledged; then its turn starts.
Accept(c) ==
    LET k == ChatOf[handler[c].about]
    IN /\ At(c, "routed")
       /\ Announce(c, k)
       /\ turn' = [turn EXCEPT ![k].stage = "running"]
       /\ Done(c)
       /\ UNCHANGED <<conn, fresh, keys, registry, seen, question>>

\* Fault model: the turn that never starts is not taken back.
AckFailsKeeping(c) ==
    /\ At(c, "routed") /\ conn[c] = "dead"
    /\ seen' = [seen EXCEPT ![handler[c].about] = "absent"]
    /\ Done(c)
    /\ UNCHANGED <<conn, fresh, keys, registry, turn, question, promised>>

\* The acknowledgement fails: Forget, and Abort takes the turn back.
AckFails(c) ==
    LET m == handler[c].about
    IN /\ At(c, "routed") /\ conn[c] = "dead"
       /\ seen' = [seen EXCEPT ![m] = "absent"]
       /\ turn' = [turn EXCEPT ![ChatOf[m]] = NoTurn]
       /\ Done(c)
       /\ UNCHANGED <<conn, fresh, keys, registry, question, promised>>

-----------------------------------------------------------------------------
(* The turn                                                                *)

TurnGoes(k, from, to) ==
    /\ turn[k].stage = from
    /\ turn' = [turn EXCEPT ![k].stage = to]

\* The run ends with a response, or with a question to the sender.
RunEnds(k) ==
    /\ TurnGoes(k, "running", "answering")
    /\ \/ UNCHANGED question
       \/ question[k] \in {"none", "done"} /\ question' = [question EXCEPT ![k] = "open"]
    /\ UNCHANGED <<conn, fresh, keys, registry, handler, seen, promised>>

\* It fails, for instance as its connection is gone: the message is forgotten
\* before the error is sent.
RunFails(k) ==
    /\ TurnGoes(k, "running", "failed")
    /\ seen' = [seen EXCEPT ![turn[k].message] = "absent"]
    /\ UNCHANGED <<conn, fresh, keys, registry, handler, question, promised>>

\* A frame goes to the owner of this moment.  One to a client that is gone may
\* seem to be sent.
Send(k) ==
    /\ Owner(k) # None
    /\ \/ TurnGoes(k, "answering", "sent")
       \/ TurnGoes(k, "failed", "settled")
    /\ UNCHANGED <<conn, fresh, keys, registry, handler, seen, question, promised>>

SendFails(k) ==
    /\ Owner(k) \notin {c \in Conns : conn[c] = "open"}
    /\ \/ TurnGoes(k, "answering", "unsent")
       \/ TurnGoes(k, "failed", "settled")
    /\ UNCHANGED <<conn, fresh, keys, registry, handler, seen, question, promised>>

\* Complete after the answer, Forget when nobody could have it.
Settle(k) ==
    /\ \/ /\ TurnGoes(k, "sent", "settled")
          /\ seen' = [seen EXCEPT ![turn[k].message] = "completed"]
       \/ /\ TurnGoes(k, "unsent", "settled")
          /\ seen' = [seen EXCEPT ![turn[k].message] = "absent"]
    /\ UNCHANGED <<conn, fresh, keys, registry, handler, question, promised>>

MarkComplete(k) ==
    /\ turn[k].stage = "settled"
    /\ turn' = [turn EXCEPT ![k] = NoTurn]
    /\ promised' = {p \in promised : p[2] # turn[k].message}
    /\ UNCHANGED <<conn, fresh, keys, registry, handler, seen, question>>

-----------------------------------------------------------------------------
(* The answer to a question                                                *)

\* Fault model: a key that was registered once is the connection's for good.
CheckAnswerByKeys(c, k) ==
    /\ Frame(c, "answer", k)
    /\ question[k] = "open" /\ Canonical[k] \in keys[c]
    /\ UNCHANGED <<conn, keys, registry, seen, turn, question, promised>>

\* It must come from the connection that owns the chat.
CheckAnswer(c, k) ==
    /\ Frame(c, "answer", k)
    /\ question[k] = "open" /\ Owner(k) = c
    /\ UNCHANGED <<conn, keys, registry, seen, turn, question, promised>>

ResolveAnswer(c) ==
    /\ At(c, "answer")
    /\ question' = [question EXCEPT ![handler[c].about] = "answered"]
    /\ Done(c)
    /\ UNCHANGED <<conn, fresh, keys, registry, seen, turn, promised>>

\* The run that asked has been resumed: Emit sends its final answer to whoever
\* owns the chat by now.  When that is nobody the answer is lost, but the run is
\* saved.
Emit(k) ==
    /\ question[k] = "answered"
    /\ question' = [question EXCEPT ![k] = "done"]
    /\ UNCHANGED <<conn, fresh, keys, registry, handler, seen, turn, promised>>

-----------------------------------------------------------------------------
Init ==
    /\ conn = [c \in Conns |-> "new"]
    /\ fresh = {}
    /\ keys = [c \in Conns |-> {}]
    /\ registry = [k \in Chats |-> None]
    /\ handler = [c \in Conns |-> Reading]
    /\ seen = [m \in Messages |-> "absent"]
    /\ turn = [k \in Chats |-> NoTurn]
    /\ question = [k \in Chats |-> "none"]
    /\ promised = {}

\* What a read loop does with the frame it has.
Handle(c) ==
    \/ Register(c) \/ Begin(c) \/ Route(c) \/ Accept(c) \/ AckFails(c) \/ ResolveAnswer(c)

Advance(k) ==
    \/ RunEnds(k) \/ RunFails(k) \/ Send(k) \/ SendFails(k) \/ Settle(k) \/ MarkComplete(k)
    \/ Emit(k)

Next ==
    \/ \E c \in Conns :
          \/ Open(c) \/ Ping(c) \/ GoStale(c) \/ Lose(c) \/ Close(c) \/ Handle(c)
          \/ \E m \in Messages : Receive(c, m)
          \/ \E k \in Chats : CheckAnswer(c, k)
    \/ \E k \in Chats : Advance(k)

\* The process goes on and time passes; no client must do anything, and the
\* death of a connection need never be noticed.
Fairness ==
    /\ \A c \in Conns : WF_vars(Handle(c)) /\ WF_vars(GoStale(c))
    /\ \A k \in Chats : WF_vars(Advance(k))

Spec == Init /\ [][Next]_vars /\ Fairness

-----------------------------------------------------------------------------
(* What clients are promised                                               *)

\* The type of every variable; a key is registered to a connection that is still
\* up and knows it, and a handler that has reserved a turn finds it its own.
TypeOK ==
    /\ conn \in [Conns -> {"new", "open", "dead", "closed"}]
    /\ fresh \subseteq Conns
    /\ keys \in [Conns -> SUBSET Chats]
    /\ registry \in [Chats -> Conns \cup {None}]
    /\ handler \in [Conns -> [at : {"read", "message", "registered", "begun", "routed", "answer"},
                              about : Messages \cup Chats \cup {None}]]
    /\ seen \in [Messages -> {"absent", "processing", "completed"}]
    /\ turn \in [Chats -> [stage : {"none", "reserved", "running", "answering", "failed",
                                    "sent", "unsent", "settled"},
                           message : Messages \cup {None}]]
    /\ question \in [Chats -> {"none", "open", "answered", "done"}]
    /\ promised \subseteq Conns \X Messages
    /\ \A k \in Chats : registry[k] # None =>
          conn[registry[k]] \in {"open", "dead"} /\ k \in keys[registry[k]]
    /\ \A c \in Conns : At(c, "routed") =>
          turn[ChatOf[handler[c].about]] = [stage |-> "reserved", message |-> handler[c].about]

\* The state is well-formed, and a client that was told to expect the answer of a
\* turn, as its message was accepted, steered or a duplicate, is the one the
\* answer goes to as long as it is connected: no other connection takes its chat
\* over before (runner.go: "only when the prior owner is STALE (lastSeen expired)
\* AND no turn is active").
AnswerGoesWherePromised ==
    /\ TypeOK
    /\ \A p \in promised : conn[p[1]] = "open" => Owner(ChatOf[p[2]]) = p[1]

\* An answer that reaches the store comes from the connection that owns the chat
\* at that moment, not from one that has lost it since (human_response.go,
\* connOwnsKey).
AnswerFromOwner ==
    [][\A k \in Chats : question'[k] = "answered" /\ question[k] # "answered" =>
          /\ Owner(k) # None
          /\ handler[Owner(k)] = [at |-> "answer", about |-> k]]_vars

Trapped(k) == Owner(k) # None /\ conn[Owner(k)] = "dead"

Asks(k) == \E c \in Conns : At(c, "message") /\ Canonical[ChatOf[handler[c].about]] = Canonical[k]

\* A client that is gone does not keep its chat from another that asks for it
\* again and again, although the server need never notice (runner.go, on the
\* stale check: "not trapping users behind a dead connection").
NotTrapped == \A k \in Chats : []<>(~Trapped(k)) \/ <>[](~Asks(k))

=============================================================================
