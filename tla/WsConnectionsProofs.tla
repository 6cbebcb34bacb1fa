----------------------- MODULE WsConnectionsProofs -----------------------
(***************************************************************************)
(* What WsConnections promises, for any connections, chats, messages and   *)
(* spellings.  A read loop that works on a frame keeps the chat it has     *)
(* registered or owns, as its connection counts as fresh until the frame   *)
(* is done (WorkInv); a turn keeps the chat for the connections that were  *)
(* promised its answer, if every client spells its chat canonically        *)
(* (PromiseInv).                                                           *)
(***************************************************************************)
EXTENDS WsConnections, TLAPS

USE WsAssumption DEF WsAssumption

\* Every client spells its chat canonically.
SpelledAlike == \A m \in Messages : Canonical[ChatOf[m]] = ChatOf[m]

\* What a read loop has in hand at each stage of a frame.
Frames ==
    \A c \in Conns :
        /\ At(c, "read") => Idle(c)
        /\ At(c, "answer") => handler[c].about \in Chats
        /\ handler[c].at \notin {"read", "answer"} => handler[c].about \in Messages
        /\ ~Idle(c) => c \in fresh /\ conn[c] \in {"open", "dead"}

\* It owns the chat from the moment it has registered, or was found to own it.
Owned ==
    \A c \in Conns :
        /\ handler[c].at \in {"registered", "begun", "routed"} => Owner(ChatOf[handler[c].about]) = c
        /\ At(c, "answer") => Owner(handler[c].about) = c

\* A turn is about a message of its chat, and while it is reserved the read loop
\* that reserved it has yet to start it or to take it back.
Turns ==
    \A k \in Chats :
        /\ IsActive(k) => turn[k].message \in Messages /\ ChatOf[turn[k].message] = k
        /\ turn[k].stage = "reserved" =>
              \E c \in Conns : At(c, "routed") /\ ChatOf[handler[c].about] = k

WorkInv == TypeOK /\ Frames /\ Owned /\ Turns

\* A promise is about the turn that runs.
Promises ==
    \A p \in promised :
        /\ turn[ChatOf[p[2]]].message = p[2]
        /\ turn[ChatOf[p[2]]].stage \notin {"none", "reserved"}
        /\ conn[p[1]] # "new"
        /\ conn[p[1]] = "open" => Owner(ChatOf[p[2]]) = p[1]

PromiseInv == WorkInv /\ Promises

-----------------------------------------------------------------------------
(* Frames                                                                  *)

FrameRecord == [at : {"read", "message", "registered", "begun", "routed", "answer"},
                about : Messages \cup Chats \cup {None}]

TurnRecord == [stage : {"none", "reserved", "running", "answering", "failed",
                        "sent", "unsent", "settled"},
               message : Messages \cup {None}]

LEMMA FrameOf ==
    ASSUME TypeOK, NEW c \in Conns
    PROVE  /\ handler[c] \in FrameRecord /\ keys[c] \subseteq Chats
           /\ handler[c] = [at |-> handler[c].at, about |-> handler[c].about]
BY DEF TypeOK, FrameRecord

\* The read loop of c goes on to `to`, with the frame it has.
LEMMA GoesTo ==
    ASSUME TypeOK, NEW c \in Conns, NEW from, NEW to \in {"registered", "begun", "routed"},
           Goes(c, from, to)
    PROVE  /\ handler \in [Conns -> FrameRecord] /\ handler' \in [Conns -> FrameRecord]
           /\ handler[c].at = from /\ handler'[c].at = to
           /\ handler'[c].about = handler[c].about
           /\ \A d \in Conns \ {c} : handler'[d] = handler[d]
BY DEF TypeOK, FrameRecord, Goes, At

LEMMA DoneWith ==
    ASSUME TypeOK, NEW c \in Conns, Done(c)
    PROVE  /\ handler' \in [Conns -> FrameRecord]
           /\ handler'[c] = Reading
           /\ \A d \in Conns \ {c} : handler'[d] = handler[d]
BY DEF TypeOK, FrameRecord, Done, Reading

LEMMA FrameComes ==
    ASSUME TypeOK, NEW c \in Conns, NEW at \in {"read", "message", "answer"},
           NEW about \in Messages \cup Chats \cup {None}, Frame(c, at, about)
    PROVE  /\ handler' \in [Conns -> FrameRecord]
           /\ handler'[c] = [at |-> at, about |-> about]
           /\ \A d \in Conns \ {c} : handler'[d] = handler[d]
           /\ conn[c] = "open" /\ Idle(c) /\ fresh' = fresh \cup {c}
BY DEF TypeOK, FrameRecord, Frame

\* The stage of a turn changes, its message does not.
LEMMA TurnStage ==
    ASSUME TypeOK, NEW k \in Chats, NEW from, NEW to \in {"running", "answering", "failed", "sent", "unsent", "settled"},
           TurnGoes(k, from, to)
    PROVE  /\ turn' \in [Chats -> TurnRecord]
           /\ turn[k].stage = from /\ turn'[k].stage = to
           /\ turn'[k].message = turn[k].message
           /\ \A j \in Chats \ {k} : turn'[j] = turn[j]
<1>1. turn \in [Chats -> TurnRecord] /\ turn[k] \in TurnRecord
  BY DEF TypeOK, TurnRecord
<1>2. /\ [turn[k] EXCEPT !.stage = to] \in TurnRecord
      /\ [turn[k] EXCEPT !.stage = to].stage = to
      /\ [turn[k] EXCEPT !.stage = to].message = turn[k].message
  BY <1>1 DEF TurnRecord
<1>3. turn' = [turn EXCEPT ![k] = [turn[k] EXCEPT !.stage = to]] /\ turn[k].stage = from
  BY DEF TurnGoes
<1> QED BY <1>1, <1>2, <1>3

LEMMA InitInv == Init => PromiseInv
<1> SUFFICES ASSUME Init PROVE PromiseInv
  OBVIOUS
<1>1. /\ handler \in [Conns -> FrameRecord] /\ \A c \in Conns : handler[c] = Reading /\ At(c, "read")
  BY DEF Init, FrameRecord, Reading, At
<1>2. turn \in [Chats -> TurnRecord] /\ \A k \in Chats : turn[k].stage = "none"
  BY DEF Init, TurnRecord, NoTurn
<1>3. TypeOK
  BY <1>1, <1>2 DEF Init, TypeOK, FrameRecord, TurnRecord, At
<1>4. Frames /\ Owned /\ Turns /\ Promises
  BY <1>1, <1>2 DEF Frames, Owned, Turns, Promises, Idle, At, IsActive, Init
<1> QED BY <1>3, <1>4 DEF PromiseInv, WorkInv

-----------------------------------------------------------------------------
(* The connections                                                         *)

\* Nobody is working on a frame of a connection that comes or goes.
LEMMA ConnectionKeeps ==
    ASSUME WorkInv, NEW c \in Conns, Open(c) \/ Lose(c) \/ GoStale(c) \/ Ping(c)
    PROVE  WorkInv'
<1> USE DEF WorkInv
<1>1. UNCHANGED <<keys, registry, handler, seen, turn, question, promised>>
  <2>1. CASE Ping(c)
    <3>1. \A d \in Conns : handler'[d] = handler[d]
      BY <2>1, FrameComes DEF Ping, Idle, Reading
    <3>2. handler \in [Conns -> FrameRecord] /\ handler' \in [Conns -> FrameRecord]
      BY <2>1, FrameComes DEF Ping, TypeOK, FrameRecord
    <3> QED BY <2>1, <3>1, <3>2 DEF Ping
  <2> QED BY <2>1 DEF Open, Lose, GoStale
<1>2. /\ conn' \in [Conns -> {"new", "open", "dead", "closed"}] /\ fresh' \subseteq Conns
      /\ \A d \in Conns : conn[d] \in {"open", "dead"} => conn'[d] \in {"open", "dead"}
      /\ \A d \in Conns : d \in fresh /\ ~Idle(d) => d \in fresh'
  <2> USE DEF TypeOK
  <2>1. CASE Open(c)
    BY <2>1 DEF Open
  <2>2. CASE Lose(c)
    BY <2>2 DEF Lose
  <2>3. CASE GoStale(c)
    BY <2>3 DEF GoStale
  <2>4. CASE Ping(c)
    BY <2>4 DEF Ping, Frame
  <2> QED BY <2>1, <2>2, <2>3, <2>4
<1>3. TypeOK'
  BY <1>1, <1>2 DEF TypeOK, At
<1>4. Frames' /\ Owned' /\ Turns'
  BY <1>1, <1>2 DEF Frames, Owned, Turns, At, Idle, Owner, IsActive
<1> QED BY <1>3, <1>4

LEMMA CloseKeeps ==
    ASSUME WorkInv, NEW c \in Conns, Close(c)
    PROVE  WorkInv'
<1> USE DEF WorkInv
<1>1. /\ UNCHANGED <<fresh, keys, handler, seen, turn, question, promised>>
      /\ \A d \in Conns \ {c} : conn'[d] = conn[d]
      /\ conn' \in [Conns -> {"new", "open", "dead", "closed"}]
      /\ Idle(c)
  BY DEF Close, TypeOK
<1>2. /\ registry' \in [Chats -> Conns \cup {None}]
      /\ \A k \in Chats : registry'[k] = IF registry[k] = c THEN None ELSE registry[k]
  BY DEF Close, TypeOK
<1>3. TypeOK'
  BY <1>1, <1>2 DEF TypeOK, At
<1>4. Frames'
  BY <1>1 DEF Frames, At, Idle, TypeOK
<1>5. Owned'
  <2>1. ASSUME NEW d \in Conns, NEW k \in Chats, Owner(k) = d, d # c
        PROVE  Owner(k)' = d
    BY <1>2, <2>1 DEF Owner
  <2>2. \A d \in Conns : ~At(d, "read") => d # c
    BY <1>1 DEF Idle, Reading, At
  <2> QED BY <1>1, <2>1, <2>2 DEF Owned, Frames, At
<1>6. Turns'
  BY <1>1 DEF Turns, IsActive, At
<1> QED BY <1>3, <1>4, <1>5, <1>6

-----------------------------------------------------------------------------
(* The frames                                                              *)

LEMMA FrameKeeps ==
    ASSUME WorkInv, NEW c \in Conns,
           \/ \E m \in Messages : Receive(c, m)
           \/ \E k \in Chats : CheckAnswer(c, k)
    PROVE  WorkInv'
<1> USE DEF WorkInv
<1>1. /\ UNCHANGED <<conn, keys, registry, seen, turn, promised, question>>
      /\ \E at \in {"message", "answer"}, about \in Messages \cup Chats :
            /\ Frame(c, at, about)
            /\ at = "answer" => about \in Chats /\ Owner(about) = c
            /\ at = "message" => about \in Messages
  BY DEF Receive, CheckAnswer
<1>2. PICK at \in {"message", "answer"}, about \in Messages \cup Chats :
            /\ Frame(c, at, about)
            /\ at = "answer" => about \in Chats /\ Owner(about) = c
            /\ at = "message" => about \in Messages
  BY <1>1
<1>3. /\ handler' \in [Conns -> FrameRecord]
      /\ handler'[c].at = at /\ handler'[c].about = about
      /\ \A d \in Conns \ {c} : handler'[d] = handler[d]
      /\ conn[c] = "open" /\ handler[c].at = "read" /\ fresh' = fresh \cup {c}
  <2>1. /\ handler' \in [Conns -> FrameRecord]
        /\ handler'[c] = [at |-> at, about |-> about]
        /\ \A d \in Conns \ {c} : handler'[d] = handler[d]
        /\ conn[c] = "open" /\ Idle(c) /\ fresh' = fresh \cup {c}
    BY <1>2, FrameComes
  <2> QED BY <2>1 DEF Idle, Reading
<1>4. TypeOK'
  <2>1. \A d \in Conns : At(d, "routed")' => At(d, "routed") /\ handler'[d] = handler[d]
    BY <1>3 DEF At
  <2> QED BY <1>1, <1>3, <2>1 DEF TypeOK, FrameRecord
<1>5. Frames'
  BY <1>1, <1>2, <1>3 DEF Frames, At, Idle, Reading
<1>6. Owned'
  BY <1>1, <1>2, <1>3 DEF Owned, At, Owner
<1>7. Turns'
  <2>1. ASSUME NEW k \in Chats, turn[k].stage = "reserved"
        PROVE  \E d \in Conns : At(d, "routed")' /\ ChatOf[handler'[d].about] = k
    <3>1. PICK d \in Conns : At(d, "routed") /\ ChatOf[handler[d].about] = k
      BY <2>1 DEF Turns
    <3> QED BY <1>3, <3>1 DEF At
  <2> QED BY <1>1, <2>1 DEF Turns, IsActive
<1> QED BY <1>4, <1>5, <1>6, <1>7

\* A connection that works on a frame is not stale, so nobody takes its chat.
LEMMA WorkingHolds ==
    ASSUME WorkInv, NEW c \in Conns, NEW d \in Conns, c # d, ~Idle(d),
           NEW k \in Chats, Owner(k) = d
    PROVE  Held(c, Canonical[k])
BY DEF WorkInv, Held, Frames, Owner

LEMMA RegisterKeeps ==
    ASSUME WorkInv, NEW c \in Conns, Register(c)
    PROVE  WorkInv'
<1> USE DEF WorkInv
<1>0. handler[c].at = "message" /\ handler[c].about \in Messages
  BY DEF Register, Frames, At, Idle, Reading
<1> PICK k \in Chats : k = Canonical[ChatOf[handler[c].about]]
  BY <1>0
<1>1. /\ handler[c].at = "message" /\ handler[c].about \in Messages
      /\ c \in fresh /\ conn[c] \in {"open", "dead"}
      /\ UNCHANGED <<conn, fresh, seen, turn, question, promised>>
  BY DEF Register, Frames, At, Idle, Reading
<1>2. \A j \in Chats : turn[j].stage = "reserved" =>
         \E d \in Conns \ {c} : At(d, "routed") /\ ChatOf[handler[d].about] = j
  BY <1>1 DEF Turns, At
<1>3. CASE UNCHANGED <<keys, registry>> /\ Done(c)
  <2>1. /\ handler' \in [Conns -> FrameRecord]
        /\ handler'[c] = Reading /\ handler'[c].at = "read"
        /\ \A d \in Conns \ {c} : handler'[d] = handler[d]
    BY <1>3, DoneWith DEF Reading
  <2>2. TypeOK'
    <3>1. \A d \in Conns : At(d, "routed")' => At(d, "routed") /\ handler'[d] = handler[d]
      BY <2>1 DEF At
    <3> QED BY <1>1, <1>3, <2>1, <3>1 DEF TypeOK, FrameRecord
  <2>3. Frames' /\ Owned'
    BY <1>1, <1>3, <2>1 DEF Frames, Owned, At, Idle, Owner
  <2>4. Turns'
    BY <1>1, <1>2, <2>1 DEF Turns, IsActive, At
  <2> QED BY <2>2, <2>3, <2>4
<1>4. CASE /\ ~Held(c, k) /\ Goes(c, "message", "registered")
           /\ registry' = [registry EXCEPT ![k] = c]
           /\ keys' = [keys EXCEPT ![c] = @ \cup {k}]
  <2>1. /\ handler' \in [Conns -> FrameRecord]
        /\ handler'[c].at = "registered" /\ handler'[c].about = handler[c].about
        /\ \A d \in Conns \ {c} : handler'[d] = handler[d]
    BY <1>4, GoesTo
  <2>2. /\ registry' \in [Chats -> Conns \cup {None}] /\ keys' \in [Conns -> SUBSET Chats]
        /\ registry'[k] = c /\ \A j \in Chats \ {k} : registry'[j] = registry[j]
        /\ keys'[c] = keys[c] \cup {k} /\ \A d \in Conns \ {c} : keys'[d] = keys[d]
    BY <1>1, <1>4 DEF TypeOK
  <2>3. TypeOK'
    <3>1. \A d \in Conns : At(d, "routed")' => At(d, "routed") /\ handler'[d] = handler[d]
      BY <2>1 DEF At
    <3>2. \A j \in Chats : registry'[j] # None =>
             conn[registry'[j]] \in {"open", "dead"} /\ j \in keys'[registry'[j]]
      <4>1. \A d \in Conns : keys[d] \subseteq keys'[d]
        BY <2>2
      <4>2. \A j \in Chats : registry[j] \in Conns \cup {None}
        BY DEF TypeOK
      <4>3. ASSUME NEW j \in Chats, j # k, registry[j] # None
            PROVE  conn[registry[j]] \in {"open", "dead"} /\ j \in keys'[registry[j]]
        BY <4>1, <4>2, <4>3 DEF TypeOK
      <4> QED BY <1>1, <2>2, <4>3
    <3> QED BY <1>1, <2>1, <2>2, <3>1, <3>2 DEF TypeOK, FrameRecord
  <2>4. Frames'
    BY <1>1, <2>1 DEF Frames, At, Idle, Reading
  <2>5. \A d \in Conns \ {c}, j \in Chats : ~Idle(d) /\ Owner(j) = d => Canonical[j] # k
    <3>1. ASSUME NEW d \in Conns, d # c, NEW j \in Chats, ~Idle(d), Owner(j) = d
          PROVE  Held(c, Canonical[j])
      BY <3>1, WorkingHolds
    <3> QED BY <1>4, <3>1
  <2>6. Owned'
    <3>1. ASSUME NEW d \in Conns \ {c}, NEW j \in Chats, ~Idle(d), Owner(j) = d
          PROVE  Owner(j)' = d
      BY <2>2, <2>5, <3>1 DEF Owner
    <3>2. Owner(ChatOf[handler[c].about])' = c
      BY <2>1, <2>2 DEF Owner
    <3>3. \A d \in Conns : handler[d].at # "read" => ~Idle(d)
      BY DEF Idle, Reading
    <3> QED BY <2>1, <3>1, <3>2, <3>3 DEF Owned, Frames, At
  <2>7. Turns'
    BY <1>1, <1>2, <2>1 DEF Turns, IsActive, At
  <2> QED BY <2>3, <2>4, <2>6, <2>7
<1> QED BY <1>3, <1>4 DEF Register

\* One read loop at a time is about to start or steer the turn of a chat.
LEMMA OneStarts ==
    ASSUME WorkInv, NEW c \in Conns, NEW d \in Conns,
           handler[c].at \in {"registered", "begun", "routed"},
           handler[d].at \in {"registered", "begun", "routed"},
           ChatOf[handler[c].about] = ChatOf[handler[d].about]
    PROVE  c = d
BY DEF WorkInv, Owned

\* The turn of a chat is not reserved when somebody looks whether there is one.
LEMMA NotReserved ==
    ASSUME WorkInv, NEW c \in Conns, handler[c].at \in {"registered", "begun"}
    PROVE  /\ handler[c].about \in Messages
           /\ turn[ChatOf[handler[c].about]].stage # "reserved"
<1>1. handler[c].about \in Messages
  BY DEF WorkInv, Frames
<1>2. ASSUME turn[ChatOf[handler[c].about]].stage = "reserved"
      PROVE  FALSE
  <2>1. PICK d \in Conns : At(d, "routed") /\ ChatOf[handler[d].about] = ChatOf[handler[c].about]
    BY <1>1, <1>2 DEF WorkInv, Turns
  <2>2. c = d
    BY <2>1, OneStarts DEF At
  <2> QED BY <2>1, <2>2 DEF At
<1> QED BY <1>1, <1>2

\* A frame is done, or its message goes from registered to begun: the registry,
\* the turns and whoever reserved them stay.
LEMMA FrameGoesOn ==
    ASSUME WorkInv, NEW c \in Conns, Done(c) \/ Goes(c, "registered", "begun"), ~At(c, "routed"),
           ~Idle(c), UNCHANGED <<conn, fresh, keys, registry, turn>>,
           seen' \in [Messages -> {"absent", "processing", "completed"}],
           question' \in [Chats -> {"none", "open", "answered", "done"}],
           promised' \subseteq Conns \X Messages
    PROVE  WorkInv'
<1> USE DEF WorkInv
<1>1. /\ handler' \in [Conns -> FrameRecord]
      /\ handler'[c] = Reading \/ (handler'[c].at = "begun" /\ handler[c].at = "registered"
                                   /\ handler'[c].about = handler[c].about)
      /\ \A d \in Conns \ {c} : handler'[d] = handler[d]
  BY GoesTo, DoneWith
<1>2. \A d \in Conns : (At(d, "routed")' <=> At(d, "routed")) /\ (At(d, "routed") => handler'[d] = handler[d])
  BY <1>1 DEF At, Reading
<1>3. TypeOK'
  BY <1>1, <1>2 DEF TypeOK, FrameRecord
<1>4. Frames'
  BY <1>1 DEF Frames, At, Idle, Reading
<1>5. Owned'
  BY <1>1 DEF Owned, At, Owner, Reading
<1>6. Turns'
  BY <1>2 DEF Turns, IsActive
<1> QED BY <1>3, <1>4, <1>5, <1>6

LEMMA Announced ==
    ASSUME WorkInv, NEW c \in Conns, NEW k \in Chats, IsActive(k), Announce(c, k)
    PROVE  promised' \subseteq Conns \X Messages
BY DEF WorkInv, TypeOK, Turns, Announce

LEMMA BeginKeeps ==
    ASSUME WorkInv, NEW c \in Conns, Begin(c)
    PROVE  WorkInv'
<1> USE DEF WorkInv
<1>1. /\ handler[c].at = "registered" /\ handler[c].about \in Messages
      /\ ~Idle(c) /\ ~At(c, "routed")
      /\ UNCHANGED <<conn, fresh, keys, registry, turn, question>>
      /\ Done(c) \/ Goes(c, "registered", "begun")
  BY DEF Begin, Frames, At, Idle, Reading
<1>2. seen' \in [Messages -> {"absent", "processing", "completed"}]
  BY <1>1 DEF Begin, TypeOK
<1>3. promised' \subseteq Conns \X Messages
  BY <1>1, Announced DEF Begin, TypeOK
<1>4. question' \in [Chats -> {"none", "open", "answered", "done"}]
  BY <1>1 DEF TypeOK
<1> QED BY <1>1, <1>2, <1>3, <1>4, FrameGoesOn

LEMMA ResolveKeeps ==
    ASSUME WorkInv, NEW c \in Conns, ResolveAnswer(c)
    PROVE  WorkInv'
<1> USE DEF WorkInv
<1>1. /\ ~Idle(c) /\ ~At(c, "routed") /\ Done(c)
      /\ UNCHANGED <<conn, fresh, keys, registry, turn, seen, promised>>
  BY DEF ResolveAnswer, At, Idle, Reading
<1>2. /\ question' \in [Chats -> {"none", "open", "answered", "done"}]
      /\ seen' \in [Messages -> {"absent", "processing", "completed"}]
      /\ promised' \subseteq Conns \X Messages
  BY <1>1 DEF ResolveAnswer, TypeOK
<1> QED BY <1>1, <1>2, FrameGoesOn

LEMMA RouteKeeps ==
    ASSUME WorkInv, NEW c \in Conns, Route(c)
    PROVE  WorkInv'
<1> USE DEF WorkInv
<1>1. /\ handler[c].at = "begun" /\ handler[c].about \in Messages
      /\ turn[ChatOf[handler[c].about]].stage # "reserved"
      /\ ~Idle(c) /\ ~At(c, "routed")
      /\ UNCHANGED <<conn, fresh, keys, registry, seen, question>>
  BY NotReserved DEF Route, At, Idle, Reading
<1> PICK m \in Messages, k \in Chats : m = handler[c].about /\ k = ChatOf[m]
  BY <1>1
<1>2. CASE IsActive(k) /\ Announce(c, k) /\ Done(c) /\ UNCHANGED turn
  <2>1. promised' \subseteq Conns \X Messages
    BY <1>2, Announced
  <2>2. /\ question' \in [Chats -> {"none", "open", "answered", "done"}]
        /\ seen' \in [Messages -> {"absent", "processing", "completed"}]
    BY <1>1 DEF TypeOK
  <2> QED BY <1>1, <1>2, <2>1, <2>2, FrameGoesOn
<1>3. CASE /\ ~IsActive(k) /\ Goes(c, "begun", "routed") /\ UNCHANGED promised
           /\ turn' = [turn EXCEPT ![k] = [stage |-> "reserved", message |-> m]]
  <2>1. /\ handler' \in [Conns -> FrameRecord]
        /\ handler'[c].at = "routed" /\ handler'[c].about = m
        /\ \A d \in Conns \ {c} : handler'[d] = handler[d]
    BY <1>3, GoesTo
  <2>2. /\ turn \in [Chats -> TurnRecord] /\ turn' \in [Chats -> TurnRecord]
        /\ turn'[k] = [stage |-> "reserved", message |-> m]
        /\ \A j \in Chats \ {k} : turn'[j] = turn[j]
    <3>1. [stage |-> "reserved", message |-> m] \in TurnRecord
      BY DEF TurnRecord
    <3>2. turn \in [Chats -> TurnRecord]
      BY DEF TypeOK, TurnRecord
    <3> QED BY <1>3, <3>1, <3>2
  <2>3. \A d \in Conns \ {c} : At(d, "routed") => ChatOf[handler[d].about] # k
    BY <1>1, OneStarts DEF At
  <2>4. TypeOK'
    <3>1. \A d \in Conns \ {c} : At(d, "routed")' =>
             turn'[ChatOf[handler'[d].about]] = [stage |-> "reserved", message |-> handler'[d].about]
      BY <2>1, <2>2, <2>3 DEF TypeOK, At, Frames
    <3> QED BY <1>1, <1>3, <2>1, <2>2, <3>1 DEF TypeOK, FrameRecord, TurnRecord
  <2>5. Frames'
    BY <1>1, <2>1 DEF Frames, At, Idle, Reading
  <2>6. Owned'
    BY <1>1, <2>1 DEF Owned, At, Owner
  <2>7. Turns'
    <3>1. ASSUME NEW j \in Chats, turn'[j].stage = "reserved"
          PROVE  \E d \in Conns : At(d, "routed")' /\ ChatOf[handler'[d].about] = j
      <4>1. CASE j = k
        BY <2>1, <4>1 DEF At
      <4>2. CASE j # k
        <5>1. PICK d \in Conns : At(d, "routed") /\ ChatOf[handler[d].about] = j
          BY <2>2, <3>1, <4>2 DEF Turns
        <5> QED BY <1>1, <2>1, <5>1 DEF At
      <4> QED BY <4>1, <4>2
    <3> QED BY <2>2, <3>1 DEF Turns, IsActive
  <2> QED BY <2>4, <2>5, <2>6, <2>7
<1> QED BY <1>2, <1>3 DEF Route

\* The turn that c reserved starts, or is taken back.
LEMMA StartKeeps ==
    ASSUME WorkInv, NEW c \in Conns, Accept(c) \/ AckFails(c)
    PROVE  WorkInv'
<1> USE DEF WorkInv
<1>1. /\ handler[c].at = "routed" /\ handler[c].about \in Messages /\ Done(c)
      /\ UNCHANGED <<conn, fresh, keys, registry, question>>
  BY DEF Accept, AckFails, At, Frames
<1> PICK m \in Messages, k \in Chats : m = handler[c].about /\ k = ChatOf[m]
  BY <1>1
<1>2. turn[k] = [stage |-> "reserved", message |-> m]
  BY <1>1 DEF TypeOK, At
<1>3. /\ turn \in [Chats -> TurnRecord] /\ turn' \in [Chats -> TurnRecord]
      /\ turn'[k].stage \in {"none", "running"}
      /\ turn'[k].stage = "running" => turn'[k].message = m
      /\ \A j \in Chats \ {k} : turn'[j] = turn[j]
  <2>1. turn \in [Chats -> TurnRecord]
    BY DEF TypeOK, TurnRecord
  <2>2. turn' = [turn EXCEPT ![k] = [stage |-> "running", message |-> m]] \/ turn' = [turn EXCEPT ![k] = NoTurn]
    BY <1>2 DEF Accept, AckFails
  <2>3. [stage |-> "running", message |-> m] \in TurnRecord /\ NoTurn \in TurnRecord /\ NoTurn.stage = "none"
    BY DEF TurnRecord, NoTurn
  <2> QED BY <2>1, <2>2, <2>3
<1>4. /\ handler' \in [Conns -> FrameRecord] /\ handler'[c] = Reading /\ handler'[c].at = "read"
      /\ \A d \in Conns \ {c} : handler'[d] = handler[d]
  BY <1>1, DoneWith DEF Reading
<1>5. \A d \in Conns \ {c} : At(d, "routed") => ChatOf[handler[d].about] # k
  BY <1>1, OneStarts DEF At
<1>6. /\ seen' \in [Messages -> {"absent", "processing", "completed"}]
      /\ promised' \subseteq Conns \X Messages
  <2>1. CASE Accept(c)
    <3>1. promised' = promised \cup {<<c, m>>}
      <4>1. promised' = promised \cup {<<c, turn[k].message>>}
        BY <2>1 DEF Accept, Announce
      <4> QED BY <1>2, <4>1
    <3>2. UNCHANGED seen /\ promised \subseteq Conns \X Messages
      BY <2>1 DEF Accept, TypeOK
    <3> QED BY <3>1, <3>2 DEF TypeOK
  <2>2. CASE AckFails(c)
    BY <2>2 DEF AckFails, TypeOK
  <2> QED BY <2>1, <2>2
<1>7. TypeOK'
  <2>1. \A d \in Conns : At(d, "routed")' =>
           turn'[ChatOf[handler'[d].about]] = [stage |-> "reserved", message |-> handler'[d].about]
    BY <1>3, <1>4, <1>5 DEF TypeOK, At, Frames
  <2> QED BY <1>1, <1>3, <1>4, <1>6, <2>1 DEF TypeOK, FrameRecord, TurnRecord
<1>8. Frames' /\ Owned'
  BY <1>1, <1>4 DEF Frames, Owned, At, Idle, Owner
<1>9. Turns'
  <2>1. ASSUME NEW j \in Chats, turn'[j].stage = "reserved"
        PROVE  \E d \in Conns : At(d, "routed")' /\ ChatOf[handler'[d].about] = j
    <3>1. j # k
      BY <1>3, <2>1
    <3>2. PICK d \in Conns : At(d, "routed") /\ ChatOf[handler[d].about] = j
      BY <1>3, <2>1, <3>1 DEF Turns
    <3> QED BY <1>1, <1>4, <3>1, <3>2 DEF At
  <2> QED BY <1>3, <2>1 DEF Turns, IsActive
<1> QED BY <1>7, <1>8, <1>9

-----------------------------------------------------------------------------
(* The turn                                                                *)

\* What the goroutine of a turn may do: go on with its turn, or end it.
LEMMA TurnMoves ==
    ASSUME WorkInv, NEW k \in Chats, Advance(k)
    PROVE  /\ UNCHANGED <<conn, fresh, keys, registry, handler>>
           /\ turn' \in [Chats -> TurnRecord]
           /\ \A j \in Chats \ {k} : turn'[j] = turn[j]
           /\ \/ turn'[k] = turn[k] /\ UNCHANGED promised
              \/ /\ turn[k].stage \notin {"none", "reserved"}
                 /\ turn'[k].stage \notin {"none", "reserved"}
                 /\ turn'[k].message = turn[k].message
                 /\ UNCHANGED promised
              \/ /\ turn[k].stage = "settled" /\ turn'[k] = NoTurn
                 /\ promised' = {p \in promised : p[2] # turn[k].message}
<1>1. turn \in [Chats -> TurnRecord] /\ TypeOK
  BY DEF WorkInv, TypeOK, TurnRecord
<1>2. UNCHANGED <<conn, fresh, keys, registry, handler>>
  BY DEF Advance, RunEnds, RunFails, Send, SendFails, Settle, MarkComplete, Emit
<1>3. CASE \E from \in {"running", "answering", "failed", "sent", "unsent"},
              to \in {"running", "answering", "failed", "sent", "unsent", "settled"} :
                  TurnGoes(k, from, to) /\ UNCHANGED promised
  BY <1>1, <1>2, <1>3, TurnStage
<1>4. CASE MarkComplete(k)
  <2>1. NoTurn \in TurnRecord
    BY DEF NoTurn, TurnRecord
  <2> QED BY <1>1, <1>2, <1>4, <2>1 DEF MarkComplete
<1>5. CASE Emit(k)
  BY <1>1, <1>2, <1>5 DEF Emit
<1> QED BY <1>3, <1>4, <1>5 DEF Advance, RunEnds, RunFails, Send, SendFails, Settle

LEMMA AdvanceKeeps ==
    ASSUME WorkInv, NEW k \in Chats, Advance(k)
    PROVE  WorkInv'
<1> USE DEF WorkInv
<1>1. /\ UNCHANGED <<conn, fresh, keys, registry, handler>>
      /\ turn' \in [Chats -> TurnRecord]
      /\ \A j \in Chats : (turn'[j].stage = "reserved" <=> turn[j].stage = "reserved")
      /\ \A j \in Chats : turn[j].stage = "reserved" => turn'[j] = turn[j]
      /\ \A j \in Chats : turn'[j].stage # "none" =>
             turn[j].stage # "none" /\ turn'[j].message = turn[j].message
      /\ promised' \subseteq promised
  BY TurnMoves DEF NoTurn
<1>2. seen' \in [Messages -> {"absent", "processing", "completed"}]
  BY DEF Advance, RunEnds, RunFails, Send, SendFails, Settle, MarkComplete, Emit, TypeOK
<1>3. question' \in [Chats -> {"none", "open", "answered", "done"}]
  BY DEF Advance, RunEnds, RunFails, Send, SendFails, Settle, MarkComplete, Emit, TypeOK
<1>4. TypeOK'
  <2>1. \A d \in Conns : At(d, "routed")' =>
           turn'[ChatOf[handler'[d].about]] = [stage |-> "reserved", message |-> handler'[d].about]
    <3>1. ASSUME NEW d \in Conns, At(d, "routed")
          PROVE  turn'[ChatOf[handler[d].about]] = [stage |-> "reserved", message |-> handler[d].about]
      <4>1. handler[d].about \in Messages
        BY <3>1 DEF Frames, At
      <4>2. turn[ChatOf[handler[d].about]] = [stage |-> "reserved", message |-> handler[d].about]
        BY <3>1 DEF TypeOK
      <4>3. ChatOf[handler[d].about] \in Chats
        BY <4>1
      <4> QED BY <1>1, <4>2, <4>3
    <3> QED BY <1>1, <3>1 DEF At
  <2> QED BY <1>1, <1>2, <1>3, <2>1 DEF TypeOK, TurnRecord
<1>5. Frames' /\ Owned'
  BY <1>1 DEF Frames, Owned, At, Idle, Owner
<1>6. Turns'
  BY <1>1 DEF Turns, IsActive, At
<1> QED BY <1>4, <1>5, <1>6

LEMMA WorkStep ==
    ASSUME WorkInv, [Next]_vars
    PROVE  WorkInv'
<1>1. CASE UNCHANGED vars
  BY <1>1 DEF vars, WorkInv, TypeOK, Frames, Owned, Turns, At, Idle, Owner, IsActive
<1>2. ASSUME NEW c \in Conns, Handle(c)
      PROVE  WorkInv'
  BY <1>2, RegisterKeeps, BeginKeeps, RouteKeeps, StartKeeps, ResolveKeeps DEF Handle
<1> QED BY <1>1, <1>2, ConnectionKeeps, CloseKeeps, FrameKeeps, AdvanceKeeps DEF Next

\* An answer that reaches the store comes from the connection that owns the chat
\* at that moment: between connOwnsKey and ResolveHumanRequest its read loop is
\* busy, so it is not stale and nobody takes the chat over.
THEOREM OwnersAnswer ==
    Spec => AnswerFromOwner
<1>1. ASSUME WorkInv, [Next]_vars
      PROVE  [\A k \in Chats : question'[k] = "answered" /\ question[k] # "answered" =>
                 /\ Owner(k) # None
                 /\ handler[Owner(k)] = [at |-> "answer", about |-> k]]_vars
  <2> SUFFICES ASSUME NEW k \in Chats, question'[k] = "answered", question[k] # "answered"
               PROVE  Owner(k) # None /\ handler[Owner(k)] = [at |-> "answer", about |-> k]
    OBVIOUS
  <2>1. \E c \in Conns : ResolveAnswer(c)
    <3>1. ASSUME NEW j \in Chats, Advance(j)
          PROVE  FALSE
      <4>1. CASE RunEnds(j) \/ Emit(j)
        BY <1>1, <4>1 DEF RunEnds, Emit, WorkInv, TypeOK
      <4> QED BY <3>1, <4>1 DEF Advance, RunFails, Send, SendFails, Settle, MarkComplete
    <3> QED BY <1>1, <3>1 DEF Next, Handle, Open, Ping, GoStale, Lose, Close, Receive, CheckAnswer,
                              Register, Begin, Route, Accept, AckFails, vars
  <2>2. PICK c \in Conns : ResolveAnswer(c)
    BY <2>1
  <2>3. At(c, "answer") /\ handler[c].about = k
    BY <1>1, <2>2 DEF ResolveAnswer, WorkInv, TypeOK, Frames
  <2>4. Owner(k) = c /\ handler[c] = [at |-> "answer", about |-> k]
    BY <1>1, <2>3, FrameOf DEF WorkInv, Owned, At
  <2> QED BY <2>4
<1> QED BY <1>1, InitInv, WorkStep, PTL DEF Spec, AnswerFromOwner, PromiseInv

-----------------------------------------------------------------------------
(* The promises                                                            *)

\* An announcement goes to the connection that owns the chat.
LEMMA AnnounceKeeps ==
    ASSUME PromiseInv, WorkInv', NEW c \in Conns, Begin(c) \/ Route(c) \/ Accept(c) \/ AckFails(c)
    PROVE  Promises'
<1>1. /\ UNCHANGED <<conn, registry>> /\ handler[c].about \in Messages
      /\ handler[c].at \in {"registered", "begun", "routed"} /\ conn[c] \in {"open", "dead"}
      /\ Owner(ChatOf[handler[c].about]) = c
  BY DEF Begin, Route, Accept, AckFails, PromiseInv, WorkInv, Frames, Owned, At, Idle, Reading
<1> PICK m \in Messages, k \in Chats : m = handler[c].about /\ k = ChatOf[m]
  BY <1>1
<1>2. \A p \in promised : p \in Conns \X Messages /\ ChatOf[p[2]] \in Chats
  BY DEF PromiseInv, WorkInv, TypeOK
<1>3. \A p \in promised : Owner(ChatOf[p[2]])' = Owner(ChatOf[p[2]])
  BY <1>1 DEF Owner
<1>4. CASE UNCHANGED turn /\ (UNCHANGED promised \/ (IsActive(k) /\ Announce(c, k))) /\ turn[k].stage # "reserved"
  <2>1. ASSUME IsActive(k), Announce(c, k)
        PROVE  Promises'
    <3>1. turn[k].message \in Messages /\ ChatOf[turn[k].message] = k
      BY <2>1 DEF PromiseInv, WorkInv, Turns
    <3>2. promised' = promised \cup {<<c, turn[k].message>>}
      BY <2>1 DEF Announce
    <3>3. ASSUME NEW p \in promised', p \notin promised
          PROVE  /\ turn[ChatOf[p[2]]].message = p[2]
                 /\ turn[ChatOf[p[2]]].stage \notin {"none", "reserved"}
                 /\ conn[p[1]] # "new"
                 /\ Owner(ChatOf[p[2]])' = p[1]
      <4>1. p[1] = c /\ p[2] = turn[k].message /\ ChatOf[p[2]] = k
        BY <3>1, <3>2, <3>3
      <4> QED BY <1>1, <1>4, <2>1, <4>1 DEF IsActive, Owner
    <3> QED BY <1>1, <1>3, <1>4, <3>3 DEF PromiseInv, Promises
  <2> QED BY <1>1, <1>3, <1>4, <2>1 DEF PromiseInv, Promises
<1>5. CASE Begin(c)
  BY <1>1, <1>4, <1>5, NotReserved DEF Begin, PromiseInv, At
<1>6. CASE Route(c)
  <2>1. CASE IsActive(k)
    BY <1>1, <1>4, <1>6, <2>1, NotReserved DEF Route, PromiseInv, At
  <2>2. CASE ~IsActive(k)
    <3>1. /\ turn' = [turn EXCEPT ![k] = [stage |-> "reserved", message |-> m]]
          /\ UNCHANGED promised
      BY <1>6, <2>2 DEF Route
    <3>2. \A p \in promised : ChatOf[p[2]] # k
      BY <2>2 DEF PromiseInv, Promises, IsActive
    <3>3. \A p \in promised : turn'[ChatOf[p[2]]] = turn[ChatOf[p[2]]]
      BY <1>2, <3>1, <3>2
    <3> QED BY <1>1, <1>3, <3>1, <3>3 DEF PromiseInv, Promises
  <2> QED BY <2>1, <2>2
<1>7. CASE Accept(c) \/ AckFails(c)
  <2>1. /\ turn[k] = [stage |-> "reserved", message |-> m]
        /\ \A p \in promised : ChatOf[p[2]] # k
    BY <1>7 DEF Accept, AckFails, PromiseInv, WorkInv, TypeOK, Promises
  <2>2. \A p \in promised : turn'[ChatOf[p[2]]] = turn[ChatOf[p[2]]]
    BY <1>2, <1>7, <2>1 DEF Accept, AckFails, PromiseInv, WorkInv, TypeOK
  <2>3. CASE AckFails(c)
    BY <1>1, <1>3, <2>2, <2>3 DEF AckFails, PromiseInv, Promises
  <2>4. CASE Accept(c)
    <3>1. promised' = promised \cup {<<c, m>>}
      <4>1. promised' = promised \cup {<<c, turn[k].message>>}
        BY <2>4 DEF Accept, Announce
      <4> QED BY <2>1, <4>1
    <3>2. turn'[k].stage = "running" /\ turn'[k].message = m
      <4>1. turn \in [Chats -> TurnRecord]
        BY DEF PromiseInv, WorkInv, TypeOK, TurnRecord
      <4>2. turn' = [turn EXCEPT ![k] = [turn[k] EXCEPT !.stage = "running"]]
        BY <2>4 DEF Accept
      <4> QED BY <2>1, <4>1, <4>2 DEF TurnRecord
    <3>3. Owner(k)' = c
      BY <1>1 DEF Owner
    <3> QED BY <1>1, <1>3, <2>2, <3>1, <3>2, <3>3 DEF PromiseInv, Promises
  <2> QED BY <1>7, <2>3, <2>4
<1> QED BY <1>5, <1>6, <1>7

\* A chat that is spelled as it is registered is not taken from its turn.
LEMMA RegisterPromises ==
    ASSUME SpelledAlike, PromiseInv, NEW c \in Conns, Register(c)
    PROVE  Promises'
<1>1. handler[c].about \in Messages /\ UNCHANGED <<conn, turn, promised>>
  BY DEF Register, PromiseInv, WorkInv, Frames, At, Idle, Reading
<1> PICK k \in Chats : k = Canonical[ChatOf[handler[c].about]]
  BY <1>1
<1>2. ASSUME NEW p \in promised, conn[p[1]] = "open"
      PROVE  Owner(ChatOf[p[2]])' = p[1]
  <2>1. p[1] \in Conns /\ p[2] \in Messages /\ ChatOf[p[2]] \in Chats
    BY DEF PromiseInv, WorkInv, TypeOK
  <2>2. Owner(ChatOf[p[2]]) = p[1] /\ IsActive(ChatOf[p[2]])
    BY <1>2 DEF PromiseInv, Promises, IsActive
  <2>3. Canonical[ChatOf[p[2]]] = ChatOf[p[2]]
    BY <2>1 DEF SpelledAlike
  <2>4. CASE UNCHANGED registry
    BY <2>2, <2>4 DEF Owner
  <2>5. CASE ~Held(c, k) /\ registry' = [registry EXCEPT ![k] = c]
    <3>1. CASE ChatOf[p[2]] = k /\ p[1] # c
      <4>1. registry[k] = p[1] /\ p[1] # None
        BY <2>1, <2>2, <2>3, <3>1 DEF Owner
      <4> QED BY <2>2, <2>5, <3>1, <4>1 DEF Held
    <3>2. CASE ChatOf[p[2]] # k \/ p[1] = c
      BY <2>1, <2>2, <2>3, <2>5, <3>2 DEF Owner, PromiseInv, WorkInv, TypeOK
    <3> QED BY <3>1, <3>2
  <2> QED BY <2>4, <2>5 DEF Register
<1> QED BY <1>1, <1>2 DEF PromiseInv, Promises

\* A connection that goes takes with it only its own keys.
LEMMA OthersPromises ==
    ASSUME PromiseInv, NEW c \in Conns,
           \/ Open(c) \/ Ping(c) \/ GoStale(c) \/ Lose(c) \/ Close(c) \/ ResolveAnswer(c)
           \/ \E m \in Messages : Receive(c, m)
           \/ \E k \in Chats : CheckAnswer(c, k)
    PROVE  Promises'
<1>1. UNCHANGED <<turn, promised>> /\ conn \in [Conns -> {"new", "open", "dead", "closed"}]
  BY DEF Open, Ping, GoStale, Lose, Close, ResolveAnswer, Receive, CheckAnswer, PromiseInv, WorkInv,
         TypeOK
<1>2. ASSUME NEW p \in promised
      PROVE  conn'[p[1]] # "new" /\ (conn'[p[1]] = "open" => Owner(ChatOf[p[2]])' = p[1])
  <2>1. p[1] \in Conns /\ ChatOf[p[2]] \in Chats
    BY DEF PromiseInv, WorkInv, TypeOK
  <2>2. conn[p[1]] # "new" /\ (conn[p[1]] = "open" => Owner(ChatOf[p[2]]) = p[1])
    BY DEF PromiseInv, Promises
  <2>3. CASE Close(c)
    BY <1>1, <2>1, <2>2, <2>3 DEF Close, Owner
  <2>4. CASE Open(c) \/ Lose(c)
    BY <1>1, <2>1, <2>2, <2>4 DEF Open, Lose, Owner
  <2>5. CASE UNCHANGED <<conn, registry>>
    BY <2>2, <2>5 DEF Owner
  <2> QED BY <2>3, <2>4, <2>5 DEF Ping, GoStale, ResolveAnswer, Receive, CheckAnswer
<1> QED BY <1>1, <1>2 DEF PromiseInv, Promises

\* With its turn a message has no promise left.
LEMMA AdvancePromises ==
    ASSUME PromiseInv, NEW k \in Chats, Advance(k)
    PROVE  Promises'
<1>1. \A p \in promised : Owner(ChatOf[p[2]])' = Owner(ChatOf[p[2]]) /\ ChatOf[p[2]] \in Chats
  BY TurnMoves DEF PromiseInv, WorkInv, TypeOK, Owner
<1>2. UNCHANGED conn /\ promised' \subseteq promised
  BY TurnMoves DEF PromiseInv
<1>3. ASSUME NEW p \in promised'
      PROVE  /\ turn'[ChatOf[p[2]]].message = p[2]
             /\ turn'[ChatOf[p[2]]].stage \notin {"none", "reserved"}
  <2>1. turn[ChatOf[p[2]]].message = p[2] /\ turn[ChatOf[p[2]]].stage \notin {"none", "reserved"}
    BY <1>2 DEF PromiseInv, Promises
  <2>2. CASE ChatOf[p[2]] = k
    BY <2>1, <2>2, TurnMoves DEF PromiseInv
  <2>3. CASE ChatOf[p[2]] # k
    BY <1>1, <1>2, <2>1, <2>3, TurnMoves DEF PromiseInv
  <2> QED BY <2>2, <2>3
<1> QED BY <1>1, <1>2, <1>3 DEF PromiseInv, Promises

LEMMA PromiseStep ==
    ASSUME SpelledAlike, PromiseInv, [Next]_vars
    PROVE  PromiseInv'
<1>1. WorkInv'
  BY WorkStep DEF PromiseInv
<1>2. CASE UNCHANGED vars
  BY <1>2 DEF vars, PromiseInv, Promises, WorkInv, TypeOK, Frames, Owned, Turns, At, Idle, Owner,
              IsActive
<1>3. ASSUME NEW c \in Conns, Handle(c)
      PROVE  Promises'
  BY <1>1, <1>3, RegisterPromises, AnnounceKeeps, OthersPromises DEF Handle
<1> QED BY <1>1, <1>2, <1>3, OthersPromises, AdvancePromises DEF Next, PromiseInv

\* The connection that was told to expect the answer of a turn is the one it goes
\* to as long as it is connected, if the clients of a chat spell it canonically:
\* tryRegister refuses a chat whose turn is running, and a connection gives up
\* its keys only when its client is gone.
THEOREM PromisesKept ==
    ASSUME SpelledAlike
    PROVE  Spec => []AnswerGoesWherePromised
<1>1. PromiseInv => AnswerGoesWherePromised
  BY DEF PromiseInv, WorkInv, Promises, AnswerGoesWherePromised
<1> QED BY <1>1, InitInv, PromiseStep, PTL DEF Spec

=============================================================================
