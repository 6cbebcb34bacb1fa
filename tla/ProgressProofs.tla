-------------------------- MODULE ProgressProofs --------------------------
(***************************************************************************)
(* What the two parts of channelrunner/progress promise: the feed of a     *)
(* turn (ProgressFeed), for any messages, children, offers, quotas and     *)
(* capacity; and the routing of a chat (ChatSession), for any messages,    *)
(* entries and kinds of channel, any number of deliveries and crashes, as  *)
(* long as no idle hour ends between the lookup of an entry and its lock.  *)
(***************************************************************************)
EXTENDS ChatSession, ProgressFeed, FiniteSets, FiniteSetTheorems, SequenceTheorems,
        WellFoundedInduction, TLAPS

(***************************************************************************)
(* ProgressFeed                                                            *)
(***************************************************************************)

FeedState == [loop : {"none", "check", "wait", "dispatch", "send", "exited"},
              taken : Seq(Events), queue : Seq(Events), signal : BOOLEAN,
              done : BOOLEAN, canceled : BOOLEAN, restarted : BOOLEAN, drained : BOOLEAN,
              counts : [BOOLEAN -> Nat], said : SUBSET Events]

\* What was handed to the channel or is on its way there.
OnTheWay(m) == ToSet(tried[m]) \cup ToSet(feed[m].taken) \cup ToSet(feed[m].queue)

\* p is about to hand over an event of m.
Holds(p, m) == emitter[p] # NothingInHand /\ emitter[p].message = m

\* How the feed follows its turn: what is interrupted is canceled until it is
\* reopened, and nobody else closes a feed but the end of its turn.
Follows(m) ==
    /\ turns[m] = "new" => feed[m].loop = "none"
    /\ turns[m] \in {"cancel", "close", "await", "reopen"} => path = "bus"
    /\ turns[m] \in {"close", "await", "reopen"} => feed[m].canceled
    /\ turns[m] \in {"await", "reopen"} => feed[m].done
    /\ turns[m] = "reopen" => feed[m].loop = "exited" /\ owed[m] = {}
    /\ turns[m] = "over" => feed[m].loop = "exited"
    /\ feed[m].done /\ ~feed[m].canceled => turns[m] \in {"stopping", "over"}
    /\ feed[m].loop = "exited" => feed[m].done /\ feed[m].queue = <<>>
    /\ path = "raw" => /\ ~feed[m].canceled
                       /\ feed[m].loop # "dispatch" /\ Len(feed[m].taken) <= 1

\* The run reports to its own turn, while that is running.
Reports(m) ==
    \A p \in Producers : Holds(p, m) =>
        /\ emitter[p].event.child <=> p # 0
        /\ p = 0 => turns[m] = "running"

\* What the channel was given was said, each but once, and what it is being given was
\* said first.
SaidFirst(m) ==
    /\ IsInjective(tried[m]) /\ ToSet(tried[m]) \subseteq feed[m].said
    /\ feed[m].loop = "send" => Head(feed[m].taken) \in feed[m].said \ ToSet(tried[m])

Saying(m, child) == {e \in feed[m].said : Counted(e) /\ e.child = child}

\* The counters count what was said, and keep to the quotas.
Counts(m) ==
    /\ IsFiniteSet(feed[m].said)
    /\ \A child \in BOOLEAN :
          /\ feed[m].counts[child] = Cardinality(Saying(m, child))
          /\ Quota(child) > 0 => feed[m].counts[child] <= Quota(child)

\* What passed before the queue is in one place of it, or on its way there.
OnePlace(m) ==
    path = "raw" =>
        /\ IsInjective(feed[m].queue)
        /\ ToSet(feed[m].queue) \subseteq feed[m].said \ (ToSet(tried[m]) \cup ToSet(feed[m].taken))
        /\ \A p \in Producers : Holds(p, m) =>
              /\ emitter[p].event \in feed[m].said \ OnTheWay(m)
              /\ \A q \in Producers \ {p} : emitter[q] # emitter[p]

\* What counts as said by the run is not lost.
SaidIsKept(m) ==
    /\ path = "raw" =>
          \A e \in feed[m].said : ~e.child =>
              e \in OnTheWay(m) \/ emitter[0] = [message |-> m, event |-> e]
    /\ path = "bus" =>
          feed[m].said \subseteq
              ToSet(tried[m]) \cup (IF feed[m].loop = "send" THEN {Head(feed[m].taken)} ELSE {})

\* Nor is a question that is owed, unless the turn was canceled or it was refused.
OwedIsKept(m) ==
    \A e \in owed[m] :
        /\ e.class = "asked"
        /\ ~feed[m].canceled =>
              \/ e \in OnTheWay(m) \cup refused[m]
              \/ emitter[0] = [message |-> m, event |-> e]

InOrder(m) ==
    /\ Follows(m) /\ Reports(m) /\ SaidFirst(m) /\ Counts(m)
    /\ OnePlace(m) /\ SaidIsKept(m) /\ OwedIsKept(m)

FeedInv == FeedTypeOK /\ \A m \in Inbound : InOrder(m)

-----------------------------------------------------------------------------
(* Sequences without repetition                                            *)

LEMMA AppendSet ==
    ASSUME NEW S, NEW s \in Seq(S), NEW e \in S
    PROVE  /\ Append(s, e) \in Seq(S)
           /\ ToSet(Append(s, e)) = ToSet(s) \cup {e}
           /\ IsInjective(s) /\ e \notin ToSet(s) => IsInjective(Append(s, e))
<1>1. /\ Append(s, e) \in Seq(S) /\ Len(s) \in Nat /\ Len(Append(s, e)) = Len(s) + 1
      /\ DOMAIN s = 1..Len(s) /\ DOMAIN Append(s, e) = 1..Len(s) + 1
      /\ Append(s, e)[Len(s) + 1] = e
      /\ \A i \in 1..Len(s) : Append(s, e)[i] = s[i]
  OBVIOUS
<1>2. ASSUME NEW i \in 1..Len(s) + 1
      PROVE  i \in 1..Len(s) \/ i = Len(s) + 1
  BY <1>1
<1>3. ToSet(Append(s, e)) \subseteq ToSet(s) \cup {e}
  BY <1>1, <1>2 DEF ToSet
<1>4. ToSet(s) \cup {e} \subseteq ToSet(Append(s, e))
  BY <1>1 DEF ToSet
<1>5. ASSUME IsInjective(s), e \notin ToSet(s)
      PROVE  IsInjective(Append(s, e))
  BY <1>1, <1>2, <1>5 DEF IsInjective, ToSet
<1> QED BY <1>1, <1>3, <1>4, <1>5

LEMMA HeadAndTail ==
    ASSUME NEW S, NEW s \in Seq(S), s # <<>>
    PROVE  /\ Head(s) \in S /\ Tail(s) \in Seq(S) /\ Len(Tail(s)) = Len(s) - 1
           /\ Len(s) \in Nat /\ (Len(s) = 1 <=> Tail(s) = <<>>)
           /\ ToSet(s) = {Head(s)} \cup ToSet(Tail(s))
           /\ IsInjective(s) => IsInjective(Tail(s)) /\ Head(s) \notin ToSet(Tail(s))
<1>1. /\ Head(s) \in S /\ Tail(s) \in Seq(S) /\ Len(s) \in Nat \ {0}
      /\ Len(Tail(s)) = Len(s) - 1 /\ Head(s) = s[1]
      /\ DOMAIN s = 1..Len(s) /\ DOMAIN Tail(s) = 1..Len(s) - 1
      /\ \A i \in 1..Len(s) - 1 : Tail(s)[i] = s[i + 1]
  OBVIOUS
<1>2. Len(s) = 1 <=> Tail(s) = <<>>
  BY <1>1
<1>3. ToSet(s) \subseteq {Head(s)} \cup ToSet(Tail(s))
  <2> SUFFICES ASSUME NEW i \in 1..Len(s)
               PROVE  s[i] \in {Head(s)} \cup ToSet(Tail(s))
    BY <1>1 DEF ToSet
  <2>1. CASE i = 1
    BY <1>1, <2>1
  <2>2. CASE i # 1
    <3>1. i - 1 \in 1..Len(s) - 1 /\ Tail(s)[i - 1] = s[i]
      BY <1>1, <2>2
    <3> QED BY <1>1, <3>1 DEF ToSet
  <2> QED BY <2>1, <2>2
<1>4. \A i \in 1..Len(s) - 1 : i + 1 \in 1..Len(s) /\ i + 1 # 1
  BY <1>1
<1>5. {Head(s)} \cup ToSet(Tail(s)) \subseteq ToSet(s)
  <2>1. 1 \in 1..Len(s)
    BY <1>1
  <2> QED BY <1>1, <1>4, <2>1 DEF ToSet
<1>6. ASSUME IsInjective(s)
      PROVE  IsInjective(Tail(s)) /\ Head(s) \notin ToSet(Tail(s))
  <2>1. \A i, j \in 1..Len(s) : s[i] = s[j] => i = j
    BY <1>1, <1>6 DEF IsInjective
  <2>2. \A i, j \in 1..Len(s) - 1 : i + 1 = j + 1 => i = j
    BY <1>1
  <2>3. IsInjective(Tail(s))
    BY <1>1, <1>4, <2>1, <2>2 DEF IsInjective
  <2>4. 1 \in 1..Len(s)
    BY <1>1
  <2> QED BY <1>1, <1>4, <2>1, <2>3, <2>4 DEF ToSet
<1> QED BY <1>1, <1>2, <1>3, <1>5, <1>6

LEMMA NothingIn == /\ \A S : <<>> \in Seq(S)
                   /\ ToSet(<<>>) = {} /\ IsInjective(<<>>) /\ Len(<<>>) = 0
BY DEF ToSet, IsInjective

LEMMA OneIn ==
    ASSUME NEW S, NEW e \in S
    PROVE  <<e>> \in Seq(S) /\ <<e>> # <<>> /\ ToSet(<<e>>) = {e} /\ Head(<<e>>) = e /\ Len(<<e>>) = 1
BY DEF ToSet

LEMMA SetOfSeq ==
    ASSUME NEW S, NEW s \in Seq(S)
    PROVE  ToSet(s) \subseteq S
BY DEF ToSet

\* What is left without the element at i: everything else, and one fewer.
LEMMA Without ==
    ASSUME NEW S, NEW s \in Seq(S), NEW i \in 1..Len(s)
    PROVE  /\ RemoveAt(s, i) \in Seq(S) /\ Len(RemoveAt(s, i)) = Len(s) - 1
           /\ ToSet(RemoveAt(s, i)) \subseteq ToSet(s)
           /\ ToSet(s) \subseteq ToSet(RemoveAt(s, i)) \cup {s[i]}
<1> DEFINE a == SubSeq(s, 1, i - 1)
           b == SubSeq(s, i + 1, Len(s))
<1>1. /\ a \in Seq(S) /\ Len(a) = i - 1 /\ \A j \in 1..i - 1 : a[j] = s[j]
  OBVIOUS
<1>2. /\ b \in Seq(S) /\ Len(b) = Len(s) - i /\ \A j \in 1..Len(s) - i : b[j] = s[j + i]
  OBVIOUS
<1>3. RemoveAt(s, i) = a \o b
  BY DEF RemoveAt
<1> HIDE DEF a, b
<1>4. /\ a \o b \in Seq(S) /\ Len(a \o b) = Len(s) - 1 /\ DOMAIN (a \o b) = 1..Len(s) - 1
      /\ \A j \in 1..i - 1 : (a \o b)[j] = s[j]
      /\ \A j \in 1..Len(s) - i : (a \o b)[j + (i - 1)] = s[j + i]
  <2>1. /\ a \o b \in Seq(S) /\ Len(a \o b) = Len(a) + Len(b)
        /\ \A j \in 1..Len(a) + Len(b) : (a \o b)[j] = IF j <= Len(a) THEN a[j] ELSE b[j - Len(a)]
    BY <1>1, <1>2, ConcatProperties
  <2>2. Len(a \o b) = Len(s) - 1 /\ DOMAIN (a \o b) = 1..Len(a \o b)
    BY <1>1, <1>2, <2>1
  <2>3. ASSUME NEW j \in 1..i - 1
        PROVE  (a \o b)[j] = s[j]
    <3>1. j \in 1..Len(a) + Len(b) /\ j <= Len(a)
      BY <1>1, <1>2
    <3> QED BY <1>1, <2>1, <3>1
  <2>4. ASSUME NEW j \in 1..Len(s) - i
        PROVE  (a \o b)[j + (i - 1)] = s[j + i]
    <3>1. j + (i - 1) \in 1..Len(a) + Len(b) /\ ~(j + (i - 1) <= Len(a)) /\ j + (i - 1) - Len(a) = j
      BY <1>1, <1>2
    <3>2. (a \o b)[j + (i - 1)] = b[j]
      BY <2>1, <3>1
    <3>3. b[j] = s[j + i]
      BY <1>2
    <3> QED BY <3>2, <3>3
  <2> QED BY <2>1, <2>2, <2>3, <2>4
<1>5. ASSUME NEW j \in 1..Len(s) - 1
      PROVE  \E k \in 1..Len(s) : (a \o b)[j] = s[k]
  <2>1. CASE j \in 1..i - 1
    BY <1>4, <2>1
  <2>2. CASE j \notin 1..i - 1
    <3>1. j - (i - 1) \in 1..Len(s) - i /\ j - (i - 1) + (i - 1) = j
      BY <2>2
    <3>2. j - (i - 1) + i \in 1..Len(s)
      BY <2>2
    <3> QED BY <1>4, <3>1, <3>2
  <2> QED BY <2>1, <2>2
<1>6. ASSUME NEW k \in 1..Len(s), k # i
      PROVE  \E j \in 1..Len(s) - 1 : s[k] = (a \o b)[j]
  <2>1. CASE k < i
    <3>1. k \in 1..i - 1 /\ k \in 1..Len(s) - 1
      BY <2>1
    <3> QED BY <1>4, <3>1
  <2>2. CASE ~(k < i)
    <3>1. k - i \in 1..Len(s) - i /\ k - i + i = k /\ k - i + (i - 1) \in 1..Len(s) - 1
      BY <1>6, <2>2
    <3> QED BY <1>4, <3>1
  <2> QED BY <2>1, <2>2
<1>7. DOMAIN s = 1..Len(s)
  OBVIOUS
<1>8. ToSet(a \o b) \subseteq ToSet(s)
  <2> SUFFICES ASSUME NEW j \in 1..Len(s) - 1
               PROVE  (a \o b)[j] \in ToSet(s)
    BY <1>4 DEF ToSet
  <2> QED BY <1>5, <1>7 DEF ToSet
<1>9. ToSet(s) \subseteq ToSet(a \o b) \cup {s[i]}
  <2> SUFFICES ASSUME NEW k \in 1..Len(s), k # i
               PROVE  s[k] \in ToSet(a \o b)
    BY <1>7 DEF ToSet
  <2>1. PICK j \in DOMAIN (a \o b) : s[k] = (a \o b)[j]
    BY <1>4, <1>6
  <2> QED BY <2>1 DEF ToSet
<1> QED BY <1>3, <1>4, <1>8, <1>9

\* A set of numbers has a least one.
LEMMA LeastOf ==
    ASSUME NEW T \in SUBSET Nat, T # {}
    PROVE  \E x \in T : \A y \in T : x <= y
<1> DEFINE R == OpToRel(<, Nat)
<1>1. IsWellFoundedOn(R, Nat)
  BY NatLessThanWellFounded, Zenon
<1>2. R = {ss \in Nat \X Nat : ss[1] < ss[2]}
  BY Zenon DEF OpToRel
<1> HIDE DEF R
<1>3. ASSUME NEW x \in Nat, NEW y \in Nat, y < x
      PROVE  <<y, x>> \in R
  <2> DEFINE ss == <<y, x>>
  <2>1. ss \in Nat \X Nat /\ ss[1] < ss[2]
    BY <1>3
  <2> HIDE DEF ss
  <2>2. ss \in R
    BY <1>2, <2>1
  <2> QED BY <2>2 DEF ss
<1>4. PICK x \in T : \A y \in T : <<y, x>> \notin R
  BY <1>1, WFMin
<1>5. ASSUME NEW y \in T
      PROVE  x <= y
  <2>1. x \in Nat /\ y \in Nat /\ ~(y < x)
    BY <1>3, <1>4
  <2> QED BY <2>1
<1> QED BY <1>5

-----------------------------------------------------------------------------
(* What does not concern a feed leaves it in order                         *)

TurnStages == {"new", "running", "steered", "taken", "cancel", "close", "await",
               "reopen", "stop", "stopping", "over"}

Hands == {NothingInHand} \cup [message : Inbound, event : Events]

LEMMA Typed ==
    ASSUME FeedTypeOK, NEW m \in Inbound
    PROVE  /\ path \in {"raw", "bus"} /\ feed \in [Inbound -> FeedState] /\ feed[m] \in FeedState
           /\ turns \in [Inbound -> TurnStages] /\ turns[m] \in TurnStages
           /\ feed[m].taken = <<>> <=> feed[m].loop \notin {"dispatch", "send"}
           /\ path = "bus" => Len(feed[m].queue) <= Capacity
           /\ emitter \in [Producers -> Hands]
           /\ owed \in [Inbound -> SUBSET Events] /\ owed[m] \subseteq Events
           /\ refused \in [Inbound -> SUBSET Events] /\ failed \in [Inbound -> SUBSET Events]
           /\ tried \in [Inbound -> Seq(Events)] /\ tried[m] \in Seq(Events)
BY FeedAssumption DEF FeedTypeOK, FeedState, TurnStages, Hands

\* What a producer holds is an event of a message.
LEMMA HeldTyped ==
    ASSUME FeedTypeOK, NEW p \in Producers, NEW m \in Inbound
    PROVE  /\ Holds(p, m) => emitter[p].event \in Events /\ emitter[p] = [message |-> m, event |-> emitter[p].event]
           /\ \A e : emitter[p] = [message |-> m, event |-> e] => Holds(p, m) /\ emitter[p].event = e
           /\ \A e : [message |-> m, event |-> e] # NothingInHand
<1>1. \A e : [message |-> m, event |-> e] # NothingInHand
  BY FeedAssumption DEF NothingInHand
<1>2. emitter[p] \in Hands
  BY DEF FeedTypeOK, Hands
<1>3. ASSUME Holds(p, m)
      PROVE  emitter[p].event \in Events /\ emitter[p] = [message |-> m, event |-> emitter[p].event]
  BY <1>2, <1>3 DEF Holds, Hands
<1> QED BY <1>1, <1>3 DEF Holds

LEMMA Untouched ==
    ASSUME FeedTypeOK, FeedTypeOK', NEW n \in Inbound, InOrder(n), UNCHANGED path,
           feed'[n] = feed[n], turns'[n] = turns[n], owed'[n] = owed[n], tried'[n] = tried[n],
           refused'[n] = refused[n],
           \A p \in Producers : Holds(p, n) \/ Holds(p, n)' => emitter'[p] = emitter[p]
    PROVE  InOrder(n)'
<1>1. Follows(n)' /\ SaidFirst(n)' /\ Counts(n)'
  BY DEF InOrder, Follows, SaidFirst, Counts, Saying
<1>2. \A p \in Producers : Holds(p, n)' <=> Holds(p, n)
  BY DEF Holds
<1>3. OnTheWay(n)' = OnTheWay(n)
  BY DEF OnTheWay
<1>4. Reports(n)'
  BY <1>2 DEF InOrder, Reports
<1>5. OnePlace(n)'
  <2> SUFFICES ASSUME path = "raw", NEW p \in Producers, Holds(p, n), NEW q \in Producers \ {p},
                      emitter'[q] = emitter'[p]
               PROVE  FALSE
    BY <1>2, <1>3 DEF InOrder, OnePlace
  <2>1. emitter'[p] = emitter[p] /\ emitter[q] # emitter[p]
    BY DEF InOrder, OnePlace
  <2>2. Holds(q, n)'
    BY <1>2 DEF Holds
  <2> QED BY <2>1, <2>2
<1>6. 0 \in Producers
  BY FeedAssumption DEF Producers
<1>7. \A e : emitter[0] = [message |-> n, event |-> e] => emitter'[0] = [message |-> n, event |-> e]
  BY <1>6, HeldTyped
<1>8. SaidIsKept(n)' /\ OwedIsKept(n)'
  BY <1>3, <1>7 DEF InOrder, SaidIsKept, OwedIsKept
<1> QED BY <1>1, <1>4, <1>5, <1>8 DEF InOrder

\* One feed moves, of one message.
LEMMA OneFeed ==
    ASSUME FeedTypeOK, NEW m \in Inbound, NEW f \in FeedState, feed' = [feed EXCEPT ![m] = f]
    PROVE  /\ feed' \in [Inbound -> FeedState] /\ feed'[m] = f
           /\ \A n \in Inbound \ {m} : feed'[n] = feed[n]
BY Typed

\* What a step does to the feed of m, while the producers hold what they hold.
LEMMA Moves ==
    ASSUME FeedInv, NEW m \in Inbound, feed' \in [Inbound -> FeedState],
           UNCHANGED <<path, emitter, parent, emits>>,
           feed'[m].taken = <<>> <=> feed'[m].loop \notin {"dispatch", "send"},
           path = "bus" => Len(feed'[m].queue) <= Capacity,
           turns' \in [Inbound -> TurnStages],
           owed' \in [Inbound -> SUBSET Events], tried' \in [Inbound -> Seq(Events)],
           refused' \in [Inbound -> SUBSET Events], failed' \in [Inbound -> SUBSET Events],
           \A n \in Inbound \ {m} : /\ feed'[n] = feed[n] /\ turns'[n] = turns[n]
                                    /\ owed'[n] = owed[n] /\ tried'[n] = tried[n]
                                    /\ refused'[n] = refused[n],
           FeedTypeOK' => InOrder(m)'
    PROVE  FeedInv'
<1>1. FeedTypeOK'
  BY DEF FeedInv, FeedTypeOK, FeedState, TurnStages
<1>2. \A n \in Inbound \ {m} : InOrder(n)'
  BY <1>1, Untouched DEF FeedInv
<1> QED BY <1>1, <1>2 DEF FeedInv

\* Nothing of what m has said or has yet to say is touched.
LEMMA Controls ==
    ASSUME FeedTypeOK, NEW m \in Inbound, InOrder(m), UNCHANGED <<path, emitter>>,
           owed'[m] = owed[m], tried'[m] = tried[m], refused'[m] = refused[m],
           feed'[m].queue = feed[m].queue, feed'[m].taken = feed[m].taken,
           feed'[m].said = feed[m].said, feed'[m].counts = feed[m].counts,
           feed'[m].loop = "send" <=> feed[m].loop = "send",
           feed[m].canceled => feed'[m].canceled,
           Follows(m)', turns[m] = "running" /\ Holds(0, m) => turns'[m] = "running"
    PROVE  InOrder(m)'
<1>1. OnTheWay(m)' = OnTheWay(m)
  BY DEF OnTheWay
<1>2. Reports(m)'
  BY DEF InOrder, Reports, Holds
<1>3. SaidFirst(m)' /\ Counts(m)'
  BY DEF InOrder, SaidFirst, Counts, Saying
<1>4. OnePlace(m)'
  BY <1>1 DEF InOrder, OnePlace, Holds
<1>5. SaidIsKept(m)' /\ OwedIsKept(m)'
  BY <1>1 DEF InOrder, SaidIsKept, OwedIsKept
<1> QED BY <1>2, <1>3, <1>4, <1>5 DEF InOrder

-----------------------------------------------------------------------------
(* The turn                                                                *)

LEMMA ReceiveKeeps ==
    ASSUME FeedInv, NEW m \in Inbound, Receive(m)
    PROVE  FeedInv'
<1>1. FeedTypeOK /\ InOrder(m) /\ turns[m] = "new" /\ feed[m].loop = "none"
  BY DEF FeedInv, InOrder, Follows, Receive
<1>2. PICK loop \in {"none", "check"} : feed' = [feed EXCEPT ![m] = [feed[m] EXCEPT !.loop = loop]]
  BY <1>1 DEF Receive
<1>3. PICK to \in {"steered", "running"} : turns' = [turns EXCEPT ![m] = to]
  BY DEF Receive
<1>4. [feed[m] EXCEPT !.loop = loop] \in FeedState
  <2>1. feed[m] \in FeedState
    BY <1>1, Typed
  <2> QED BY <2>1 DEF FeedState
<1>5. /\ feed' \in [Inbound -> FeedState] /\ feed'[m] = [feed[m] EXCEPT !.loop = loop]
      /\ \A n \in Inbound \ {m} : feed'[n] = feed[n]
  BY <1>1, <1>2, <1>4, OneFeed
<1>6. /\ feed'[m].loop = loop /\ feed'[m].queue = feed[m].queue /\ feed'[m].taken = feed[m].taken
      /\ feed'[m].said = feed[m].said /\ feed'[m].counts = feed[m].counts
      /\ feed'[m].done = feed[m].done /\ feed'[m].canceled = feed[m].canceled
  BY <1>1, <1>5, Typed DEF FeedState
<1>7. /\ turns' \in [Inbound -> TurnStages] /\ turns'[m] = to
      /\ \A n \in Inbound \ {m} : turns'[n] = turns[n]
  BY <1>1, <1>3, Typed DEF TurnStages
<1>8. UNCHANGED <<path, emitter, parent, emits, owed, refused, tried, failed>>
  BY DEF Receive
<1>9. Follows(m)'
  BY <1>1, <1>6, <1>7, <1>8 DEF InOrder, Follows
<1>10. InOrder(m)'
  BY <1>1, <1>6, <1>7, <1>8, <1>9, Controls
<1> QED BY <1>1, <1>5, <1>6, <1>7, <1>8, <1>10, Moves, Typed

\* The turn goes on, and its feed is canceled or closed.
LEMMA TurnKeeps ==
    ASSUME FeedInv, NEW m \in Inbound, NEW done \in BOOLEAN, NEW canceled \in BOOLEAN,
           NEW restarted \in BOOLEAN, NEW signal \in BOOLEAN, NEW to \in TurnStages \ {"new"},
           turns' = [turns EXCEPT ![m] = to],
           feed' = [feed EXCEPT ![m] = [feed[m] EXCEPT !.done = done, !.canceled = canceled,
                                                       !.restarted = restarted, !.signal = signal]],
           UNCHANGED <<path, emitter, parent, emits, owed, refused, tried, failed>>,
           turns[m] = "running" /\ to # "running" => emitter[0] = NothingInHand,
           feed[m].done => done, feed[m].canceled => canceled, canceled => path = "bus",
           to \in {"cancel", "close", "await"} => path = "bus",
           to \in {"close", "await"} => canceled, to = "await" => done,
           to = "reopen" => turns[m] = "reopen" /\ canceled,
           to = "over" => feed[m].loop = "exited",
           done /\ ~canceled => to \in {"stopping", "over"}
    PROVE  FeedInv'
<1>1. FeedTypeOK /\ InOrder(m)
  BY DEF FeedInv
<1> DEFINE f == [feed[m] EXCEPT !.done = done, !.canceled = canceled, !.restarted = restarted,
                              !.signal = signal]
<1>2. f \in FeedState
  <2>1. feed[m] \in FeedState
    BY <1>1, Typed
  <2> QED BY <2>1 DEF FeedState
<1>3. /\ feed' \in [Inbound -> FeedState] /\ feed'[m] = f
      /\ \A n \in Inbound \ {m} : feed'[n] = feed[n]
  BY <1>1, <1>2, OneFeed
<1>4. /\ feed'[m].loop = feed[m].loop /\ feed'[m].queue = feed[m].queue
      /\ feed'[m].taken = feed[m].taken /\ feed'[m].said = feed[m].said
      /\ feed'[m].counts = feed[m].counts
      /\ feed'[m].done = done /\ feed'[m].canceled = canceled
  BY <1>1, <1>3, Typed DEF FeedState
<1> HIDE DEF f
<1>5. /\ turns' \in [Inbound -> TurnStages] /\ turns'[m] = to
      /\ \A n \in Inbound \ {m} : turns'[n] = turns[n]
  BY <1>1, Typed
<1>6. Follows(m)'
  BY <1>1, <1>4, <1>5, Typed DEF InOrder, Follows
<1>7. turns[m] = "running" /\ Holds(0, m) => turns'[m] = "running"
  BY <1>5 DEF Holds
<1>8. InOrder(m)'
  BY <1>1, <1>4, <1>6, <1>7, Controls
<1> QED BY <1>1, <1>3, <1>4, <1>5, <1>8, Moves, Typed

LEMMA TurnMoves ==
    ASSUME FeedInv, NEW m \in Inbound,
           \/ CancelTurn(m) \/ End(m) \/ CancelFeed(m) \/ StopFeed(m) \/ Stopped(m)
    PROVE  FeedInv'
<1>1. /\ FeedTypeOK /\ InOrder(m) /\ Follows(m) /\ feed[m] \in FeedState /\ turns \in [Inbound -> TurnStages]
      /\ feed \in [Inbound -> FeedState]
  BY Typed DEF FeedInv, InOrder
<1>2. PICK done \in BOOLEAN, canceled \in BOOLEAN, restarted \in BOOLEAN, signal \in BOOLEAN :
         /\ done = feed[m].done /\ canceled = feed[m].canceled
         /\ restarted = feed[m].restarted /\ signal = feed[m].signal
  BY <1>1 DEF FeedState
<1> USE DEF TurnStages
<1>3. CASE CancelTurn(m)
  <2>1. feed' = [feed EXCEPT ![m] = [feed[m] EXCEPT !.done = done, !.canceled = TRUE,
                                                    !.restarted = restarted, !.signal = signal]]
    BY <1>1, <1>2, <1>3 DEF CancelTurn, FeedState
  <2> PICK to \in TurnStages : to = turns[m]
    BY <1>1, Typed
  <2>2. /\ turns' = [turns EXCEPT ![m] = to] /\ to # "new" /\ path = "bus"
        /\ UNCHANGED <<path, emitter, parent, emits, owed, refused, tried, failed>>
    BY <1>1, <1>3 DEF CancelTurn, TurnUnderway
  <2>3. /\ feed[m].done => done
        /\ turns[m] = "running" /\ to # "running" => emitter[0] = NothingInHand
        /\ to = "await" => done
        /\ to = "reopen" => turns[m] = "reopen"
        /\ to = "over" => feed[m].loop = "exited"
    BY <1>1, <1>2 DEF Follows
  <2>4. to \in TurnStages \ {"new"}
    BY <2>2
  <2> PICK off \in BOOLEAN : off
    OBVIOUS
  <2>5. feed' = [feed EXCEPT ![m] = [feed[m] EXCEPT !.done = done, !.canceled = off,
                                                    !.restarted = restarted, !.signal = signal]]
    BY <2>1
  <2>6. /\ UNCHANGED <<path, emitter, parent, emits, owed, refused, tried, failed>>
        /\ turns' = [turns EXCEPT ![m] = to] /\ path = "bus"
    BY <2>2
  <2>7. /\ feed[m].canceled => off
        /\ off => path = "bus"
        /\ to \in {"cancel", "close", "await"} => path = "bus"
        /\ to \in {"close", "await"} => off
        /\ to = "reopen" => turns[m] = "reopen" /\ off
        /\ done /\ ~off => to \in {"stopping", "over"}
    BY <2>3, <2>6
  <2> HIDE DEF TurnStages
  <2> QED BY ONLY FeedInv, <2>3, <2>4, <2>5, <2>6, <2>7, TurnKeeps, m \in Inbound, done \in BOOLEAN,
                  off \in BOOLEAN, restarted \in BOOLEAN, signal \in BOOLEAN
<1>4. CASE End(m)
  <2>1. /\ turns' = [turns EXCEPT ![m] = "stop"] /\ turns[m] = "running" /\ emitter[0] = NothingInHand
        /\ UNCHANGED <<path, feed, emitter, parent, emits, owed, refused, tried, failed>>
    BY <1>4 DEF End
  <2>2. /\ turns' = [turns EXCEPT ![m] = "stop"] /\ emitter[0] = NothingInHand
        /\ UNCHANGED <<path, emitter, parent, emits, owed, refused, tried, failed>>
    BY <2>1
  <2>3. feed[m].done => feed[m].canceled
    BY <1>1, <2>1 DEF Follows
  <2>4. feed[m].canceled => path = "bus"
    BY <1>1, Typed DEF Follows
  <2>5. feed' = [feed EXCEPT ![m] = [feed[m] EXCEPT !.done = done, !.canceled = canceled,
                                                    !.restarted = restarted, !.signal = signal]]
    BY <1>1, <1>2, <2>1 DEF FeedState
  <2> QED BY <1>2, <2>2, <2>3, <2>4, <2>5, TurnKeeps
<1>5. CASE CancelFeed(m)
  <2>1. feed' = [feed EXCEPT ![m] = [feed[m] EXCEPT !.done = done, !.canceled = TRUE,
                                                    !.restarted = TRUE, !.signal = signal]]
    BY <1>1, <1>2, <1>5 DEF CancelFeed, FeedState
  <2>2. /\ turns' = [turns EXCEPT ![m] = "close"] /\ turns[m] = "cancel"
        /\ UNCHANGED <<path, emitter, parent, emits, owed, refused, tried, failed>>
    BY <1>5 DEF CancelFeed, Step
  <2>3. path = "bus" /\ (feed[m].done => feed[m].canceled)
    BY <1>1, <2>2 DEF Follows
  <2> QED BY <1>2, <2>1, <2>2, <2>3, TurnKeeps
<1>6. CASE StopFeed(m)
  <2>1. feed' = [feed EXCEPT ![m] = [feed[m] EXCEPT !.done = TRUE, !.canceled = canceled,
                                                    !.restarted = restarted, !.signal = TRUE]]
    BY <1>1, <1>2, <1>6 DEF StopFeed, FeedState
  <2>2. /\ turns' = [turns EXCEPT ![m] = "stopping"] /\ turns[m] = "stop"
        /\ UNCHANGED <<path, emitter, parent, emits, owed, refused, tried, failed>>
    BY <1>6 DEF StopFeed, Step
  <2>3. feed[m].canceled => path = "bus"
    BY <1>1, Typed DEF Follows
  <2> QED BY <1>2, <2>1, <2>2, <2>3, TurnKeeps
<1>7. CASE Stopped(m)
  <2>1. /\ turns' = [turns EXCEPT ![m] = "over"] /\ turns[m] = "stopping" /\ feed[m].loop = "exited"
        /\ UNCHANGED <<path, feed, emitter, parent, emits, owed, refused, tried, failed>>
    BY <1>7 DEF Stopped, Step, At
  <2>2. /\ turns' = [turns EXCEPT ![m] = "over"] /\ turns[m] = "stopping" /\ feed[m].loop = "exited"
        /\ UNCHANGED <<path, emitter, parent, emits, owed, refused, tried, failed>>
    BY <2>1
  <2>3. feed[m].canceled => path = "bus"
    BY <1>1, Typed DEF Follows
  <2>4. feed' = [feed EXCEPT ![m] = [feed[m] EXCEPT !.done = done, !.canceled = canceled,
                                                    !.restarted = restarted, !.signal = signal]]
    BY <1>1, <1>2, <2>1 DEF FeedState
  <2>5. /\ "over" \in TurnStages \ {"new"} /\ "over" \notin {"cancel", "close", "await"}
        /\ "over" # "reopen" /\ "over" \in {"stopping", "over"} /\ turns[m] # "running"
        /\ feed[m].done => done
        /\ feed[m].canceled => canceled
        /\ canceled => path = "bus"
    BY <1>2, <2>2, <2>3
  <2> HIDE DEF TurnStages
  <2> QED BY <2>2, <2>4, <2>5, TurnKeeps
<1> QED BY <1>3, <1>4, <1>5, <1>6, <1>7

\* Of a renderer that was started for a steered message nobody makes use.
LEMMA SteerKeeps ==
    ASSUME FeedInv, NEW m \in Inbound, NEW n \in Inbound, Steer(m, n)
    PROVE  FeedInv'
<1>1. FeedTypeOK /\ m # n /\ turns[m] = "running" /\ turns[n] = "steered" /\ emitter[0] = NothingInHand
      /\ UNCHANGED <<path, feed, emitter, parent, emits, owed, refused, tried, failed>>
  BY DEF FeedInv, Steer
<1>2. PICK to \in {"running", "cancel"} :
         to = (IF path = "bus" THEN "cancel" ELSE "running")
  OBVIOUS
<1>3. turns' = [[turns EXCEPT ![n] = "taken"] EXCEPT ![m] = to]
  BY <1>1, <1>2, Typed DEF Steer
<1>4. /\ turns' \in [Inbound -> TurnStages] /\ turns'[m] = to /\ turns'[n] = "taken"
      /\ \A k \in Inbound \ {m, n} : turns'[k] = turns[k]
  BY <1>1, <1>2, <1>3, Typed DEF TurnStages
<1>5. FeedTypeOK'
  BY <1>1, <1>4 DEF FeedTypeOK, TurnStages
<1>6. \A k \in Inbound : Follows(k) /\ InOrder(k)
  BY DEF FeedInv, InOrder
<1>7. Follows(m)' /\ Follows(n)'
  BY <1>1, <1>2, <1>4, <1>6 DEF Follows
<1>8. ~Holds(0, m)
  BY <1>1 DEF Holds
<1>9. InOrder(m)' /\ InOrder(n)'
  BY <1>1, <1>4, <1>6, <1>7, <1>8, Controls
<1>10. \A k \in Inbound \ {m, n} : InOrder(k)'
  BY <1>1, <1>4, <1>5, <1>6, Untouched
<1> QED BY <1>5, <1>9, <1>10 DEF FeedInv

-----------------------------------------------------------------------------
(* The sending goroutine                                                   *)

Rest(m) == SaidFirst(m) /\ Counts(m) /\ OnePlace(m) /\ SaidIsKept(m) /\ OwedIsKept(m)

\* A goroutine at work follows its turn, whatever it does.
LEMMA SenderKeeps ==
    ASSUME FeedInv, NEW m \in Inbound, NEW f \in FeedState, feed' = [feed EXCEPT ![m] = f],
           UNCHANGED <<path, turns, emitter, parent, emits, owed, refused>>,
           tried' \in [Inbound -> Seq(Events)], \A n \in Inbound \ {m} : tried'[n] = tried[n],
           failed' \in [Inbound -> SUBSET Events],
           feed[m].loop \notin {"none", "exited"}, f.loop # "none",
           f.taken = <<>> <=> f.loop \notin {"dispatch", "send"},
           path = "bus" => Len(f.queue) <= Capacity,
           f.canceled = feed[m].canceled, feed[m].done => f.done, f.done => feed[m].done \/ f.canceled,
           f.loop = "exited" => f.done /\ f.queue = <<>>,
           path = "raw" => f.loop # "dispatch" /\ Len(f.taken) <= 1,
           feed'[m] = f => Rest(m)'
    PROVE  FeedInv'
<1>1. FeedTypeOK /\ InOrder(m) /\ Follows(m)
  BY DEF FeedInv, InOrder
<1>2. /\ feed' \in [Inbound -> FeedState] /\ feed'[m] = f
      /\ \A n \in Inbound \ {m} : feed'[n] = feed[n]
  BY <1>1, OneFeed
<1>3. Follows(m)'
  BY <1>1, <1>2 DEF Follows
<1>4. Reports(m)'
  BY <1>1 DEF InOrder, Reports, Holds
<1>5. InOrder(m)'
  BY <1>2, <1>3, <1>4 DEF InOrder, Rest
<1> QED BY <1>1, <1>2, <1>5, Moves, Typed

LEMMA DequeueKeeps ==
    ASSUME FeedInv, NEW m \in Inbound, Dequeue(m)
    PROVE  FeedInv'
<1>1. /\ FeedTypeOK /\ InOrder(m) /\ Follows(m) /\ feed[m] \in FeedState
      /\ feed[m].loop = "check" /\ feed[m].taken = <<>> /\ feed[m].queue \in Seq(Events)
      /\ UNCHANGED <<path, turns, emitter, parent, emits, owed, refused, tried, failed>>
  BY Typed DEF FeedInv, InOrder, Dequeue, At, FeedState
<1>2. CASE feed[m].queue # <<>>
  <2> PICK e, t : e = Head(feed[m].queue) /\ t = Tail(feed[m].queue)
    OBVIOUS
  <2>1. /\ e \in Events /\ t \in Seq(Events) /\ Len(t) = Len(feed[m].queue) - 1
        /\ Len(feed[m].queue) \in Nat /\ ToSet(feed[m].queue) = {e} \cup ToSet(t)
        /\ IsInjective(feed[m].queue) => IsInjective(t) /\ e \notin ToSet(t)
    BY <1>1, <1>2, HeadAndTail
  <2>2. <<e>> \in Seq(Events) /\ <<e>> # <<>> /\ ToSet(<<e>>) = {e} /\ Head(<<e>>) = e /\ Len(<<e>>) = 1
    BY <2>1, OneIn
  <2> PICK loop \in {"send", "dispatch"} : loop = (IF path = "raw" THEN "send" ELSE "dispatch")
    OBVIOUS
  <2> DEFINE f == [feed[m] EXCEPT !.taken = <<e>>, !.queue = t, !.loop = loop]
  <2>3. feed' = [feed EXCEPT ![m] = f]
    BY <1>1, <1>2, Typed DEF Dequeue, FeedState
  <2>4. /\ f \in FeedState /\ f.taken = <<e>> /\ f.queue = t /\ f.loop = loop
        /\ f.done = feed[m].done /\ f.canceled = feed[m].canceled /\ f.said = feed[m].said
        /\ f.counts = feed[m].counts
    BY <1>1, <2>1, <2>2 DEF FeedState
  <2> HIDE DEF f
  <2>5. path = "bus" => Len(t) <= Capacity
    BY <1>1, <2>1, Typed, FeedAssumption
  <2>6. ASSUME feed'[m] = f
        PROVE  Rest(m)'
    <3>1. OnTheWay(m)' = OnTheWay(m)
      BY <1>1, <2>1, <2>2, <2>4, <2>6, NothingIn DEF OnTheWay
    <3>2. SaidFirst(m)'
      <4>1. loop = "send" => e \in feed[m].said \ ToSet(tried[m])
        BY <1>1, <2>1 DEF InOrder, OnePlace
      <4> QED BY <1>1, <2>2, <2>4, <2>6, <4>1 DEF InOrder, SaidFirst
    <3>3. Counts(m)'
      BY <1>1, <2>4, <2>6 DEF InOrder, Counts, Saying
    <3>4. OnePlace(m)'
      <4> SUFFICES ASSUME path = "raw"
                   PROVE  /\ IsInjective(t)
                          /\ ToSet(t) \subseteq feed[m].said \ (ToSet(tried[m]) \cup {e})
        BY <1>1, <2>2, <2>4, <2>6, <3>1 DEF InOrder, OnePlace, Holds
      <4> QED BY <1>1, <2>1 DEF InOrder, OnePlace
    <3>5. SaidIsKept(m)' /\ OwedIsKept(m)'
      BY <1>1, <2>4, <2>6, <3>1 DEF InOrder, SaidIsKept, OwedIsKept
    <3> QED BY <3>2, <3>3, <3>4, <3>5 DEF Rest
  <2>7. f.loop # "none" /\ f.loop # "exited" /\ feed[m].loop \notin {"none", "exited"}
        /\ (f.taken = <<>> <=> f.loop \notin {"dispatch", "send"})
        /\ (path = "raw" => f.loop # "dispatch" /\ Len(f.taken) <= 1)
    BY <1>1, <2>2, <2>4
  <2> QED BY <1>1, <2>3, <2>4, <2>5, <2>6, <2>7, SenderKeeps, Typed
<1>3. CASE feed[m].queue = <<>>
  <2> PICK loop \in {"exited", "wait"} : loop = (IF feed[m].done THEN "exited" ELSE "wait")
    OBVIOUS
  <2> DEFINE f == [feed[m] EXCEPT !.loop = loop]
  <2>1. feed' = [feed EXCEPT ![m] = f]
    BY <1>1, <1>3, Typed DEF Dequeue, FeedState
  <2>2. /\ f \in FeedState /\ f.taken = <<>> /\ f.queue = <<>> /\ f.loop = loop
        /\ f.done = feed[m].done /\ f.canceled = feed[m].canceled /\ f.said = feed[m].said
        /\ f.counts = feed[m].counts
    BY <1>1, <1>3 DEF FeedState
  <2> HIDE DEF f
  <2>3. ASSUME feed'[m] = f
        PROVE  Rest(m)'
    <3>1. OnTheWay(m)' = OnTheWay(m)
      BY <1>1, <1>3, <2>2, <2>3 DEF OnTheWay
    <3>2. SaidFirst(m)' /\ Counts(m)'
      BY <1>1, <2>2, <2>3 DEF InOrder, SaidFirst, Counts, Saying
    <3>3. OnePlace(m)'
      BY <1>1, <1>3, <2>2, <2>3, <3>1 DEF InOrder, OnePlace, Holds
    <3>4. SaidIsKept(m)' /\ OwedIsKept(m)'
      BY <1>1, <2>2, <2>3, <3>1 DEF InOrder, SaidIsKept, OwedIsKept
    <3> QED BY <3>2, <3>3, <3>4 DEF Rest
  <2>4. /\ Len(f.queue) <= Capacity /\ Len(f.taken) <= 1
        /\ f.loop # "none" /\ f.loop \notin {"dispatch", "send"} /\ (f.loop = "exited" => f.done)
    BY <1>1, <2>2, NothingIn, FeedAssumption
  <2>5. feed[m].loop \notin {"none", "exited"} /\ (f.done => feed[m].done)
    BY <1>1, <2>2
  <2> QED BY <1>1, <2>1, <2>2, <2>3, <2>4, <2>5, SenderKeeps, Typed
<1> QED BY <1>2, <1>3

LEMMA WakeKeeps ==
    ASSUME FeedInv, NEW m \in Inbound, Wake(m)
    PROVE  FeedInv'
<1>1. /\ FeedTypeOK /\ InOrder(m) /\ Follows(m) /\ feed[m] \in FeedState
      /\ feed[m].loop = "wait" /\ feed[m].taken = <<>>
      /\ UNCHANGED <<path, turns, emitter, parent, emits, owed, refused, tried, failed>>
  BY Typed DEF FeedInv, InOrder, Wake, At
<1> DEFINE f == [feed[m] EXCEPT !.loop = "check", !.signal = FALSE]
<1>2. feed' = [feed EXCEPT ![m] = f]
  BY <1>1, Typed DEF Wake, FeedState
<1>3. /\ f \in FeedState /\ f.taken = <<>> /\ f.queue = feed[m].queue /\ f.loop = "check"
      /\ f.done = feed[m].done /\ f.canceled = feed[m].canceled /\ f.said = feed[m].said
      /\ f.counts = feed[m].counts
  BY <1>1 DEF FeedState
<1> HIDE DEF f
<1>4. ASSUME feed'[m] = f
      PROVE  Rest(m)'
  <2>1. OnTheWay(m)' = OnTheWay(m)
    BY <1>1, <1>3, <1>4 DEF OnTheWay
  <2>2. SaidFirst(m)' /\ Counts(m)'
    BY <1>1, <1>3, <1>4 DEF InOrder, SaidFirst, Counts, Saying
  <2>3. OnePlace(m)'
    BY <1>1, <1>3, <1>4, <2>1 DEF InOrder, OnePlace, Holds
  <2>4. SaidIsKept(m)' /\ OwedIsKept(m)'
    BY <1>1, <1>3, <1>4, <2>1 DEF InOrder, SaidIsKept, OwedIsKept
  <2> QED BY <2>2, <2>3, <2>4 DEF Rest
<1>5. Len(<<>>) <= 1
  BY NothingIn
<1> QED BY <1>1, <1>2, <1>3, <1>4, <1>5, SenderKeeps, Typed

LEMMA DrainKeeps ==
    ASSUME FeedInv, NEW m \in Inbound, Drain(m)
    PROVE  FeedInv'
<1>1. /\ FeedTypeOK /\ InOrder(m) /\ Follows(m) /\ feed[m] \in FeedState
      /\ feed[m].loop = "wait" /\ feed[m].canceled
      /\ UNCHANGED <<path, turns, emitter, parent, emits, owed, refused, tried, failed>>
  BY Typed DEF FeedInv, InOrder, Drain, At
<1>2. path = "bus" /\ path # "raw"
  BY <1>1, Typed DEF Follows
<1> PICK loop \in {"check", "dispatch"} :
         loop = (IF feed[m].queue = <<>> THEN "check" ELSE "dispatch")
  OBVIOUS
<1> DEFINE f == [feed[m] EXCEPT !.done = TRUE, !.queue = <<>>, !.taken = feed[m].queue, !.loop = loop]
<1>3. feed' = [feed EXCEPT ![m] = f]
  BY <1>1, Typed DEF Drain, FeedState
<1>4. /\ f \in FeedState /\ f.taken = feed[m].queue /\ f.queue = <<>> /\ f.loop = loop
      /\ f.done = TRUE /\ f.canceled = feed[m].canceled /\ f.said = feed[m].said
      /\ f.counts = feed[m].counts
  BY <1>1, NothingIn DEF FeedState
<1> HIDE DEF f
<1>5. ASSUME feed'[m] = f
      PROVE  Rest(m)'
  <2>1. SaidFirst(m)' /\ Counts(m)'
    BY <1>1, <1>4, <1>5 DEF InOrder, SaidFirst, Counts, Saying
  <2>2. OnePlace(m)' /\ SaidIsKept(m)'
    BY <1>1, <1>2, <1>4, <1>5 DEF InOrder, OnePlace, SaidIsKept
  <2>3. OwedIsKept(m)'
    BY <1>1, <1>4, <1>5 DEF InOrder, OwedIsKept
  <2> QED BY <2>1, <2>2, <2>3 DEF Rest
<1>6. Len(<<>>) = 0 /\ 0 <= Capacity
  BY FeedAssumption
<1> QED BY <1>1, <1>2, <1>3, <1>4, <1>5, <1>6, SenderKeeps, Typed


\* An event that passes is counted, and said from then on.
LEMMA NotedTyped ==
    ASSUME FeedTypeOK, NEW m \in Inbound, NEW e \in Events
    PROVE  /\ Noted(m, e) \in FeedState
           /\ Noted(m, e).said = feed[m].said \cup {e}
           /\ \A child \in BOOLEAN : Noted(m, e).counts[child] =
                 IF Counted(e) /\ e.child = child THEN feed[m].counts[child] + 1
                                                 ELSE feed[m].counts[child]
           /\ Noted(m, e).loop = feed[m].loop /\ Noted(m, e).taken = feed[m].taken
           /\ Noted(m, e).queue = feed[m].queue /\ Noted(m, e).done = feed[m].done
           /\ Noted(m, e).canceled = feed[m].canceled
<1>1. feed[m] \in FeedState /\ feed[m].counts \in [BOOLEAN -> Nat] /\ e.child \in BOOLEAN
  BY Typed DEF FeedState, Events
<1> DEFINE tally == [feed[m].counts EXCEPT ![e.child] =
                         IF Counted(e) THEN feed[m].counts[e.child] + 1 ELSE feed[m].counts[e.child]]
<1>2. tally \in [BOOLEAN -> Nat]
  BY <1>1
<1>3. Noted(m, e) = [feed[m] EXCEPT !.said = feed[m].said \cup {e}, !.counts = tally]
  BY <1>1 DEF Noted, FeedState
<1>4. feed[m].said \cup {e} \in SUBSET Events
  BY <1>1 DEF FeedState
<1> HIDE DEF tally
<1>5. [feed[m] EXCEPT !.said = feed[m].said \cup {e}, !.counts = tally] \in FeedState
  BY <1>1, <1>2, <1>4 DEF FeedState
<1>6. /\ Noted(m, e).said = feed[m].said \cup {e} /\ Noted(m, e).counts = tally
      /\ Noted(m, e).loop = feed[m].loop /\ Noted(m, e).taken = feed[m].taken
      /\ Noted(m, e).queue = feed[m].queue /\ Noted(m, e).done = feed[m].done
      /\ Noted(m, e).canceled = feed[m].canceled
  BY <1>1, <1>3 DEF FeedState
<1>7. \A child \in BOOLEAN : tally[child] =
         IF Counted(e) /\ e.child = child THEN feed[m].counts[child] + 1 ELSE feed[m].counts[child]
  BY <1>1 DEF tally
<1> QED BY <1>3, <1>5, <1>6, <1>7

LEMMA NotedCounts ==
    ASSUME FeedTypeOK, NEW m \in Inbound, NEW e \in Events, Counts(m), Passes(m, e),
           feed'[m].said = feed[m].said \cup {e}, feed'[m].counts = Noted(m, e).counts
    PROVE  Counts(m)'
<1>1. e \notin feed[m].said /\ IsFiniteSet(feed[m].said) /\ e.child \in BOOLEAN
      /\ feed[m].counts \in [BOOLEAN -> Nat]
  BY Typed DEF Passes, Counts, Events, FeedState
<1>2. IsFiniteSet(feed'[m].said)
  BY <1>1, FS_AddElement
<1> SUFFICES ASSUME NEW child \in BOOLEAN
             PROVE  /\ feed'[m].counts[child] = Cardinality(Saying(m, child)')
                    /\ Quota(child) > 0 => feed'[m].counts[child] <= Quota(child)
  BY <1>2 DEF Counts
<1>3. /\ feed[m].counts[child] = Cardinality(Saying(m, child))
      /\ Quota(child) > 0 => feed[m].counts[child] <= Quota(child)
  BY DEF Counts
<1>4. IsFiniteSet(Saying(m, child)) /\ e \notin Saying(m, child)
  BY <1>1, FS_Subset DEF Saying
<1>5. CASE Counted(e) /\ e.child = child
  <2>1. feed'[m].counts[child] = feed[m].counts[child] + 1
    BY <1>1, <1>5, NotedTyped
  <2>2. Saying(m, child)' = Saying(m, child) \cup {e}
    BY <1>5 DEF Saying
  <2>3. Cardinality(Saying(m, child) \cup {e}) = Cardinality(Saying(m, child)) + 1
    BY <1>4, FS_AddElement
  <2>4. Quota(child) > 0 => ~(feed[m].counts[child] >= Quota(child))
    BY <1>5 DEF Passes
  <2>5. feed[m].counts[child] \in Nat /\ Quota(child) \in Nat
    BY <1>1, FeedAssumption DEF Quota
  <2> QED BY <1>3, <2>1, <2>2, <2>3, <2>4, <2>5
<1>6. CASE ~(Counted(e) /\ e.child = child)
  <2>1. feed'[m].counts[child] = feed[m].counts[child]
    BY <1>1, <1>6, NotedTyped
  <2>2. Saying(m, child)' = Saying(m, child)
    BY <1>6 DEF Saying
  <2> QED BY <1>3, <2>1, <2>2
<1> QED BY <1>5, <1>6

\* What was taken is sent in its order, and then the queue is looked at again.
LEMMA AfterTakenTyped ==
    ASSUME FeedInv, NEW m \in Inbound, feed[m].loop \in {"dispatch", "send"}
    PROVE  LET f == AfterTaken(feed[m]) IN
           /\ f \in FeedState /\ f.queue = feed[m].queue /\ f.done = feed[m].done
           /\ f.canceled = feed[m].canceled /\ f.said = feed[m].said /\ f.counts = feed[m].counts
           /\ f.taken = Tail(feed[m].taken) /\ f.loop \in {"check", "dispatch"}
           /\ f.taken = <<>> <=> f.loop = "check"
           /\ path = "raw" => f.loop = "check" /\ f.taken = <<>>
           /\ Head(feed[m].taken) \in Events
           /\ ToSet(feed[m].taken) = {Head(feed[m].taken)} \cup ToSet(f.taken)
<1>1. FeedTypeOK /\ Follows(m) /\ feed[m] \in FeedState /\ feed[m].taken \in Seq(Events)
      /\ feed[m].taken # <<>>
  BY Typed DEF FeedInv, InOrder, FeedState
<1> DEFINE s == feed[m].taken
<1>2. /\ Head(s) \in Events /\ Tail(s) \in Seq(Events) /\ Len(Tail(s)) = Len(s) - 1
      /\ Len(s) \in Nat /\ (Len(s) = 1 <=> Tail(s) = <<>>)
      /\ ToSet(s) = {Head(s)} \cup ToSet(Tail(s))
  BY <1>1, HeadAndTail
<1>3. path = "raw" => Len(s) = 1
  <2>1. path = "raw" => Len(s) <= 1
    BY <1>1 DEF Follows
  <2>2. Len(s) # 0
    BY <1>1, EmptySeq
  <2> QED BY <1>2, <2>1, <2>2
<1> PICK loop \in {"check", "dispatch"} : loop = (IF Len(s) = 1 THEN "check" ELSE "dispatch")
  OBVIOUS
<1>4. AfterTaken(feed[m]) = [feed[m] EXCEPT !.taken = Tail(s), !.loop = loop]
  BY <1>1 DEF AfterTaken, FeedState
<1>5. [feed[m] EXCEPT !.taken = Tail(s), !.loop = loop] \in FeedState
  BY <1>1, <1>2 DEF FeedState
<1>6. LET f == [feed[m] EXCEPT !.taken = Tail(s), !.loop = loop] IN
      /\ f.queue = feed[m].queue /\ f.done = feed[m].done /\ f.canceled = feed[m].canceled
      /\ f.said = feed[m].said /\ f.counts = feed[m].counts /\ f.taken = Tail(s) /\ f.loop = loop
  BY <1>1 DEF FeedState
<1> QED BY <1>2, <1>3, <1>4, <1>5, <1>6

LEMMA DispatchKeeps ==
    ASSUME FeedInv, NEW m \in Inbound, Dispatch(m)
    PROVE  FeedInv'
<1>1. /\ FeedTypeOK /\ InOrder(m) /\ Follows(m) /\ feed[m] \in FeedState
      /\ feed[m].loop = "dispatch" /\ feed[m].taken # <<>>
      /\ UNCHANGED <<path, turns, emitter, parent, emits, owed, refused, tried, failed>>
  BY Typed DEF FeedInv, InOrder, Dispatch, At
<1>2. path = "bus" /\ path # "raw"
  BY <1>1, Typed DEF Follows
<1> PICK e : e = Head(feed[m].taken)
  OBVIOUS
<1>3. feed[m].said \subseteq ToSet(tried[m]) /\ ToSet(tried[m]) \subseteq feed[m].said
  BY <1>1, <1>2 DEF InOrder, SaidIsKept, SaidFirst
<1>4. e \in Events
  BY <1>1, AfterTakenTyped
<1>5. CASE Shown(e) /\ Passes(m, e)
  <2> DEFINE f == [Noted(m, e) EXCEPT !.loop = "send"]
  <2>1. feed' = [feed EXCEPT ![m] = f]
    BY <1>5 DEF Dispatch
  <2>2. /\ f \in FeedState /\ f.taken = feed[m].taken /\ f.queue = feed[m].queue /\ f.loop = "send"
        /\ f.done = feed[m].done /\ f.canceled = feed[m].canceled
        /\ f.said = feed[m].said \cup {e} /\ f.counts = Noted(m, e).counts
    <3>1. Noted(m, e) \in FeedState
      BY <1>1, <1>4, NotedTyped
    <3>2. LET g == [Noted(m, e) EXCEPT !.loop = "send"] IN
          /\ g \in FeedState /\ g.taken = Noted(m, e).taken /\ g.queue = Noted(m, e).queue
          /\ g.loop = "send" /\ g.done = Noted(m, e).done /\ g.canceled = Noted(m, e).canceled
          /\ g.said = Noted(m, e).said /\ g.counts = Noted(m, e).counts
      BY <3>1 DEF FeedState
    <3> QED BY <1>1, <1>4, <3>2, NotedTyped
  <2> HIDE DEF f
  <2>3. ASSUME feed'[m] = f
        PROVE  Rest(m)'
    <3>1. OnTheWay(m)' = OnTheWay(m)
      BY <1>1, <2>2, <2>3 DEF OnTheWay
    <3>2. Counts(m)'
      BY <1>1, <1>4, <1>5, <2>2, <2>3, NotedCounts DEF InOrder
    <3>3. SaidFirst(m)'
      <4>1. e \notin ToSet(tried[m])
        BY <1>3, <1>5 DEF Passes
      <4> QED BY <1>1, <2>2, <2>3, <4>1 DEF InOrder, SaidFirst
    <3>4. OnePlace(m)' /\ SaidIsKept(m)'
      BY <1>1, <1>2, <1>3, <2>2, <2>3 DEF OnePlace, SaidIsKept
    <3>5. OwedIsKept(m)'
      BY <1>1, <2>2, <2>3, <3>1 DEF InOrder, OwedIsKept
    <3> QED BY <3>2, <3>3, <3>4, <3>5 DEF Rest
  <2>4. /\ f.loop \notin {"none", "exited"} /\ f.loop \in {"dispatch", "send"}
        /\ feed[m].loop \notin {"none", "exited"}
        /\ path = "bus" => Len(f.queue) <= Capacity
    BY <1>1, <2>2, Typed
  <2> QED BY <1>1, <1>2, <2>1, <2>2, <2>3, <2>4, SenderKeeps, Typed
<1>6. CASE ~(Shown(e) /\ Passes(m, e))
  <2> PICK f : f = AfterTaken(feed[m])
    OBVIOUS
  <2>1. feed' = [feed EXCEPT ![m] = f]
    BY <1>6 DEF Dispatch
  <2>2. /\ f \in FeedState /\ f.queue = feed[m].queue /\ f.done = feed[m].done
        /\ f.canceled = feed[m].canceled /\ f.said = feed[m].said /\ f.counts = feed[m].counts
        /\ f.loop \in {"check", "dispatch"} /\ (f.taken = <<>> <=> f.loop = "check")
        /\ ToSet(feed[m].taken) = {e} \cup ToSet(f.taken)
    BY <1>1, AfterTakenTyped
  <2>3. ASSUME feed'[m] = f
        PROVE  Rest(m)'
    <3>1. SaidFirst(m)' /\ Counts(m)'
      BY <1>1, <2>2, <2>3 DEF InOrder, SaidFirst, Counts, Saying
    <3>2. OnePlace(m)' /\ SaidIsKept(m)'
      BY <1>1, <1>2, <1>3, <2>2, <2>3 DEF OnePlace, SaidIsKept
    <3>3. OnTheWay(m) \subseteq OnTheWay(m)' \cup {e}
      BY <1>1, <2>2, <2>3 DEF OnTheWay
    <3>4. e.class = "asked" => e \in OnTheWay(m)'
      BY <1>1, <1>3, <1>6 DEF Shown, Passes, Counted, OnTheWay
    <3>5. OwedIsKept(m)'
      BY <1>1, <2>2, <2>3, <3>3, <3>4 DEF InOrder, OwedIsKept
    <3> QED BY <3>1, <3>2, <3>5 DEF Rest
  <2>4. /\ f.loop \notin {"none", "exited"} /\ feed[m].loop \notin {"none", "exited"}
        /\ (f.taken = <<>> <=> f.loop \notin {"dispatch", "send"})
        /\ path = "bus" => Len(f.queue) <= Capacity
    BY <1>1, <2>2, Typed
  <2> QED BY <1>1, <1>2, <2>1, <2>2, <2>3, <2>4, SenderKeeps, Typed
<1> QED BY <1>5, <1>6

LEMMA SendKeeps ==
    ASSUME FeedInv, NEW m \in Inbound, NEW ok \in BOOLEAN, Send(m, ok)
    PROVE  FeedInv'
<1>1. /\ FeedTypeOK /\ InOrder(m) /\ Follows(m) /\ feed[m] \in FeedState
      /\ feed[m].loop = "send" /\ tried[m] \in Seq(Events)
      /\ UNCHANGED <<path, turns, emitter, parent, emits, owed, refused>>
  BY Typed DEF FeedInv, InOrder, Send, At
<1> PICK e, f, s : /\ e = Head(feed[m].taken) /\ f = AfterTaken(feed[m]) /\ s = Append(tried[m], e)
  OBVIOUS
<1>2. feed' = [feed EXCEPT ![m] = f] /\ tried' = [tried EXCEPT ![m] = s]
  BY DEF Send
<1>3. /\ f \in FeedState /\ f.queue = feed[m].queue /\ f.done = feed[m].done
      /\ f.canceled = feed[m].canceled /\ f.said = feed[m].said /\ f.counts = feed[m].counts
      /\ f.loop \in {"check", "dispatch"} /\ (f.taken = <<>> <=> f.loop = "check")
      /\ ToSet(feed[m].taken) = {e} \cup ToSet(f.taken)
      /\ e \in Events /\ (path = "raw" => f.loop = "check" /\ f.taken = <<>>)
  BY <1>1, AfterTakenTyped
<1>4. e \in feed[m].said /\ e \notin ToSet(tried[m]) /\ IsInjective(tried[m])
  BY <1>1 DEF InOrder, SaidFirst
<1>5. s \in Seq(Events) /\ ToSet(s) = ToSet(tried[m]) \cup {e} /\ IsInjective(s)
  BY <1>1, <1>3, <1>4, AppendSet
<1>6. tried' \in [Inbound -> Seq(Events)] /\ tried'[m] = s /\ \A n \in Inbound \ {m} : tried'[n] = tried[n]
  BY <1>1, <1>2, <1>5, Typed
<1>9. failed' \in [Inbound -> SUBSET Events]
  <2>1. failed' = [failed EXCEPT ![m] = IF ok THEN failed[m] ELSE failed[m] \cup {e}]
    BY DEF Send
  <2>2. failed \in [Inbound -> SUBSET Events]
    BY <1>1, Typed
  <2> QED BY <1>3, <2>1, <2>2
<1>7. ASSUME feed'[m] = f
      PROVE  Rest(m)'
  <2>1. ToSet(tried'[m]) \cup ToSet(f.taken) = ToSet(tried[m]) \cup ToSet(feed[m].taken)
    BY <1>3, <1>5, <1>6
  <2>2. OnTheWay(m)' = OnTheWay(m)
    BY <1>3, <1>7, <2>1 DEF OnTheWay
  <2>3. SaidFirst(m)'
    BY <1>1, <1>3, <1>4, <1>5, <1>6, <1>7 DEF InOrder, SaidFirst
  <2>4. Counts(m)'
    BY <1>1, <1>3, <1>7 DEF InOrder, Counts, Saying
  <2>5. OnePlace(m)'
    BY <1>1, <1>3, <1>7, <2>1, <2>2 DEF InOrder, OnePlace, Holds
  <2>6. SaidIsKept(m)'
    BY <1>1, <1>3, <1>5, <1>6, <1>7, <2>2 DEF InOrder, SaidIsKept
  <2>7. OwedIsKept(m)'
    BY <1>1, <1>3, <1>7, <2>2 DEF InOrder, OwedIsKept
  <2> QED BY <2>3, <2>4, <2>5, <2>6, <2>7 DEF Rest
<1>8. /\ f.loop \notin {"none", "exited"} /\ feed[m].loop \notin {"none", "exited"}
      /\ (f.taken = <<>> <=> f.loop \notin {"dispatch", "send"})
      /\ path = "bus" => Len(f.queue) <= Capacity
      /\ path = "raw" => f.loop # "dispatch" /\ Len(f.taken) <= 1
  BY <1>1, <1>3, Typed, NothingIn
<1> QED BY <1>1, <1>2, <1>3, <1>6, <1>7, <1>8, <1>9, SenderKeeps

-----------------------------------------------------------------------------
(* Reset                                                                   *)

\* The turn starts again: its feed is emptied.
LEMMA ResetKeeps ==
    ASSUME FeedInv, NEW m \in Inbound,
           feed' \in [Inbound -> FeedState], turns' \in [Inbound -> TurnStages],
           owed' \in [Inbound -> SUBSET Events], tried' \in [Inbound -> Seq(Events)],
           refused' \in [Inbound -> SUBSET Events], failed' \in [Inbound -> SUBSET Events],
           \A n \in Inbound \ {m} : /\ feed'[n] = feed[n] /\ turns'[n] = turns[n]
                                    /\ owed'[n] = owed[n] /\ tried'[n] = tried[n]
                                    /\ refused'[n] = refused[n],
           UNCHANGED <<path, emitter, parent, emits>>,
           path = "bus", turns[m] # "running", feed'[m].queue = <<>>,
           feed'[m].taken = <<>> <=> feed'[m].loop \notin {"dispatch", "send"},
           Follows(m)', SaidFirst(m)', Counts(m)', SaidIsKept(m)', OwedIsKept(m)'
    PROVE  FeedInv'
<1>1. FeedTypeOK /\ InOrder(m) /\ path # "raw"
  BY DEF FeedInv
<1>2. Reports(m)'
  BY <1>1 DEF InOrder, Reports, Holds
<1>3. OnePlace(m)'
  BY <1>1 DEF OnePlace
<1>4. InOrder(m)'
  BY <1>2, <1>3 DEF InOrder
<1>5. Len(<<>>) <= Capacity
  BY NothingIn, FeedAssumption
<1> QED BY <1>4, <1>5, Moves

LEMMA CloseKeeps ==
    ASSUME FeedInv, NEW m \in Inbound, CloseFeed(m)
    PROVE  FeedInv'
<1>1. /\ FeedTypeOK /\ InOrder(m) /\ Follows(m) /\ feed[m] \in FeedState /\ turns[m] = "close"
      /\ (feed[m].taken = <<>> <=> feed[m].loop \notin {"dispatch", "send"})
      /\ turns' = [turns EXCEPT ![m] = "await"]
      /\ UNCHANGED <<path, emitter, parent, emits, owed, refused, tried, failed>>
  BY Typed DEF FeedInv, InOrder, CloseFeed, Step
<1> DEFINE f == [feed[m] EXCEPT !.done = TRUE, !.queue = <<>>, !.signal = TRUE]
<1>2. feed' = [feed EXCEPT ![m] = f]
  BY <1>1 DEF CloseFeed, FeedState
<1>3. /\ f \in FeedState /\ f.loop = feed[m].loop /\ f.taken = feed[m].taken /\ f.queue = <<>>
      /\ f.done = TRUE /\ f.canceled = feed[m].canceled /\ f.said = feed[m].said
      /\ f.counts = feed[m].counts
  BY <1>1, NothingIn DEF FeedState
<1> HIDE DEF f
<1>4. /\ feed' \in [Inbound -> FeedState] /\ feed'[m] = f
      /\ \A n \in Inbound \ {m} : feed'[n] = feed[n]
  BY <1>1, <1>2, <1>3, OneFeed
<1>5. /\ turns' \in [Inbound -> TurnStages] /\ turns'[m] = "await"
      /\ \A n \in Inbound \ {m} : turns'[n] = turns[n]
  <2>1. "await" \in TurnStages
    BY DEF TurnStages
  <2> QED BY <1>1, <2>1, Typed
<1>6. path = "bus" /\ path # "raw" /\ feed[m].canceled
  BY <1>1 DEF Follows
<1>7. Follows(m)' /\ SaidFirst(m)' /\ Counts(m)' /\ SaidIsKept(m)' /\ OwedIsKept(m)'
  <2>1. Follows(m)'
    BY <1>1, <1>3, <1>4, <1>6, <1>5 DEF Follows
  <2>2. SaidFirst(m)' /\ Counts(m)'
    BY <1>1, <1>3, <1>4 DEF InOrder, SaidFirst, Counts, Saying
  <2>3. SaidIsKept(m)' /\ OwedIsKept(m)'
    BY <1>1, <1>3, <1>4, <1>6 DEF InOrder, SaidIsKept, OwedIsKept
  <2> QED BY <2>1, <2>2, <2>3
<1>8. /\ turns[m] # "running" /\ feed'[m].queue = <<>>
      /\ feed'[m].taken = <<>> <=> feed'[m].loop \notin {"dispatch", "send"}
      /\ owed' \in [Inbound -> SUBSET Events] /\ tried' \in [Inbound -> Seq(Events)]
      /\ refused' \in [Inbound -> SUBSET Events] /\ failed' \in [Inbound -> SUBSET Events]
      /\ UNCHANGED <<path, emitter, parent, emits, owed, refused, tried, failed>>
  BY <1>1, <1>3, <1>4, Typed
<1> QED BY <1>4, <1>6, <1>7, <1>8, <1>5, ResetKeeps

LEMMA ForgetKeeps ==
    ASSUME FeedInv, NEW m \in Inbound, ForgetRun(m)
    PROVE  FeedInv'
<1>1. /\ FeedTypeOK /\ InOrder(m) /\ Follows(m) /\ feed[m] \in FeedState
      /\ turns[m] = "await" /\ feed[m].loop = "exited" /\ feed[m].taken = <<>>
      /\ turns' = [turns EXCEPT ![m] = "reopen"]
      /\ owed' = [owed EXCEPT ![m] = {}] /\ tried' = [tried EXCEPT ![m] = <<>>]
      /\ refused' = [refused EXCEPT ![m] = {}] /\ failed' = [failed EXCEPT ![m] = {}]
      /\ UNCHANGED <<path, emitter, parent, emits>>
  BY Typed DEF FeedInv, InOrder, ForgetRun, Step, At
<1>2. /\ path = "bus" /\ path # "raw" /\ feed[m].canceled /\ feed[m].done /\ feed[m].queue = <<>>
  BY <1>1 DEF Follows
<1> DEFINE none == [child \in BOOLEAN |-> 0]
           f == [feed[m] EXCEPT !.counts = none, !.said = {}, !.drained = FALSE]
<1>3. feed' = [feed EXCEPT ![m] = f]
  BY <1>1 DEF ForgetRun, FeedState, NoFeed
<1>4. /\ f \in FeedState /\ f.loop = "exited" /\ f.taken = <<>> /\ f.queue = <<>>
      /\ f.done /\ f.canceled /\ f.said = {} /\ f.counts = none
  BY <1>1, <1>2 DEF FeedState
<1> HIDE DEF f
<1>5. /\ feed' \in [Inbound -> FeedState] /\ feed'[m] = f
      /\ \A n \in Inbound \ {m} : feed'[n] = feed[n]
  BY <1>1, <1>3, <1>4, OneFeed
<1>6. /\ turns' \in [Inbound -> TurnStages] /\ turns'[m] = "reopen"
      /\ \A n \in Inbound \ {m} : turns'[n] = turns[n]
  <2>1. "reopen" \in TurnStages
    BY DEF TurnStages
  <2> QED BY <1>1, <2>1, Typed
<1>7. /\ owed' \in [Inbound -> SUBSET Events] /\ owed'[m] = {}
      /\ tried' \in [Inbound -> Seq(Events)] /\ tried'[m] = <<>>
      /\ refused' \in [Inbound -> SUBSET Events] /\ failed' \in [Inbound -> SUBSET Events]
      /\ \A n \in Inbound \ {m} :
            owed'[n] = owed[n] /\ tried'[n] = tried[n] /\ refused'[n] = refused[n]
  BY <1>1, NothingIn, Typed
<1>8. Follows(m)' /\ SaidFirst(m)' /\ Counts(m)' /\ SaidIsKept(m)' /\ OwedIsKept(m)'
  <2>1. Follows(m)'
    BY <1>1, <1>2, <1>4, <1>5, <1>6, <1>7 DEF Follows
  <2>2. SaidFirst(m)'
    BY <1>4, <1>5, <1>7, NothingIn DEF SaidFirst
  <2>3. Counts(m)'
    <3>1. \A child \in BOOLEAN : Saying(m, child)' = {}
      BY <1>4, <1>5 DEF Saying
    <3>2. Cardinality({}) = 0 /\ IsFiniteSet({})
      BY FS_EmptySet
    <3>3. feed'[m].said = {} /\ \A child \in BOOLEAN : feed'[m].counts[child] = 0
      BY <1>4, <1>5
    <3>4. ASSUME NEW child \in BOOLEAN
          PROVE  /\ feed'[m].counts[child] = Cardinality(Saying(m, child)')
                 /\ Quota(child) > 0 => feed'[m].counts[child] <= Quota(child)
      <4>1. Cardinality(Saying(m, child)') = 0
        BY <3>1, <3>2
      <4>2. feed'[m].counts[child] = 0
        BY <3>3
      <4>3. Quota(child) > 0 => 0 <= Quota(child)
        BY FeedAssumption DEF Quota
      <4> QED BY <4>1, <4>2, <4>3
    <3> QED BY <3>2, <3>3, <3>4 DEF Counts
  <2>4. SaidIsKept(m)' /\ OwedIsKept(m)'
    BY <1>1, <1>2, <1>4, <1>5, <1>7 DEF SaidIsKept, OwedIsKept
  <2> QED BY <2>1, <2>2, <2>3, <2>4
<1>9. /\ turns[m] # "running" /\ feed'[m].queue = <<>>
      /\ feed'[m].taken = <<>> <=> feed'[m].loop \notin {"dispatch", "send"}
  BY <1>1, <1>4, <1>5
<1> QED BY <1>1, <1>2, <1>5, <1>6, <1>7, <1>8, <1>9, ResetKeeps

LEMMA ReopenKeeps ==
    ASSUME FeedInv, NEW m \in Inbound, Reopen(m)
    PROVE  FeedInv'
<1>1. /\ FeedTypeOK /\ InOrder(m) /\ Follows(m) /\ feed[m] \in FeedState /\ turns[m] = "reopen"
      /\ turns' = [turns EXCEPT ![m] = "running"]
      /\ UNCHANGED <<path, emitter, parent, emits, owed, refused, tried, failed>>
  BY Typed DEF FeedInv, InOrder, Reopen, Step
<1>2. /\ path = "bus" /\ path # "raw" /\ feed[m].loop = "exited" /\ owed[m] = {}
  BY <1>1 DEF Follows
<1>3. feed[m].taken = <<>>
  BY <1>1, <1>2, Typed
<1> DEFINE f == [feed[m] EXCEPT !.done = FALSE, !.queue = <<>>, !.canceled = FALSE, !.loop = "check"]
<1>4. feed' = [feed EXCEPT ![m] = f]
  BY <1>1 DEF Reopen, FeedState
<1>5. /\ f \in FeedState /\ f.loop = "check" /\ f.taken = <<>> /\ f.queue = <<>>
      /\ ~f.done /\ ~f.canceled /\ f.said = feed[m].said /\ f.counts = feed[m].counts
  BY <1>1, <1>3, NothingIn DEF FeedState
<1> HIDE DEF f
<1>6. /\ feed' \in [Inbound -> FeedState] /\ feed'[m] = f
      /\ \A n \in Inbound \ {m} : feed'[n] = feed[n]
  BY <1>1, <1>4, <1>5, OneFeed
<1>7. /\ turns' \in [Inbound -> TurnStages] /\ turns'[m] = "running"
      /\ \A n \in Inbound \ {m} : turns'[n] = turns[n]
  <2>1. "running" \in TurnStages
    BY DEF TurnStages
  <2> QED BY <1>1, <2>1, Typed
<1>8. Follows(m)' /\ SaidFirst(m)' /\ Counts(m)' /\ SaidIsKept(m)' /\ OwedIsKept(m)'
  <2>1. Follows(m)'
    BY <1>1, <1>2, <1>5, <1>6, <1>7 DEF Follows
  <2>2. SaidFirst(m)' /\ Counts(m)'
    BY <1>1, <1>2, <1>5, <1>6 DEF InOrder, SaidFirst, Counts, Saying
  <2>3. SaidIsKept(m)' /\ OwedIsKept(m)'
    BY <1>1, <1>2, <1>5, <1>6 DEF InOrder, SaidIsKept, OwedIsKept
  <2> QED BY <2>1, <2>2, <2>3
<1>9. /\ turns[m] # "running" /\ feed'[m].queue = <<>>
      /\ feed'[m].taken = <<>> <=> feed'[m].loop \notin {"dispatch", "send"}
      /\ owed' \in [Inbound -> SUBSET Events] /\ tried' \in [Inbound -> Seq(Events)]
      /\ refused' \in [Inbound -> SUBSET Events] /\ failed' \in [Inbound -> SUBSET Events]
      /\ UNCHANGED <<path, emitter, parent, emits, owed, refused, tried, failed>>
  BY <1>1, <1>5, <1>6, Typed
<1> QED BY <1>2, <1>6, <1>7, <1>8, <1>9, ResetKeeps

-----------------------------------------------------------------------------
(* Producers                                                               *)

LEMMA RenderedTyped ==
    ASSUME NEW p \in Producers, NEW offer \in Offers[p], Rendered(p, offer).class # "none"
    PROVE  Rendered(p, offer) \in Events /\ (Rendered(p, offer).child <=> p # 0)
<1>1. ClassOf(offer.kind, offer.status) \in
         {"lifecycle", "failed", "asked", "status", "tool", "result", "final", "none"}
  BY DEF ClassOf
<1>2. offer.text \in {o.text : o \in UNION {Offers[q] : q \in Producers}}
  OBVIOUS
<1> QED BY <1>1, <1>2 DEF Rendered, Events

\* What a producer holds and what a feed owes, when one of them changes.
LEMMA OneHand ==
    ASSUME FeedTypeOK, NEW p \in Producers, NEW hand \in Hands,
           emitter' = [emitter EXCEPT ![p] = hand]
    PROVE  /\ emitter' \in [Producers -> Hands] /\ emitter'[p] = hand
           /\ \A q \in Producers \ {p} : emitter'[q] = emitter[q]
BY Typed DEF FeedTypeOK, Hands

LEMMA OneOwed ==
    ASSUME FeedTypeOK, NEW m \in Inbound, NEW o \in SUBSET Events,
           owed' = [owed EXCEPT ![m] = o]
    PROVE  /\ owed' \in [Inbound -> SUBSET Events] /\ owed'[m] = o
           /\ \A n \in Inbound \ {m} : owed'[n] = owed[n]
BY Typed

\* What a step of a producer does: to one feed, and to what the producer holds.
LEMMA ProducerKeeps ==
    ASSUME FeedInv, NEW p \in Producers, NEW m \in Inbound,
           feed' \in [Inbound -> FeedState], owed' \in [Inbound -> SUBSET Events],
           refused' \in [Inbound -> SUBSET Events],
           \A n \in Inbound \ {m} :
               feed'[n] = feed[n] /\ owed'[n] = owed[n] /\ refused'[n] = refused[n],
           emitter' \in [Producers -> Hands], \A q \in Producers \ {p} : emitter'[q] = emitter[q],
           emitter'[p] = NothingInHand \/ emitter'[p].message = m,
           emitter[p] = NothingInHand \/ emitter[p].message = m,
           UNCHANGED <<path, turns, tried, failed>>,
           parent' \in [Children -> Inbound \cup {Nothing}], emits' \in 0..MaxEvents,
           feed'[m].taken = <<>> <=> feed'[m].loop \notin {"dispatch", "send"},
           path = "bus" => Len(feed'[m].queue) <= Capacity,
           InOrder(m)'
    PROVE  FeedInv'
<1>1. FeedTypeOK
  BY DEF FeedInv
<1>2. FeedTypeOK'
  <2>1. \A n \in Inbound : /\ feed'[n].taken = <<>> <=> feed'[n].loop \notin {"dispatch", "send"}
                           /\ path = "bus" => Len(feed'[n].queue) <= Capacity
    BY <1>1 DEF FeedTypeOK
  <2> QED BY <1>1, <2>1 DEF FeedTypeOK, FeedState, Hands
<1>3. \A n \in Inbound \ {m} : \A q \in Producers :
         Holds(q, n) \/ Holds(q, n)' => emitter'[q] = emitter[q]
  BY DEF Holds
<1>4. \A n \in Inbound \ {m} : InOrder(n)'
  BY <1>1, <1>2, <1>3, Untouched DEF FeedInv
<1> QED BY <1>2, <1>4 DEF FeedInv

\* A producer takes an event up.
LEMMA TakesUp ==
    ASSUME FeedTypeOK, NEW m \in Inbound, InOrder(m), NEW p \in Producers, NEW e \in Events,
           emitter[p] = NothingInHand, e.child <=> p # 0, p = 0 => turns[m] = "running",
           emitter'[p] \in {NothingInHand, [message |-> m, event |-> e]},
           \A q \in Producers \ {p} : emitter'[q] = emitter[q],
           UNCHANGED <<path, turns, tried>>, owed'[m] = owed[m] \/ p = 0,
           feed'[m].loop = feed[m].loop, feed'[m].taken = feed[m].taken,
           feed'[m].queue = feed[m].queue, feed'[m].done = feed[m].done,
           feed'[m].canceled = feed[m].canceled
    PROVE  /\ Follows(m)' /\ Reports(m)' /\ OnTheWay(m)' = OnTheWay(m)
           /\ \A x : emitter[0] = [message |-> m, event |-> x] =>
                     emitter'[0] = [message |-> m, event |-> x]
           /\ \A q \in Producers \ {p} : Holds(q, m)' <=> Holds(q, m)
<1>1. Follows(m)'
  BY DEF InOrder, Follows
<1>2. \A q \in Producers \ {p} : Holds(q, m)' <=> Holds(q, m)
  BY DEF Holds
<1>3. emitter'[p] = NothingInHand \/ emitter'[p].event = e
  OBVIOUS
<1>4. Reports(m)'
  <2> SUFFICES ASSUME NEW q \in Producers, Holds(q, m)'
               PROVE  /\ emitter'[q].event.child <=> q # 0
                      /\ q = 0 => turns[m] = "running"
    BY DEF Reports
  <2>1. CASE q = p
    BY <1>3, <2>1 DEF Holds
  <2>2. CASE q # p
    BY <1>2, <2>2 DEF InOrder, Reports
  <2> QED BY <2>1, <2>2
<1>5. OnTheWay(m)' = OnTheWay(m)
  BY DEF OnTheWay
<1>6. 0 \in Producers
  BY FeedAssumption DEF Producers
<1>7. ASSUME NEW x, emitter[0] = [message |-> m, event |-> x]
      PROVE  emitter'[0] = [message |-> m, event |-> x]
  <2>1. p # 0
    BY <1>7, HeldTyped
  <2> QED BY <1>6, <1>7, <2>1
<1> QED BY <1>1, <1>2, <1>4, <1>5, <1>7

\* In a renderer, what is taken or queued was said.
LEMMA RawIsSaid ==
    ASSUME FeedTypeOK, NEW m \in Inbound, InOrder(m), path = "raw"
    PROVE  OnTheWay(m) \subseteq feed[m].said
<1>1. ToSet(feed[m].queue) \subseteq feed[m].said /\ ToSet(tried[m]) \subseteq feed[m].said
  BY DEF InOrder, OnePlace, SaidFirst
<1>2. ToSet(feed[m].taken) \subseteq feed[m].said
  <2>1. CASE feed[m].taken = <<>>
    BY <2>1, NothingIn
  <2>2. CASE feed[m].taken # <<>>
    <3>1. feed[m].loop = "send"
      BY <2>2, Typed DEF InOrder, Follows
    <3>2. Head(feed[m].taken) \in feed[m].said
      BY <3>1 DEF InOrder, SaidFirst
    <3>3. Len(feed[m].taken) <= 1 /\ feed[m].taken \in Seq(Events)
      BY Typed DEF InOrder, Follows, FeedState
    <3>4. Tail(feed[m].taken) = <<>> /\ ToSet(feed[m].taken) = {Head(feed[m].taken)} \cup ToSet(<<>>)
      <4>1. /\ Len(feed[m].taken) \in Nat /\ Tail(feed[m].taken) \in Seq(Events)
            /\ Len(Tail(feed[m].taken)) = Len(feed[m].taken) - 1
            /\ (Len(feed[m].taken) = 1 <=> Tail(feed[m].taken) = <<>>)
            /\ ToSet(feed[m].taken) = {Head(feed[m].taken)} \cup ToSet(Tail(feed[m].taken))
        BY <2>2, <3>3, HeadAndTail
      <4>2. Len(Tail(feed[m].taken)) \in Nat
        BY <4>1, LenProperties
      <4>3. Len(feed[m].taken) = 1
        BY <3>3, <4>1, <4>2
      <4> QED BY <4>1, <4>3
    <3> QED BY <3>2, <3>4, NothingIn
  <2> QED BY <2>1, <2>2
<1> QED BY <1>1, <1>2 DEF OnTheWay

LEMMA EmitKeeps ==
    ASSUME FeedInv, NEW p \in Producers, NEW m \in Inbound, NEW offer \in Offers[p],
           Emit(p, m, offer)
    PROVE  FeedInv'
<1> PICK e : e = Rendered(p, offer)
  OBVIOUS
<1> PICK o : o = (IF p = 0 /\ e.class = "asked" /\ ~feed[m].drained
                  THEN owed[m] \cup {e} ELSE owed[m])
  OBVIOUS
<1>1. /\ FeedTypeOK /\ InOrder(m) /\ feed[m] \in FeedState /\ emitter[p] = NothingInHand
      /\ e \in Events /\ (e.child <=> p # 0) /\ (p = 0 => turns[m] = "running")
      /\ DeliverRaw(p, m, e) \/ Deliver(p, m, e)
      /\ UNCHANGED <<path, turns, refused, tried, failed>>
  BY RenderedTyped, Typed DEF FeedInv, Emit
<1>2. emits' \in 0..MaxEvents /\ parent' \in [Children -> Inbound \cup {Nothing}]
  <2>1. emits' \in 0..MaxEvents
    BY <1>1, FeedAssumption DEF FeedTypeOK, Emit
  <2>2. parent' = IF p = 0 THEN parent ELSE [parent EXCEPT ![p] = m]
    BY DEF Emit
  <2>3. parent \in [Children -> Inbound \cup {Nothing}]
    BY <1>1 DEF FeedTypeOK
  <2>4. p # 0 => p \in Children
    BY DEF Children
  <2> QED BY <2>1, <2>2, <2>3, <2>4
<1>3. /\ owed' \in [Inbound -> SUBSET Events] /\ owed'[m] = o
      /\ refused' \in [Inbound -> SUBSET Events]
      /\ \A n \in Inbound \ {m} : owed'[n] = owed[n] /\ refused'[n] = refused[n]
  <2>1. owed' = [owed EXCEPT ![m] = o] /\ o \in SUBSET Events
    BY <1>1, Typed DEF Emit
  <2>2. refused' = refused /\ refused \in [Inbound -> SUBSET Events]
    BY <1>1, Typed
  <2> QED BY <1>1, <2>1, <2>2, OneOwed
<1>4. /\ o \subseteq owed[m] \cup {e} /\ (o = owed[m] \/ p = 0)
      /\ e \in o \ owed[m] => e.class = "asked" /\ p = 0 /\ ~feed[m].drained
  OBVIOUS
<1>5. /\ feed[m].taken = <<>> <=> feed[m].loop \notin {"dispatch", "send"}
      /\ path = "bus" => Len(feed[m].queue) <= Capacity
  BY <1>1, Typed
<1> PICK held : held = [message |-> m, event |-> e]
  OBVIOUS
<1>6. held \in Hands /\ NothingInHand \in Hands /\ held.message = m /\ held # NothingInHand
  BY <1>1, HeldTyped DEF Hands
<1>7. CASE path = "raw" /\ Shown(e) /\ Passes(m, e)
  <2> PICK f : f = Noted(m, e)
    OBVIOUS
  <2>1. feed' = [feed EXCEPT ![m] = f] /\ emitter' = [emitter EXCEPT ![p] = held]
    BY <1>1, <1>7 DEF DeliverRaw, Deliver
  <2>2. /\ f \in FeedState /\ f.loop = feed[m].loop /\ f.taken = feed[m].taken
        /\ f.queue = feed[m].queue /\ f.done = feed[m].done /\ f.canceled = feed[m].canceled
        /\ f.said = feed[m].said \cup {e}
    BY <1>1, NotedTyped
  <2>3. /\ feed' \in [Inbound -> FeedState] /\ feed'[m] = f
        /\ \A n \in Inbound \ {m} : feed'[n] = feed[n]
    BY <1>1, <2>1, <2>2, OneFeed
  <2>4. /\ emitter' \in [Producers -> Hands] /\ emitter'[p] = held
        /\ \A q \in Producers \ {p} : emitter'[q] = emitter[q]
    BY <1>1, <1>6, <2>1, OneHand
  <2>5. InOrder(m)'
    <3>1. /\ Follows(m)' /\ Reports(m)' /\ OnTheWay(m)' = OnTheWay(m)
          /\ \A x : emitter[0] = [message |-> m, event |-> x] =>
                    emitter'[0] = [message |-> m, event |-> x]
          /\ \A q \in Producers \ {p} : Holds(q, m)' <=> Holds(q, m)
      BY <1>1, <1>3, <1>4, <2>2, <2>3, <2>4, TakesUp
    <3>2. e \notin feed[m].said /\ e \notin OnTheWay(m)
      BY <1>1, <1>7, RawIsSaid DEF Passes
    <3>3. SaidFirst(m)'
      BY <1>1, <2>2, <2>3, <2>4 DEF InOrder, SaidFirst
    <3>4. Counts(m)'
      BY <1>1, <1>7, <2>3, <2>4, <2>2, NotedCounts DEF InOrder
    <3>5. OnePlace(m)'
      <4>1. ASSUME NEW q \in Producers \ {p}, Holds(q, m)
            PROVE  /\ emitter[q].event \in feed[m].said \ OnTheWay(m) /\ emitter[q].event # e
                   /\ \A r \in Producers \ {q} : emitter[r] # emitter[q]
        BY <1>1, <1>7, <3>2, <4>1 DEF InOrder, OnePlace
      <4>2. ASSUME NEW q \in Producers, Holds(q, m)'
            PROVE  /\ emitter'[q].event \in feed'[m].said \ OnTheWay(m)'
                   /\ \A r \in Producers \ {q} : emitter'[r] # emitter'[q]
        <5>1. CASE q = p
          <6>1. emitter'[q].event = e
            BY <2>3, <2>4, <5>1
          <6>2. ASSUME NEW r \in Producers \ {q}, emitter'[r] = emitter'[q]
                PROVE  FALSE
            BY <2>3, <2>4, <3>1, <4>1, <4>2, <5>1, <6>1, <6>2 DEF Holds
          <6> QED BY <2>2, <2>3, <2>4, <3>1, <3>2, <6>1, <6>2
        <5>2. CASE q # p
          <6>1. emitter'[q] = emitter[q] /\ Holds(q, m)
            BY <2>3, <2>4, <3>1, <4>2, <5>2
          <6>2. \A r \in Producers \ {q} : emitter'[r] # emitter'[q]
            BY <1>6, <2>3, <2>4, <4>1, <5>2, <6>1
          <6> QED BY <2>2, <2>3, <2>4, <3>1, <4>1, <5>2, <6>1, <6>2
        <5> QED BY <5>1, <5>2
      <4>3. /\ IsInjective(feed'[m].queue)
            /\ ToSet(feed'[m].queue) \subseteq
                  feed'[m].said \ (ToSet(tried'[m]) \cup ToSet(feed'[m].taken))
        BY <1>1, <1>7, <2>2, <2>3, <2>4 DEF InOrder, OnePlace
      <4> QED BY <4>2, <4>3 DEF OnePlace
    <3>6. SaidIsKept(m)'
      BY <1>1, <1>7, <2>2, <2>3, <2>4, <3>1 DEF InOrder, SaidIsKept
    <3>7. OwedIsKept(m)'
      BY <1>1, <1>3, <1>4, <2>2, <2>3, <2>4, <3>1 DEF InOrder, OwedIsKept
    <3> QED BY <3>1, <3>3, <3>4, <3>5, <3>6, <3>7 DEF InOrder
  <2>6. /\ feed'[m].taken = <<>> <=> feed'[m].loop \notin {"dispatch", "send"}
        /\ path = "bus" => Len(feed'[m].queue) <= Capacity
        /\ UNCHANGED <<path, turns, refused, tried, failed>> /\ emitter[p] = NothingInHand
        /\ emitter'[p].message = m
    BY <1>1, <1>5, <1>6, <2>2, <2>3, <2>4
  <2> QED BY <1>2, <1>3, <2>3, <2>4, <2>5, <2>6, ProducerKeeps
<1>8. CASE path = "raw" /\ ~(Shown(e) /\ Passes(m, e))
  <2>1. UNCHANGED <<feed, emitter>>
    BY <1>1, <1>8 DEF DeliverRaw, Deliver
  <2>2. /\ feed'[m] = feed[m] /\ emitter'[p] = NothingInHand
        /\ \A q \in Producers \ {p} : emitter'[q] = emitter[q]
    BY <1>1, <2>1
  <2>3. InOrder(m)'
    <3>1. /\ Follows(m)' /\ Reports(m)' /\ OnTheWay(m)' = OnTheWay(m)
          /\ \A x : emitter[0] = [message |-> m, event |-> x] =>
                    emitter'[0] = [message |-> m, event |-> x]
          /\ \A q \in Producers \ {p} : Holds(q, m)' <=> Holds(q, m)
      BY <1>1, <1>3, <1>4, <2>2, TakesUp
    <3>2. SaidFirst(m)' /\ Counts(m)'
      BY <1>1, <2>2 DEF InOrder, SaidFirst, Counts, Saying
    <3>3. OnePlace(m)' /\ SaidIsKept(m)'
      BY <1>1, <2>1, <3>1 DEF InOrder, OnePlace, SaidIsKept, Holds
    <3>4. e \in o \ owed[m] => e \in OnTheWay(m)
      <4> SUFFICES ASSUME e \in o \ owed[m]
                   PROVE  e \in OnTheWay(m)
        OBVIOUS
      <4>1. e \in feed[m].said /\ ~e.child
        BY <1>1, <1>4, <1>8 DEF Shown, Passes, Counted
      <4>2. emitter[0] # [message |-> m, event |-> e]
        BY <1>1, <1>4, HeldTyped
      <4> QED BY <1>1, <1>8, <4>1, <4>2 DEF InOrder, SaidIsKept
    <3>5. OwedIsKept(m)'
      BY <1>1, <1>3, <1>4, <2>2, <3>1, <3>4 DEF InOrder, OwedIsKept
    <3> QED BY <3>1, <3>2, <3>3, <3>5 DEF InOrder
  <2>4. /\ feed' \in [Inbound -> FeedState] /\ emitter' \in [Producers -> Hands]
        /\ \A n \in Inbound \ {m} : feed'[n] = feed[n]
        /\ feed'[m].taken = <<>> <=> feed'[m].loop \notin {"dispatch", "send"}
        /\ path = "bus" => Len(feed'[m].queue) <= Capacity
        /\ UNCHANGED <<path, turns, refused, tried, failed>> /\ emitter[p] = NothingInHand
    BY <1>1, <1>5, <2>1, Typed
  <2> QED BY <1>2, <1>3, <2>2, <2>3, <2>4, ProducerKeeps
<1>9. CASE path # "raw"
  <2> PICK drained \in BOOLEAN : drained = (feed[m].drained \/ e.class = "final")
    OBVIOUS
  <2> DEFINE f == [feed[m] EXCEPT !.drained = drained]
  <2>1. feed' = [feed EXCEPT ![m] = f]
    BY <1>1, <1>9 DEF DeliverRaw, Deliver, FeedState
  <2>2. /\ f \in FeedState /\ f.loop = feed[m].loop /\ f.taken = feed[m].taken
        /\ f.queue = feed[m].queue /\ f.done = feed[m].done /\ f.canceled = feed[m].canceled
        /\ f.said = feed[m].said /\ f.counts = feed[m].counts /\ f.drained = drained
    BY <1>1 DEF FeedState
  <2> HIDE DEF f
  <2>3. /\ feed' \in [Inbound -> FeedState] /\ feed'[m] = f
        /\ \A n \in Inbound \ {m} : feed'[n] = feed[n]
    BY <1>1, <2>1, <2>2, OneFeed
  <2> PICK hand \in {NothingInHand, held} : hand = (IF drained THEN NothingInHand ELSE held)
    OBVIOUS
  <2>4. emitter' = [emitter EXCEPT ![p] = hand]
    BY <1>1, <1>9, <2>2, <2>3, Typed DEF DeliverRaw, Deliver
  <2>5. hand \in Hands /\ (hand = NothingInHand \/ hand.message = m)
    BY <1>6
  <2>6. /\ emitter' \in [Producers -> Hands] /\ emitter'[p] = hand
        /\ \A q \in Producers \ {p} : emitter'[q] = emitter[q]
    BY <1>1, <2>4, <2>5, OneHand
  <2>7. InOrder(m)'
    <3>1. /\ Follows(m)' /\ Reports(m)' /\ OnTheWay(m)' = OnTheWay(m)
          /\ \A x : emitter[0] = [message |-> m, event |-> x] =>
                    emitter'[0] = [message |-> m, event |-> x]
      BY <1>1, <1>3, <1>4, <2>2, <2>3, <2>6, TakesUp
    <3>2. SaidFirst(m)' /\ Counts(m)'
      <4>1. SaidFirst(m)'
        BY <1>1, <2>2, <2>3 DEF InOrder, SaidFirst
      <4>2. feed'[m].said = feed[m].said /\ feed'[m].counts = feed[m].counts
        BY <2>2, <2>3
      <4>3. Counts(m)'
        BY <1>1, <4>2 DEF InOrder, Counts, Saying
      <4> QED BY <4>1, <4>3
    <3>3. OnePlace(m)' /\ SaidIsKept(m)'
      BY <1>1, <1>9, <2>2, <2>3 DEF InOrder, OnePlace, SaidIsKept
    <3>4. e \in o \ owed[m] => emitter'[0] = [message |-> m, event |-> e]
      BY <1>4, <2>6
    <3>5. OwedIsKept(m)'
      BY <1>1, <1>3, <1>4, <2>2, <2>3, <2>6, <3>1, <3>4 DEF InOrder, OwedIsKept
    <3> QED BY <3>1, <3>2, <3>3, <3>5 DEF InOrder
  <2>8. /\ feed'[m].taken = <<>> <=> feed'[m].loop \notin {"dispatch", "send"}
        /\ path = "bus" => Len(feed'[m].queue) <= Capacity
        /\ UNCHANGED <<path, turns, refused, tried, failed>> /\ emitter[p] = NothingInHand
        /\ emitter'[p] = NothingInHand \/ emitter'[p].message = m
    BY <1>1, <1>5, <2>2, <2>3, <2>6, <2>5
  <2> QED BY <1>2, <1>3, <2>3, <2>6, <2>8, <2>7, ProducerKeeps
<1> QED BY <1>7, <1>8, <1>9

\* A full queue takes an event in only for one of a lower priority, which no
\* question is.
LEMMA QueueWith ==
    ASSUME FeedTypeOK, NEW m \in Inbound, NEW e \in Events
    PROVE  LET q == WithEvent(feed[m].queue, e) IN
           /\ q \in Seq(Events) /\ (path = "bus" => Len(q) <= Capacity)
           /\ path = "raw" => q = Append(feed[m].queue, e)
           /\ \A x \in ToSet(feed[m].queue) : x.class = "asked" => x \in ToSet(q)
           /\ ToSet(q) \subseteq ToSet(feed[m].queue) \cup {e}
           /\ Last(q) = e => e \in ToSet(q)
<1> DEFINE s == feed[m].queue
<1>1. /\ s \in Seq(Events) /\ Len(s) \in Nat /\ DOMAIN s = 1..Len(s)
      /\ path = "bus" => Len(s) <= Capacity
  BY Typed DEF FeedState
<1> HIDE DEF s
<1>2. CASE path = "raw" \/ Len(s) < Capacity
  <2>1. WithEvent(s, e) = Append(s, e)
    BY <1>2 DEF WithEvent
  <2>2. Append(s, e) \in Seq(Events) /\ ToSet(Append(s, e)) = ToSet(s) \cup {e}
    BY <1>1, AppendSet
  <2>3. path = "bus" => Len(Append(s, e)) <= Capacity
    <3>1. Len(Append(s, e)) = Len(s) + 1
      BY <1>1
    <3> QED BY <1>1, <1>2, <3>1, FeedAssumption
  <2> QED BY <2>1, <2>2, <2>3 DEF s
<1>3. CASE ~(path = "raw" \/ Len(s) < Capacity)
  <2> DEFINE lower == {i \in DOMAIN s : Critical(e) /\ ~Critical(s[i])}
  <2>1. WithEvent(s, e) = Room(s, e)
    BY <1>3 DEF WithEvent
  <2>2. CASE lower = {}
    <3>1. Room(s, e) = s
      BY <2>2 DEF Room
    <3>2. Len(s) # 0
      BY <1>1, <1>3, FeedAssumption
    <3>3. Last(s) = e => e \in ToSet(s)
      <4>1. Len(s) \in DOMAIN s
        BY <1>1, <3>2
      <4> QED BY <4>1 DEF Last, ToSet
    <3> QED BY <1>1, <1>3, <2>1, <3>1, <3>3 DEF s
  <2>3. CASE lower # {}
    <3>1. lower \in SUBSET Nat
      BY <1>1
    <3>2. PICK i \in lower : i = CHOOSE k \in lower : \A j \in lower : k <= j
      BY <2>3, <3>1, LeastOf
    <3>3. Room(s, e) = Append(RemoveAt(s, i), e)
      BY <2>3, <3>2 DEF Room
    <3>4. /\ i \in 1..Len(s) /\ s[i].class # "asked"
      BY <1>1, <3>2 DEF Critical
    <3> HIDE DEF lower
    <3>5. PICK r : r = RemoveAt(s, i)
      OBVIOUS
    <3>6. /\ r \in Seq(Events) /\ Len(r) = Len(s) - 1
          /\ ToSet(r) \subseteq ToSet(s) /\ ToSet(s) \subseteq ToSet(r) \cup {s[i]}
      BY <1>1, <3>4, <3>5, Without
    <3>7. Append(r, e) \in Seq(Events) /\ ToSet(Append(r, e)) = ToSet(r) \cup {e}
      BY <3>6, AppendSet
    <3>8. Len(Append(r, e)) = Len(s)
      <4>1. Len(Append(r, e)) = Len(r) + 1
        BY <3>6
      <4> QED BY <1>1, <3>6, <4>1
    <3>9. WithEvent(s, e) = Append(r, e)
      BY <2>1, <3>3, <3>5
    <3>10. \A x \in ToSet(s) : x.class = "asked" => x \in ToSet(r)
      BY <3>4, <3>6
    <3> QED BY <1>1, <1>3, <3>6, <3>7, <3>8, <3>9, <3>10 DEF s
  <2> QED BY <2>2, <2>3
<1> QED BY <1>2, <1>3

LEMMA EnqueueKeeps ==
    ASSUME FeedInv, NEW p \in Producers, Enqueue(p)
    PROVE  FeedInv'
<1> PICK m, e : m = emitter[p].message /\ e = emitter[p].event
  OBVIOUS
<1>1. /\ FeedTypeOK /\ emitter[p] # NothingInHand /\ emitter[p] \in Hands
      /\ emitter' = [emitter EXCEPT ![p] = NothingInHand]
      /\ UNCHANGED <<path, turns, parent, emits, tried, failed>>
  <2>1. /\ emitter[p] # NothingInHand /\ emitter' = [emitter EXCEPT ![p] = NothingInHand]
        /\ UNCHANGED <<path, turns, parent, emits, tried, failed>>
    BY DEF Enqueue
  <2>2. FeedTypeOK
    BY DEF FeedInv
  <2>3. emitter \in [Producers -> Hands]
    BY <2>2 DEF FeedTypeOK, Hands
  <2> QED BY <2>1, <2>2, <2>3
<1>2. m \in Inbound /\ e \in Events /\ emitter[p] = [message |-> m, event |-> e] /\ Holds(p, m)
  BY <1>1 DEF Hands, Holds
<1>3. InOrder(m) /\ feed[m] \in FeedState
  BY <1>1, <1>2, Typed DEF FeedInv
<1>4. /\ emitter' \in [Producers -> Hands] /\ emitter'[p] = NothingInHand
      /\ \A q \in Producers \ {p} : emitter'[q] = emitter[q]
  BY <1>1, OneHand DEF Hands
<1>5. \A q \in Producers : Holds(q, m)' => q # p /\ Holds(q, m) /\ emitter'[q] = emitter[q]
  BY <1>4 DEF Holds
<1>6. parent' \in [Children -> Inbound \cup {Nothing}] /\ emits' \in 0..MaxEvents
  BY <1>1 DEF FeedTypeOK
<1>7. /\ feed[m].taken = <<>> <=> feed[m].loop \notin {"dispatch", "send"}
      /\ path = "bus" => Len(feed[m].queue) <= Capacity
      /\ path \in {"raw", "bus"}
  BY <1>1, <1>2, Typed
<1>8. \A x : emitter[0] = [message |-> m, event |-> x] =>
          (p = 0 /\ x = e) \/ emitter'[0] = [message |-> m, event |-> x]
  <2>1. 0 \in Producers
    BY FeedAssumption DEF Producers
  <2>2. CASE p = 0
    BY <1>1, <1>2, <2>2, HeldTyped
  <2>3. CASE p # 0
    BY <1>4, <2>1, <2>3
  <2> QED BY <2>2, <2>3
<1>9. Reports(m)'
  BY <1>1, <1>3, <1>5 DEF InOrder, Reports
<1>10. CASE feed[m].done
  <2>1. UNCHANGED <<feed, owed, refused>>
    BY <1>2, <1>10 DEF Enqueue
  <2>2. p = 0 => path = "bus" /\ path # "raw" /\ feed[m].canceled
    <3>1. p = 0 => turns[m] = "running"
      BY <1>2, <1>3 DEF InOrder, Reports
    <3> QED BY <1>3, <1>7, <1>10, <3>1 DEF InOrder, Follows
  <2>3. Follows(m)' /\ SaidFirst(m)' /\ Counts(m)' /\ OnTheWay(m)' = OnTheWay(m)
    BY <1>1, <1>3, <2>1 DEF InOrder, Follows, SaidFirst, Counts, Saying, OnTheWay
  <2>4. OnePlace(m)'
    <3> SUFFICES ASSUME path = "raw", NEW q \in Producers, Holds(q, m)'
                 PROVE  \A r \in Producers \ {q} : emitter'[r] # emitter'[q]
      BY <1>1, <1>3, <1>5, <2>1, <2>3 DEF InOrder, OnePlace
    <3>1. q # p /\ Holds(q, m) /\ emitter'[q] = emitter[q] /\ emitter[q] # NothingInHand
      BY <1>5 DEF Holds
    <3>2. \A r \in Producers \ {q} : emitter[r] # emitter[q]
      BY <1>3, <3>1 DEF InOrder, OnePlace
    <3> QED BY <1>4, <3>1, <3>2
  <2>5. SaidIsKept(m)' /\ OwedIsKept(m)'
    BY <1>1, <1>3, <1>8, <2>1, <2>2, <2>3 DEF InOrder, SaidIsKept, OwedIsKept
  <2>6. InOrder(m)'
    BY <1>9, <2>3, <2>4, <2>5 DEF InOrder
  <2>7. /\ feed' \in [Inbound -> FeedState] /\ owed' \in [Inbound -> SUBSET Events]
        /\ refused' \in [Inbound -> SUBSET Events]
        /\ \A n \in Inbound \ {m} :
              feed'[n] = feed[n] /\ owed'[n] = owed[n] /\ refused'[n] = refused[n]
        /\ feed'[m].taken = <<>> <=> feed'[m].loop \notin {"dispatch", "send"}
        /\ path = "bus" => Len(feed'[m].queue) <= Capacity
    BY <1>1, <1>2, <1>7, <2>1, Typed
  <2>8. UNCHANGED <<path, turns, tried, failed>>
    BY <1>1
  <2> QED BY <1>2, <1>4, <1>6, <2>6, <2>7, <2>8, ProducerKeeps
<1>11. CASE ~feed[m].done
  <2> PICK q : q = WithEvent(feed[m].queue, e)
    OBVIOUS
  <2>1. /\ q \in Seq(Events) /\ (path = "bus" => Len(q) <= Capacity)
        /\ path = "raw" => q = Append(feed[m].queue, e)
        /\ \A x \in ToSet(feed[m].queue) : x.class = "asked" => x \in ToSet(q)
        /\ ToSet(q) \subseteq ToSet(feed[m].queue) \cup {e}
        /\ Last(q) = e => e \in ToSet(q)
    BY <1>1, <1>2, QueueWith
  <2> DEFINE f == [feed[m] EXCEPT !.queue = q, !.signal = TRUE]
  <2>2. feed' = [feed EXCEPT ![m] = f]
    BY <1>1, <1>2, <1>3, <1>11 DEF Enqueue, FeedState
  <2>3. /\ f \in FeedState /\ f.loop = feed[m].loop /\ f.taken = feed[m].taken /\ f.queue = q
        /\ f.done = feed[m].done /\ f.canceled = feed[m].canceled /\ f.said = feed[m].said
        /\ f.counts = feed[m].counts
    BY <1>3, <2>1 DEF FeedState
  <2> HIDE DEF f
  <2>4. /\ feed' \in [Inbound -> FeedState] /\ feed'[m] = f
        /\ \A n \in Inbound \ {m} : feed'[n] = feed[n]
    BY <1>1, <1>2, <2>2, <2>3, OneFeed
  <2> PICK o, newly : /\ o = (IF e.class = "asked" THEN owed[m] \cup {e} ELSE owed[m])
                      /\ newly = (IF e.class = "asked" /\ Last(q) # e THEN refused[m] \cup {e} ELSE refused[m])
    OBVIOUS
  <2>5. /\ owed' \in [Inbound -> SUBSET Events] /\ owed'[m] = o
        /\ refused' \in [Inbound -> SUBSET Events] /\ refused'[m] = newly
        /\ \A n \in Inbound \ {m} : owed'[n] = owed[n] /\ refused'[n] = refused[n]
    <3>1. /\ owed \in [Inbound -> SUBSET Events] /\ o \in SUBSET Events
          /\ refused \in [Inbound -> SUBSET Events] /\ newly \in SUBSET Events
      BY <1>1, <1>2, Typed
    <3>2. /\ owed' = IF e.class = "asked" THEN [owed EXCEPT ![m] = owed[m] \cup {e}] ELSE owed
          /\ refused' = IF e.class = "asked" /\ Last(q) # e
                        THEN [refused EXCEPT ![m] = refused[m] \cup {e}] ELSE refused
      BY <1>11 DEF Enqueue
    <3>3. owed' = [owed EXCEPT ![m] = o]
      BY <3>1, <3>2
    <3>4. refused' = [refused EXCEPT ![m] = newly]
      <4>1. CASE e.class = "asked" /\ Last(q) # e
        BY <3>2, <4>1
      <4>2. CASE ~(e.class = "asked" /\ Last(q) # e)
        BY <3>1, <3>2, <4>2
      <4> QED BY <4>1, <4>2
    <3> QED BY <1>2, <3>1, <3>3, <3>4
  <2>6. Follows(m)'
    BY <1>1, <1>3, <1>11, <2>3, <2>4, <2>5 DEF InOrder, Follows
  <2>7. SaidFirst(m)' /\ Counts(m)'
    BY <1>1, <1>3, <2>3, <2>4 DEF InOrder, SaidFirst, Counts, Saying
  <2>8. path = "raw" => /\ OnTheWay(m)' = OnTheWay(m) \cup {e}
                        /\ ToSet(q) = ToSet(feed[m].queue) \cup {e}
                        /\ IsInjective(q)
    <3> SUFFICES ASSUME path = "raw"
                 PROVE  /\ OnTheWay(m)' = OnTheWay(m) \cup {e}
                        /\ ToSet(q) = ToSet(feed[m].queue) \cup {e}
                        /\ IsInjective(q)
      OBVIOUS
    <3>1. e \notin ToSet(feed[m].queue) /\ IsInjective(feed[m].queue) /\ feed[m].queue \in Seq(Events)
      BY <1>2, <1>3 DEF InOrder, OnePlace, OnTheWay, FeedState
    <3>2. ToSet(q) = ToSet(feed[m].queue) \cup {e} /\ IsInjective(q)
      <4>1. q = Append(feed[m].queue, e)
        BY <2>1
      <4>2. /\ ToSet(Append(feed[m].queue, e)) = ToSet(feed[m].queue) \cup {e}
            /\ IsInjective(Append(feed[m].queue, e))
        BY <1>2, <3>1, AppendSet
      <4> QED BY <4>1, <4>2
    <3> QED BY <1>1, <2>3, <2>4, <3>2 DEF OnTheWay
  <2>9. OnePlace(m)'
    <3> SUFFICES ASSUME path = "raw"
                 PROVE  OnePlace(m)'
      BY <1>1 DEF OnePlace
    <3>1. e \in feed[m].said \ OnTheWay(m) /\ \A r \in Producers \ {p} : emitter[r] # emitter[p]
      BY <1>2, <1>3 DEF InOrder, OnePlace
    <3>2. ToSet(q) \subseteq feed[m].said \ (ToSet(tried[m]) \cup ToSet(feed[m].taken))
      BY <1>3, <2>8, <3>1 DEF InOrder, OnePlace, OnTheWay
    <3>3. ASSUME NEW r \in Producers, Holds(r, m)'
          PROVE  /\ emitter'[r].event \in feed[m].said \ OnTheWay(m)'
                 /\ \A k \in Producers \ {r} : emitter'[k] # emitter'[r]
      <4>1. r # p /\ Holds(r, m) /\ emitter'[r] = emitter[r] /\ emitter[r] # NothingInHand
        BY <1>5, <3>3 DEF Holds
      <4>2. /\ emitter[r].event \in feed[m].said \ OnTheWay(m)
            /\ \A k \in Producers \ {r} : emitter[k] # emitter[r]
        BY <1>3, <4>1 DEF InOrder, OnePlace
      <4>3. emitter[r].event # e
        BY <1>1, <1>2, <4>1, <4>2, HeldTyped
      <4> QED BY <1>4, <2>8, <4>1, <4>2, <4>3
    <3> QED BY <1>1, <2>3, <2>4, <2>8, <3>2, <3>3 DEF OnePlace
  <2>10. SaidIsKept(m)'
    BY <1>1, <1>3, <1>8, <2>3, <2>4, <2>8 DEF InOrder, SaidIsKept
  <2>11. \A x \in OnTheWay(m) : x.class = "asked" => x \in OnTheWay(m)'
    BY <1>1, <2>1, <2>3, <2>4 DEF OnTheWay
  <2>12. OwedIsKept(m)'
    <3> SUFFICES ASSUME NEW x \in o
                 PROVE  /\ x.class = "asked"
                        /\ ~feed[m].canceled =>
                              \/ x \in OnTheWay(m)' \cup newly
                              \/ emitter'[0] = [message |-> m, event |-> x]
      BY <2>3, <2>4, <2>5 DEF OwedIsKept
    <3>1. x.class = "asked" /\ (x = e => x \in ToSet(q) \cup newly) /\ refused[m] \subseteq newly
      <4>1. refused[m] \subseteq newly
        OBVIOUS
      <4>2. \A y \in owed[m] : y.class = "asked"
        BY <1>3 DEF InOrder, OwedIsKept
      <4>3. x \in owed[m] \/ (x = e /\ e.class = "asked")
        OBVIOUS
      <4>4. x.class = "asked"
        BY <4>2, <4>3
      <4>5. x = e => x \in ToSet(q) \cup newly
        BY <2>1, <4>4
      <4> QED BY <4>1, <4>4, <4>5
    <3>2. CASE x = e
      BY <2>3, <2>4, <3>1, <3>2 DEF OnTheWay
    <3>3. CASE x # e
      <4>1. x \in owed[m]
        BY <3>3
      <4> QED BY <1>3, <1>8, <2>11, <3>1, <3>3, <4>1 DEF InOrder, OwedIsKept
    <3> QED BY <3>2, <3>3
  <2>13. InOrder(m)'
    BY <1>9, <2>6, <2>7, <2>9, <2>10, <2>12 DEF InOrder
  <2>14. /\ feed'[m].taken = <<>> <=> feed'[m].loop \notin {"dispatch", "send"}
         /\ path = "bus" => Len(feed'[m].queue) <= Capacity
         /\ UNCHANGED <<path, turns, tried, failed>>
    BY <1>1, <1>7, <2>1, <2>3, <2>4
  <2> QED BY <1>2, <1>4, <1>6, <2>4, <2>5, <2>13, <2>14, ProducerKeeps
<1> QED BY <1>10, <1>11

-----------------------------------------------------------------------------
(* The feed of a turn                                                      *)

LEMMA FeedInvInitially == FeedInit => FeedInv
<1> SUFFICES ASSUME FeedInit
             PROVE  FeedInv
  OBVIOUS
<1>1. NoFeed \in FeedState
  BY NothingIn DEF NoFeed, FeedState
<1>2. /\ feed \in [Inbound -> FeedState] /\ owed \in [Inbound -> SUBSET Events]
      /\ refused \in [Inbound -> SUBSET Events] /\ failed \in [Inbound -> SUBSET Events]
      /\ tried \in [Inbound -> Seq(Events)] /\ turns \in [Inbound -> TurnStages]
      /\ emitter \in [Producers -> Hands] /\ parent \in [Children -> Inbound \cup {Nothing}]
      /\ emits \in 0..MaxEvents /\ path \in Paths
  BY <1>1, NothingIn, FeedAssumption DEF FeedInit, TurnStages, Hands
<1>3. \A m \in Inbound : feed[m] = NoFeed /\ turns[m] = "new" /\ owed[m] = {} /\ tried[m] = <<>>
  BY DEF FeedInit
<1>4. NoFeed.loop = "none" /\ NoFeed.taken = <<>> /\ NoFeed.queue = <<>> /\ ~NoFeed.done
      /\ ~NoFeed.canceled /\ NoFeed.said = {} /\ NoFeed.counts = [child \in BOOLEAN |-> 0]
  BY DEF NoFeed
<1>5. \A p \in Producers, m \in Inbound : ~Holds(p, m)
  BY DEF FeedInit, Holds
<1>6. FeedTypeOK
  <2>1. 0 <= Capacity
    BY FeedAssumption
  <2>2. \A m \in Inbound : /\ feed[m].taken = <<>> <=> feed[m].loop \notin {"dispatch", "send"}
                           /\ path = "bus" => Len(feed[m].queue) <= Capacity
    BY <1>3, <1>4, <2>1, NothingIn
  <2> QED BY <1>2, <2>2 DEF FeedTypeOK, FeedState, TurnStages, Hands
<1>7. ASSUME NEW m \in Inbound
      PROVE  InOrder(m)
  <2>1. Follows(m)
    BY <1>3, <1>4, NothingIn DEF Follows
  <2>2. Reports(m)
    BY <1>5 DEF Reports
  <2>3. SaidFirst(m)
    BY <1>3, <1>4, NothingIn DEF SaidFirst
  <2>4. Counts(m)
    <3>1. IsFiniteSet({}) /\ Cardinality({}) = 0
      BY FS_EmptySet
    <3>2. ASSUME NEW child \in BOOLEAN
          PROVE  /\ feed[m].counts[child] = Cardinality(Saying(m, child))
                 /\ Quota(child) > 0 => feed[m].counts[child] <= Quota(child)
      <4>1. Saying(m, child) = {} /\ feed[m].counts[child] = 0
        BY <1>3, <1>4 DEF Saying
      <4>2. Quota(child) > 0 => 0 <= Quota(child)
        BY FeedAssumption DEF Quota
      <4> QED BY <3>1, <4>1, <4>2
    <3> QED BY <1>3, <1>4, <3>1, <3>2 DEF Counts
  <2>5. OnePlace(m)
    BY <1>3, <1>4, <1>5, NothingIn DEF OnePlace
  <2>6. SaidIsKept(m) /\ OwedIsKept(m)
    BY <1>3, <1>4 DEF SaidIsKept, OwedIsKept
  <2> QED BY <2>1, <2>2, <2>3, <2>4, <2>5, <2>6 DEF InOrder
<1> QED BY <1>6, <1>7 DEF FeedInv

LEMMA FeedInvKept == FeedInv /\ [FeedNext]_feedVars => FeedInv'
<1> SUFFICES ASSUME FeedInv, [FeedNext]_feedVars
             PROVE  FeedInv'
  OBVIOUS
<1>1. CASE UNCHANGED feedVars
  <2>1. UNCHANGED <<path, turns, feed, emitter, parent, emits, owed, refused, tried, failed>>
    BY <1>1 DEF feedVars
  <2>2. FeedTypeOK /\ FeedTypeOK'
    BY <2>1 DEF FeedInv, FeedTypeOK
  <2> QED BY <2>1, <2>2, Untouched DEF FeedInv
<1>2. ASSUME NEW m \in Inbound, Receive(m) \/ CancelTurn(m) \/ End(m) \/ Reset(m) \/ Stop(m) \/ Sender(m)
      PROVE  FeedInv'
  BY <1>2, ReceiveKeeps, TurnMoves, CloseKeeps, ForgetKeeps, ReopenKeeps, DequeueKeeps, WakeKeeps,
     DrainKeeps, DispatchKeeps, SendKeeps DEF Reset, Stop, Sender
<1>3. ASSUME NEW m \in Inbound, NEW n \in Inbound, Steer(m, n)
      PROVE  FeedInv'
  BY <1>3, SteerKeeps
<1>4. ASSUME NEW m \in Inbound, NEW p \in Producers, NEW offer \in Offers[p], Emit(p, m, offer)
      PROVE  FeedInv'
  BY <1>4, EmitKeeps
<1>5. ASSUME NEW p \in Producers, Enqueue(p)
      PROVE  FeedInv'
  BY <1>5, EnqueueKeeps
<1> QED BY <1>1, <1>2, <1>3, <1>4, <1>5 DEF FeedNext

THEOREM FeedKeepsOrder == FeedSpec => []FeedInv
BY FeedInvInitially, FeedInvKept, PTL DEF FeedSpec

\* A chat is not flooded, however many children talk (NoFlood): in every state
\* nothing was sent twice since the last reset, and no more than the quotas allow.
THEOREM ChatsAreNotFlooded == FeedSpec => []NoFlood
<1>1. FeedInv => NoFlood
  <2> SUFFICES ASSUME FeedInv, NEW m \in Inbound, NEW child \in BOOLEAN, Quota(child) > 0
               PROVE  Cardinality({e \in ToSet(tried[m]) : Counted(e) /\ e.child = child}) <= Quota(child)
    BY DEF FeedInv, InOrder, SaidFirst, NoFlood
  <2> DEFINE S == {e \in ToSet(tried[m]) : Counted(e) /\ e.child = child}
  <2>1. SaidFirst(m) /\ Counts(m)
    BY DEF FeedInv, InOrder
  <2>2. S \subseteq Saying(m, child)
    BY <2>1 DEF Saying, SaidFirst
  <2>3. IsFiniteSet(Saying(m, child))
    BY <2>1, FS_Subset DEF Saying, Counts
  <2>4. Cardinality(S) <= Cardinality(Saying(m, child)) /\ Cardinality(S) \in Nat
    BY <2>2, <2>3, FS_Subset, FS_CardinalityType
  <2>5. Cardinality(Saying(m, child)) <= Quota(child) /\ Cardinality(Saying(m, child)) \in Nat
    BY <2>1, <2>3, FS_CardinalityType DEF Counts
  <2>6. Quota(child) \in Nat
    BY FeedAssumption DEF Quota
  <2> QED BY <2>4, <2>5, <2>6
<1> QED BY <1>1, FeedKeepsOrder, PTL

\* What the run asks its user is given to the channel before the turn is over
\* (QuestionsShown), whatever the quotas and the events of a lower priority, unless the
\* turn was canceled or the question met a queue full of events as urgent; whether the
\* channel shows it is up to the channel.
THEOREM QuestionsAreShown == FeedSpec => []QuestionsShown
<1>1. FeedInv => QuestionsShown
  <2> SUFFICES ASSUME FeedInv, NEW m \in Inbound, turns[m] = "over", ~feed[m].canceled, NEW e \in owed[m]
               PROVE  e \in ToSet(tried[m]) \cup refused[m]
    BY DEF QuestionsShown, Displayed
  <2>1. FeedTypeOK /\ Follows(m) /\ Reports(m) /\ OwedIsKept(m)
    BY DEF FeedInv, InOrder
  <2>2. feed[m].loop = "exited" /\ feed[m].queue = <<>>
    BY <2>1 DEF Follows
  <2>3. feed[m].taken = <<>>
    BY <2>1, <2>2, Typed
  <2>4. OnTheWay(m) = ToSet(tried[m])
    BY <2>2, <2>3, NothingIn DEF OnTheWay
  <2>5. 0 \in Producers
    BY FeedAssumption DEF Producers
  <2>6. ~Holds(0, m)
    BY <2>1, <2>5 DEF Reports
  <2>7. emitter[0] # [message |-> m, event |-> e]
    BY <2>1, <2>5, <2>6, HeldTyped
  <2> QED BY <2>1, <2>4, <2>7 DEF OwedIsKept
<1> QED BY <1>1, FeedKeepsOrder, PTL

\* A feed is silent when its turn is over, and between two runs of one turn
\* (SilentAfterwards): its goroutine has exited, and only that sends.
THEOREM FeedsFallSilent == FeedSpec => SilentAfterwards
<1>1. ASSUME FeedInv, [FeedNext]_feedVars, NEW m \in Inbound, turns[m] \in {"reopen", "over"}
      PROVE  tried'[m] = tried[m]
  <2>1. feed[m].loop = "exited" /\ tried \in [Inbound -> Seq(Events)]
    BY <1>1 DEF FeedInv, InOrder, Follows, FeedTypeOK
  <2>2. ASSUME NEW n \in Inbound, NEW ok \in BOOLEAN, Send(n, ok) PROVE tried'[m] = tried[m]
    BY <1>1, <2>1, <2>2 DEF Send, At
  <2>3. ASSUME NEW n \in Inbound, ForgetRun(n) PROVE tried'[m] = tried[m]
    BY <1>1, <2>1, <2>3 DEF ForgetRun, Step
  <2>4. ASSUME NEW n \in Inbound, Receive(n) \/ CancelTurn(n) \/ End(n) \/ Stop(n)
        PROVE  UNCHANGED tried
    BY <2>4 DEF Receive, CancelTurn, End, Stop, StopFeed, Stopped
  <2>5. ASSUME NEW n \in Inbound, CancelFeed(n) \/ CloseFeed(n) \/ Reopen(n)
        PROVE  UNCHANGED tried
    BY <2>5 DEF CancelFeed, CloseFeed, Reopen
  <2>6. ASSUME NEW n \in Inbound, Dequeue(n) \/ Wake(n) \/ Drain(n) \/ Dispatch(n)
        PROVE  UNCHANGED tried
    BY <2>6 DEF Dequeue, Wake, Drain, Dispatch
  <2>7. ASSUME NEW n \in Inbound, NEW k \in Inbound, Steer(n, k) PROVE UNCHANGED tried
    BY <2>7 DEF Steer
  <2>8. ASSUME NEW n \in Inbound, NEW p \in Producers, NEW offer \in Offers[p], Emit(p, n, offer)
        PROVE  UNCHANGED tried
    BY <2>8 DEF Emit
  <2>9. ASSUME NEW p \in Producers, Enqueue(p) PROVE UNCHANGED tried
    BY <2>9 DEF Enqueue
  <2>10. CASE UNCHANGED feedVars
    BY <2>10 DEF feedVars
  <2>11. ASSUME NEW n \in Inbound, Reset(n) \/ Sender(n) PROVE tried'[m] = tried[m]
    BY <2>2, <2>3, <2>5, <2>6, <2>11 DEF Reset, Sender
  <2> QED BY <1>1, <2>4, <2>7, <2>8, <2>9, <2>10, <2>11 DEF FeedNext
<1>2. FeedInv /\ [FeedNext]_feedVars =>
          [\A m \in Inbound : turns[m] \in {"reopen", "over"} => tried'[m] = tried[m]]_feedVars
  BY <1>1
<1> QED BY <1>2, FeedKeepsOrder, PTL DEF FeedSpec, SilentAfterwards

-----------------------------------------------------------------------------
(***************************************************************************)
(* ChatSession                                                             *)
(***************************************************************************)

USE ChatAssumption DEF ChatAssumption

Handlers == [Messages -> [stage : {"idle", "begun", "routing"}, entry : Entries \cup {None}]]
EntryRecord == [active : BOOLEAN, queue : Seq(Messages), idle : {"never", "recent", "due", "old"}]
Queues == [Entries -> EntryRecord]
TurnRecord == [stage : Stages, entry : Entries \cup {None}, current : Messages \cup {None}]
Turning == [Messages -> TurnRecord]

\* The entry a handler has looked up stays the one in the map.
RoutedToEntry ==
    \A m \in Messages :
        handler[m].stage = "routing" => routed = handler[m].entry /\ ~Evictable(routed)

OneTurnInv == OneTurnPerChat /\ RoutedToEntry

\* The turn m started has not settled it yet.
Unsettled(m) ==
    turn[m].stage \in {"reserved", "run", "steered", "concluded", "succeeded", "failed"}

\* A final in answer to m is being worked on or about to be sent.
Subject(m) ==
    \E n \in Messages : (Running(n) \/ turn[n].stage = "concluded") /\ turn[n].current = m

-----------------------------------------------------------------------------
(* The types                                                               *)

LEMMA TypeInit == Init => TypeOK
BY DEF Init, TypeOK, Idle, NewEntry, NoTurn, Stages

LEMMA EntryUpdate ==
    ASSUME entry \in Queues, NEW e \in Entries
    PROVE  /\ entry[e].active \in BOOLEAN /\ entry[e].queue \in Seq(Messages)
           /\ entry[e].idle \in {"never", "recent", "due", "old"}
           /\ \A b \in BOOLEAN : [entry[e] EXCEPT !.active = b] \in EntryRecord
           /\ \A q \in Seq(Messages) : [entry[e] EXCEPT !.queue = q] \in EntryRecord
           /\ \A i \in {"never", "recent", "due", "old"} : [entry[e] EXCEPT !.idle = i] \in EntryRecord
           /\ \A r \in EntryRecord : [entry EXCEPT ![e] = r] \in Queues
<1>1. entry[e] \in EntryRecord
  BY DEF Queues
<1>2. \A r \in EntryRecord : [entry EXCEPT ![e] = r] \in Queues
  BY DEF Queues
<1> QED BY <1>1, <1>2 DEF EntryRecord

\* A turn that moves from one stage to the next keeps the rest.
LEMMA GoesTyped ==
    ASSUME TypeOK, NEW m \in Messages, NEW from \in Stages \ {"none"}, NEW to \in Stages \ {"none"},
           Goes(m, from, to)
    PROVE  /\ turn' \in Turning
           /\ \A n \in Messages : turn'[n].entry = None <=> turn'[n].stage = "none"
           /\ \A n \in Messages : /\ turn'[n].entry = turn[n].entry
                                  /\ turn'[n].current = turn[n].current
                                  /\ turn'[n].stage = (IF n = m THEN to ELSE turn[n].stage)
<1>1. turn \in Turning
  BY DEF TypeOK, Turning, TurnRecord
<1>2. turn[m] \in TurnRecord /\ turn' = [turn EXCEPT ![m] = [turn[m] EXCEPT !.stage = to]]
  BY <1>1 DEF Turning, Goes
<1>3. [turn[m] EXCEPT !.stage = to] \in TurnRecord
  BY <1>2 DEF TurnRecord
<1>4. turn' \in Turning
  BY <1>1, <1>2, <1>3 DEF Turning
<1>5. \A n \in Messages : n # m => turn'[n] = turn[n]
  BY <1>1, <1>2 DEF Turning
<1>6. turn'[m].stage = to /\ turn'[m].entry = turn[m].entry /\ turn'[m].current = turn[m].current
  BY <1>1, <1>2 DEF Turning, TurnRecord
<1>7. turn[m].stage = from
  BY DEF Goes
<1>8. \A n \in Messages : turn[n].entry = None <=> turn[n].stage = "none"
  BY DEF TypeOK
<1> QED BY <1>4, <1>5, <1>6, <1>7, <1>8

LEMMA TypeStep == TypeOK /\ [Next]_vars => TypeOK'
<1> SUFFICES ASSUME TypeOK, [Next]_vars PROVE TypeOK'
  OBVIOUS
<1>0. /\ entry \in Queues /\ turn \in Turning /\ handler \in Handlers
      /\ seen \in [Messages -> {"absent", "processing", "completed"}]
      /\ answered \in [Messages -> Nat]
      /\ deliveries \in 0..MaxDeliveries /\ crashes \in 0..MaxCrashes
      /\ routed \in Entries \cup {None}
      /\ channel \in Channels
  BY DEF TypeOK, Queues, EntryRecord, Turning, TurnRecord, Handlers
<1>n. NewEntry \in EntryRecord
  BY DEF NewEntry, EntryRecord
<1>1. ASSUME NEW m \in Messages, Begin(m)
      PROVE  TypeOK'
  <2>1. handler[m] = [stage |-> "idle", entry |-> None]
        /\ handler' = [handler EXCEPT ![m] = [handler[m] EXCEPT !.stage = "begun"]]
    BY <1>0, <1>1 DEF Begin, Idle
  <2>2. handler' = [handler EXCEPT ![m] = [stage |-> "begun", entry |-> None]]
    <3>1. [[stage |-> "idle", entry |-> None] EXCEPT !.stage = "begun"]
              = [stage |-> "begun", entry |-> None]
      OBVIOUS
    <3> QED BY <2>1, <3>1
  <2> QED BY <1>1, <2>2 DEF TypeOK, Begin, counts
<1>2. ASSUME NEW m \in Messages, ConsumeCommand(m)
      PROVE  TypeOK'
  BY <1>2 DEF TypeOK, ConsumeCommand, Idle, counts
<1>3. ASSUME NEW m \in Messages, LookUp(m)
      PROVE  TypeOK'
  <2>1. routed' \in Entries /\ entry' \in Queues
    <3>1. CASE routed # None /\ ~Evictable(routed)
      BY <1>0, <1>3, <3>1 DEF LookUp
    <3>2. CASE ~(routed # None /\ ~Evictable(routed))
      <4>1. PICK e \in Entries : routed' = e /\ entry' = [entry EXCEPT ![e] = NewEntry]
        BY <1>3, <3>2 DEF LookUp
      <4> QED BY <1>0, <1>n, <4>1, EntryUpdate
    <3> QED BY <3>1, <3>2
  <2>2. handler' = [handler EXCEPT ![m] = [stage |-> "routing", entry |-> routed']]
        /\ UNCHANGED <<channel, seen, turn, answered, counts>>
    BY <1>3 DEF LookUp
  <2> QED BY <2>1, <2>2 DEF TypeOK, Queues, EntryRecord, counts
<1>4. ASSUME NEW m \in Messages, Enter(m)
      PROVE  TypeOK'
  <2> DEFINE e == handler[m].entry
  <2>1. e \in Entries /\ handler' = [handler EXCEPT ![m] = Idle]
        /\ UNCHANGED <<channel, seen, routed, answered, counts>>
    BY <1>4 DEF Enter, TypeOK
  <2>2. CASE entry' = [entry EXCEPT ![e].queue = Append(@, m)] /\ UNCHANGED turn
    <3>1. entry' \in Queues
      <4>1. entry' = [entry EXCEPT ![e] = [entry[e] EXCEPT !.queue = Append(entry[e].queue, m)]]
        BY <1>0, <2>1, <2>2 DEF Queues
      <4>2. Append(entry[e].queue, m) \in Seq(Messages)
        <5>1. entry[e].queue \in Seq(Messages)
          BY <1>0, <2>1, EntryUpdate
        <5> HIDE DEF e
        <5> QED BY <5>1
      <4> QED BY <1>0, <2>1, <4>1, <4>2, EntryUpdate
    <3> QED BY <2>1, <2>2, <3>1 DEF TypeOK, Queues, EntryRecord, Idle, counts
  <2>3. CASE /\ entry' = [entry EXCEPT ![e].active = TRUE]
             /\ turn' = [turn EXCEPT ![m] = [stage |-> "reserved", entry |-> e, current |-> m]]
    <3>1. entry' \in Queues
      <4>1. entry' = [entry EXCEPT ![e] = [entry[e] EXCEPT !.active = TRUE]]
        BY <2>3
      <4> QED BY <1>0, <2>1, <4>1, EntryUpdate
    <3> HIDE DEF e
    <3> QED BY <2>1, <2>3, <3>1 DEF TypeOK, Queues, EntryRecord, Idle, counts, Stages
  <2> QED BY <1>4, <2>2, <2>3 DEF Enter
<1>5. ASSUME NEW m \in Messages, NEW from \in Stages \ {"none"}, NEW to \in Stages \ {"none"},
             Goes(m, from, to), UNCHANGED <<channel, handler, routed, entry, deliveries, crashes>>,
             seen' \in [Messages -> {"absent", "processing", "completed"}],
             answered' \in [Messages -> Nat]
      PROVE  TypeOK'
  BY <1>5, GoesTyped DEF TypeOK, Turning, TurnRecord
<1>6. ASSUME NEW m \in Messages, TakeUp(m)
      PROVE  TypeOK'
  <2>1. CASE Queue(m) = <<>>
    BY <1>5, <1>6, <2>1, <1>0 DEF TakeUp, Goes, counts, Stages
  <2>2. CASE Queue(m) # <<>>
    <3> DEFINE e == turn[m].entry
    <3>1. e \in Entries
      BY <1>6 DEF TypeOK, TakeUp
    <3>2. Queue(m) \in Seq(Messages)
      BY <1>0, <3>1, EntryUpdate DEF Queue
    <3>3. Head(Queue(m)) \in Messages /\ Tail(Queue(m)) \in Seq(Messages)
      BY <2>2, <3>2
    <3>4. entry' = [entry EXCEPT ![e] = [entry[e] EXCEPT !.queue = Tail(Queue(m))]]
      BY <1>6, <2>2 DEF TakeUp, Queue
    <3>5. entry' \in Queues
      BY <1>0, <3>1, <3>3, <3>4, EntryUpdate
    <3>6. turn' = [turn EXCEPT ![m].stage = "run", ![m].current = Head(Queue(m))]
          /\ turn[m].stage = "steered"
          /\ UNCHANGED <<channel, seen, handler, routed, answered, counts>>
      BY <1>6, <2>2 DEF TakeUp
    <3>7. turn' \in Turning
      <4>1. [turn[m] EXCEPT !.stage = "run", !.current = Head(Queue(m))] \in TurnRecord
        <5>1. turn[m] \in TurnRecord
          BY <1>0 DEF Turning
        <5> QED BY <3>3, <5>1 DEF TurnRecord, Stages
      <4> QED BY <1>0, <3>6, <4>1 DEF Turning
    <3>8. \A n \in Messages : turn'[n].entry = turn[n].entry
                              /\ (turn'[n].stage = "none" <=> turn[n].stage = "none")
      BY <1>0, <3>6 DEF Turning, TurnRecord
    <3>9. UNCHANGED <<channel, seen, handler, routed, answered, deliveries, crashes>>
      BY <3>6 DEF counts
    <3> HIDE DEF e
    <3> QED BY <3>5, <3>7, <3>8, <3>9 DEF TypeOK, Queues, EntryRecord, Turning, TurnRecord
  <2> QED BY <2>1, <2>2
<1>7. ASSUME NEW m \in Messages, MarkComplete(m)
      PROVE  TypeOK'
  <2>1. entry' \in Queues
    <3>1. CASE routed = None
      BY <1>0, <1>7, <3>1 DEF MarkComplete
    <3>2. CASE routed # None
      <4>1. entry' = [entry EXCEPT ![routed] = [[entry[routed] EXCEPT !.active = FALSE] EXCEPT !.idle = "recent"]]
        BY <1>0, <1>7, <3>2 DEF MarkComplete, Queues
      <4>2. [[entry[routed] EXCEPT !.active = FALSE] EXCEPT !.idle = "recent"] \in EntryRecord
        <5>1. entry[routed] \in EntryRecord
          BY <1>0, <3>2 DEF Queues
        <5> QED BY <5>1 DEF EntryRecord
      <4> QED BY <1>0, <3>2, <4>1, <4>2, EntryUpdate
    <3> QED BY <3>1, <3>2
  <2>2. turn' = [turn EXCEPT ![m] = NoTurn] /\ UNCHANGED <<channel, seen, handler, routed, answered, counts>>
    BY <1>7 DEF MarkComplete
  <2> QED BY <2>1, <2>2 DEF TypeOK, Queues, EntryRecord, NoTurn, Stages, counts
<1>8. ASSUME NEW e \in Entries, NearAge(e) \/ Age(e)
      PROVE  TypeOK'
  <2>1. entry' \in Queues
    <3>1. CASE entry' = [entry EXCEPT ![e] = [entry[e] EXCEPT !.idle = "due"]]
      BY <1>0, <3>1, EntryUpdate
    <3>2. CASE entry' = [entry EXCEPT ![e] = [entry[e] EXCEPT !.idle = "old"]]
      BY <1>0, <3>2, EntryUpdate
    <3> QED BY <1>8, <3>1, <3>2 DEF NearAge, Age
  <2> QED BY <1>8, <2>1 DEF TypeOK, Queues, EntryRecord, NearAge, Age, counts
<1>9. CASE Prune
  BY <1>9 DEF TypeOK, Prune, counts
<1>10. CASE Crash
  <2>1. entry' \in Queues
    BY <1>10, <1>n DEF Crash, Queues
  <2>2. turn' \in Turning /\ \A m \in Messages : turn'[m].entry = None /\ turn'[m].stage = "none"
    BY <1>10 DEF Crash, Turning, TurnRecord, NoTurn, Stages
  <2>3. handler' \in Handlers /\ \A m \in Messages : handler'[m].entry = None /\ handler'[m].stage = "idle"
    BY <1>10 DEF Crash, Handlers, Idle
  <2>4. seen' \in [Messages -> {"absent", "processing", "completed"}]
    BY <1>0, <1>10 DEF Crash
  <2>5. /\ routed' = None /\ crashes' \in 0..MaxCrashes
        /\ UNCHANGED <<channel, answered, deliveries>>
    BY <1>0, <1>10 DEF Crash
  <2> QED BY <1>0, <2>1, <2>2, <2>3, <2>4, <2>5 DEF TypeOK, Queues, EntryRecord, Turning, TurnRecord, Handlers
<1>11. CASE UNCHANGED vars
  BY <1>11 DEF TypeOK, vars, counts
<1>12. ASSUME NEW m \in Messages, NEW from \in Stages \ {"none"}, NEW to \in Stages \ {"none"},
              Turns(m, from, to)
       PROVE  TypeOK'
  BY <1>0, <1>5, <1>12 DEF Turns, counts
<1>13. ASSUME NEW m \in Messages,
              \/ Start(m) \/ Checkpoint(m) \/ Conclude(m) \/ StaySilent(m) \/ Suspend(m)
              \/ RunFails(m) \/ SendFails(m)
       PROVE  TypeOK'
  BY <1>12, <1>13 DEF Start, Checkpoint, Conclude, StaySilent, Suspend, RunFails, SendFails, Stages
<1>14. ASSUME NEW m \in Messages, SendFinal(m)
       PROVE  TypeOK'
  <2>1. answered' \in [Messages -> Nat]
    <3> DEFINE c == turn[m].current
    <3>1. answered' = [answered EXCEPT ![c] = answered[c] + 1]
      BY <1>14 DEF SendFinal
    <3>2. CASE c \in Messages
      BY <1>0, <3>1, <3>2
    <3>3. CASE c \notin Messages
      <4> HIDE DEF c
      <4> QED BY <1>0, <3>1, <3>3
    <3> QED BY <3>2, <3>3
  <2> QED BY <1>0, <1>5, <1>14, <2>1 DEF SendFinal, Stages, counts
<1>15. ASSUME NEW m \in Messages, Settle(m) \/ AckFails(m)
       PROVE  TypeOK'
  BY <1>0, <1>5, <1>15 DEF Settle, AckFails, Stages, counts
<1> QED
  BY <1>1, <1>2, <1>3, <1>4, <1>6, <1>7, <1>8, <1>9, <1>10, <1>11, <1>13, <1>14, <1>15
     DEF Next, Handle, Advance, Fails

-----------------------------------------------------------------------------
(* One turn per chat                                                       *)

LEMMA OneTurnInit == Init => OneTurnInv
BY TypeInit DEF Init, OneTurnInv, OneTurnPerChat, NeverConcurrent, RoutedToEntry, Underway, NoTurn,
       NewEntry, Idle

\* The map, the entries and the handlers stay, and turns change between stages
\* of a turn that is under way.
LEMMA OneTurnKept ==
    ASSUME OneTurnInv, TypeOK', UNCHANGED <<routed, handler>>,
           \A e \in Entries : entry'[e].active = entry[e].active /\ entry'[e].idle = entry[e].idle,
           \A n \in Messages : /\ turn'[n].entry = turn[n].entry
                               /\ (turn'[n].stage = "none" <=> turn[n].stage = "none")
    PROVE  OneTurnInv'
<1>1. routed \in Entries \cup {None}
  BY DEF OneTurnInv, OneTurnPerChat, TypeOK
<1>2. \A n \in Messages : Underway(n)' <=> Underway(n)
  BY DEF Underway
<1>3. NeverConcurrent'
  BY <1>2 DEF OneTurnInv, OneTurnPerChat, NeverConcurrent
<1>4. \A n \in Messages : Underway(n) => routed \in Entries
  BY <1>1 DEF OneTurnInv, OneTurnPerChat, TypeOK, Underway
<1>5. \A n \in Messages : Underway(n)' => routed' = turn'[n].entry /\ entry'[routed'].active
  BY <1>2, <1>4 DEF OneTurnInv, OneTurnPerChat
<1>6. routed' # None /\ entry'[routed'].active => \E n \in Messages : Underway(n)'
  BY <1>1, <1>2 DEF OneTurnInv, OneTurnPerChat
<1>7. RoutedToEntry'
  <2>1. \A n \in Messages : handler[n].stage = "routing" => routed \in Entries
    BY <1>1 DEF OneTurnInv, OneTurnPerChat, TypeOK, RoutedToEntry
  <2> QED BY <2>1 DEF OneTurnInv, RoutedToEntry, Evictable
<1> QED BY <1>3, <1>5, <1>6, <1>7 DEF OneTurnInv, OneTurnPerChat

\* When no turn is under way, neither is one afterwards: the router's map and its
\* entry decide alone.
LEMMA OneTurnFree ==
    ASSUME TypeOK', \A n \in Messages : ~Underway(n)',
           routed' # None => ~entry'[routed'].active,
           RoutedToEntry'
    PROVE  OneTurnInv'
BY DEF OneTurnInv, OneTurnPerChat, NeverConcurrent

LEMMA OneTurnStep == ~AgeWhileRouting /\ OneTurnInv /\ [Next]_vars => OneTurnInv'
<1> SUFFICES ASSUME ~AgeWhileRouting, OneTurnInv, [Next]_vars PROVE OneTurnInv'
  OBVIOUS
<1>0. /\ TypeOK /\ NeverConcurrent /\ RoutedToEntry /\ TypeOK'
      /\ entry \in Queues /\ turn \in Turning /\ handler \in Handlers
      /\ routed \in Entries \cup {None}
  BY TypeStep DEF OneTurnInv, OneTurnPerChat, TypeOK, Queues, EntryRecord, Turning, TurnRecord,
     Handlers
<1>a. \A n \in Messages : Underway(n) => routed \in Entries /\ routed = turn[n].entry /\ entry[routed].active
  BY <1>0 DEF OneTurnInv, OneTurnPerChat, TypeOK, Underway
<1>b. \A n \in Messages : handler[n].stage = "routing" =>
          routed \in Entries /\ routed = handler[n].entry /\ ~Evictable(routed)
  BY <1>0 DEF TypeOK, RoutedToEntry
<1>1. ASSUME NEW m \in Messages, Begin(m) \/ ConsumeCommand(m)
      PROVE  OneTurnInv'
  <2>1. \A n \in Messages : handler'[n].stage = "routing" => handler'[n] = handler[n]
    BY <1>0, <1>1 DEF Begin, ConsumeCommand, Idle, Handlers
  <2>2. UNCHANGED <<routed, entry, turn>>
    BY <1>1 DEF Begin, ConsumeCommand
  <2> QED BY <1>0, <2>1, <2>2 DEF OneTurnInv, OneTurnPerChat, NeverConcurrent, RoutedToEntry, Underway, Evictable
<1>2. ASSUME NEW m \in Messages, LookUp(m)
      PROVE  OneTurnInv'
  <2>1. UNCHANGED turn /\ handler' = [handler EXCEPT ![m] = [stage |-> "routing", entry |-> routed']]
    BY <1>2 DEF LookUp
  <2>2. \A n \in Messages : Underway(n)' <=> Underway(n)
    BY <2>1 DEF Underway
  <2>3. CASE routed # None /\ ~Evictable(routed)
    <3>1. UNCHANGED <<routed, entry>>
      BY <1>2, <2>3 DEF LookUp
    <3>2. RoutedToEntry'
      BY <1>0, <2>1, <2>3, <3>1 DEF RoutedToEntry, Evictable, Handlers
    <3> QED BY <1>0, <2>1, <2>2, <3>1, <3>2 DEF OneTurnInv, OneTurnPerChat, NeverConcurrent
  <2>4. CASE ~(routed # None /\ ~Evictable(routed))
    <3>1. PICK e \in Entries : routed' = e /\ entry' = [entry EXCEPT ![e] = NewEntry]
      BY <1>2, <2>4 DEF LookUp
    <3>2. \A n \in Messages : ~Underway(n) /\ handler[n].stage # "routing"
      BY <1>a, <1>b, <2>4 DEF Evictable
    <3>3. entry'[e] = NewEntry
      BY <1>0, <3>1 DEF Queues
    <3>4. ~entry'[e].active /\ entry'[e].idle = "never"
      BY <3>3 DEF NewEntry
    <3>5. RoutedToEntry'
      BY <1>0, <2>1, <3>1, <3>2, <3>4 DEF RoutedToEntry, Evictable, Handlers
    <3> QED BY <1>0, <2>2, <3>1, <3>2, <3>4, <3>5, OneTurnFree
  <2> QED BY <2>3, <2>4
<1>3. ASSUME NEW m \in Messages, Enter(m)
      PROVE  OneTurnInv'
  <2>1. /\ handler[m].stage = "routing" /\ routed \in Entries /\ handler[m].entry = routed
        /\ handler' = [handler EXCEPT ![m] = Idle] /\ UNCHANGED routed
    BY <1>3, <1>b DEF Enter
  <2>2. \A n \in Messages : handler'[n].stage = "routing" => handler'[n] = handler[n]
    BY <1>0, <2>1 DEF Idle, Handlers
  <2>3. CASE entry[routed].active /\ entry' = [entry EXCEPT ![routed].queue = Append(@, m)] /\ UNCHANGED turn
    <3>1. \A e \in Entries : entry'[e].active = entry[e].active /\ entry'[e].idle = entry[e].idle
      BY <1>0, <2>1, <2>3 DEF Queues, EntryRecord
    <3>2. RoutedToEntry'
      BY <1>0, <2>1, <2>2, <3>1 DEF RoutedToEntry, Evictable
    <3> QED
      BY <1>0, <2>1, <2>3, <3>1, <3>2 DEF OneTurnInv, OneTurnPerChat, NeverConcurrent, Underway
  <2>4. CASE /\ ~entry[routed].active
             /\ entry' = [entry EXCEPT ![routed].active = TRUE]
             /\ turn' = [turn EXCEPT ![m] = [stage |-> "reserved", entry |-> routed, current |-> m]]
    <3>1. entry'[routed].active
      BY <1>0, <2>1, <2>4 DEF Queues, EntryRecord
    <3>2. \A n \in Messages : ~Underway(n)
      BY <1>a, <2>4
    <3>3. \A n \in Messages : /\ Underway(n)' <=> n = m
                              /\ Underway(n)' => turn'[n].entry = routed
      BY <1>0, <2>4, <3>2 DEF Underway, Turning
    <3>4. RoutedToEntry'
      BY <1>0, <2>1, <2>2, <3>1 DEF RoutedToEntry, Evictable
    <3> QED BY <1>0, <2>1, <3>1, <3>3, <3>4 DEF OneTurnInv, OneTurnPerChat, NeverConcurrent
  <2> QED BY <1>3, <2>1, <2>3, <2>4 DEF Enter
<1>4. ASSUME NEW m \in Messages, NEW from \in Stages \ {"none"}, NEW to \in Stages \ {"none"},
             Goes(m, from, to), UNCHANGED <<routed, entry, handler>>
      PROVE  OneTurnInv'
  <2>1. turn[m].stage = from
    BY <1>4 DEF Goes
  <2>2. \A n \in Messages : /\ turn'[n].entry = turn[n].entry
                            /\ turn'[n].stage = (IF n = m THEN to ELSE turn[n].stage)
    BY <1>0, <1>4, GoesTyped
  <2>3. \A n \in Messages : turn'[n].stage = "none" <=> turn[n].stage = "none"
    BY <1>4, <2>1, <2>2
  <2> QED BY <1>0, <1>4, <2>2, <2>3, OneTurnKept
<1>5. ASSUME NEW m \in Messages,
             \/ Start(m) \/ Checkpoint(m) \/ Conclude(m) \/ StaySilent(m) \/ Suspend(m)
             \/ RunFails(m) \/ SendFails(m)
      PROVE  OneTurnInv'
  BY <1>4, <1>5 DEF Start, Checkpoint, Conclude, StaySilent, Suspend, RunFails, SendFails, Turns,
     Stages
<1>6. ASSUME NEW m \in Messages, SendFinal(m) \/ Settle(m) \/ AckFails(m)
      PROVE  OneTurnInv'
  BY <1>4, <1>6 DEF SendFinal, Settle, AckFails, Stages
<1>7. ASSUME NEW m \in Messages, TakeUp(m)
      PROVE  OneTurnInv'
  <2>1. CASE Queue(m) = <<>>
    BY <1>4, <1>7, <2>1 DEF TakeUp, Goes, Stages
  <2>2. CASE Queue(m) # <<>>
    <3>1. /\ turn' = [turn EXCEPT ![m].stage = "run", ![m].current = Head(Queue(m))]
          /\ turn[m].stage = "steered"
          /\ entry' = [entry EXCEPT ![turn[m].entry].queue = Tail(@)]
          /\ UNCHANGED <<routed, handler>>
      BY <1>7, <2>2 DEF TakeUp
    <3>2. \A e \in Entries : entry'[e].active = entry[e].active /\ entry'[e].idle = entry[e].idle
      BY <1>0, <3>1 DEF Queues, EntryRecord
    <3>3. \A n \in Messages : /\ turn'[n].entry = turn[n].entry
                              /\ (turn'[n].stage = "none" <=> turn[n].stage = "none")
      BY <1>0, <3>1 DEF Turning, TurnRecord
    <3> QED BY <1>0, <3>1, <3>2, <3>3, OneTurnKept
  <2> QED BY <2>1, <2>2
<1>8. ASSUME NEW m \in Messages, MarkComplete(m)
      PROVE  OneTurnInv'
  <2>1. Underway(m)
    BY <1>8 DEF MarkComplete, Underway
  <2>2. /\ turn' = [turn EXCEPT ![m] = NoTurn] /\ UNCHANGED <<routed, handler>>
        /\ entry' = [entry EXCEPT ![routed].active = FALSE, ![routed].idle = "recent"]
    BY <1>8, <1>a, <2>1 DEF MarkComplete
  <2>3. \A n \in Messages : ~Underway(n)'
    BY <1>0, <2>1, <2>2 DEF Underway, NeverConcurrent, NoTurn, Turning
  <2>4. routed \in Entries
    BY <1>a, <2>1
  <2>5. ~entry'[routed].active /\ entry'[routed].idle = "recent"
    BY <1>0, <2>2, <2>4 DEF Queues, EntryRecord
  <2>6. RoutedToEntry'
    BY <1>0, <2>2, <2>5 DEF RoutedToEntry, Evictable
  <2> QED BY <1>0, <2>2, <2>3, <2>5, <2>6, OneTurnFree
<1>9. ASSUME NEW e \in Entries, NearAge(e) \/ Age(e)
      PROVE  OneTurnInv'
  <2>1. \A n \in Messages : handler[n].entry # e
    BY <1>9 DEF NearAge, Age
  <2>2. UNCHANGED <<routed, handler, turn>>
    BY <1>9 DEF NearAge, Age
  <2>3. \A d \in Entries : /\ entry'[d].active = entry[d].active
                           /\ d # e => entry'[d].idle = entry[d].idle
    <3>1. entry' = [entry EXCEPT ![e].idle = "due"] \/ entry' = [entry EXCEPT ![e].idle = "old"]
      BY <1>9 DEF NearAge, Age
    <3> QED BY <1>0, <3>1 DEF Queues, EntryRecord
  <2>4. RoutedToEntry'
    BY <1>0, <1>b, <2>1, <2>2, <2>3 DEF RoutedToEntry, Evictable
  <2>5. \A n \in Messages : Underway(n)' <=> Underway(n)
    BY <2>2 DEF Underway
  <2>6. NeverConcurrent'
    BY <1>0, <2>5 DEF NeverConcurrent
  <2>7. \A n \in Messages : Underway(n)' => routed' = turn'[n].entry /\ entry'[routed'].active
    BY <1>a, <2>2, <2>3, <2>5
  <2>8. routed' # None /\ entry'[routed'].active => \E n \in Messages : Underway(n)'
    BY <1>0, <2>2, <2>3, <2>5 DEF OneTurnInv, OneTurnPerChat
  <2> QED BY <1>0, <2>4, <2>6, <2>7, <2>8 DEF OneTurnInv, OneTurnPerChat
<1>10. CASE Prune
  <2>1. \A n \in Messages : ~Underway(n) /\ handler[n].stage # "routing"
    BY <1>10, <1>a, <1>b DEF Prune, Evictable
  <2>2. routed' = None /\ UNCHANGED <<handler, turn>>
    BY <1>10 DEF Prune
  <2> QED BY <1>0, <2>1, <2>2, OneTurnFree DEF RoutedToEntry, Underway
<1>11. CASE Crash
  <2>1. /\ routed' = None
        /\ \A n \in Messages : turn'[n].stage = "none" /\ handler'[n].stage = "idle"
    BY <1>11 DEF Crash, NoTurn, Idle
  <2> QED BY <1>0, <2>1, OneTurnFree DEF RoutedToEntry, Underway
<1>12. CASE UNCHANGED vars
  BY <1>0, <1>12, OneTurnKept DEF vars
<1> QED
  BY <1>1, <1>2, <1>3, <1>5, <1>6, <1>7, <1>8, <1>9, <1>10, <1>11, <1>12
     DEF Next, Handle, Advance, Fails

\* A chat has one turn at a time, and the router's map holds the entry of that
\* turn: Router.Route and Handle, whatever the order of handlers, prunes and
\* ends of turns, as long as none of them meets an entry that has just expired.
THEOREM OneTurnAtATime ==
    ASSUME ~AgeWhileRouting
    PROVE  Spec => []OneTurnPerChat
<1>1. OneTurnInv /\ [Next]_vars => OneTurnInv'
  BY OneTurnStep
<1>2. OneTurnInv => OneTurnPerChat
  BY DEF OneTurnInv
<1> QED BY OneTurnInit, <1>1, <1>2, PTL DEF Spec

-----------------------------------------------------------------------------
(* Messages are held once and answered once                                *)

\* No message is in two places of the queues.
Distinct ==
    \A d, e \in Entries : \A i \in DOMAIN entry[d].queue, j \in DOMAIN entry[e].queue :
        entry[d].queue[i] = entry[e].queue[j] => d = e /\ i = j

\* A message in a queue, in a handler, in a run or with a turn of its own to settle
\* is being processed; a handler, a queue and a run or turn exclude one another.
HeldInv ==
    /\ Distinct
    /\ \A m \in Messages :
          /\ Queued(m) \/ Subject(m) \/ handler[m] # Idle \/ Unsettled(m) => seen[m] = "processing"
          /\ handler[m] # Idle => ~Queued(m) /\ ~Subject(m) /\ ~Unsettled(m)
          /\ Queued(m) => ~Subject(m) /\ ~Unsettled(m)

\* A message that was answered stays remembered and is worked on no more.
AnsweredInv ==
    channel = "im" \/ crashes = 0 =>
        \A m \in Messages : answered[m] # 0 =>
            /\ answered[m] = 1
            /\ seen[m] # "absent"
            /\ handler[m] = Idle /\ ~Queued(m) /\ ~Subject(m)
            /\ turn[m].stage \in {"none", "succeeded", "settled"}

MessageInv == HeldInv /\ AnsweredInv

AtWork(n) == Running(n) \/ turn[n].stage = "concluded"

\* Turns at work have different subjects, and none has that of a turn yet to be
\* settled, but its own; what was aborted may not begin before the turn is over.
Apart ==
    /\ \A m, n \in Messages : AtWork(m) /\ AtWork(n) /\ turn[m].current = turn[n].current => m = n
    /\ \A n \in Messages : AtWork(n) => \/ turn[n].current = n
                                        \/ /\ turn[n].current \in Messages
                                           /\ ~Unsettled(turn[n].current)
    /\ \A m \in Messages : turn[m].stage = "aborted" => channel = "websocket" /\ seen[m] = "absent"

LEMMA MessageInit == Init => MessageInv
BY DEF Init, MessageInv, HeldInv, AnsweredInv, Distinct, Queued, Subject, Unsettled, Running, NewEntry,
       NoTurn

\* What is in a queue to which a message is appended, or from which one is taken.
LEMMA AppendParts ==
    ASSUME NEW q \in Seq(Messages), NEW m \in Messages
    PROVE  /\ \A i \in DOMAIN Append(q, m) :
                  \/ i \in DOMAIN q /\ Append(q, m)[i] = q[i]
                  \/ i = Len(q) + 1 /\ Append(q, m)[i] = m
           /\ \A i \in DOMAIN q : i # Len(q) + 1
OBVIOUS

LEMMA TailParts ==
    ASSUME NEW q \in Seq(Messages), q # <<>>
    PROVE  /\ 1 \in DOMAIN q /\ Head(q) = q[1] /\ Head(q) \in Messages
           /\ \A i \in DOMAIN Tail(q) : i \in Nat /\ i + 1 \in DOMAIN q /\ i + 1 # 1
                                        /\ Tail(q)[i] = q[i + 1]
OBVIOUS

\* Nothing new is queued, worked on or handled, and nobody who was answered is
\* touched.
LEMMA MessagesKept ==
    ASSUME MessageInv,
           \A e \in Entries : entry'[e].queue = entry[e].queue \/ entry'[e].queue = <<>>,
           \A n \in Messages :
               /\ Subject(n)' => Subject(n)
               /\ Unsettled(n)' => Unsettled(n)
               /\ handler'[n] # Idle => handler[n] # Idle
               /\ Queued(n)' \/ Subject(n)' \/ handler'[n] # Idle \/ Unsettled(n)' => seen'[n] = seen[n],
           channel' = channel, crashes' = 0 => crashes = 0, answered' = answered,
           channel = "im" \/ crashes' = 0 =>
               \A n \in Messages : answered[n] # 0 =>
                   seen'[n] # "absent" /\ turn'[n].stage \in {"none", "succeeded", "settled"}
    PROVE  MessageInv'
<1>1. \A n \in Messages : Queued(n)' => Queued(n)
  BY DEF Queued
<1>2. Distinct'
  BY DEF MessageInv, HeldInv, Distinct
<1>3. HeldInv'
  BY <1>1, <1>2 DEF MessageInv, HeldInv
<1>4. AnsweredInv'
  BY <1>1 DEF MessageInv, AnsweredInv
<1> QED BY <1>3, <1>4 DEF MessageInv

LEMMA ApartInit == Init => Apart
BY DEF Init, Apart, AtWork, Running, NoTurn

\* No turn goes back to work, takes up another subject or is aborted, and what was
\* aborted does not begin.
LEMMA ApartKept ==
    ASSUME Apart,
           \A n \in Messages : /\ AtWork(n)' => AtWork(n) /\ turn'[n].current = turn[n].current
                               /\ Unsettled(n)' => Unsettled(n)
                               /\ turn'[n].stage = "aborted" =>
                                     /\ turn[n].stage = "aborted" /\ channel' = channel
                                     /\ seen'[n] = seen[n]
    PROVE  Apart'
BY DEF Apart

\* The same when m begins a turn, or its turn takes up what was in a queue.
LEMMA ApartTaken ==
    ASSUME Apart, NEW m \in Messages, NEW c \in Messages,
           c = m \/ (Unsettled(m) /\ ~Unsettled(c)), ~Subject(c), UNCHANGED <<channel, seen>>,
           turn'[m].current = c, turn'[m].stage \in {"reserved", "run"},
           c = m => ~Unsettled(m),
           \A n \in Messages \ {m} : turn'[n].stage = turn[n].stage /\ turn'[n].current = turn[n].current
    PROVE  Apart'
<1>1. \A n \in Messages \ {m} : /\ AtWork(n)' <=> AtWork(n)
                                /\ Unsettled(n)' <=> Unsettled(n)
                                /\ AtWork(n) => turn[n].current # c
  BY DEF AtWork, Running, Unsettled, Subject
<1>2. \A k, n \in Messages : AtWork(k)' /\ AtWork(n)' /\ turn'[k].current = turn'[n].current => k = n
  BY <1>1 DEF Apart
<1>3. ASSUME NEW n \in Messages, AtWork(n)'
      PROVE  \/ turn'[n].current = n
             \/ \E d \in Messages : turn'[n].current = d /\ ~Unsettled(d)'
  <2>1. CASE n = m
    <3>1. CASE c # m
      BY <1>1, <3>1, <2>1
    <3> QED BY <2>1, <3>1
  <2>2. CASE n # m
    <3> DEFINE d == turn[n].current
    <3>1. AtWork(n) /\ turn'[n].current = d /\ d # c
      BY <1>1, <1>3, <2>2
    <3>2. CASE d = n
      BY <3>1, <3>2
    <3>3. CASE d # n
      <4>1. d \in Messages /\ ~Unsettled(d)
        BY <3>1, <3>3 DEF Apart
      <4>2. d # m
        BY <3>1, <4>1
      <4> QED BY <1>1, <3>1, <4>1, <4>2
    <3> QED BY <3>2, <3>3
  <2> QED BY <2>1, <2>2
<1>4. \A n \in Messages : turn'[n].stage = "aborted" => channel' = "websocket" /\ seen'[n] = "absent"
  BY DEF Apart
<1>5. \A n \in Messages : AtWork(n)' => \/ turn'[n].current = n
                                       \/ /\ turn'[n].current \in Messages
                                          /\ ~(Unsettled(turn[n].current)')
  BY <1>3 DEF Unsettled
<1> QED BY <1>2, <1>4, <1>5 DEF Apart

LEMMA ApartStep == TypeOK /\ MessageInv /\ Apart /\ [Next]_vars => Apart'
<1> SUFFICES ASSUME TypeOK, MessageInv, Apart, [Next]_vars PROVE Apart'
  OBVIOUS
<1>0. /\ entry \in Queues /\ turn \in Turning /\ handler \in Handlers
      /\ seen \in [Messages -> {"absent", "processing", "completed"}] /\ channel \in Channels
  BY DEF TypeOK, Queues, EntryRecord, Turning, TurnRecord, Handlers
<1>h. HeldInv
  BY DEF MessageInv
<1>1. ASSUME NEW m \in Messages, Begin(m) \/ ConsumeCommand(m)
      PROVE  Apart'
  <2>1. /\ UNCHANGED <<channel, turn>> /\ \A n \in Messages \ {m} : seen'[n] = seen[n]
        /\ turn[m].stage = "aborted" => channel = "websocket" /\ seen[m] = "absent"
    BY <1>0, <1>1 DEF Begin, ConsumeCommand, counts, Apart
  <2>2. turn[m].stage # "aborted"
    <3>1. CASE Begin(m)
      BY <2>1, <3>1 DEF Begin, ConnectionFree
    <3>2. CASE ConsumeCommand(m)
      BY <2>1, <3>2 DEF ConsumeCommand
    <3> QED BY <1>1, <3>1, <3>2
  <2>3. \A n \in Messages : (AtWork(n)' <=> AtWork(n)) /\ (Unsettled(n)' <=> Unsettled(n))
    BY <2>1 DEF AtWork, Running, Unsettled
  <2> QED BY <2>1, <2>2, <2>3, ApartKept
<1>2. ASSUME UNCHANGED <<channel, seen, turn>>
      PROVE  Apart'
  <2>1. \A n \in Messages : (AtWork(n)' <=> AtWork(n)) /\ (Unsettled(n)' <=> Unsettled(n))
    BY <1>2 DEF AtWork, Running, Unsettled
  <2> QED BY <1>2, <2>1, ApartKept
<1>3. ASSUME NEW m \in Messages, Enter(m)
      PROVE  Apart'
  <2>1. CASE UNCHANGED turn
    BY <1>2, <1>3, <2>1 DEF Enter
  <2>2. CASE turn' = [turn EXCEPT ![m] = [stage |-> "reserved", entry |-> handler[m].entry, current |-> m]]
    <3>1. /\ \A n \in Messages \ {m} : turn'[n] = turn[n]
          /\ turn'[m].stage = "reserved" /\ turn'[m].current = m
      BY <1>0, <2>2 DEF Turning
    <3>2. ~Subject(m) /\ ~Unsettled(m) /\ UNCHANGED <<channel, seen>>
      BY <1>3, <1>h DEF Enter, Idle, HeldInv
    <3> QED BY <3>1, <3>2, ApartTaken
  <2> QED BY <1>3, <2>1, <2>2 DEF Enter
<1>4. ASSUME NEW m \in Messages, NEW from \in {"reserved", "run", "steered", "concluded", "succeeded", "failed"},
             NEW to \in Stages \ {"none", "reserved"}, Goes(m, from, to),
             to \in {"run", "steered", "concluded"} => from \in {"reserved", "run", "steered"},
             channel' = channel, \A n \in Messages \ {m} : seen'[n] = seen[n],
             to = "aborted" => channel = "websocket" /\ seen'[m] = "absent"
      PROVE  Apart'
  <2>1. \A n \in Messages : /\ turn'[n].current = turn[n].current
                            /\ turn'[n].stage = (IF n = m THEN to ELSE turn[n].stage)
    BY <1>0, <1>4, GoesTyped DEF Stages
  <2>2. turn[m].stage = from
    BY <1>4 DEF Goes
  <2>3. \A n \in Messages : (AtWork(n)' => AtWork(n)) /\ (Unsettled(n)' => Unsettled(n))
    BY <1>4, <2>1, <2>2 DEF AtWork, Running, Unsettled
  <2>4. \A n \in Messages : turn'[n].stage = "aborted" => channel' = "websocket" /\ seen'[n] = "absent"
    BY <1>4, <2>1 DEF Apart
  <2> QED BY <2>1, <2>3, <2>4 DEF Apart
<1>5. ASSUME NEW m \in Messages,
             \/ Start(m) \/ Checkpoint(m) \/ Conclude(m) \/ StaySilent(m) \/ Suspend(m)
             \/ RunFails(m) \/ SendFails(m) \/ SendFinal(m) \/ Settle(m) \/ AckFails(m)
      PROVE  Apart'
  <2>1. CASE Start(m) \/ Checkpoint(m) \/ Conclude(m) \/ StaySilent(m) \/ Suspend(m)
    BY <1>4, <2>1 DEF Start, Checkpoint, Conclude, StaySilent, Suspend, Turns, Stages
  <2>2. CASE RunFails(m) \/ SendFails(m) \/ SendFinal(m)
    BY <1>4, <2>2 DEF RunFails, SendFails, SendFinal, Turns, Stages
  <2>3. CASE Settle(m) \/ AckFails(m)
    <3>1. PICK from \in {"succeeded", "failed", "reserved"}, to \in {"settled", "aborted"} :
              /\ Goes(m, from, to)
              /\ to = "aborted" => channel = "websocket" /\ seen' = [seen EXCEPT ![m] = "absent"]
              /\ \E status \in {"completed", "absent"} : seen' = [seen EXCEPT ![m] = status]
              /\ channel' = channel
      BY <2>3 DEF Settle, AckFails
    <3>2. \A n \in Messages \ {m} : seen'[n] = seen[n]
      BY <1>0, <3>1
    <3>3. to = "aborted" => seen'[m] = "absent"
      BY <1>0, <3>1
    <3> QED BY <1>4, <3>1, <3>2, <3>3 DEF Stages
  <2> QED BY <1>5, <2>1, <2>2, <2>3
<1>6. ASSUME NEW m \in Messages, TakeUp(m)
      PROVE  Apart'
  <2>1. CASE Queue(m) = <<>>
    BY <1>4, <1>6, <2>1 DEF TakeUp, Goes, Stages
  <2>2. CASE Queue(m) # <<>>
    <3> DEFINE e == turn[m].entry
               q == entry[e].queue
    <3>1. /\ turn[m].stage = "steered" /\ e \in Entries /\ q # <<>>
          /\ turn' = [turn EXCEPT ![m].stage = "run", ![m].current = Head(q)]
          /\ UNCHANGED <<channel, seen>>
      BY <1>0, <1>6, <2>2 DEF TakeUp, Queue, TypeOK
    <3>2. q \in Seq(Messages)
      BY <1>0, <3>1, EntryUpdate
    <3>h. PICK h \in Messages : h = Head(q) /\ 1 \in DOMAIN q /\ h = q[1]
      BY <3>1, <3>2, TailParts
    <3>3. Queued(h)
      BY <3>1, <3>h DEF Queued
    <3>4. ~Subject(h) /\ ~Unsettled(h) /\ Unsettled(m)
      BY <1>h, <3>1, <3>3 DEF HeldInv, Unsettled
    <3>5. /\ turn'[m].stage = "run" /\ turn'[m].current = h
          /\ \A n \in Messages \ {m} : turn'[n] = turn[n]
      <4>1. turn[m] \in TurnRecord /\ turn' = [turn EXCEPT ![m].stage = "run", ![m].current = h]
        BY <1>0, <3>1, <3>h DEF Turning
      <4> QED BY <1>0, <4>1 DEF Turning, TurnRecord
    <3> HIDE DEF e
    <3> QED BY <3>1, <3>4, <3>5, ApartTaken
  <2> QED BY <2>1, <2>2
<1>7. ASSUME NEW m \in Messages, MarkComplete(m)
      PROVE  Apart'
  <2>1. UNCHANGED <<channel, seen>> /\ turn'[m].stage = "none" /\ \A n \in Messages \ {m} : turn'[n] = turn[n]
    BY <1>0, <1>7 DEF MarkComplete, Turning, NoTurn
  <2>2. \A n \in Messages : (AtWork(n)' => AtWork(n) /\ n # m) /\ (Unsettled(n)' => Unsettled(n))
    BY <2>1 DEF AtWork, Running, Unsettled
  <2> QED BY <2>1, <2>2, ApartKept
<1>8. CASE Crash
  <2>1. \A n \in Messages : turn'[n].stage = "none"
    BY <1>8 DEF Crash, NoTurn
  <2>2. \A n \in Messages : ~AtWork(n)' /\ ~Unsettled(n)'
    BY <2>1 DEF AtWork, Running, Unsettled
  <2> QED BY <2>1, <2>2, ApartKept
<1>9. ASSUME NEW m \in Messages, LookUp(m)
      PROVE  Apart'
  BY <1>2, <1>9 DEF LookUp
<1>10. ASSUME (\E e \in Entries : NearAge(e) \/ Age(e)) \/ Prune \/ UNCHANGED vars
       PROVE  Apart'
  BY <1>2, <1>10 DEF NearAge, Age, Prune, vars
<1> QED
  BY <1>1, <1>3, <1>5, <1>6, <1>7, <1>8, <1>9, <1>10 DEF Next, Handle, Advance, Fails

LEMMA MessageStep == TypeOK /\ Apart /\ MessageInv /\ [Next]_vars => MessageInv'
<1> SUFFICES ASSUME TypeOK, Apart, MessageInv, [Next]_vars PROVE MessageInv'
  OBVIOUS
<1>0. /\ TypeOK
      /\ entry \in Queues /\ turn \in Turning /\ handler \in Handlers
      /\ seen \in [Messages -> {"absent", "processing", "completed"}]
      /\ answered \in [Messages -> Nat] /\ channel \in Channels /\ crashes \in Nat
  BY DEF TypeOK, Queues, EntryRecord, Turning, TurnRecord, Handlers
<1>h. HeldInv /\ AnsweredInv
  BY DEF MessageInv
<1>1. ASSUME NEW m \in Messages, Begin(m)
      PROVE  MessageInv'
  <2>1. /\ handler' = [handler EXCEPT ![m].stage = "begun"]
        /\ seen' = [seen EXCEPT ![m] = "processing"] /\ seen[m] = "absent"
        /\ UNCHANGED <<channel, entry, turn, answered, crashes>>
    BY <1>1 DEF Begin
  <2>2. \A n \in Messages : /\ Queued(n)' <=> Queued(n)
                            /\ Subject(n)' <=> Subject(n)
                            /\ Unsettled(n)' <=> Unsettled(n)
                            /\ n # m => handler'[n] = handler[n] /\ seen'[n] = seen[n]
    BY <1>0, <2>1 DEF Queued, Subject, Unsettled, Running, Handlers
  <2>3. ~Queued(m) /\ ~Subject(m) /\ ~Unsettled(m) /\ seen'[m] = "processing"
    BY <1>0, <1>h, <2>1 DEF HeldInv
  <2>4. HeldInv'
    BY <1>h, <2>1, <2>2, <2>3 DEF HeldInv, Distinct
  <2>5. AnsweredInv'
    BY <1>h, <2>1, <2>2 DEF AnsweredInv
  <2> QED BY <2>4, <2>5 DEF MessageInv
<1>2. ASSUME NEW m \in Messages, ConsumeCommand(m)
      PROVE  MessageInv'
  <2>1. /\ handler[m] # Idle /\ handler' = [handler EXCEPT ![m] = Idle]
        /\ \A n \in Messages \ {m} : seen'[n] = seen[n]
        /\ UNCHANGED <<channel, entry, turn, answered, crashes>>
    BY <1>0, <1>2 DEF ConsumeCommand, Begun, Idle, counts
  <2>2. \A n \in Messages : /\ Queued(n)' <=> Queued(n)
                            /\ Subject(n)' <=> Subject(n)
                            /\ Unsettled(n)' <=> Unsettled(n)
    BY <2>1 DEF Queued, Subject, Unsettled, Running
  <2>3. ~Queued(m) /\ ~Subject(m) /\ ~Unsettled(m)
    BY <1>h, <2>1 DEF HeldInv
  <2>4. \A n \in Messages : handler'[n] = (IF n = m THEN Idle ELSE handler[n])
    BY <1>0, <2>1 DEF Handlers
  <2>5. channel = "im" \/ crashes = 0 => answered[m] = 0
    BY <1>h, <2>1 DEF AnsweredInv
  <2>6. channel = "im" \/ crashes' = 0 =>
            \A n \in Messages : answered[n] # 0 =>
                seen'[n] # "absent" /\ turn'[n].stage \in {"none", "succeeded", "settled"}
    BY <1>h, <2>1, <2>5 DEF AnsweredInv
  <2> QED BY <2>1, <2>2, <2>3, <2>4, <2>6, MessagesKept
<1>3. ASSUME NEW m \in Messages, LookUp(m)
      PROVE  MessageInv'
  <2>1. /\ handler[m] # Idle /\ handler' = [handler EXCEPT ![m] = [stage |-> "routing", entry |-> routed']]
        /\ UNCHANGED <<channel, seen, turn, answered, crashes>>
    BY <1>3 DEF LookUp, Begun, Idle, counts
  <2>2. \A e \in Entries : entry'[e].queue = entry[e].queue \/ entry'[e].queue = <<>>
    <3>1. CASE routed # None /\ ~Evictable(routed)
      BY <1>3, <3>1 DEF LookUp
    <3>2. CASE ~(routed # None /\ ~Evictable(routed))
      <4>1. PICK d \in Entries : entry' = [entry EXCEPT ![d] = NewEntry]
        BY <1>3, <3>2 DEF LookUp
      <4> QED BY <1>0, <4>1 DEF Queues, NewEntry
    <3> QED BY <3>1, <3>2
  <2>3. \A n \in Messages : handler'[n] # Idle => handler[n] # Idle
    BY <1>0, <2>1 DEF Handlers
  <2>4. \A n \in Messages : (Subject(n)' <=> Subject(n)) /\ (Unsettled(n)' <=> Unsettled(n))
    BY <2>1 DEF Subject, Unsettled, Running
  <2>5. channel = "im" \/ crashes' = 0 =>
            \A n \in Messages : answered[n] # 0 =>
                seen'[n] # "absent" /\ turn'[n].stage \in {"none", "succeeded", "settled"}
    BY <1>h, <2>1 DEF AnsweredInv
  <2> QED BY <2>1, <2>2, <2>3, <2>4, <2>5, MessagesKept
<1>4. ASSUME NEW m \in Messages, Enter(m)
      PROVE  MessageInv'
  <2> DEFINE e == handler[m].entry
  <2>1. /\ handler[m] # Idle /\ e \in Entries /\ handler' = [handler EXCEPT ![m] = Idle]
        /\ UNCHANGED <<channel, seen, answered, crashes>>
    BY <1>0, <1>4 DEF Enter, Idle, TypeOK, counts
  <2>2. ~Queued(m) /\ ~Subject(m) /\ ~Unsettled(m) /\ seen[m] = "processing"
    BY <1>h, <2>1 DEF HeldInv
  <2>3. channel = "im" \/ crashes = 0 => answered[m] = 0
    BY <1>h, <2>1 DEF AnsweredInv
  <2>4. \A n \in Messages : handler'[n] = (IF n = m THEN Idle ELSE handler[n])
    BY <1>0, <2>1 DEF Handlers
  <2>5. CASE entry' = [entry EXCEPT ![e].queue = Append(@, m)] /\ UNCHANGED turn
    <3> DEFINE q == entry[e].queue
    <3>1. q \in Seq(Messages)
      BY <1>0, <2>1, EntryUpdate
    <3>2. \A d \in Entries : entry'[d].queue = (IF d = e THEN Append(q, m) ELSE entry[d].queue)
      BY <1>0, <2>1, <2>5 DEF Queues, EntryRecord
    <3> HIDE DEF e
    <3>3. /\ \A i \in DOMAIN Append(q, m) :
                 \/ i \in DOMAIN q /\ Append(q, m)[i] = q[i]
                 \/ i = Len(q) + 1 /\ Append(q, m)[i] = m
          /\ \A i \in DOMAIN q : i # Len(q) + 1
      <4> HIDE DEF q
      <4> QED BY <3>1, AppendParts
    <3>4. \A n \in Messages : Queued(n)' => Queued(n) \/ n = m
      BY <2>1, <3>2, <3>3 DEF Queued
    <3>5. \A d \in Entries : \A i \in DOMAIN entry[d].queue : entry[d].queue[i] # m
      BY <2>2 DEF Queued
    <3>6. Distinct'
      <4> SUFFICES ASSUME NEW c \in Entries, NEW d \in Entries,
                          NEW i \in DOMAIN entry'[c].queue, NEW j \in DOMAIN entry'[d].queue,
                          entry'[c].queue[i] = entry'[d].queue[j]
                   PROVE  c = d /\ i = j
        BY DEF Distinct
      <4>1. \/ i \in DOMAIN entry[c].queue /\ entry'[c].queue[i] = entry[c].queue[i]
            \/ c = e /\ i = Len(q) + 1 /\ entry'[c].queue[i] = m
        BY <3>2, <3>3
      <4>2. \/ j \in DOMAIN entry[d].queue /\ entry'[d].queue[j] = entry[d].queue[j]
            \/ d = e /\ j = Len(q) + 1 /\ entry'[d].queue[j] = m
        BY <3>2, <3>3
      <4> HIDE DEF q
      <4> QED BY <1>h, <3>5, <4>1, <4>2 DEF HeldInv, Distinct
    <3>7. \A n \in Messages : (Subject(n)' <=> Subject(n)) /\ (Unsettled(n)' <=> Unsettled(n))
      BY <2>5 DEF Subject, Unsettled, Running
    <3>8. HeldInv'
      BY <1>h, <2>1, <2>2, <2>4, <3>4, <3>6, <3>7 DEF HeldInv
    <3>9. AnsweredInv'
      BY <1>h, <2>1, <2>3, <2>4, <2>5, <3>4, <3>7 DEF AnsweredInv
    <3> QED BY <3>8, <3>9 DEF MessageInv
  <2>6. CASE /\ ~entry[e].active /\ entry' = [entry EXCEPT ![e].active = TRUE]
             /\ turn' = [turn EXCEPT ![m] = [stage |-> "reserved", entry |-> e, current |-> m]]
    <3>1. \A d \in Entries : entry'[d].queue = entry[d].queue
      BY <1>0, <2>1, <2>6 DEF Queues, EntryRecord
    <3>2. \A n \in Messages : Queued(n)' <=> Queued(n)
      BY <3>1 DEF Queued
    <3>3. Distinct'
      BY <1>h, <3>1 DEF HeldInv, Distinct
    <3>4. \A n \in Messages :
              /\ turn'[n].stage = (IF n = m THEN "reserved" ELSE turn[n].stage)
              /\ turn'[n].current = (IF n = m THEN m ELSE turn[n].current)
      BY <1>0, <2>6 DEF Turning
    <3>5. \A n \in Messages : Subject(n)' => Subject(n) \/ n = m
      BY <3>4 DEF Subject, Running
    <3>6. \A n \in Messages : Unsettled(n)' => Unsettled(n) \/ n = m
      BY <3>4 DEF Unsettled
    <3>7. HeldInv'
      BY <1>h, <2>1, <2>2, <2>4, <3>2, <3>3, <3>5, <3>6 DEF HeldInv
    <3>8. AnsweredInv'
      BY <1>h, <2>1, <2>3, <2>4, <3>2, <3>4, <3>5 DEF AnsweredInv
    <3> QED BY <3>7, <3>8 DEF MessageInv
  <2> QED BY <1>4, <2>5, <2>6 DEF Enter
<1>5. ASSUME NEW m \in Messages, NEW from \in {"reserved", "run", "steered", "concluded"},
             NEW to \in {"run", "steered", "concluded", "succeeded", "failed"},
             from = "concluded" => to \in {"succeeded", "failed"},
             Goes(m, from, to),
             UNCHANGED <<channel, seen, handler, entry, answered, crashes>>
      PROVE  MessageInv'
  <2>1. from \in Stages \ {"none"} /\ to \in Stages \ {"none"}
    BY DEF Stages
  <2>2. \A n \in Messages : /\ turn'[n].current = turn[n].current
                            /\ turn'[n].stage = (IF n = m THEN to ELSE turn[n].stage)
    BY <1>0, <1>5, <2>1, GoesTyped
  <2>3. turn[m].stage = from
    BY <1>5 DEF Goes
  <2>4. \A n \in Messages : (Subject(n)' => Subject(n)) /\ (Unsettled(n)' => Unsettled(n))
    BY <1>5, <2>2, <2>3 DEF Subject, Unsettled, Running
  <2>5. channel = "im" \/ crashes' = 0 =>
            \A n \in Messages : answered[n] # 0 =>
                seen'[n] # "absent" /\ turn'[n].stage \in {"none", "succeeded", "settled"}
    BY <1>h, <1>5, <2>2, <2>3 DEF AnsweredInv
  <2> QED BY <1>5, <2>4, <2>5, MessagesKept
<1>6. ASSUME NEW m \in Messages,
             \/ Start(m) \/ Checkpoint(m) \/ Conclude(m) \/ StaySilent(m) \/ Suspend(m)
             \/ RunFails(m) \/ SendFails(m)
      PROVE  MessageInv'
  BY <1>5, <1>6 DEF Start, Checkpoint, Conclude, StaySilent, Suspend, RunFails, SendFails, Turns, counts
<1>7. ASSUME NEW m \in Messages, TakeUp(m)
      PROVE  MessageInv'
  <2>1. CASE Queue(m) = <<>>
    BY <1>5, <1>7, <2>1 DEF TakeUp, Goes, counts
  <2>2. CASE Queue(m) # <<>>
    <3> DEFINE e == turn[m].entry
               q == entry[e].queue
    <3>1. /\ turn[m].stage = "steered" /\ e \in Entries /\ q # <<>>
          /\ turn' = [turn EXCEPT ![m].stage = "run", ![m].current = Head(q)]
          /\ entry' = [entry EXCEPT ![e].queue = Tail(@)]
          /\ UNCHANGED <<channel, seen, handler, answered, crashes>>
      BY <1>0, <1>7, <2>2 DEF TakeUp, Queue, TypeOK, counts
    <3>2. q \in Seq(Messages)
      BY <1>0, <3>1, EntryUpdate
    <3>h. PICK h \in Messages : h = Head(q)
      BY <3>1, <3>2, TailParts
    <3>3. \A n \in Messages :
              /\ turn'[n].stage = (IF n = m THEN "run" ELSE turn[n].stage)
              /\ turn'[n].current = (IF n = m THEN h ELSE turn[n].current)
      <4>1. turn[m] \in TurnRecord /\ turn' = [turn EXCEPT ![m].stage = "run", ![m].current = h]
        BY <1>0, <3>1, <3>h DEF Turning
      <4> QED BY <1>0, <4>1 DEF Turning, TurnRecord
    <3>4. \A d \in Entries : entry'[d].queue = (IF d = e THEN Tail(q) ELSE entry[d].queue)
      BY <1>0, <3>1 DEF Queues, EntryRecord
    <3> HIDE DEF e
    <3>5. /\ 1 \in DOMAIN q /\ h = q[1]
          /\ \A i \in DOMAIN Tail(q) : i \in Nat /\ i + 1 \in DOMAIN q /\ i + 1 # 1
                                       /\ Tail(q)[i] = q[i + 1]
      <4> HIDE DEF q
      <4> QED BY <3>1, <3>2, <3>h, TailParts
    <3>6. Queued(h)
      BY <3>1, <3>5 DEF Queued
    <3>7. ~Subject(h) /\ ~Unsettled(h) /\ handler[h] = Idle /\ seen[h] = "processing"
      BY <1>h, <3>5, <3>6 DEF HeldInv
    <3>8. \A d \in Entries : \A i \in DOMAIN entry'[d].queue :
              \E k \in DOMAIN entry[d].queue : /\ entry'[d].queue[i] = entry[d].queue[k]
                                               /\ k = (IF d = e THEN i + 1 ELSE i)
                                               /\ d = e => k # 1 /\ i \in Nat
      BY <3>4, <3>5
    <3>9. \A n \in Messages : Queued(n)' => Queued(n)
      BY <3>8 DEF Queued
    <3>10. ~Queued(h)'
      <4>1. ASSUME NEW d \in Entries, NEW i \in DOMAIN entry'[d].queue, entry'[d].queue[i] = h
            PROVE  FALSE
        <5>1. PICK k \in DOMAIN entry[d].queue : /\ h = entry[d].queue[k]
                                                 /\ d = e => k # 1
          BY <3>8, <4>1
        <5>2. entry[e].queue[1] = entry[d].queue[k] /\ 1 \in DOMAIN entry[e].queue
          BY <3>5, <5>1
        <5>3. d = e /\ k = 1
          BY <1>h, <3>1, <5>1, <5>2 DEF HeldInv, Distinct
        <5> QED BY <5>1, <5>3
      <4> QED BY <4>1 DEF Queued
    <3>11. Distinct'
      <4> SUFFICES ASSUME NEW c \in Entries, NEW d \in Entries,
                          NEW i \in DOMAIN entry'[c].queue, NEW j \in DOMAIN entry'[d].queue,
                          entry'[c].queue[i] = entry'[d].queue[j]
                   PROVE  c = d /\ i = j
        BY DEF Distinct
      <4>1. PICK k \in DOMAIN entry[c].queue : /\ entry'[c].queue[i] = entry[c].queue[k]
                                               /\ k = (IF c = e THEN i + 1 ELSE i)
                                               /\ c = e => i \in Nat
        BY <3>8
      <4>2. PICK l \in DOMAIN entry[d].queue : /\ entry'[d].queue[j] = entry[d].queue[l]
                                               /\ l = (IF d = e THEN j + 1 ELSE j)
                                               /\ d = e => j \in Nat
        BY <3>8
      <4>3. entry[c].queue[k] = entry[d].queue[l]
        BY <4>1, <4>2
      <4>4. c = d /\ k = l
        BY <1>h, <4>3 DEF HeldInv, Distinct
      <4>5. CASE c = e
        BY <4>1, <4>2, <4>4, <4>5
      <4>6. CASE c # e
        BY <4>1, <4>2, <4>4, <4>6
      <4> QED BY <4>5, <4>6
    <3>12. \A n \in Messages : Subject(n)' => Subject(n) \/ n = h
      BY <3>3 DEF Subject, Running
    <3>13. \A n \in Messages : Unsettled(n)' => Unsettled(n)
      BY <3>1, <3>3 DEF Unsettled
    <3>14. HeldInv'
      <4> SUFFICES ASSUME NEW n \in Messages
                   PROVE  /\ Queued(n)' \/ Subject(n)' \/ handler[n] # Idle \/ Unsettled(n)'
                                => seen[n] = "processing"
                          /\ handler[n] # Idle => ~Queued(n)' /\ ~Subject(n)' /\ ~Unsettled(n)'
                          /\ Queued(n)' => ~Subject(n)' /\ ~Unsettled(n)'
        BY <3>1, <3>11 DEF HeldInv
      <4>1. CASE n = h
        BY <3>7, <3>10, <3>13, <4>1
      <4>2. CASE n # h
        BY <1>h, <3>9, <3>12, <3>13, <4>2 DEF HeldInv
      <4> QED BY <4>1, <4>2
    <3>15. AnsweredInv'
      <4> SUFFICES ASSUME channel = "im" \/ crashes = 0, NEW n \in Messages, answered[n] # 0
                   PROVE  /\ answered[n] = 1
                          /\ seen[n] # "absent"
                          /\ handler[n] = Idle /\ ~Queued(n)' /\ ~Subject(n)'
                          /\ turn'[n].stage \in {"none", "succeeded", "settled"}
        BY <3>1 DEF AnsweredInv
      <4>1. n # h /\ n # m
        BY <1>h, <3>1, <3>6 DEF AnsweredInv
      <4> QED BY <1>h, <3>3, <3>9, <3>12, <4>1 DEF AnsweredInv
    <3> QED BY <3>14, <3>15 DEF MessageInv
  <2> QED BY <2>1, <2>2
<1>8. ASSUME NEW m \in Messages, NEW from \in {"succeeded", "failed", "reserved"},
             Goes(m, from, "settled") \/ Goes(m, from, "aborted")
      PROVE  /\ \A n \in Messages : (Subject(n)' => Subject(n)) /\ (Unsettled(n)' => Unsettled(n))
             /\ ~Subject(m)' /\ ~Unsettled(m)'
             /\ turn[m].stage = from
             /\ \A n \in Messages \ {m} : turn'[n].stage = turn[n].stage
  <2>1. /\ \A n \in Messages : turn'[n].current = turn[n].current
        /\ turn'[m].stage \in {"settled", "aborted"}
        /\ \A n \in Messages \ {m} : turn'[n].stage = turn[n].stage
    BY <1>0, <1>8, GoesTyped DEF Stages
  <2>2. turn[m].stage = from
    BY <1>8 DEF Goes
  <2>3. \A n \in Messages : (AtWork(n)' => AtWork(n) /\ n # m) /\ (Unsettled(n)' => Unsettled(n))
    BY <2>1 DEF AtWork, Running, Unsettled
  <2>4. \A n \in Messages : n # m /\ AtWork(n) => turn[n].current # m
    BY <2>2 DEF Apart, Unsettled
  <2>5. \A n \in Messages : Subject(n) <=> \E k \in Messages : AtWork(k) /\ turn[k].current = n
    BY DEF Subject, AtWork
  <2>6. \A n \in Messages : Subject(n)' <=> \E k \in Messages : AtWork(k)' /\ turn'[k].current = n
    BY DEF Subject, AtWork
  <2>7. ~Unsettled(m)'
    BY <2>1 DEF Unsettled
  <2> QED BY <2>1, <2>2, <2>3, <2>4, <2>5, <2>6, <2>7
<1>9. ASSUME NEW m \in Messages, Settle(m) \/ AckFails(m)
      PROVE  MessageInv'
  <2>1. PICK from \in {"succeeded", "failed", "reserved"} :
            /\ Goes(m, from, "settled") \/ Goes(m, from, "aborted")
            /\ from = "succeeded" => Goes(m, from, "settled") /\ seen' = [seen EXCEPT ![m] = "completed"]
            /\ from # "succeeded" => seen' = [seen EXCEPT ![m] = "absent"]
    BY <1>9 DEF Settle, AckFails
  <2>2. Unsettled(m)
    BY <2>1 DEF Goes, Unsettled
  <2>4. /\ \A n \in Messages : (Subject(n)' => Subject(n)) /\ (Unsettled(n)' => Unsettled(n))
        /\ ~Subject(m)' /\ ~Unsettled(m)'
        /\ turn[m].stage = from
        /\ \A n \in Messages \ {m} : turn'[n].stage = turn[n].stage
    BY <1>8, <2>1
  <2>5. UNCHANGED <<channel, handler, entry, answered, crashes>>
    BY <1>9 DEF Settle, AckFails, counts
  <2>6. \A n \in Messages \ {m} : seen'[n] = seen[n]
    BY <1>0, <2>1
  <2>7. ~Queued(m) /\ ~Queued(m)' /\ handler[m] = Idle
    BY <1>h, <2>2, <2>5 DEF HeldInv, Queued
  <2>8. channel = "im" \/ crashes' = 0 =>
            \A n \in Messages : answered[n] # 0 =>
                seen'[n] # "absent" /\ turn'[n].stage \in {"none", "succeeded", "settled"}
    <3>1. ASSUME channel = "im" \/ crashes = 0, answered[m] # 0
          PROVE  from = "succeeded"
      BY <1>h, <2>1, <2>4, <3>1 DEF AnsweredInv
    <3>2. ASSUME from = "succeeded"
          PROVE  seen'[m] = "completed" /\ turn'[m].stage = "settled"
      BY <1>0, <2>1, <3>2, GoesTyped DEF Stages
    <3> QED BY <1>h, <2>4, <2>5, <2>6, <3>1, <3>2 DEF AnsweredInv
  <2> QED BY <2>4, <2>5, <2>6, <2>7, <2>8, MessagesKept
<1>10. ASSUME NEW m \in Messages, SendFinal(m)
       PROVE  MessageInv'
  <2> DEFINE c == turn[m].current
  <2>1. /\ Goes(m, "concluded", "succeeded") /\ turn[m].stage = "concluded"
        /\ answered' = [answered EXCEPT ![c] = @ + 1]
        /\ UNCHANGED <<channel, seen, handler, entry, crashes>>
    BY <1>10 DEF SendFinal, Goes, counts
  <2>2. \A n \in Messages : /\ turn'[n].current = turn[n].current
                            /\ turn'[n].stage = (IF n = m THEN "succeeded" ELSE turn[n].stage)
    BY <1>0, <2>1, GoesTyped DEF Stages
  <2>3. \A n \in Messages : AtWork(n)' <=> AtWork(n) /\ n # m
    BY <2>1, <2>2 DEF AtWork, Running
  <2>4. /\ \A n \in Messages : /\ Subject(n)' => Subject(n) /\ n # c
                               /\ Unsettled(n)' => Unsettled(n)
                               /\ Queued(n)' <=> Queued(n)
    <3>1. AtWork(m)
      BY <2>1 DEF AtWork
    <3>2. \A n \in Messages : n # m /\ AtWork(n) => turn[n].current # c
      BY <3>1 DEF Apart
    <3>3. \A n \in Messages : Subject(n) <=> \E k \in Messages : AtWork(k) /\ turn[k].current = n
      BY DEF Subject, AtWork
    <3>4. \A n \in Messages : Subject(n)' <=> \E k \in Messages : AtWork(k)' /\ turn'[k].current = n
      BY DEF Subject, AtWork
    <3>5. \A n \in Messages : Subject(n)' => Subject(n) /\ n # c
      BY <2>2, <2>3, <3>2, <3>3, <3>4
    <3>6. \A n \in Messages : (Unsettled(n)' => Unsettled(n)) /\ (Queued(n)' <=> Queued(n))
      BY <2>1, <2>2 DEF Unsettled, Queued
    <3> QED BY <3>5, <3>6
  <2>5. HeldInv'
    BY <1>h, <2>1, <2>4 DEF HeldInv, Distinct
  <2>7. ASSUME c \in Messages
        PROVE  /\ Subject(c) /\ seen[c] = "processing" /\ handler[c] = Idle /\ ~Queued(c)
               /\ turn'[c].stage \in {"none", "succeeded", "settled"}
    <3>1. Subject(c) /\ AtWork(m)
      BY <2>1, <2>7 DEF Subject, AtWork
    <3>2. seen[c] = "processing" /\ handler[c] = Idle /\ ~Queued(c)
      BY <1>h, <2>7, <3>1 DEF HeldInv
    <3>3. turn[c].stage # "aborted" /\ (c # m => ~Unsettled(c))
      BY <2>7, <3>1, <3>2 DEF Apart
    <3>4. turn[c].stage \in Stages
      BY <1>0, <2>7 DEF Turning, TurnRecord
    <3> QED BY <2>2, <2>7, <3>1, <3>2, <3>3, <3>4 DEF Unsettled, Stages
  <2>8. AnsweredInv'
    <3> SUFFICES ASSUME channel = "im" \/ crashes = 0, NEW n \in Messages, answered'[n] # 0
                 PROVE  /\ answered'[n] = 1
                        /\ seen[n] # "absent"
                        /\ handler[n] = Idle /\ ~Queued(n)' /\ ~Subject(n)'
                        /\ turn'[n].stage \in {"none", "succeeded", "settled"}
      BY <2>1 DEF AnsweredInv
    <3>1. CASE n = c
      <4>1. answered[c] = 0
        BY <1>h, <2>7, <3>1 DEF AnsweredInv
      <4>2. answered'[c] = 1
        BY <1>0, <2>1, <3>1, <4>1
      <4> QED BY <2>4, <2>7, <3>1, <4>2
    <3>2. CASE n # c
      <4>1. answered'[n] = answered[n]
        BY <1>0, <2>1, <3>2
      <4> QED BY <1>h, <2>1, <2>2, <2>4, <4>1 DEF AnsweredInv
    <3> QED BY <3>1, <3>2
  <2> QED BY <2>5, <2>8 DEF MessageInv
<1>11. ASSUME NEW m \in Messages, MarkComplete(m)
       PROVE  MessageInv'
  <2>1. /\ turn' = [turn EXCEPT ![m] = NoTurn]
        /\ UNCHANGED <<channel, seen, handler, answered, crashes>>
    BY <1>11 DEF MarkComplete, counts
  <2>2. \A e \in Entries : entry'[e].queue = entry[e].queue
    <3>1. CASE routed = None
      BY <1>11, <3>1 DEF MarkComplete
    <3>2. CASE routed # None
      <4>1. entry' = [entry EXCEPT ![routed].active = FALSE, ![routed].idle = "recent"]
        BY <1>11, <3>2 DEF MarkComplete
      <4> QED BY <1>0, <4>1 DEF Queues, EntryRecord
    <3> QED BY <3>1, <3>2
  <2>3. \A n \in Messages : /\ n # m => turn'[n] = turn[n]
                            /\ turn'[m].stage = "none"
    BY <1>0, <2>1 DEF Turning, NoTurn
  <2>4. \A n \in Messages : (Subject(n)' => Subject(n)) /\ (Unsettled(n)' => Unsettled(n))
    BY <2>3 DEF Subject, Unsettled, Running
  <2>5. channel = "im" \/ crashes' = 0 =>
            \A n \in Messages : answered[n] # 0 =>
                seen'[n] # "absent" /\ turn'[n].stage \in {"none", "succeeded", "settled"}
    BY <1>h, <2>1, <2>3 DEF AnsweredInv
  <2> QED BY <2>1, <2>2, <2>4, <2>5, MessagesKept
<1>12. ASSUME (\E e \in Entries : NearAge(e) \/ Age(e)) \/ Prune \/ UNCHANGED vars
       PROVE  MessageInv'
  <2>1. UNCHANGED <<channel, seen, handler, turn, answered, crashes>>
    BY <1>12 DEF NearAge, Age, Prune, vars, counts
  <2>2. \A e \in Entries : entry'[e].queue = entry[e].queue
    <3>1. ASSUME NEW e \in Entries, NearAge(e) \/ Age(e)
          PROVE  \A d \in Entries : entry'[d].queue = entry[d].queue
      <4>1. CASE entry' = [entry EXCEPT ![e].idle = "due"]
        BY <1>0, <4>1 DEF Queues, EntryRecord
      <4>2. CASE entry' = [entry EXCEPT ![e].idle = "old"]
        BY <1>0, <4>2 DEF Queues, EntryRecord
      <4> QED BY <3>1, <4>1, <4>2 DEF NearAge, Age
    <3>2. CASE Prune \/ UNCHANGED vars
      BY <3>2 DEF Prune, vars
    <3> QED BY <1>12, <3>1, <3>2
  <2>3. \A n \in Messages : (Subject(n)' <=> Subject(n)) /\ (Unsettled(n)' <=> Unsettled(n))
    BY <2>1 DEF Subject, Unsettled, Running
  <2>4. channel = "im" \/ crashes' = 0 =>
            \A n \in Messages : answered[n] # 0 =>
                seen'[n] # "absent" /\ turn'[n].stage \in {"none", "succeeded", "settled"}
    BY <1>h, <2>1 DEF AnsweredInv
  <2> QED BY <2>1, <2>2, <2>3, <2>4, MessagesKept
<1>13. CASE Crash
  <2>1. /\ \A n \in Messages : turn'[n].stage = "none" /\ handler'[n] = Idle
        /\ \A e \in Entries : entry'[e].queue = <<>>
        /\ crashes' # 0 /\ UNCHANGED <<channel, answered>>
        /\ channel = "im" => seen' = seen
    BY <1>0, <1>13 DEF Crash, NoTurn, NewEntry
  <2>2. \A n \in Messages : ~Subject(n)' /\ ~Unsettled(n)' /\ ~Queued(n)'
    BY <2>1 DEF Subject, Unsettled, Running, Queued
  <2>3. channel = "im" \/ crashes' = 0 =>
            \A n \in Messages : answered[n] # 0 =>
                seen'[n] # "absent" /\ turn'[n].stage \in {"none", "succeeded", "settled"}
    BY <1>h, <2>1 DEF AnsweredInv
  <2> QED BY <2>1, <2>2, <2>3, MessagesKept
<1> QED
  BY <1>1, <1>2, <1>3, <1>4, <1>6, <1>7, <1>9, <1>10, <1>11, <1>12, <1>13
     DEF Next, Handle, Advance, Fails

LEMMA HeldAndAnswered == TypeOK /\ MessageInv => AnsweredOnce
<1> SUFFICES ASSUME TypeOK, MessageInv PROVE AnsweredOnce
  OBVIOUS
<1>1. answered \in [Messages -> Nat]
  BY DEF TypeOK
<1>2. \A m \in Messages : WorkedOn(m) => Subject(m)
  BY DEF WorkedOn, Subject
<1>3. HeldOnce
  BY <1>2 DEF MessageInv, HeldInv, Distinct, HeldOnce
<1>4. channel = "im" \/ crashes = 0 => \A m \in Messages : answered[m] <= 1
  <2>1. channel = "im" \/ crashes = 0 => \A m \in Messages : answered[m] = 0 \/ answered[m] = 1
    BY DEF MessageInv, AnsweredInv
  <2>2. \A k \in Nat : k = 0 \/ k = 1 => k <= 1
    OBVIOUS
  <2> QED BY <1>1, <2>1, <2>2
<1> QED BY <1>3, <1>4 DEF AnsweredOnce

\* A message is held in one place and answered once, however often the platform
\* delivers it and whichever turn takes it up: what the deduper, the steering queue
\* and the restart loop of the turn engine promise together, even when the router
\* lets two turns run.
THEOREM MessagesAnsweredOnce == Spec => []AnsweredOnce
BY TypeInit, TypeStep, ApartInit, ApartStep, MessageInit, MessageStep, HeldAndAnswered, PTL DEF Spec

=============================================================================
