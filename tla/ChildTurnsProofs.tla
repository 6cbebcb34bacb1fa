------------------------- MODULE ChildTurnsProofs -------------------------
(***************************************************************************)
(* Proofs about ChildTurns, for any number of children, runs and slots:    *)
(* the slots of a run are those its children hold (SlotsMatch) and a run   *)
(* does not lose the results of its children (ResultsKept).                *)
(*                                                                         *)
(* A run may end while its children still hold slots, and the next run     *)
(* begins with new ones; what keeps the two apart is that a tool call at   *)
(* work belongs to the current run (CallsOfRun) and that no child belongs  *)
(* to a run that has not begun (RunsSoFar).  That no child is left running *)
(* rests on the registry: a child is in it, or was when it was last        *)
(* emptied, and then it is canceled (Reachable).  The bound on runs needs  *)
(* RunToCome.                                                              *)
(***************************************************************************)
EXTENDS ChildTurns, FiniteSetTheorems, TLAPS

\* No child belongs to a run that has not begun.
RunsSoFar == \A c \in Children : child[c].run # None => child[c].run <= run

\* A tool call at work belongs to the current run, which is not over.
CallsOfRun == \A c \in Children : InCall(c) => child[c].run = run /\ phase = "running"

\* The counter of a run is the number of its holders; there are finitely many.
SlotsCounted ==
    \A r \in 1..MaxRuns : /\ IsFiniteSet(HoldersOf(r))
                          /\ slots[r] = Cardinality(HoldersOf(r))
                          /\ slots[r] <= MaxParallel

\* The turn engine can still cancel a running child, or has done so; it has when
\* the child's run is not the current one or the engine is past its cancellation.
Reachable ==
    \A c \in Children :
        At(c, "running") =>
            /\ c \in registry \/ child[c].canceled
            /\ (child[c].run # run \/ phase \in {"quieted", "idle"}) => child[c].canceled

\* A run is interrupted only when there may be another (the bound on runs).
RunToCome == phase \in {"steered", "quieted"} => run < MaxRuns

\* A result says "waiting" only if the child has asked.
WaitingAsked ==
    \A c \in Children : child[c].result = "waiting" \/ results[c] = "waiting" => c \in asked

\* The inductive invariant.
ChildInv ==
    /\ TypeOK
    /\ RunsSoFar
    /\ CallsOfRun
    /\ SlotsCounted
    /\ Reachable
    /\ WaitingAsked
    /\ RunToCome
    /\ ResultsKept

-----------------------------------------------------------------------------
(* Types                                                                   *)

\* The record of one child.
Kid == [stage : {"none", "checked", "reserved", "running", "returned",
                 "delivered", "unregistered", "gone"},
        run : 1..MaxRuns \cup {None}, canceled : BOOLEAN, result : Outcomes \cup {None}]

LEMMA KidTyped == TypeOK => child \in [Children -> Kid]
  BY DEF TypeOK, Kid

\* An update of one child at a record of the type keeps the type of all.
LEMMA OneKid ==
    ASSUME TypeOK, NEW c \in Children, NEW k \in Kid, child' = [child EXCEPT ![c] = k]
    PROVE  /\ child' \in [Children -> Kid]
           /\ child'[c] = k
           /\ \A d \in Children \ {c} : child'[d] = child[d]
  BY KidTyped

\* What a step writes to the child it is about.  A rejected call starts over.
LEMMA Writes ==
    ASSUME TypeOK, NEW c \in Children
    PROVE  /\ CheckOutstanding(c) =>
                child' = [child EXCEPT ![c] = [child[c] EXCEPT !.stage = "checked", !.run = run]]
           /\ (ReserveSlot(c) /\ slots[run] < MaxParallel) =>
                child' = [child EXCEPT ![c] = [child[c] EXCEPT !.stage = "reserved"]]
           /\ (ReserveSlot(c) /\ ~(slots[run] < MaxParallel)) =>
                child' = [child EXCEPT ![c] = NotSpawned]
           /\ Spawn(c) => child' = [child EXCEPT ![c] = [child[c] EXCEPT !.stage = "running"]]
           /\ Return(c) =>
                child' = [child EXCEPT ![c] =
                            [child[c] EXCEPT !.stage = "returned", !.result = "ended"]]
           /\ AskHuman(c) =>
                child' = [child EXCEPT ![c] =
                            [child[c] EXCEPT !.stage = "returned", !.result = "waiting"]]
           /\ Deliver(c) => child' = [child EXCEPT ![c] = [child[c] EXCEPT !.stage = "delivered"]]
           /\ Unregister(c) =>
                child' = [child EXCEPT ![c] = [child[c] EXCEPT !.stage = "unregistered"]]
           /\ ReleaseSlot(c) => child' = [child EXCEPT ![c] = [child[c] EXCEPT !.stage = "gone"]]
  BY KidTyped DEF CheckOutstanding, ReserveSlot, Spawn, Return, AskHuman, Returns, Deliver,
                  Unregister, ReleaseSlot, Kid

\* The step is about c: its fields afterwards, and nothing of another child changes.
Becomes(c, stage, r, canceled, result) ==
    /\ child' \in [Children -> Kid]
    /\ child'[c].stage = stage /\ child'[c].run = r
    /\ child'[c].canceled = canceled /\ child'[c].result = result
    /\ \A d \in Children \ {c} : child'[d] = child[d]

\* A step keeps all fields of c but its stage.
MovesTo(c, stage) == Becomes(c, stage, child[c].run, child[c].canceled, child[c].result)

LEMMA Lands ==
    ASSUME TypeOK, NEW c \in Children, NEW k \in Kid, child' = [child EXCEPT ![c] = k]
    PROVE  Becomes(c, k.stage, k.run, k.canceled, k.result)
  BY OneKid DEF Becomes

LEMMA After ==
    ASSUME TypeOK, NEW c \in Children
    PROVE  /\ CheckOutstanding(c) =>
                Becomes(c, "checked", run, child[c].canceled, child[c].result)
           /\ (ReserveSlot(c) /\ slots[run] < MaxParallel) => MovesTo(c, "reserved")
           /\ (ReserveSlot(c) /\ ~(slots[run] < MaxParallel)) =>
                Becomes(c, "none", None, FALSE, None)
           /\ Spawn(c) => MovesTo(c, "running")
           /\ Return(c) =>
                Becomes(c, "returned", child[c].run, child[c].canceled, "ended")
           /\ AskHuman(c) =>
                Becomes(c, "returned", child[c].run, child[c].canceled, "waiting")
           /\ Deliver(c) => MovesTo(c, "delivered")
           /\ Unregister(c) => MovesTo(c, "unregistered")
           /\ ReleaseSlot(c) => MovesTo(c, "gone")
<1>0. /\ child[c] \in Kid /\ run \in 1..MaxRuns
  BY KidTyped DEF TypeOK
<1>1. CheckOutstanding(c) => Becomes(c, "checked", run, child[c].canceled, child[c].result)
  <2>1. [child[c] EXCEPT !.stage = "checked", !.run = run] \in Kid
    BY <1>0 DEF Kid
  <2>2. ASSUME CheckOutstanding(c)
        PROVE  child' = [child EXCEPT ![c] = [child[c] EXCEPT !.stage = "checked", !.run = run]]
    BY <2>2, Writes
  <2> QED  BY <1>0, <2>1, <2>2, Lands DEF Kid
<1>2. \A stage \in {"reserved", "running", "delivered", "unregistered", "gone"} :
        child' = [child EXCEPT ![c] = [child[c] EXCEPT !.stage = stage]] => MovesTo(c, stage)
  <2> TAKE stage \in {"reserved", "running", "delivered", "unregistered", "gone"}
  <2>1. [child[c] EXCEPT !.stage = stage] \in Kid
    BY <1>0 DEF Kid
  <2> QED  BY <1>0, <2>1, Lands DEF MovesTo, Kid
<1>3. (ReserveSlot(c) /\ ~(slots[run] < MaxParallel)) => Becomes(c, "none", None, FALSE, None)
  <2>1. NotSpawned \in Kid
    BY DEF Kid, NotSpawned
  <2> QED  BY <2>1, Writes, Lands DEF NotSpawned
<1>4. \A outcome \in Outcomes :
        child' = [child EXCEPT ![c] = [child[c] EXCEPT !.stage = "returned", !.result = outcome]]
          => Becomes(c, "returned", child[c].run, child[c].canceled, outcome)
  <2> TAKE outcome \in Outcomes
  <2>1. [child[c] EXCEPT !.stage = "returned", !.result = outcome] \in Kid
    BY <1>0 DEF Kid, Outcomes
  <2> QED  BY <1>0, <2>1, Lands DEF Kid
<1> QED  BY <1>1, <1>2, <1>3, <1>4, Writes DEF Outcomes

\* Cancelling all changes one field of the registered children.
LEMMA AfterCancelAll ==
    ASSUME TypeOK, CancelAll
    PROVE  /\ child' \in [Children -> Kid]
           /\ \A c \in Children : /\ child'[c].stage = child[c].stage
                                  /\ child'[c].run = child[c].run
                                  /\ child'[c].result = child[c].result
                                  /\ child'[c].canceled = (child[c].canceled \/ c \in registry)
<1>1. \A c \in Children : child[c] \in Kid
  BY KidTyped
<1>2. \A c \in Children : /\ child'[c] = [child[c] EXCEPT !.canceled = @ \/ c \in registry]
                          /\ child'[c] \in Kid
  BY <1>1 DEF CancelAll, Kid
<1>3. child' \in [Children -> Kid]
  BY <1>2 DEF CancelAll
<1> QED  BY <1>1, <1>2, <1>3 DEF Kid

-----------------------------------------------------------------------------
(* Each part of the invariant is preserved                                 *)

\* Only a restart and the next turn change the number of the run.
LEMMA RunMoves ==
    ASSUME Next
    PROVE  \/ (Restart \/ NextTurn) /\ run' = run + 1 /\ UNCHANGED <<child, slots, registry>>
           \/ run' = run
  BY DEF Next, ToolCall, Goroutine, CheckOutstanding, ReserveSlot, Spawn, Poll, AnswerChild,
         Return, AskHuman, Deliver, Unregister, ReleaseSlot, ResolveAnswer, HumanAnswers,
         Steer, CancelForSteer, Restart, EndTurn, ResetAtEnd, CancelAtEnd, NextTurn

LEMMA TypeStep ==
    ASSUME ChildInv, Next
    PROVE  TypeOK'
<1> USE ChildrenAssumption
<1>0. TypeOK /\ CallsOfRun /\ WaitingAsked /\ RunToCome
  BY DEF ChildInv
<1> DEFINE Kids == /\ child \in [Children -> Kid]
                   /\ \A c \in Children : child[c].run = None <=> At(c, "none")
<1>1. Kids'
  <2>1. ASSUME NEW c \in Children, NEW stage, NEW r, NEW canceled, NEW result,
               Becomes(c, stage, r, canceled, result), r = None <=> stage = "none"
        PROVE  Kids'
    BY <1>0, <2>1 DEF Becomes, At, TypeOK
  <2>2. ASSUME NEW c \in Children, NEW stage, MovesTo(c, stage), stage # "none",
               ~At(c, "none")
        PROVE  Kids'
    BY <1>0, <2>1, <2>2 DEF MovesTo, TypeOK
  <2>3. ASSUME NEW c \in Children, CheckOutstanding(c) PROVE Kids'
    <3>1. Becomes(c, "checked", run, child[c].canceled, child[c].result)
      BY <1>0, <2>3, After
    <3>2. run # None
      BY <1>0 DEF TypeOK
    <3> QED  BY <2>1, <3>1, <3>2
  <2>4. ASSUME NEW c \in Children, ReserveSlot(c) PROVE Kids'
    BY <1>0, <2>1, <2>2, <2>4, After DEF ReserveSlot, At
  <2>5. ASSUME NEW c \in Children, Spawn(c) PROVE Kids'
    BY <1>0, <2>2, <2>5, After DEF Spawn, At
  <2>6. ASSUME NEW c \in Children, Return(c) \/ AskHuman(c) PROVE Kids'
    <3>1. child[c].run # None
      BY <1>0, <2>6 DEF Return, AskHuman, Returns, At, TypeOK
    <3> QED  BY <1>0, <2>1, <2>6, <3>1, After
  <2>7. ASSUME NEW c \in Children, Deliver(c) \/ Unregister(c) \/ ReleaseSlot(c) PROVE Kids'
    BY <1>0, <2>2, <2>7, After DEF Deliver, Unregister, ReleaseSlot, At
  <2>8. CASE CancelForSteer \/ CancelAtEnd
    BY <1>0, <2>8, AfterCancelAll DEF CancelForSteer, CancelAtEnd, At, TypeOK
  <2>9. CASE UNCHANGED child
    BY <1>0, <2>9, KidTyped DEF At, TypeOK
  <2> QED
    BY <2>3, <2>4, <2>5, <2>6, <2>7, <2>8, <2>9
       DEF Next, ToolCall, Goroutine, Poll, AnswerChild, ResolveAnswer, HumanAnswers, Steer,
           Restart, EndTurn, ResetAtEnd, NextTurn
<1>2. (run \in 1..MaxRuns)'
  BY <1>0, RunMoves DEF Restart, NextTurn, TypeOK, RunToCome
<1>3. (phase \in {"running", "steered", "quieted", "ending", "emptied", "idle"})'
  <2>1. ASSUME NEW c \in Children, ToolCall(c) PROVE UNCHANGED phase
    BY <2>1 DEF ToolCall, CheckOutstanding, ReserveSlot, Spawn, Poll, AnswerChild
  <2>2. ASSUME NEW c \in Children, Goroutine(c) \/ AskHuman(c) PROVE UNCHANGED phase
    BY <2>2 DEF Goroutine, Return, AskHuman, Deliver, Unregister, ReleaseSlot
  <2>3. ASSUME NEW c \in Children, ResolveAnswer(c) \/ HumanAnswers(c) PROVE UNCHANGED phase
    BY <2>3 DEF ResolveAnswer, HumanAnswers
  <2>4. \/ UNCHANGED phase
        \/ phase' \in {"running", "steered", "quieted", "ending", "emptied", "idle"}
    BY <2>1, <2>2, <2>3
       DEF Next, Steer, CancelForSteer, Restart, EndTurn, ResetAtEnd, CancelAtEnd, NextTurn
  <2> QED BY <1>0, <2>4 DEF TypeOK
<1>4. (slots \in [1..MaxRuns -> Nat])'
  <2>1. ASSUME NEW c \in Children, ReserveSlot(c) PROVE slots' \in [1..MaxRuns -> Nat]
    BY <1>0, <2>1 DEF ReserveSlot, TypeOK
  <2>2. ASSUME NEW c \in Children, ReleaseSlot(c) PROVE slots' \in [1..MaxRuns -> Nat]
    <3>1. child[c].run \in 1..MaxRuns
      BY <1>0, <2>2, KidTyped DEF ReleaseSlot, At, TypeOK, Kid
    <3>2. (IF slots[child[c].run] <= 1 THEN 0 ELSE slots[child[c].run] - 1) \in Nat
      BY <1>0, <3>1 DEF TypeOK
    <3> QED  BY <1>0, <2>2, <3>1, <3>2 DEF ReleaseSlot, TypeOK
  <2> QED
    BY <1>0, <2>1, <2>2
       DEF Next, ToolCall, Goroutine, CheckOutstanding, Spawn, Poll, AnswerChild,
           Return, AskHuman, Deliver, Unregister, ResolveAnswer, HumanAnswers,
           Steer, CancelForSteer, Restart, EndTurn, ResetAtEnd, CancelAtEnd, NextTurn, TypeOK
<1>5. (registry \subseteq Children)'
  BY <1>0 DEF Next, ToolCall, Goroutine, CheckOutstanding, ReserveSlot, Spawn, Poll, AnswerChild,
              Return, AskHuman, Deliver, Unregister, ReleaseSlot, ResolveAnswer, HumanAnswers,
              Steer, CancelForSteer, Restart, EndTurn, ResetAtEnd, CancelAtEnd, NextTurn, TypeOK
<1>6. (results \in [Children -> Outcomes \cup {None}])'
  <2>1. ASSUME NEW c \in Children, Deliver(c) PROVE results' \in [Children -> Outcomes \cup {None}]
    BY <1>0, <2>1, KidTyped DEF Deliver, TypeOK, Kid
  <2>2. NoResults \in [Children -> Outcomes \cup {None}]
    BY DEF NoResults
  <2> QED
    BY <1>0, <2>1, <2>2
       DEF Next, ToolCall, Goroutine, CheckOutstanding, ReserveSlot, Spawn, Poll, AnswerChild,
           Return, AskHuman, Unregister, ReleaseSlot, ResolveAnswer, HumanAnswers,
           Steer, CancelForSteer, Restart, EndTurn, ResetAtEnd, CancelAtEnd, NextTurn, TypeOK
<1>7. (/\ asked \subseteq Askers /\ polled \subseteq asked
       /\ told \subseteq polled /\ answering \subseteq told)'
  <2> USE DEF questions, TypeOK
  <2>1. ASSUME NEW c \in Children, ToolCall(c)
        PROVE  (/\ asked \subseteq Askers /\ polled \subseteq asked
                /\ told \subseteq polled /\ answering \subseteq told)'
    <3>1. CASE CheckOutstanding(c) \/ ReserveSlot(c) \/ Spawn(c)
      BY <1>0, <3>1 DEF CheckOutstanding, ReserveSlot, Spawn
    <3>2. CASE Poll(c) \/ AnswerChild(c)
      BY <1>0, <3>2 DEF Poll, AnswerChild, WaitingAsked
    <3> QED BY <2>1, <3>1, <3>2 DEF ToolCall
  <2>2. ASSUME NEW c \in Children, Goroutine(c) \/ AskHuman(c)
        PROVE  (/\ asked \subseteq Askers /\ polled \subseteq asked
                /\ told \subseteq polled /\ answering \subseteq told)'
    BY <1>0, <2>2 DEF Goroutine, Return, AskHuman, Deliver, Unregister, ReleaseSlot
  <2>3. ASSUME NEW c \in Children, ResolveAnswer(c) \/ HumanAnswers(c)
        PROVE  (/\ asked \subseteq Askers /\ polled \subseteq asked
                /\ told \subseteq polled /\ answering \subseteq told)'
    BY <1>0, <2>3 DEF ResolveAnswer, HumanAnswers
  <2>4. CASE Steer \/ CancelForSteer \/ Restart \/ EndTurn \/ ResetAtEnd \/ CancelAtEnd \/ NextTurn
    BY <1>0, <2>4 DEF Steer, CancelForSteer, Restart, EndTurn, ResetAtEnd, CancelAtEnd, NextTurn
  <2> HIDE DEF questions, TypeOK
  <2> QED BY <2>1, <2>2, <2>3, <2>4 DEF Next
<1>8. (answer \in [Children -> {"parent", "human", None}])'
  <2>1. ASSUME NEW c \in Children, ToolCall(c) PROVE UNCHANGED answer
    BY <2>1 DEF ToolCall, CheckOutstanding, ReserveSlot, Spawn, Poll, AnswerChild, questions
  <2>2. ASSUME NEW c \in Children, Goroutine(c) \/ AskHuman(c) PROVE UNCHANGED answer
    BY <2>2 DEF Goroutine, Return, AskHuman, Deliver, Unregister, ReleaseSlot, questions
  <2>3. ASSUME NEW c \in Children, ResolveAnswer(c) \/ HumanAnswers(c)
        PROVE  (answer \in [Children -> {"parent", "human", None}])'
    BY <1>0, <2>3 DEF ResolveAnswer, HumanAnswers, TypeOK
  <2>4. CASE Steer \/ CancelForSteer \/ Restart \/ EndTurn \/ ResetAtEnd \/ CancelAtEnd \/ NextTurn
    BY <1>0, <2>4
       DEF Steer, CancelForSteer, Restart, EndTurn, ResetAtEnd, CancelAtEnd, NextTurn, questions,
           TypeOK
  <2> QED BY <1>0, <2>1, <2>2, <2>3, <2>4 DEF Next, TypeOK
<1> QED  BY <1>1, <1>2, <1>3, <1>4, <1>5, <1>6, <1>7, <1>8 DEF TypeOK, Kid

LEMMA RunToComeStep ==
    ASSUME ChildInv, Next
    PROVE  RunToCome'
<1>0. TypeOK /\ RunToCome
  BY DEF ChildInv
<1> QED
  BY <1>0 DEF Next, ToolCall, Goroutine, CheckOutstanding, ReserveSlot, Spawn, Poll, AnswerChild,
              Return, AskHuman, Deliver, Unregister, ReleaseSlot, ResolveAnswer, HumanAnswers,
              Steer, CancelForSteer, Restart, EndTurn, ResetAtEnd, CancelAtEnd, NextTurn, RunToCome

\* Only a tool call gives a child a run, the current one; a rejected call takes it back.
LEMMA RunOfChild ==
    ASSUME TypeOK, CallsOfRun, Next, NEW c \in Children
    PROVE  \/ child'[c].run = child[c].run
           \/ CheckOutstanding(c) /\ child'[c].run = run
           \/ ReserveSlot(c) /\ child'[c].run = None
<1>1. \A d \in Children :
        ToolCall(d) \/ Goroutine(d) \/ AskHuman(d) =>
            \/ child' = child
            \/ /\ child'[d].run = child[d].run
               /\ \A e \in Children \ {d} : child'[e] = child[e]
            \/ /\ \/ CheckOutstanding(d) /\ child'[d].run = run
                  \/ ReserveSlot(d) /\ child'[d].run = None
               /\ \A e \in Children \ {d} : child'[e] = child[e]
  <2> SUFFICES ASSUME NEW d \in Children, ToolCall(d) \/ Goroutine(d) \/ AskHuman(d)
               PROVE  \/ child' = child
                      \/ /\ child'[d].run = child[d].run
                         /\ \A e \in Children \ {d} : child'[e] = child[e]
                      \/ /\ \/ CheckOutstanding(d) /\ child'[d].run = run
                            \/ ReserveSlot(d) /\ child'[d].run = None
                         /\ \A e \in Children \ {d} : child'[e] = child[e]
    OBVIOUS
  <2>1. CASE Poll(d) \/ AnswerChild(d)
    BY <2>1 DEF Poll, AnswerChild
  <2>2. CASE CheckOutstanding(d) \/ ReserveSlot(d)
    BY <2>2, After DEF Becomes, MovesTo
  <2>3. CASE Spawn(d) \/ Goroutine(d) \/ AskHuman(d)
    BY <2>3, After DEF Goroutine, Becomes, MovesTo
  <2> QED  BY <2>1, <2>2, <2>3 DEF ToolCall
<1>2. CASE \E d \in Children : ToolCall(d) \/ Goroutine(d) \/ AskHuman(d)
  BY <1>1, <1>2
<1>3. CASE CancelForSteer \/ CancelAtEnd
  BY <1>3, AfterCancelAll DEF CancelForSteer, CancelAtEnd
<1>4. CASE UNCHANGED child
  BY <1>4
<1> QED
  BY <1>2, <1>3, <1>4 DEF Next, ResolveAnswer, HumanAnswers, Steer, Restart, EndTurn, ResetAtEnd,
                          NextTurn

LEMMA RunsSoFarStep ==
    ASSUME ChildInv, Next
    PROVE  RunsSoFar'
<1>0. TypeOK /\ CallsOfRun /\ RunsSoFar
  BY DEF ChildInv
<1>1. run \in Nat /\ run' \in Nat /\ run' >= run
  BY <1>0, RunMoves, ChildrenAssumption DEF TypeOK
<1> SUFFICES ASSUME NEW c \in Children, child'[c].run # None
             PROVE  child'[c].run <= run'
  BY DEF RunsSoFar
<1>2. child[c].run # None => child[c].run \in Nat
  BY <1>0, KidTyped, ChildrenAssumption DEF Kid
<1> QED  BY <1>0, <1>1, <1>2, RunOfChild, ChildrenAssumption DEF RunsSoFar

LEMMA CallsOfRunStep ==
    ASSUME ChildInv, Next
    PROVE  CallsOfRun'
<1>0. TypeOK /\ CallsOfRun
  BY DEF ChildInv
<1>1. ASSUME NEW d \in Children, ToolCall(d) \/ Goroutine(d) \/ AskHuman(d)
      PROVE  CallsOfRun'
  <2>1. run' = run /\ phase' = phase
    BY <1>1 DEF ToolCall, Goroutine, CheckOutstanding, ReserveSlot, Spawn, Poll, AnswerChild,
                Return, AskHuman, Deliver, Unregister, ReleaseSlot
  <2>2. CASE CheckOutstanding(d)
    <3>1. phase = "running"
      BY <2>2 DEF CheckOutstanding
    <3> QED  BY <1>0, <2>1, <2>2, <3>1, After DEF Becomes, CallsOfRun, InCall
  <2>3. CASE ReserveSlot(d)
    <3>1. InCall(d)
      BY <2>3 DEF ReserveSlot, InCall, At
    <3> QED  BY <1>0, <2>1, <2>3, <3>1, After DEF Becomes, MovesTo, CallsOfRun, InCall
  <2>4. CASE Spawn(d) \/ Goroutine(d) \/ AskHuman(d)
    BY <1>0, <2>1, <2>4, After DEF Goroutine, Becomes, MovesTo, CallsOfRun, InCall
  <2>5. CASE Poll(d) \/ AnswerChild(d)
    BY <1>0, <2>1, <2>5 DEF Poll, AnswerChild, CallsOfRun, InCall
  <2> QED  BY <1>1, <2>2, <2>3, <2>4, <2>5 DEF ToolCall
<1>2. CASE CancelForSteer \/ CancelAtEnd
  <2>1. \A c \in Children : ~InCall(c)
    BY <1>0, <1>2 DEF CancelForSteer, CancelAtEnd, CallsOfRun
  <2> QED  BY <1>0, <1>2, <2>1, AfterCancelAll DEF CancelForSteer, CancelAtEnd, CallsOfRun, InCall
<1>3. CASE Steer \/ EndTurn
  BY <1>0, <1>3 DEF Steer, EndTurn, RunOver, CallsOfRun, InCall
<1>4. CASE Restart \/ ResetAtEnd \/ NextTurn
  <2>1. \A c \in Children : ~InCall(c)
    BY <1>0, <1>4 DEF Restart, ResetAtEnd, NextTurn, CallsOfRun
  <2> QED  BY <1>4, <2>1 DEF Restart, ResetAtEnd, NextTurn, CallsOfRun, InCall
<1>5. ASSUME NEW d \in Children, ResolveAnswer(d) \/ HumanAnswers(d)
      PROVE  CallsOfRun'
  BY <1>0, <1>5 DEF ResolveAnswer, HumanAnswers, CallsOfRun, InCall
<1> QED  BY <1>1, <1>2, <1>3, <1>4, <1>5 DEF Next

\* The holders of a run after a step in which the children keep their slots...
LEMMA HoldersSame ==
    ASSUME SlotsCounted, UNCHANGED slots,
           \A c \in Children : /\ Holds(c)' <=> Holds(c)
                               /\ Holds(c) => child'[c].run = child[c].run
    PROVE  SlotsCounted'
<1>1. \A r \in 1..MaxRuns : HoldersOf(r)' = HoldersOf(r)
  BY DEF HoldersOf
<1> QED  BY <1>1 DEF SlotsCounted

\* ... and after one in which the child c gets or gives back a slot of its run.
LEMMA HoldersOneMore ==
    ASSUME TypeOK, SlotsCounted, NEW c \in Children, ~Holds(c), Holds(c)',
           NEW r \in 1..MaxRuns, child'[c].run = r,
           \A d \in Children \ {c} : child'[d] = child[d],
           slots[r] < MaxParallel, slots' = [slots EXCEPT ![r] = @ + 1]
    PROVE  SlotsCounted'
<1>0. slots \in [1..MaxRuns -> Nat] /\ MaxParallel \in Nat
  BY ChildrenAssumption DEF TypeOK
<1>1. HoldersOf(r)' = HoldersOf(r) \cup {c} /\ c \notin HoldersOf(r)
  BY DEF HoldersOf, Holds
<1>2. \A q \in 1..MaxRuns \ {r} : HoldersOf(q)' = HoldersOf(q) /\ slots'[q] = slots[q]
  BY <1>0 DEF HoldersOf, Holds
<1>3. /\ IsFiniteSet(HoldersOf(r) \cup {c})
      /\ Cardinality(HoldersOf(r) \cup {c}) = Cardinality(HoldersOf(r)) + 1
  BY <1>0, <1>1, FS_AddElement DEF SlotsCounted
<1>4. slots[r] = Cardinality(HoldersOf(r))
  BY DEF SlotsCounted
<1>5. slots'[r] = slots[r] + 1 /\ slots'[r] <= MaxParallel
  BY <1>0
<1>6. ASSUME NEW q \in 1..MaxRuns
      PROVE  /\ IsFiniteSet(HoldersOf(q)')
             /\ slots'[q] = Cardinality(HoldersOf(q)')
             /\ slots'[q] <= MaxParallel
  <2>1. CASE q = r
    BY <1>1, <1>3, <1>4, <1>5, <2>1
  <2>2. CASE q # r
    BY <1>2, <2>2 DEF SlotsCounted
  <2> QED  BY <2>1, <2>2
<1> QED  BY <1>6 DEF SlotsCounted

LEMMA HoldersOneLess ==
    ASSUME TypeOK, SlotsCounted, NEW c \in Children, Holds(c), ~Holds(c)',
           NEW r \in 1..MaxRuns, child[c].run = r,
           \A d \in Children \ {c} : child'[d] = child[d],
           slots' = [slots EXCEPT ![r] = IF @ <= 1 THEN 0 ELSE @ - 1]
    PROVE  SlotsCounted'
<1>0. slots \in [1..MaxRuns -> Nat] /\ MaxParallel \in Nat
  BY ChildrenAssumption DEF TypeOK
<1>1. HoldersOf(r)' = HoldersOf(r) \ {c} /\ c \in HoldersOf(r)
  BY DEF HoldersOf, Holds
<1>2. \A q \in 1..MaxRuns \ {r} : HoldersOf(q)' = HoldersOf(q) /\ slots'[q] = slots[q]
  BY <1>0 DEF HoldersOf, Holds
<1>3. /\ IsFiniteSet(HoldersOf(r) \ {c})
      /\ Cardinality(HoldersOf(r) \ {c}) = Cardinality(HoldersOf(r)) - 1
      /\ Cardinality(HoldersOf(r) \ {c}) \in Nat
  BY <1>0, <1>1, FS_RemoveElement, FS_CardinalityType DEF SlotsCounted
<1>4. slots[r] = Cardinality(HoldersOf(r)) /\ slots[r] <= MaxParallel
  BY DEF SlotsCounted
<1>5. slots'[r] = slots[r] - 1 /\ slots'[r] <= MaxParallel
  BY <1>0, <1>3, <1>4
<1>6. ASSUME NEW q \in 1..MaxRuns
      PROVE  /\ IsFiniteSet(HoldersOf(q)')
             /\ slots'[q] = Cardinality(HoldersOf(q)')
             /\ slots'[q] <= MaxParallel
  <2>1. CASE q = r
    BY <1>1, <1>3, <1>4, <1>5, <2>1
  <2>2. CASE q # r
    BY <1>2, <2>2 DEF SlotsCounted
  <2> QED  BY <2>1, <2>2
<1> QED  BY <1>6 DEF SlotsCounted

LEMMA SlotsCountedStep ==
    ASSUME ChildInv, Next
    PROVE  SlotsCounted'
<1>0. TypeOK /\ CallsOfRun /\ SlotsCounted
  BY DEF ChildInv
<1>1. ASSUME NEW d \in Children, ToolCall(d) \/ Goroutine(d) \/ AskHuman(d)
      PROVE  SlotsCounted'
  <2>1. CASE ReserveSlot(d) /\ slots[run] < MaxParallel
    <3>1. child[d].run = run /\ ~Holds(d)
      BY <1>0, <2>1 DEF ReserveSlot, CallsOfRun, InCall, At, Holds
    <3>2. slots' = [slots EXCEPT ![run] = @ + 1]
      BY <2>1 DEF ReserveSlot
    <3>3. MovesTo(d, "reserved")
      BY <1>0, <2>1, After
    <3>4. Holds(d)' /\ child'[d].run = run /\ \A e \in Children \ {d} : child'[e] = child[e]
      BY <3>1, <3>3 DEF MovesTo, Becomes, Holds
    <3>5. run \in 1..MaxRuns
      BY <1>0 DEF TypeOK
    <3> QED  BY <1>0, <2>1, <3>1, <3>2, <3>4, <3>5, HoldersOneMore
  <2>2. CASE ReleaseSlot(d)
    <3>1. child[d].run \in 1..MaxRuns /\ Holds(d)
      BY <1>0, <2>2, KidTyped DEF ReleaseSlot, At, Holds, TypeOK, Kid
    <3>2. MovesTo(d, "gone")
      BY <1>0, <2>2, After
    <3>3. ~Holds(d)' /\ \A e \in Children \ {d} : child'[e] = child[e]
      BY <3>2 DEF MovesTo, Becomes, Holds
    <3>4. slots' = [slots EXCEPT ![child[d].run] = IF @ <= 1 THEN 0 ELSE @ - 1]
      BY <2>2 DEF ReleaseSlot
    <3> QED  BY <1>0, <3>1, <3>3, <3>4, HoldersOneLess
  <2>3. CASE CheckOutstanding(d) \/ (ReserveSlot(d) /\ ~(slots[run] < MaxParallel))
    <3>1. ~Holds(d) /\ UNCHANGED slots
      BY <2>3 DEF CheckOutstanding, ReserveSlot, At, Holds
    <3>2. ~Holds(d)' /\ \A e \in Children \ {d} : child'[e] = child[e]
      BY <1>0, <2>3, After DEF Becomes, Holds
    <3> QED  BY <1>0, <3>1, <3>2, HoldersSame DEF Holds
  <2>4. CASE Spawn(d) \/ Return(d) \/ AskHuman(d) \/ Deliver(d) \/ Unregister(d)
    <3>1. Holds(d) /\ UNCHANGED slots
      BY <2>4 DEF Spawn, Return, AskHuman, Returns, Deliver, Unregister, At, Holds
    <3>2. /\ Holds(d)' /\ child'[d].run = child[d].run
          /\ \A e \in Children \ {d} : child'[e] = child[e]
      BY <1>0, <2>4, After DEF MovesTo, Becomes, Holds
    <3> QED  BY <1>0, <3>1, <3>2, HoldersSame DEF Holds
  <2>5. CASE Poll(d) \/ AnswerChild(d)
    BY <1>0, <2>5, HoldersSame DEF Poll, AnswerChild, Holds
  <2> QED  BY <1>1, <2>1, <2>2, <2>3, <2>4, <2>5 DEF ToolCall, Goroutine
<1>2. CASE CancelForSteer \/ CancelAtEnd
  BY <1>0, <1>2, AfterCancelAll, HoldersSame DEF CancelForSteer, CancelAtEnd, Holds
<1>3. ASSUME UNCHANGED <<child, slots>>
      PROVE  SlotsCounted'
  BY <1>0, <1>3, HoldersSame DEF Holds
<1> QED
  BY <1>1, <1>2, <1>3 DEF Next, ResolveAnswer, HumanAnswers, Steer, Restart, EndTurn, ResetAtEnd,
                          NextTurn

LEMMA ReachableStep ==
    ASSUME ChildInv, Next
    PROVE  Reachable'
<1>0. TypeOK /\ CallsOfRun /\ Reachable
  BY DEF ChildInv
<1>1. ASSUME NEW d \in Children, ToolCall(d) \/ Goroutine(d) \/ AskHuman(d)
      PROVE  Reachable'
  <2>1. run' = run /\ phase' = phase
    BY <1>1 DEF ToolCall, Goroutine, CheckOutstanding, ReserveSlot, Spawn, Poll, AnswerChild,
                Return, AskHuman, Deliver, Unregister, ReleaseSlot
  <2>2. CASE Spawn(d)
    <3>1. child[d].run = run /\ phase = "running" /\ registry' = registry \cup {d}
      BY <1>0, <2>2 DEF Spawn, At, InCall, CallsOfRun
    <3>2. MovesTo(d, "running")
      BY <1>0, <2>2, After
    <3> QED  BY <1>0, <2>1, <3>1, <3>2 DEF MovesTo, Becomes, Reachable, At
  <2>3. CASE CheckOutstanding(d) \/ ReserveSlot(d) \/ Return(d) \/ AskHuman(d) \/ Deliver(d)
             \/ ReleaseSlot(d)
    <3>1. UNCHANGED registry
      BY <2>3 DEF CheckOutstanding, ReserveSlot, Return, AskHuman, Deliver, ReleaseSlot
    <3>2. ~At(d, "running")' /\ \A e \in Children \ {d} : child'[e] = child[e]
      BY <1>0, <2>3, After DEF MovesTo, Becomes, At
    <3> QED  BY <1>0, <2>1, <3>1, <3>2 DEF Reachable, At
  <2>4. CASE Unregister(d)
    <3>1. registry' = registry \ {d}
      BY <2>4 DEF Unregister
    <3>2. ~At(d, "running")' /\ \A e \in Children \ {d} : child'[e] = child[e]
      BY <1>0, <2>4, After DEF MovesTo, Becomes, At
    <3> QED  BY <1>0, <2>1, <3>1, <3>2 DEF Reachable, At
  <2>5. CASE Poll(d) \/ AnswerChild(d)
    BY <1>0, <2>1, <2>5 DEF Poll, AnswerChild, Reachable, At
  <2> QED  BY <1>1, <2>2, <2>3, <2>4, <2>5 DEF ToolCall, Goroutine
<1>2. CASE CancelForSteer \/ CancelAtEnd
  <2>1. \A c \in Children : At(c, "running") => c \in registry \/ child[c].canceled
    BY <1>0 DEF Reachable
  <2>2. \A c \in Children : At(c, "running")' => child'[c].canceled
    BY <1>0, <1>2, <2>1, AfterCancelAll DEF CancelForSteer, CancelAtEnd, At
  <2> QED  BY <2>2 DEF Reachable
<1>3. CASE Steer \/ EndTurn \/ ResetAtEnd
  BY <1>0, <1>3 DEF Steer, EndTurn, ResetAtEnd, Reachable, At
<1>4. CASE Restart \/ NextTurn
  <2>1. \A c \in Children : At(c, "running") => child[c].canceled
    BY <1>0, <1>4 DEF Restart, NextTurn, Reachable
  <2> QED  BY <1>4, <2>1 DEF Restart, NextTurn, Reachable, At
<1>5. ASSUME NEW d \in Children, ResolveAnswer(d) \/ HumanAnswers(d)
      PROVE  Reachable'
  BY <1>0, <1>5 DEF ResolveAnswer, HumanAnswers, Reachable, At
<1> QED  BY <1>1, <1>2, <1>3, <1>4, <1>5 DEF Next

LEMMA WaitingAskedStep ==
    ASSUME ChildInv, Next
    PROVE  WaitingAsked'
<1> USE ChildrenAssumption
<1>0. TypeOK /\ WaitingAsked
  BY DEF ChildInv
<1>1. ASSUME NEW d \in Children, ToolCall(d) \/ Goroutine(d) \/ AskHuman(d)
      PROVE  WaitingAsked'
  <2>1. CASE AskHuman(d)
    <3>1. results' = results /\ asked' = asked \cup {d}
      BY <2>1 DEF AskHuman
    <3>2. \A e \in Children \ {d} : child'[e] = child[e]
      BY <1>0, <2>1, After DEF Becomes
    <3> QED  BY <1>0, <3>1, <3>2 DEF WaitingAsked
  <2>2. CASE Deliver(d)
    <3>1. /\ results' = [results EXCEPT ![d] = child[d].result]
          /\ UNCHANGED asked
      BY <2>2 DEF Deliver, questions
    <3>2. \A e \in Children : child'[e].result = child[e].result
      BY <1>0, <2>2, After DEF MovesTo, Becomes
    <3> QED  BY <1>0, <3>1, <3>2 DEF WaitingAsked, TypeOK
  <2>3. CASE Poll(d) \/ AnswerChild(d)
    BY <1>0, <2>3 DEF Poll, AnswerChild, WaitingAsked, questions
  <2>4. CASE CheckOutstanding(d) \/ ReserveSlot(d) \/ Spawn(d) \/ Return(d) \/ Unregister(d)
             \/ ReleaseSlot(d)
    <3>1. UNCHANGED <<results, asked>>
      BY <2>4 DEF CheckOutstanding, ReserveSlot, Spawn, Return, Unregister, ReleaseSlot, questions
    <3>2. \A e \in Children : child'[e].result \in {child[e].result, "ended", None}
      BY <1>0, <2>4, After DEF MovesTo, Becomes
    <3> QED  BY <1>0, <3>1, <3>2 DEF WaitingAsked
  <2> QED  BY <1>1, <2>1, <2>2, <2>3, <2>4 DEF ToolCall, Goroutine
<1>2. CASE CancelForSteer \/ CancelAtEnd
  BY <1>0, <1>2, AfterCancelAll DEF CancelForSteer, CancelAtEnd, questions, WaitingAsked
<1>3. CASE Steer \/ EndTurn \/ NextTurn
  BY <1>0, <1>3 DEF Steer, EndTurn, NextTurn, questions, WaitingAsked
<1>4. CASE Restart \/ ResetAtEnd
  BY <1>0, <1>4 DEF Restart, ResetAtEnd, NoResults, questions, WaitingAsked
<1>5. ASSUME NEW d \in Children, ResolveAnswer(d) \/ HumanAnswers(d)
      PROVE  WaitingAsked'
  BY <1>0, <1>5 DEF ResolveAnswer, HumanAnswers, WaitingAsked
<1> QED  BY <1>1, <1>2, <1>3, <1>4, <1>5 DEF Next

LEMMA ResultsKeptStep ==
    ASSUME ChildInv, Next
    PROVE  ResultsKept'
<1>0. TypeOK /\ RunsSoFar /\ ResultsKept
  BY DEF ChildInv
<1>1. ASSUME NEW d \in Children, ToolCall(d) \/ Goroutine(d) \/ AskHuman(d)
      PROVE  ResultsKept'
  <2>1. run' = run /\ phase' = phase
    BY <1>1 DEF ToolCall, Goroutine, CheckOutstanding, ReserveSlot, Spawn, Poll, AnswerChild,
                Return, AskHuman, Deliver, Unregister, ReleaseSlot
  <2>2. CASE Deliver(d)
    <3>1. results' = [results EXCEPT ![d] = child[d].result]
      BY <2>2 DEF Deliver
    <3>2. MovesTo(d, "delivered")
      BY <1>0, <2>2, After
    <3> QED  BY <1>0, <2>1, <3>1, <3>2 DEF MovesTo, Becomes, ResultsKept, Delivered, TypeOK
  <2>3. CASE CheckOutstanding(d) \/ ReserveSlot(d) \/ Spawn(d) \/ Return(d) \/ AskHuman(d)
    <3>1. UNCHANGED results
      BY <2>3 DEF CheckOutstanding, ReserveSlot, Spawn, Return, AskHuman
    <3>2. ~Delivered(d)' /\ \A e \in Children \ {d} : child'[e] = child[e]
      BY <1>0, <2>3, After DEF MovesTo, Becomes, Delivered
    <3> QED  BY <1>0, <2>1, <3>1, <3>2 DEF ResultsKept, Delivered
  <2>4. CASE Unregister(d) \/ ReleaseSlot(d)
    <3>1. Delivered(d) /\ UNCHANGED results
      BY <2>4 DEF Unregister, ReleaseSlot, At, Delivered
    <3>2. /\ child'[d].run = child[d].run /\ child'[d].result = child[d].result
          /\ \A e \in Children \ {d} : child'[e] = child[e]
      BY <1>0, <2>4, After DEF MovesTo, Becomes
    <3> QED  BY <1>0, <2>1, <3>1, <3>2 DEF ResultsKept, Delivered
  <2>5. CASE Poll(d) \/ AnswerChild(d)
    BY <1>0, <2>1, <2>5 DEF Poll, AnswerChild, ResultsKept, Delivered
  <2> QED  BY <1>1, <2>2, <2>3, <2>4, <2>5 DEF ToolCall, Goroutine
<1>2. CASE Steer \/ CancelForSteer \/ EndTurn \/ ResetAtEnd \/ CancelAtEnd
  BY <1>2 DEF Steer, CancelForSteer, EndTurn, ResetAtEnd, CancelAtEnd, ResultsKept
<1>3. CASE Restart \/ NextTurn
  <2>1. run' = run + 1 /\ UNCHANGED child
    BY <1>3 DEF Restart, NextTurn
  <2>2. \A c \in Children : Delivered(c) => child[c].run \in Nat /\ child[c].run <= run
    BY <1>0, KidTyped, ChildrenAssumption DEF Delivered, At, TypeOK, Kid, RunsSoFar
  <2>3. \A c \in Children : Delivered(c)' => child'[c].run # run'
    BY <1>0, <2>1, <2>2, ChildrenAssumption DEF Delivered, TypeOK
  <2> QED  BY <2>3 DEF ResultsKept
<1>4. ASSUME NEW d \in Children, ResolveAnswer(d) \/ HumanAnswers(d)
      PROVE  ResultsKept'
  BY <1>0, <1>4 DEF ResolveAnswer, HumanAnswers, ResultsKept, Delivered
<1> QED  BY <1>1, <1>2, <1>3, <1>4 DEF Next

-----------------------------------------------------------------------------
(* The theorems                                                            *)

LEMMA ChildInit == Init => ChildInv
<1> SUFFICES ASSUME Init PROVE ChildInv
  OBVIOUS
<1> USE ChildrenAssumption
<1>1. \A c \in Children : child[c] = NotSpawned
  BY DEF Init
<1>2. TypeOK
  BY DEF Init, TypeOK, NotSpawned, NoResults, At
<1>3. \A r \in 1..MaxRuns : HoldersOf(r) = {}
  BY <1>1 DEF HoldersOf, Holds, NotSpawned
<1>4. SlotsCounted
  <2>1. IsFiniteSet({}) /\ Cardinality({}) = 0
    BY FS_EmptySet
  <2>2. \A r \in 1..MaxRuns : slots[r] = 0 /\ slots[r] <= MaxParallel
    BY DEF Init
  <2> QED  BY <1>3, <2>1, <2>2 DEF SlotsCounted
<1>5. RunsSoFar /\ CallsOfRun /\ Reachable /\ ResultsKept
  BY <1>1 DEF RunsSoFar, CallsOfRun, Reachable, ResultsKept, InCall, At, Delivered, NotSpawned
<1>6. WaitingAsked /\ RunToCome
  BY <1>1 DEF Init, NoResults, NotSpawned, WaitingAsked, RunToCome
<1> QED  BY <1>2, <1>4, <1>5, <1>6 DEF ChildInv

LEMMA ChildStep == ChildInv /\ [Next]_vars => ChildInv'
<1> SUFFICES ASSUME ChildInv, [Next]_vars PROVE ChildInv'
  OBVIOUS
<1>1. CASE Next
  BY <1>1, TypeStep, RunsSoFarStep, CallsOfRunStep, SlotsCountedStep, ReachableStep,
     WaitingAskedStep, RunToComeStep, ResultsKeptStep DEF ChildInv
<1>2. CASE UNCHANGED vars
  BY <1>2 DEF vars, questions, ChildInv, TypeOK, RunsSoFar, CallsOfRun, SlotsCounted, Reachable,
              WaitingAsked, RunToCome, ResultsKept, HoldersOf, Holds, InCall, At, Delivered
<1> QED  BY <1>1, <1>2

LEMMA ChildInvHolds == Spec => []ChildInv
  BY ChildInit, ChildStep, PTL DEF Spec

\* The slots counted for a run are those its children hold, never more than the
\* policy allows, and no child of a run that is over is left running uncanceled:
\* whatever children do after the run, turn or chat that started them has moved on.
THEOREM SlotsAreMatched == Spec => []SlotsMatch
<1>1. ChildInv => SlotsMatch
  BY DEF ChildInv, SlotsMatch, SlotsCounted, Reachable, NoneLeftRunning
<1> QED  BY <1>1, ChildInvHolds, PTL

\* A result that a child of the current run has delivered stays in the collector as
\* long as the run goes on.
THEOREM ResultsAreKept == Spec => []ResultsKept
<1>1. ChildInv => ResultsKept
  BY DEF ChildInv
<1> QED  BY <1>1, ChildInvHolds, PTL
=============================================================================
