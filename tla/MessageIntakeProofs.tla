------------------------ MODULE MessageIntakeProofs ------------------------
(***************************************************************************)
(* Proofs about MessageIntake, for any messages, goroutines and bounds,    *)
(* and also when a crash comes between two lines of one append: copies of  *)
(* a line have their reasons (CopiesAccounted), the deduper tells the      *)
(* truth (SeenIsKept) and what was visible stays visible                   *)
(* (NothingForgotten), with a deduper that has a file or without.  All of  *)
(* it rests on files that are written whole (~TornWrites): part of a line  *)
(* makes the next line unreadable, and a torn dedupe.json forgets every    *)
(* message at once.                                                        *)
(*                                                                         *)
(* The argument for the copies is an account.  A line is on disk, or a     *)
(* goroutine owes it, or it waits with its message in the queue of a turn; *)
(* together these never exceed the reasons there were to begin the         *)
(* message, and are one less while the deduper, or the file that a restart *)
(* would read, would let it begin again (Copies).                          *)
(***************************************************************************)
EXTENDS MessageIntake, FiniteSetTheorems, TLAPS

\* What the goroutine still appends of its message, and what of it is written but
\* not yet published.
Owes(w, l) ==
    /\ worker[w].stage \in {"begun", "turn", "append", "conversation", "lines"}
    /\ \E n \in DOMAIN Batch(worker[w].message) :
          n >= worker[w].line /\ Batch(worker[w].message)[n] = l

Wrote(w, l) ==
    /\ worker[w].stage \in {"lines", "agent"}
    /\ \E n \in DOMAIN Batch(worker[w].message) :
          n < worker[w].line /\ Batch(worker[w].message)[n] = l

Owing(l) == {w \in Workers : Owes(w, l)}

\* The goroutines whose message is not yet in memory, nor given up.
Publishing(m) ==
    {w \in Workers : /\ worker[w].message = m
                     /\ worker[w].stage \in AppendStages \cup {"append", "failed"}}

LinesOf(m) == {m} \X {"user", "reply"}

\* The copies of a line that a queue will still be taken up for.
Queued(m, l) == IF \E n \in DOMAIN Batch(m) : Batch(m)[n] = l THEN steered[m] ELSE 0

Spent(m, l) == disk[l] + Cardinality(Owing(l)) + Queued(m, l)

Reasons(m) == expired[m] + forgets[m] + errors + Forgetful

\* What a goroutine is at fits its message.
Work ==
    \A w \in Workers :
        LET m == worker[w].message
        IN /\ At(w, "idle") <=> m = None
           /\ ~At(w, "idle") => Decision(m) # "reject"
           /\ worker[w].stage \in {"begun", "turn"} => m \notin Observed
           /\ worker[w].stage \in AppendStages \cup {"append", "failed"} => Batch(m) # <<>>
           /\ worker[w].stage \in {"begun", "turn", "append", "conversation"} =>
                 worker[w].line = 1
           /\ At(w, "lines") => worker[w].line \in 1..Len(Batch(m))
           /\ At(w, "agent") => worker[w].line = Len(Batch(m)) + 1

\* What a goroutine works on is the message that started its turn, or one that was
\* handed to that turn; only messages for the agent are handed on.
Turns ==
    /\ \A w \in Workers :
          LET m == worker[w].message
              t == worker[w].turn
          IN /\ At(w, "idle") <=> t = None
             /\ m \in Observed \/ t \in Observed => m = t
             /\ m = t \/ m \in handed
             /\ At(w, "begun") => m = t
             /\ At(w, "turn") \/ worker[w].cut => t \notin Observed
    /\ \A m \in handed : m \notin Observed /\ Decision(m) # "reject"
    /\ \A m \in Messages : steered[m] > 0 => m \in handed

\* Nothing works while the process is down, and it may be started again.
Down ==
    ~up => /\ \A w \in Workers : At(w, "idle")
           /\ memory = NoLines
           /\ starts < MaxStarts

\* No part of a line is on disk.
Whole == ~torn

\* Memory has no line more often than the disk, which is ahead by what is written
\* and not yet published.
Behind ==
    \A l \in Lines : /\ memory[l] <= disk[l]
                     /\ \A w \in Workers : Wrote(w, l) => memory[l] < disk[l]

\* The deduper, and the file it is read from, let a message begin again.
MayBegin(m) == (up /\ entries[m] = "absent") \/ (DedupeFile /\ seenFile[m] = "absent")

\* Copies that are written, owed or queued have a reason each, and one reason is left
\* when the message may begin again.
Account(m, l) ==
    /\ IsFiniteSet(Owing(l))
    /\ Spent(m, l) <= 1 + Reasons(m)
    /\ MayBegin(m) => Spent(m, l) <= Reasons(m)

Copies == \A m \in Messages : \A l \in LinesOf(m) : Account(m, l)

\* The same for the copies of an observed message in the first memory, in which a
\* failed append leaves nothing.
Display(m, l) ==
    /\ IsFiniteSet(Publishing(m))
    /\ memory[l] + Cardinality(Publishing(m)) <= 1 + expired[m]
    /\ entries[m] = "absent" => memory[l] + Cardinality(Publishing(m)) <= expired[m]

Shown == starts = 1 /\ up => \A m \in Observed : \A l \in LinesOf(m) : Display(m, l)

\* What a goroutine has appended of an observed message is on disk.
OnDisk ==
    \A w \in Workers :
        LET m == worker[w].message
        IN m \in Observed /\ worker[w].stage \in {"agent", "saved"} => disk[<<m, "user">>] > 0

IntakeInv ==
    /\ TypeOK
    /\ Work
    /\ Turns
    /\ Down
    /\ Whole
    /\ Behind
    /\ Copies
    /\ Shown
    /\ OnDisk
    /\ SeenIsKept

-----------------------------------------------------------------------------
(* What is appended for a message                                          *)

LEMMA InboundTyped ==
    ASSUME NEW m \in Messages
    PROVE  /\ Inbound[m].group \in BOOLEAN /\ Inbound[m].addressed \in BOOLEAN
           /\ Inbound[m].allowed \in BOOLEAN /\ Inbound[m].bind \in BOOLEAN
  BY IntakeAssumption

LEMMA BatchCases ==
    ASSUME NEW m \in Messages
    PROVE  \/ m \in Observed /\ Batch(m) = <<<<m, "user">>>>
           \/ m \notin Observed /\ Inbound[m].bind /\ Batch(m) = <<>>
           \/ m \notin Observed /\ ~Inbound[m].bind
              /\ Batch(m) = <<<<m, "user">>, <<m, "reply">>>>
  BY InboundTyped DEF Batch

LEMMA BatchFacts ==
    ASSUME NEW m \in Messages
    PROVE  /\ Len(Batch(m)) \in 0..2
           /\ DOMAIN Batch(m) = 1..Len(Batch(m))
           /\ \A n \in 1..Len(Batch(m)) : Batch(m)[n] \in LinesOf(m)
           /\ \A n, k \in 1..Len(Batch(m)) : Batch(m)[n] = Batch(m)[k] => n = k
           /\ Batch(m) = <<>> <=> Len(Batch(m)) = 0
           /\ m \in Observed => Len(Batch(m)) = 1 /\ Batch(m)[1] = <<m, "user">>
<1>1. CASE Batch(m) = <<<<m, "user">>>>
  <2>1. Len(Batch(m)) = 1 /\ DOMAIN Batch(m) = 1..1 /\ Batch(m)[1] = <<m, "user">>
    BY <1>1
  <2> QED  BY <1>1, <2>1 DEF LinesOf
<1>2. CASE Batch(m) = <<>> /\ m \notin Observed
  BY <1>2
<1>3. CASE Batch(m) = <<<<m, "user">>, <<m, "reply">>>> /\ m \notin Observed
  <2>1. /\ Len(Batch(m)) = 2 /\ DOMAIN Batch(m) = 1..2
        /\ Batch(m)[1] = <<m, "user">> /\ Batch(m)[2] = <<m, "reply">>
    BY <1>3
  <2>2. \A n \in 1..2 : n = 1 \/ n = 2
    OBVIOUS
  <2>3. <<m, "user">> # <<m, "reply">>
    OBVIOUS
  <2> QED  BY <1>3, <2>1, <2>2, <2>3 DEF LinesOf
<1> QED  BY <1>1, <1>2, <1>3, BatchCases

LEMMA LineOf ==
    ASSUME NEW m \in Messages, NEW l \in LinesOf(m)
    PROVE  l \in Lines /\ l[1] = m
  BY DEF LinesOf, Lines

LEMMA LineHasMessage ==
    ASSUME NEW l \in Lines
    PROVE  l[1] \in Messages /\ l \in LinesOf(l[1])
  BY DEF LinesOf, Lines

LEMMA LinesApart ==
    ASSUME NEW m \in Messages, NEW k \in Messages, NEW l \in LinesOf(m), l \in LinesOf(k)
    PROVE  m = k
  BY DEF LinesOf

\* Publishing adds each line of the batch once.
LEMMA PublishedOnce ==
    ASSUME NEW m \in Messages, NEW l \in Lines
    PROVE  Published(m)[l] =
             memory[l] + (IF \E n \in DOMAIN Batch(m) : Batch(m)[n] = l THEN 1 ELSE 0)
<1> DEFINE At1 == {n \in DOMAIN Batch(m) : Batch(m)[n] = l}
<1>1. Published(m)[l] = memory[l] + Cardinality(At1)
  BY DEF Published
<1>2. CASE \E n \in DOMAIN Batch(m) : Batch(m)[n] = l
  <2>1. PICK n \in DOMAIN Batch(m) : Batch(m)[n] = l
    BY <1>2
  <2>2. At1 = {n}
    BY <2>1, BatchFacts
  <2>3. Cardinality(At1) = 1
    BY <2>2, FS_Singleton
  <2> QED  BY <1>1, <1>2, <2>3
<1>3. CASE ~\E n \in DOMAIN Batch(m) : Batch(m)[n] = l
  <2>1. At1 = {}
    BY <1>3
  <2>2. Cardinality(At1) = 0
    BY <2>1, FS_EmptySet
  <2> QED  BY <1>1, <1>3, <2>2
<1> QED  BY <1>2, <1>3

\* Only messages of somebody who is allowed are appended.
LEMMA AppendedAllowed ==
    ASSUME NEW m \in Messages, Decision(m) # "reject", Batch(m) # <<>>
    PROVE  Inbound[m].allowed
<1>1. CASE m \in Observed
  BY <1>1, InboundTyped DEF Observed, Decision
<1>2. CASE m \notin Observed
  <2>1. ~Inbound[m].bind
    BY <1>2, BatchCases
  <2> QED  BY <1>2, <2>1, InboundTyped DEF Observed, Decision
<1> QED  BY <1>1, <1>2

-----------------------------------------------------------------------------
(* The goroutines                                                          *)

Job == [message : Messages \cup {None}, line : 0..3,
        turn : Messages \cup {None}, cut : BOOLEAN,
        stage : AppendStages \cup {"idle", "begun", "turn", "append", "saved", "failed"}]

LEMMA JobTyped == TypeOK => worker \in [Workers -> Job]
  BY DEF TypeOK, Job

\* The step is about w: what it is at afterwards; no other goroutine moves.
Becomes(w, m, stage, n) ==
    /\ worker' \in [Workers -> Job]
    /\ worker'[w].message = m /\ worker'[w].stage = stage /\ worker'[w].line = n
    /\ \A v \in Workers \ {w} : worker'[v] = worker[v]

MovesTo(w, stage) == Becomes(w, worker[w].message, stage, worker[w].line)

LEMMA Lands ==
    ASSUME TypeOK, NEW w \in Workers, NEW j \in Job, worker' = [worker EXCEPT ![w] = j]
    PROVE  Becomes(w, j.message, j.stage, j.line)
  BY JobTyped DEF Becomes

LEMMA StepLands ==
    ASSUME TypeOK, NEW w \in Workers,
           NEW stage \in AppendStages \cup {"turn", "append", "saved", "failed"}, Step(w, stage)
    PROVE  MovesTo(w, stage)
<1>1. worker[w] \in Job
  BY JobTyped
<1>2. [worker[w] EXCEPT !.stage = stage] \in Job
  BY <1>1 DEF Job
<1>3. worker' = [worker EXCEPT ![w] = [worker[w] EXCEPT !.stage = stage]]
  BY DEF Step
<1> QED  BY <1>1, <1>2, <1>3, Lands DEF MovesTo, Job

LEMMA Moves ==
    ASSUME TypeOK, NEW w \in Workers
    PROVE  /\ \A m \in Messages : Receive(w, m) =>
                Becomes(w, m, IF m \in Observed THEN "append" ELSE "begun", 1)
           /\ StartTurn(w) => MovesTo(w, "turn")
           /\ Steered(w) => Becomes(w, None, "idle", 0)
           /\ \A cut \in BOOLEAN : TurnEnds(w, cut) =>
                MovesTo(w, IF Batch(worker[w].message) = <<>> THEN "saved" ELSE "append")
           /\ \A k \in Messages : TakeUp(w, k) => Becomes(w, k, "turn", 1)
           /\ TakeLocks(w) => MovesTo(w, "conversation")
           /\ WriteConversationMeta(w) => MovesTo(w, "lines")
           /\ WriteAgentMeta(w) => MovesTo(w, "saved")
           /\ AppendFails(w) => MovesTo(w, "failed")
           /\ \A ok \in BOOLEAN : Settle(w, ok) => Becomes(w, None, "idle", 0)
<1>0. worker[w] \in Job /\ worker \in [Workers -> Job]
  BY JobTyped
<1>1. \A m \in Messages : Receive(w, m) =>
        Becomes(w, m, IF m \in Observed THEN "append" ELSE "begun", 1)
  <2> TAKE m \in Messages
  <2> DEFINE job == [message |-> m, stage |-> IF m \in Observed THEN "append" ELSE "begun",
                     line |-> 1, turn |-> m, cut |-> FALSE]
  <2>1. job \in Job
    BY DEF Job
  <2>2. Receive(w, m) => worker' = [worker EXCEPT ![w] = job]
    BY DEF Receive
  <2> QED  BY <2>1, <2>2, Lands
<1>2. \A cut \in BOOLEAN : TurnEnds(w, cut) =>
        MovesTo(w, IF Batch(worker[w].message) = <<>> THEN "saved" ELSE "append")
  <2> SUFFICES ASSUME NEW cut \in BOOLEAN, TurnEnds(w, cut)
               PROVE  MovesTo(w, IF Batch(worker[w].message) = <<>> THEN "saved" ELSE "append")
    OBVIOUS
  <2> DEFINE stage == IF Batch(worker[w].message) = <<>> THEN "saved" ELSE "append"
             job == [worker[w] EXCEPT !.stage = stage, !.cut = cut]
  <2>1. stage \in {"saved", "append"}
    OBVIOUS
  <2>2. worker' = [worker EXCEPT ![w] = job]
    BY DEF TurnEnds
  <2> HIDE DEF stage
  <2>3. /\ job \in Job /\ job.message = worker[w].message /\ job.stage = stage
        /\ job.line = worker[w].line
    BY <1>0, <2>1 DEF Job
  <2> HIDE DEF job
  <2>4. Becomes(w, job.message, job.stage, job.line)
    BY <2>2, <2>3, Lands
  <2> QED  BY <2>3, <2>4 DEF MovesTo, stage
<1>8. StartTurn(w) => MovesTo(w, "turn")
  BY StepLands DEF StartTurn
<1>9. \A k \in Messages : TakeUp(w, k) => Becomes(w, k, "turn", 1)
  <2> TAKE k \in Messages
  <2> DEFINE job == [message |-> k, stage |-> "turn", line |-> 1, turn |-> worker[w].turn,
                     cut |-> FALSE]
  <2>1. job \in Job
    BY <1>0 DEF Job
  <2>2. TakeUp(w, k) => worker' = [worker EXCEPT ![w] = job]
    BY DEF TakeUp
  <2> QED  BY <2>1, <2>2, Lands
<1>3. TakeLocks(w) => MovesTo(w, "conversation")
  BY StepLands DEF TakeLocks, AppendStages
<1>4. WriteConversationMeta(w) => MovesTo(w, "lines")
  BY StepLands DEF WriteConversationMeta, AppendStages
<1>5. WriteAgentMeta(w) => MovesTo(w, "saved")
  BY StepLands DEF WriteAgentMeta
<1>6. AppendFails(w) => MovesTo(w, "failed")
  BY StepLands DEF AppendFails
<1>7. /\ \A ok \in BOOLEAN : Settle(w, ok) => Becomes(w, None, "idle", 0)
      /\ Steered(w) => Becomes(w, None, "idle", 0)
  <2>1. IdleWorker \in Job
    BY DEF Job, IdleWorker
  <2>2. /\ \A ok \in BOOLEAN : Settle(w, ok) => worker' = [worker EXCEPT ![w] = IdleWorker]
        /\ Steered(w) => worker' = [worker EXCEPT ![w] = IdleWorker]
    BY DEF Settle, Steered
  <2> QED  BY <2>1, <2>2, Lands DEF IdleWorker
<1> QED  BY <1>1, <1>2, <1>3, <1>4, <1>5, <1>6, <1>7, <1>8, <1>9

\* A goroutine that writes has a line to write, of its message; the line is on disk then.
LEMMA Writing ==
    ASSUME TypeOK, Work, Whole, NEW w \in Workers, WriteLine(w)
    PROVE  LET m == worker[w].message
               n == worker[w].line
           IN /\ m \in Messages /\ n \in 1..Len(Batch(m)) /\ Len(Batch(m)) \in 1..2
              /\ Batch(m)[n] \in Lines /\ Batch(m)[n] \in LinesOf(m)
              /\ disk' = [disk EXCEPT ![Batch(m)[n]] = @ + 1]
              /\ Becomes(w, m, IF n = Len(Batch(m)) THEN "agent" ELSE "lines", n + 1)
<1> DEFINE m == worker[w].message
           n == worker[w].line
<1>1. worker[w] \in Job /\ At(w, "lines")
  BY JobTyped DEF WriteLine
<1>2. m \in Messages /\ n \in 1..Len(Batch(m))
  BY <1>1 DEF Work, At, Job
<1>3. Len(Batch(m)) \in 1..2 /\ Batch(m)[n] \in LinesOf(m)
  BY <1>2, BatchFacts
<1>4. Batch(m)[n] \in Lines
  BY <1>2, <1>3, LineOf
<1>5. disk' = [disk EXCEPT ![Batch(m)[n]] = @ + 1]
  BY DEF WriteLine, Whole
<1>6. Becomes(w, m, IF n = Len(Batch(m)) THEN "agent" ELSE "lines", n + 1)
  <2> HIDE DEF m, n
  <2> DEFINE stage == IF n = Len(Batch(m)) THEN "agent" ELSE "lines"
             job == [worker[w] EXCEPT !.stage = stage, !.line = n + 1]
  <2>1. n + 1 \in 0..3 /\ stage \in {"agent", "lines"}
    BY <1>2, <1>3
  <2>2. worker' = [worker EXCEPT ![w] = job]
    BY DEF WriteLine, m, n
  <2> HIDE DEF stage
  <2>3. job \in Job /\ job.message = m /\ job.stage = stage /\ job.line = n + 1
    BY <1>1, <2>1 DEF Job, AppendStages, m
  <2> HIDE DEF job
  <2>4. Becomes(w, job.message, job.stage, job.line)
    BY <2>2, <2>3, Lands
  <2> QED  BY <2>3, <2>4 DEF stage
<1> QED  BY <1>2, <1>3, <1>4, <1>5, <1>6

LEMMA WritesLine ==
    ASSUME TypeOK, Work, Whole, NEW w \in Workers, WriteLine(w)
    PROVE  \E m \in Messages, n \in Nat :
              /\ m = worker[w].message /\ n = worker[w].line
              /\ n \in 1..Len(Batch(m)) /\ Len(Batch(m)) \in 1..2
              /\ Batch(m)[n] \in Lines
              /\ disk' = [disk EXCEPT ![Batch(m)[n]] = @ + 1]
              /\ Becomes(w, m, IF n = Len(Batch(m)) THEN "agent" ELSE "lines", n + 1)
<1>1. /\ worker[w].message \in Messages /\ worker[w].line \in Nat
      /\ worker[w].line \in 1..Len(Batch(worker[w].message))
  BY Writing
<1> QED  BY <1>1, Writing

-----------------------------------------------------------------------------
(* Each part of the invariant is preserved                                 *)

\* What a change of the deduper does: the file follows if there is one, unless a
\* write fails.
LEMMA Persisted ==
    ASSUME ~TornWrites, TypeOK, NEW m \in Messages, NEW e \in {"absent", "processing", "completed"},
           Persist([entries EXCEPT ![m] = e])
    PROVE  /\ entries' \in [Messages -> {"absent", "processing", "completed"}]
           /\ seenFile' \in [Messages -> {"absent", "processing", "completed"}]
           /\ entries'[m] = e
           /\ \A k \in Messages \ {m} : entries'[k] = entries[k]
           /\ \/ errors' = errors /\ seenFile' = (IF DedupeFile THEN entries' ELSE seenFile)
              \/ errors' = errors + 1 /\ seenFile' = seenFile /\ errors < MaxErrors
           /\ errors' \in 0..MaxErrors
  BY IntakeAssumption DEF Persist, TypeOK

\* A delivery and the end of its handling are such changes.
LEMMA Begins ==
    ASSUME NEW w \in Workers, NEW m \in Messages, Receive(w, m)
    PROVE  /\ Persist([entries EXCEPT ![m] = "processing"]) /\ entries[m] = "absent"
           /\ up /\ Decision(m) # "reject"
           /\ UNCHANGED <<up, steered, memory, disk, torn, expired, forgets, handed, starts>>
  BY DEF Receive, Begin, session, ghosts

LEMMA Settles ==
    ASSUME TypeOK, Turns, NEW w \in Workers, NEW ok \in BOOLEAN, Settle(w, ok)
    PROVE  LET m == worker[w].turn
               e == IF ok THEN "completed" ELSE "absent"
           IN /\ m \in Messages
              /\ Persist([entries EXCEPT ![m] = e])
              /\ e \in {"absent", "processing", "completed"}
              /\ forgets' = [forgets EXCEPT ![m] = IF ok THEN @ ELSE @ + 1]
              /\ worker[w].stage \in {"saved", "failed"} /\ up
              /\ m \in Observed => ok = At(w, "saved") /\ worker[w].message = m
              /\ worker[w].message \in Observed => worker[w].message = m
              /\ worker[w].message = m \/ worker[w].message \in handed
              /\ UNCHANGED <<up, steered, memory, disk, torn, expired, handed, starts>>
<1>1. worker[w] \in Job /\ ~At(w, "idle")
  BY JobTyped DEF Settle, At
<1>2. worker[w].turn \in Messages
  BY <1>1 DEF Turns, Job
<1> QED  BY <1>2 DEF Settle, session, Turns

LEMMA PublishedTyped ==
    ASSUME TypeOK, NEW m \in Messages
    PROVE  Published(m) \in [Lines -> Nat]
<1>1. \A l \in Lines : Published(m)[l] \in Nat
  BY PublishedOnce DEF TypeOK
<1> QED  BY <1>1 DEF Published

\* A goroutine that publishes has written all its lines.
LEMMA PublishesOwn ==
    ASSUME TypeOK, Work, NEW w \in Workers, WriteAgentMeta(w)
    PROVE  LET m == worker[w].message
           IN /\ m \in Messages /\ Inbound[m].allowed
              /\ memory' = Published(m)
              /\ worker[w].line = Len(Batch(m)) + 1
              /\ At(w, "agent") /\ up
              /\ UNCHANGED <<up, entries, seenFile, disk, torn, expired, forgets, starts, errors>>
<1>1. worker[w] \in Job /\ At(w, "agent")
  BY JobTyped DEF WriteAgentMeta
<1>2. worker[w].message \in Messages
  BY <1>1 DEF Work, At, Job
<1>3. Inbound[worker[w].message].allowed
  BY <1>1, <1>2, AppendedAllowed DEF Work, At, AppendStages
<1> QED  BY <1>1, <1>2, <1>3 DEF WriteAgentMeta, Work, ghosts

LEMMA WorkersTyped ==
    ASSUME TypeOK, Work, Whole, Next
    PROVE  /\ worker' \in [Workers -> Job]
           /\ (\A v, w \in Workers :
                 worker[v].stage \in AppendStages /\ worker[w].stage \in AppendStages => v = w)'
<1> DEFINE Alone == \A v, w \in Workers :
              worker[v].stage \in AppendStages /\ worker[w].stage \in AppendStages => v = w
<1>0. Alone
  BY DEF TypeOK
<1>1. ASSUME NEW w \in Workers, NEW m, NEW stage, NEW n, Becomes(w, m, stage, n),
             worker[w].stage \in AppendStages \/ stage \notin AppendStages
      PROVE  worker' \in [Workers -> Job] /\ Alone'
  <2>1. \A v \in Workers : worker'[v].stage \in AppendStages => worker[v].stage \in AppendStages
    BY <1>1 DEF Becomes
  <2> QED  BY <1>0, <1>1, <2>1 DEF Becomes
<1>2. ASSUME NEW w \in Workers, NEW m \in Messages, Receive(w, m)
      PROVE  worker' \in [Workers -> Job] /\ Alone'
  BY <1>1, <1>2, Moves DEF AppendStages
<1>3. ASSUME NEW w \in Workers, NEW cut \in BOOLEAN, TurnEnds(w, cut)
      PROVE  worker' \in [Workers -> Job] /\ Alone'
  BY <1>1, <1>3, Moves DEF AppendStages, MovesTo
<1>11. ASSUME NEW w \in Workers, NEW k \in Messages, StartTurn(w) \/ Steered(w) \/ TakeUp(w, k)
      PROVE  worker' \in [Workers -> Job] /\ Alone'
  BY <1>1, <1>11, Moves DEF AppendStages, MovesTo
<1>12. ASSUME NEW w \in Workers, StartTurn(w) \/ Steered(w)
      PROVE  worker' \in [Workers -> Job] /\ Alone'
  BY <1>1, <1>12, Moves DEF AppendStages, MovesTo
<1>4. ASSUME NEW w \in Workers, TakeLocks(w)
      PROVE  worker' \in [Workers -> Job] /\ Alone'
  <2>1. \A v \in Workers : worker[v].stage \notin AppendStages
    BY <1>4 DEF TakeLocks, Appending
  <2> QED  BY <1>4, <2>1, Moves DEF MovesTo, Becomes
<1>5. ASSUME NEW w \in Workers, WriteConversationMeta(w)
      PROVE  worker' \in [Workers -> Job] /\ Alone'
  BY <1>1, <1>5, Moves DEF WriteConversationMeta, At, AppendStages, MovesTo
<1>6. ASSUME NEW w \in Workers, WriteLine(w)
      PROVE  worker' \in [Workers -> Job] /\ Alone'
  <2>1. worker[w].stage \in AppendStages
    BY <1>6 DEF WriteLine, At, AppendStages
  <2> QED  BY <1>1, <1>6, <2>1, Writing
<1>7. ASSUME NEW w \in Workers, WriteAgentMeta(w) \/ AppendFails(w)
      PROVE  worker' \in [Workers -> Job] /\ Alone'
  BY <1>1, <1>7, Moves DEF AppendStages, MovesTo
<1>8. ASSUME NEW w \in Workers, NEW ok \in BOOLEAN, Settle(w, ok)
      PROVE  worker' \in [Workers -> Job] /\ Alone'
  BY <1>1, <1>8, Moves DEF AppendStages
<1>9. CASE Crash
  <2>1. worker' = [w \in Workers |-> IdleWorker] /\ IdleWorker \in Job
    BY <1>9 DEF Crash, IdleWorker, Job
  <2> QED  BY <2>1 DEF IdleWorker, AppendStages
<1>10. CASE UNCHANGED worker
  BY <1>0, <1>10, JobTyped
<1> QED
  BY <1>2, <1>3, <1>4, <1>5, <1>6, <1>7, <1>8, <1>9, <1>10, <1>11, <1>12 DEF Next, Expire, Start

LEMMA HistoryTyped ==
    ASSUME TypeOK, Work, Down, Whole, Next
    PROVE  /\ memory' \in [Lines -> Nat] /\ disk' \in [Lines -> Nat]
           /\ \A l \in Lines : memory'[l] + disk'[l] > 0 => Inbound[l[1]].allowed
<1>0. /\ memory \in [Lines -> Nat] /\ disk \in [Lines -> Nat]
      /\ \A l \in Lines : memory[l] + disk[l] > 0 => Inbound[l[1]].allowed
  BY DEF TypeOK
<1> DEFINE Goal == /\ memory' \in [Lines -> Nat] /\ disk' \in [Lines -> Nat]
                   /\ \A l \in Lines : memory'[l] + disk'[l] > 0 => Inbound[l[1]].allowed
<1>1. ASSUME NEW w \in Workers, WriteLine(w) PROVE Goal
  <2>1. PICK m \in Messages : m = worker[w].message
    BY <1>1, Writing
  <2>2. PICK l \in LinesOf(m) : l \in Lines /\ disk' = [disk EXCEPT ![l] = @ + 1]
    BY <1>1, <2>1, Writing
  <2>3. Inbound[l[1]].allowed
    <3>1. worker[w].stage = "lines"
      BY <1>1 DEF WriteLine, At
    <3>2. Decision(m) # "reject" /\ Batch(m) # <<>>
      BY <2>1, <3>1 DEF Work, At, AppendStages
    <3> QED  BY <2>2, <3>2, AppendedAllowed, LineOf
  <2>4. memory' = memory
    BY <1>1 DEF WriteLine
  <2> QED  BY <1>0, <2>2, <2>3, <2>4
<1>2. ASSUME NEW w \in Workers, WriteAgentMeta(w) PROVE Goal
  <2>1. PICK m \in Messages : /\ m = worker[w].message /\ Inbound[m].allowed
                              /\ memory' = Published(m) /\ disk' = disk
    BY <1>2, PublishesOwn
  <2>2. \A l \in Lines : memory'[l] = memory[l] \/ l[1] = m
    <3> SUFFICES ASSUME NEW l \in Lines, l[1] # m PROVE memory'[l] = memory[l]
      OBVIOUS
    <3>1. ~\E n \in DOMAIN Batch(m) : Batch(m)[n] = l
      BY BatchFacts, LineOf
    <3> QED  BY <1>0, <2>1, <3>1, PublishedOnce
  <2> QED  BY <1>0, <2>1, <2>2, PublishedTyped
<1>3. CASE Crash
  <2>1. memory' = NoLines /\ disk' = disk
    BY <1>3 DEF Crash
  <2> QED  BY <1>0, <2>1 DEF NoLines
<1>4. CASE Start
  BY <1>0, <1>4 DEF Start
<1>5. CASE UNCHANGED <<memory, disk>>
  BY <1>0, <1>5
<1> QED
  BY <1>1, <1>2, <1>3, <1>4, <1>5
     DEF Next, Receive, StartTurn, Steered, TurnEnds, TakeUp, TakeLocks, WriteConversationMeta, AppendFails, Settle, Expire,
         session

\* The types of all but the goroutines and the history.
Dedupe ==
    /\ entries \in [Messages -> {"absent", "processing", "completed"}]
    /\ seenFile \in [Messages -> {"absent", "processing", "completed"}]
    /\ errors \in 0..MaxErrors

Handed == steered \in [Messages -> Nat] /\ handed \subseteq Messages

Ghosts == expired \in [Messages -> 0..MaxExpiries] /\ forgets \in [Messages -> Nat]

Process == up \in BOOLEAN /\ starts \in 1..MaxStarts /\ torn \in BOOLEAN

\* The message of a goroutine that is not idle.
LEMMA WorksOn ==
    ASSUME TypeOK, Work, NEW w \in Workers, ~At(w, "idle")
    PROVE  worker[w].message \in Messages
  BY JobTyped DEF Work, Job

LEMMA HandedTyped ==
    ASSUME TypeOK, Work, Next
    PROVE  Handed'
<1>0. Handed
  BY DEF TypeOK, Handed
<1>1. ASSUME NEW w \in Workers, Steered(w) PROVE Handed'
  <2>1. worker[w].message \in Messages
    BY <1>1, WorksOn DEF Steered, At
  <2> QED  BY <1>0, <1>1, <2>1 DEF Steered, Handed
<1>2. ASSUME NEW w \in Workers, NEW k \in Messages, TakeUp(w, k) PROVE Handed'
  <2>1. steered[k] - 1 \in Nat
    BY <1>0, <1>2 DEF TakeUp, Handed
  <2> QED  BY <1>0, <1>2, <2>1 DEF TakeUp, ghosts, Handed
<1>3. CASE Crash
  BY <1>0, <1>3 DEF Crash, ghosts, Handed
<1>4. CASE UNCHANGED <<steered, handed>>
  BY <1>0, <1>4 DEF Handed
<1> QED
  BY <1>1, <1>2, <1>3, <1>4
     DEF Next, Receive, StartTurn, TurnEnds, TakeLocks, WriteConversationMeta, WriteLine,
         WriteAgentMeta, AppendFails, Settle, Expire, Start, ghosts

LEMMA TypeStep ==
    ASSUME ~TornWrites, TypeOK, Work, Turns, Down, Whole, Next
    PROVE  TypeOK'
<1>0. Dedupe /\ Ghosts /\ Process
  BY DEF TypeOK, Dedupe, Ghosts, Process
<1>b. Handed'
  BY HandedTyped
<1>a. MaxStarts \in Nat /\ MaxErrors \in Nat /\ MaxExpiries \in Nat
  BY IntakeAssumption
<1>1. ASSUME NEW w \in Workers, NEW m \in Messages, Receive(w, m)
      PROVE  (Dedupe /\ Ghosts /\ Process)'
  BY <1>0, <1>1, Begins, Persisted DEF Dedupe, Ghosts, Process
<1>2. ASSUME NEW w \in Workers, NEW ok \in BOOLEAN, Settle(w, ok)
      PROVE  (Dedupe /\ Ghosts /\ Process)'
  <2>1. PICK m \in Messages, e \in {"absent", "processing", "completed"} :
          /\ Persist([entries EXCEPT ![m] = e])
          /\ forgets' = [forgets EXCEPT ![m] = IF ok THEN @ ELSE @ + 1]
          /\ UNCHANGED <<up, torn, expired, starts>>
    BY <1>2, Settles
  <2>2. (IF ok THEN forgets[m] ELSE forgets[m] + 1) \in Nat
    BY <1>0 DEF Ghosts
  <2>3. Dedupe'
    BY <2>1, Persisted DEF Dedupe
  <2>4. Ghosts' /\ Process'
    BY <1>0, <2>1, <2>2 DEF Ghosts, Process
  <2> QED  BY <2>3, <2>4
<1>3. ASSUME NEW m \in Messages, Expire(m)
      PROVE  (Dedupe /\ Ghosts /\ Process)'
  <2>1. Dedupe' /\ Process'
    BY <1>0, <1>3 DEF Expire, session, Dedupe, Process
  <2>2. expired[m] + 1 \in 0..MaxExpiries
    BY <1>0, <1>3, <1>a DEF Expire, Ghosts
  <2>3. Ghosts'
    BY <1>0, <1>3, <2>2 DEF Expire, Ghosts
  <2> QED  BY <2>1, <2>3
<1>4. ASSUME NEW w \in Workers, AppendFails(w)
      PROVE  (Dedupe /\ Ghosts /\ Process)'
  <2>1. Ghosts' /\ Process'
    BY <1>0, <1>4 DEF AppendFails, ghosts, Ghosts, Process
  <2>2. errors' \in 0..MaxErrors
    BY <1>0, <1>4, <1>a DEF AppendFails, Dedupe
  <2> QED  BY <1>0, <1>4, <2>1, <2>2 DEF AppendFails, Dedupe
<1>5. ASSUME Crash
      PROVE  (Dedupe /\ Ghosts /\ Process)'
  <2>1. Ghosts' /\ Process'
    BY <1>0, <1>5 DEF Crash, ghosts, Ghosts, Process
  <2>2. entries' = Absent /\ seenFile' \in {seenFile, Absent} /\ errors' = errors
    BY <1>5 DEF Crash
  <2>3. Absent \in [Messages -> {"absent", "processing", "completed"}]
    BY DEF Absent
  <2> QED  BY <1>0, <2>1, <2>2, <2>3 DEF Dedupe
<1>6. ASSUME Start
      PROVE  (Dedupe /\ Ghosts /\ Process)'
  <2>1. Ghosts' /\ Dedupe'
    BY <1>0, <1>6 DEF Start, ghosts, Ghosts, Dedupe
  <2>2. starts < MaxStarts
    BY <1>6 DEF Start, Down
  <2>3. Process'
    BY <1>0, <1>6, <1>a, <2>2 DEF Start, Process
  <2> QED  BY <2>1, <2>3
<1>7. ASSUME NEW w \in Workers,
             StartTurn(w) \/ Steered(w) \/ TakeLocks(w) \/ WriteConversationMeta(w) \/ WriteLine(w)
               \/ WriteAgentMeta(w)
      PROVE  (Dedupe /\ Ghosts /\ Process)'
  BY <1>0, <1>7 DEF StartTurn, Steered, TakeLocks, WriteConversationMeta, WriteLine, WriteAgentMeta,
                    session, ghosts, Dedupe, Ghosts, Process
<1>9. ASSUME NEW w \in Workers, NEW cut \in BOOLEAN, NEW k \in Messages,
             TurnEnds(w, cut) \/ TakeUp(w, k)
      PROVE  (Dedupe /\ Ghosts /\ Process)'
  BY <1>0, <1>9 DEF TurnEnds, TakeUp, session, ghosts, Dedupe, Ghosts, Process
<1>10. ASSUME NEW w \in Workers, NEW cut \in BOOLEAN, TurnEnds(w, cut)
      PROVE  (Dedupe /\ Ghosts /\ Process)'
  BY <1>0, <1>10 DEF TurnEnds, session, ghosts, Dedupe, Ghosts, Process
<1>8. (Dedupe /\ Ghosts /\ Process)'
  BY <1>1, <1>2, <1>3, <1>4, <1>5, <1>6, <1>7, <1>9, <1>10 DEF Next
<1> QED
  BY <1>8, <1>b, WorkersTyped, HistoryTyped DEF TypeOK, Job, Dedupe, Ghosts, Handed, Process

\* What a goroutine moves to has to fit its message.
Fits(m, stage, n) ==
    /\ stage = "idle" <=> m = None
    /\ stage # "idle" => Decision(m) # "reject"
    /\ stage \in {"begun", "turn"} => m \notin Observed
    /\ stage \in AppendStages \cup {"append", "failed"} => Batch(m) # <<>>
    /\ stage \in {"begun", "turn", "append", "conversation"} => n = 1
    /\ stage = "lines" => n \in 1..Len(Batch(m))
    /\ stage = "agent" => n = Len(Batch(m)) + 1

LEMMA WorkFits ==
    ASSUME Work, NEW w \in Workers
    PROVE  Fits(worker[w].message, worker[w].stage, worker[w].line)
  BY DEF Work, At, Fits

LEMMA WorkLands ==
    ASSUME Work, NEW w \in Workers, NEW m, NEW stage, NEW n, Becomes(w, m, stage, n),
           Fits(m, stage, n)
    PROVE  Work'
  BY DEF Work, Becomes, At, Fits

LEMMA WorkStep ==
    ASSUME TypeOK, Work, Turns, Whole, Next
    PROVE  Work'
<1>1. ASSUME NEW w \in Workers, NEW m \in Messages, Receive(w, m) PROVE Work'
  <2>1. Becomes(w, m, IF m \in Observed THEN "append" ELSE "begun", 1)
    BY <1>1, Moves
  <2>2. Decision(m) # "reject" /\ m # None
    BY <1>1, IntakeAssumption DEF Receive
  <2>3. CASE m \in Observed
    <3>1. Batch(m) # <<>>
      BY <2>3, BatchFacts
    <3>2. Fits(m, "append", 1)
      BY <2>2, <3>1 DEF Fits, AppendStages
    <3> QED  BY <2>1, <2>3, <3>2, WorkLands
  <2>4. CASE m \notin Observed
    <3>1. Fits(m, "begun", 1)
      BY <2>2, <2>4 DEF Fits, AppendStages
    <3> QED  BY <2>1, <2>4, <3>1, WorkLands
  <2> QED  BY <2>3, <2>4
<1>2. ASSUME NEW w \in Workers, NEW cut \in BOOLEAN, TurnEnds(w, cut) PROVE Work'
  <2>1. Becomes(w, worker[w].message,
                IF Batch(worker[w].message) = <<>> THEN "saved" ELSE "append", worker[w].line)
    BY <1>2, Moves DEF MovesTo
  <2>2. worker[w].stage = "turn"
    BY <1>2 DEF TurnEnds, At
  <2>3. CASE Batch(worker[w].message) = <<>>
    <3>1. Fits(worker[w].message, "saved", worker[w].line)
      BY <2>2, WorkFits DEF Fits, AppendStages
    <3> QED  BY <2>1, <2>3, <3>1, WorkLands
  <2>4. CASE Batch(worker[w].message) # <<>>
    <3>1. Fits(worker[w].message, "append", worker[w].line)
      BY <2>2, <2>4, WorkFits DEF Fits, AppendStages
    <3> QED  BY <2>1, <2>4, <3>1, WorkLands
  <2> QED  BY <2>3, <2>4
<1>3. ASSUME NEW w \in Workers, TakeLocks(w) PROVE Work'
  <2>1. Becomes(w, worker[w].message, "conversation", worker[w].line)
    BY <1>3, Moves DEF MovesTo
  <2>2. Fits(worker[w].message, "conversation", worker[w].line)
    BY <1>3, WorkFits DEF Fits, AppendStages, TakeLocks, At
  <2> QED  BY <2>1, <2>2, WorkLands
<1>4. ASSUME NEW w \in Workers, WriteConversationMeta(w) PROVE Work'
  <2>1. Becomes(w, worker[w].message, "lines", worker[w].line)
    BY <1>4, Moves DEF MovesTo
  <2>2. worker[w].stage = "conversation"
    BY <1>4 DEF WriteConversationMeta, At
  <2>3. worker[w].message \in Messages
    BY <2>2, WorksOn DEF At
  <2>4. worker[w].line \in 1..Len(Batch(worker[w].message))
    <3>1. Batch(worker[w].message) # <<>> /\ worker[w].line = 1
      BY <2>2, WorkFits DEF Fits, AppendStages
    <3> QED  BY <2>3, <3>1, BatchFacts
  <2>5. Fits(worker[w].message, "lines", worker[w].line)
    BY <2>2, <2>4, WorkFits DEF Fits, AppendStages
  <2> QED  BY <2>1, <2>5, WorkLands
<1>5. ASSUME NEW w \in Workers, WriteLine(w) PROVE Work'
  <2>1. PICK m \in Messages, n \in Nat :
          /\ m = worker[w].message /\ n = worker[w].line
          /\ n \in 1..Len(Batch(m)) /\ Len(Batch(m)) \in 1..2
          /\ Becomes(w, m, IF n = Len(Batch(m)) THEN "agent" ELSE "lines", n + 1)
    BY <1>5, WritesLine
  <2>2. worker[w].stage = "lines"
    BY <1>5 DEF WriteLine, At
  <2>3. Decision(m) # "reject" /\ m # None /\ Batch(m) # <<>>
    BY <2>1, <2>2, WorkFits DEF Fits, AppendStages
  <2>4. CASE n = Len(Batch(m))
    <3>1. Fits(m, "agent", n + 1)
      BY <2>1, <2>3, <2>4 DEF Fits, AppendStages
    <3> QED  BY <2>1, <2>4, <3>1, WorkLands
  <2>5. CASE n # Len(Batch(m))
    <3>1. n + 1 \in 1..Len(Batch(m))
      BY <2>1, <2>5
    <3>2. Fits(m, "lines", n + 1)
      BY <2>1, <2>3, <3>1 DEF Fits, AppendStages
    <3> QED  BY <2>1, <2>5, <3>2, WorkLands
  <2> QED  BY <2>4, <2>5
<1>6. ASSUME NEW w \in Workers, WriteAgentMeta(w) PROVE Work'
  <2>1. Becomes(w, worker[w].message, "saved", worker[w].line)
    BY <1>6, Moves DEF MovesTo
  <2>2. Fits(worker[w].message, "saved", worker[w].line)
    BY <1>6, WorkFits DEF Fits, AppendStages, WriteAgentMeta, At
  <2> QED  BY <2>1, <2>2, WorkLands
<1>7. ASSUME NEW w \in Workers, AppendFails(w) PROVE Work'
  <2>1. Becomes(w, worker[w].message, "failed", worker[w].line)
    BY <1>7, Moves DEF MovesTo
  <2>2. Fits(worker[w].message, "failed", worker[w].line)
    BY <1>7, WorkFits DEF Fits, AppendStages, AppendFails, At
  <2> QED  BY <2>1, <2>2, WorkLands
<1>8. ASSUME NEW w \in Workers, NEW ok \in BOOLEAN, Settle(w, ok) PROVE Work'
  <2>1. Becomes(w, None, "idle", 0)
    BY <1>8, Moves
  <2>2. Fits(None, "idle", 0)
    BY DEF Fits, AppendStages
  <2> QED  BY <2>1, <2>2, WorkLands
<1>11. ASSUME NEW w \in Workers, StartTurn(w) PROVE Work'
  <2>1. Becomes(w, worker[w].message, "turn", worker[w].line)
    BY <1>11, Moves DEF MovesTo
  <2>2. Fits(worker[w].message, "turn", worker[w].line)
    BY <1>11, WorkFits DEF Fits, AppendStages, StartTurn, At
  <2> QED  BY <2>1, <2>2, WorkLands
<1>12. ASSUME NEW w \in Workers, Steered(w) PROVE Work'
  <2>1. Becomes(w, None, "idle", 0)
    BY <1>12, Moves
  <2>2. Fits(None, "idle", 0)
    BY DEF Fits, AppendStages
  <2> QED  BY <2>1, <2>2, WorkLands
<1>13. ASSUME NEW w \in Workers, NEW k \in Messages, TakeUp(w, k) PROVE Work'
  <2>1. Becomes(w, k, "turn", 1)
    BY <1>13, Moves
  <2>2. k \notin Observed /\ Decision(k) # "reject" /\ k # None
    BY <1>13, IntakeAssumption DEF TakeUp, Turns
  <2>3. Fits(k, "turn", 1)
    BY <2>2 DEF Fits, AppendStages
  <2> QED  BY <2>1, <2>3, WorkLands
<1>9. CASE Crash
  BY <1>9 DEF Crash, Work, IdleWorker, At, AppendStages
<1>10. CASE UNCHANGED worker
  BY <1>10 DEF Work, At
<1> QED
  BY <1>1, <1>2, <1>3, <1>4, <1>5, <1>6, <1>7, <1>8, <1>9, <1>10, <1>11, <1>12,
     <1>13 DEF Next, Expire, Start

\* Turns is kept by a step of w that goes on with its message, or with one that was
\* handed on, or with nothing.
KeepsTurn(w) ==
    /\ worker'[w].message = worker[w].message /\ worker'[w].turn = worker[w].turn
    /\ worker'[w].stage \notin {"idle", "begun"} /\ worker[w].stage # "idle"
    /\ worker'[w].stage = "turn" \/ worker'[w].cut => worker[w].turn \notin Observed
    /\ \A v \in Workers \ {w} : worker'[v] = worker[v]

LEMMA StepKeepsTurn ==
    ASSUME TypeOK, NEW w \in Workers, NEW stage, Step(w, stage), stage \notin {"idle", "begun"},
           worker[w].stage # "idle",
           stage = "turn" \/ worker[w].cut => worker[w].turn \notin Observed
    PROVE  KeepsTurn(w)
  BY JobTyped DEF Step, KeepsTurn, Job

LEMMA TurnsStep ==
    ASSUME TypeOK, Work, Turns, Next
    PROVE  Turns'
<1>0. worker \in [Workers -> Job] /\ steered \in [Messages -> Nat]
  BY JobTyped DEF TypeOK
<1>a. \A w \in Workers : worker[w].cut => worker[w].turn \notin Observed
  BY DEF Turns
<1>b. None \notin Messages /\ Observed \subseteq Messages
  BY IntakeAssumption DEF Observed
<1>1. ASSUME NEW w \in Workers, KeepsTurn(w), UNCHANGED <<steered, handed>> PROVE Turns'
  BY <1>1 DEF Turns, KeepsTurn, At
<1>2. ASSUME NEW w \in Workers, NEW m \in Messages, Receive(w, m) PROVE Turns'
  <2>1. /\ worker'[w].message = m /\ worker'[w].turn = m /\ ~worker'[w].cut
        /\ worker'[w].stage \in {"append", "begun"}
        /\ \A v \in Workers \ {w} : worker'[v] = worker[v]
    BY <1>0, <1>2 DEF Receive
  <2>2. UNCHANGED <<steered, handed>>
    BY <1>2 DEF Receive, ghosts
  <2> QED  BY <1>b, <2>1, <2>2 DEF Turns, At
<1>3. ASSUME NEW w \in Workers, StartTurn(w) PROVE Turns'
  <2>1. worker[w].turn \notin Observed
    BY <1>3 DEF StartTurn, At, Turns, Work
  <2>2. KeepsTurn(w)
    BY <1>3, <2>1, StepKeepsTurn DEF StartTurn, At
  <2> QED  BY <1>1, <1>3, <2>2 DEF StartTurn, ghosts
<1>4. ASSUME NEW w \in Workers, worker' = [worker EXCEPT ![w] = IdleWorker],
             UNCHANGED <<steered, handed>>
      PROVE  Turns'
  <2>1. /\ worker'[w] = IdleWorker
        /\ \A v \in Workers \ {w} : worker'[v] = worker[v]
    BY <1>0, <1>4
  <2> QED  BY <1>4, <1>b, <2>1 DEF Turns, At, IdleWorker
<1>5. ASSUME NEW w \in Workers, Steered(w) PROVE Turns'
  <2> DEFINE m == worker[w].message
  <2>1. m \in Messages /\ m \notin Observed /\ Decision(m) # "reject"
    BY <1>5, WorksOn DEF Steered, At, Work
  <2>2. /\ handed' = handed \cup {m} /\ steered' = [steered EXCEPT ![m] = @ + 1]
        /\ worker'[w] = IdleWorker
        /\ \A v \in Workers \ {w} : worker'[v] = worker[v]
    BY <1>0, <1>5 DEF Steered
  <2> HIDE DEF m
  <2>3. \A k \in Messages : steered'[k] > 0 => k \in handed'
    BY <1>0, <2>1, <2>2 DEF Turns
  <2>4. \A k \in handed' : k \notin Observed /\ Decision(k) # "reject"
    BY <2>1, <2>2 DEF Turns
  <2>5. ASSUME NEW v \in Workers
        PROVE  LET n == worker'[v].message
                   t == worker'[v].turn
               IN /\ worker'[v].stage = "idle" <=> t = None
                  /\ n \in Observed \/ t \in Observed => n = t
                  /\ n = t \/ n \in handed'
                  /\ worker'[v].stage = "begun" => n = t
                  /\ worker'[v].stage = "turn" \/ worker'[v].cut => t \notin Observed
    <3>1. CASE v = w
      BY <1>b, <2>2, <3>1 DEF IdleWorker
    <3>2. CASE v # w
      BY <2>2, <3>2 DEF Turns, At
    <3> QED  BY <3>1, <3>2
  <2> QED  BY <2>3, <2>4, <2>5 DEF Turns, At
<1>6. ASSUME NEW w \in Workers, NEW cut \in BOOLEAN, TurnEnds(w, cut) PROVE Turns'
  <2>1. worker[w].stage = "turn" /\ worker[w].turn \notin Observed
    BY <1>6 DEF TurnEnds, At, Turns
  <2>2. KeepsTurn(w)
    BY <1>0, <1>6, <2>1 DEF TurnEnds, KeepsTurn, Job
  <2> QED  BY <1>1, <1>6, <2>2 DEF TurnEnds, ghosts
<1>7. ASSUME NEW w \in Workers, NEW k \in Messages, TakeUp(w, k) PROVE Turns'
  <2>1. /\ k \in handed /\ k \notin Observed /\ worker[w].turn \notin Observed
        /\ worker[w].turn # None
    BY <1>7 DEF TakeUp, Turns, At
  <2>2. /\ worker'[w] = [message |-> k, stage |-> "turn", line |-> 1, turn |-> worker[w].turn,
                         cut |-> FALSE]
        /\ \A v \in Workers \ {w} : worker'[v] = worker[v]
        /\ handed' = handed /\ steered' = [steered EXCEPT ![k] = @ - 1]
    BY <1>0, <1>7 DEF TakeUp, ghosts
  <2>3. \A m \in Messages : steered'[m] > 0 => m \in handed'
    BY <1>0, <2>1, <2>2 DEF Turns
  <2> QED  BY <2>1, <2>2, <2>3 DEF Turns, At
<1>8. ASSUME NEW w \in Workers,
             TakeLocks(w) \/ WriteConversationMeta(w) \/ WriteAgentMeta(w) \/ AppendFails(w)
      PROVE  Turns'
  <2>1. KeepsTurn(w)
    BY <1>8, <1>a, StepKeepsTurn
       DEF TakeLocks, WriteConversationMeta, WriteAgentMeta, AppendFails, At, AppendStages
  <2> QED
    BY <1>1, <1>8, <2>1
       DEF TakeLocks, WriteConversationMeta, WriteAgentMeta, AppendFails, ghosts
<1>9. ASSUME NEW w \in Workers, WriteLine(w) PROVE Turns'
  <2>1. KeepsTurn(w)
    BY <1>0, <1>9, <1>a DEF WriteLine, KeepsTurn, Job, At
  <2> QED  BY <1>1, <1>9, <2>1 DEF WriteLine, ghosts
<1>10. CASE Crash
  <2>1. /\ worker' = [w \in Workers |-> IdleWorker] /\ handed' = handed
        /\ steered' = [m \in Messages |-> 0]
    BY <1>10 DEF Crash, ghosts
  <2> QED  BY <1>b, <2>1 DEF Turns, At, IdleWorker
<1>11. CASE UNCHANGED <<worker, steered, handed>>
  BY <1>11 DEF Turns, At
<1> QED
  BY <1>2, <1>3, <1>4, <1>5, <1>6, <1>7, <1>8, <1>9, <1>10, <1>11
     DEF Next, Settle, Expire, Start, ghosts

LEMMA DownStep ==
    ASSUME TypeOK, Work, Down, Next
    PROVE  Down'
<1>1. CASE Crash
  BY <1>1 DEF Crash, Down, At, IdleWorker
<1>2. CASE Start
  BY <1>2 DEF Start, Down
<1>3. ASSUME NEW m \in Messages, Expire(m) PROVE Down'
  BY <1>3 DEF Expire, session, Down, At
<1>4. CASE up /\ up' = up
  BY <1>4 DEF Down
<1> QED
  BY <1>1, <1>2, <1>3, <1>4
     DEF Next, Receive, StartTurn, Steered, TurnEnds, TakeUp, TakeLocks, WriteConversationMeta, WriteLine, WriteAgentMeta,
         AppendFails, Settle

LEMMA WholeStep ==
    ASSUME ~TornWrites, Whole, Next
    PROVE  Whole'
  BY DEF Next, Receive, StartTurn, Steered, TurnEnds, TakeUp, TakeLocks, WriteConversationMeta, WriteLine, WriteAgentMeta,
         AppendFails, Settle, Expire, Crash, Start, session, Whole

-----------------------------------------------------------------------------
(* What is visible is on disk                                              *)

LEMMA BehindSame ==
    ASSUME Behind, UNCHANGED <<memory, disk>>,
           \A v \in Workers : \A l \in Lines : Wrote(v, l)' => Wrote(v, l)
    PROVE  Behind'
  BY DEF Behind

LEMMA OthersWrote ==
    ASSUME NEW w \in Workers, NEW m, NEW stage, NEW n, Becomes(w, m, stage, n)
    PROVE  \A v \in Workers \ {w} : \A l \in Lines : Wrote(v, l)' <=> Wrote(v, l)
  BY DEF Becomes, Wrote

LEMMA NotWriting ==
    ASSUME NEW w \in Workers, NEW m, NEW stage, NEW n, Becomes(w, m, stage, n),
           stage \notin {"lines", "agent"}
    PROVE  \A v \in Workers : \A l \in Lines : Wrote(v, l)' => Wrote(v, l)
<1>1. \A l \in Lines : ~Wrote(w, l)'
  BY DEF Becomes, Wrote
<1> QED  BY <1>1, OthersWrote

LEMMA BehindStep ==
    ASSUME TypeOK, Work, Turns, Down, Whole, Behind, Next
    PROVE  Behind'
<1>0. memory \in [Lines -> Nat] /\ disk \in [Lines -> Nat]
  BY DEF TypeOK
<1>1. ASSUME NEW w \in Workers, NEW m \in Messages, Receive(w, m) PROVE Behind'
  BY <1>1, Moves, Begins, NotWriting, BehindSame
<1>2. ASSUME NEW w \in Workers, StartTurn(w) \/ TakeLocks(w) \/ AppendFails(w) PROVE Behind'
  <2>1. UNCHANGED <<memory, disk>>
    BY <1>2 DEF StartTurn, TakeLocks, AppendFails, session
  <2> QED  BY <1>2, <2>1, Moves, NotWriting, BehindSame DEF MovesTo
<1>10. ASSUME NEW w \in Workers, NEW cut \in BOOLEAN, TurnEnds(w, cut) PROVE Behind'
  <2>1. UNCHANGED <<memory, disk>>
    BY <1>10 DEF TurnEnds, session
  <2> QED  BY <1>10, <2>1, Moves, NotWriting, BehindSame DEF MovesTo
<1>11. ASSUME NEW w \in Workers, Steered(w) PROVE Behind'
  <2>1. UNCHANGED <<memory, disk>>
    BY <1>11 DEF Steered, session
  <2> QED  BY <1>11, <2>1, Moves, NotWriting, BehindSame
<1>12. ASSUME NEW w \in Workers, NEW k \in Messages, TakeUp(w, k) PROVE Behind'
  <2>1. UNCHANGED <<memory, disk>>
    BY <1>12 DEF TakeUp, session
  <2> QED  BY <1>12, <2>1, Moves, NotWriting, BehindSame
<1>3. ASSUME NEW w \in Workers, WriteConversationMeta(w) PROVE Behind'
  <2>1. UNCHANGED <<memory, disk>> /\ At(w, "conversation")
    BY <1>3 DEF WriteConversationMeta, session
  <2>2. worker[w].message \in Messages /\ worker[w].line = 1
    BY <2>1, WorksOn, WorkFits DEF At, Fits
  <2>3. Becomes(w, worker[w].message, "lines", worker[w].line)
    BY <1>3, Moves DEF MovesTo
  <2>4. \A n \in DOMAIN Batch(worker[w].message) : ~(n < 1)
    BY <2>2, BatchFacts
  <2>5. \A l \in Lines : ~Wrote(w, l)'
    BY <2>2, <2>3, <2>4 DEF Becomes, Wrote
  <2> QED  BY <2>1, <2>3, <2>5, OthersWrote, BehindSame
<1>4. ASSUME NEW w \in Workers, WriteLine(w) PROVE Behind'
  <2>1. PICK m \in Messages, n \in Nat :
          /\ m = worker[w].message /\ n = worker[w].line
          /\ n \in 1..Len(Batch(m)) /\ Batch(m)[n] \in Lines
          /\ disk' = [disk EXCEPT ![Batch(m)[n]] = @ + 1]
          /\ Becomes(w, m, IF n = Len(Batch(m)) THEN "agent" ELSE "lines", n + 1)
    BY <1>4, WritesLine
  <2>2. memory' = memory /\ worker[w].stage = "lines"
    BY <1>4 DEF WriteLine, At
  <2>3. \A l \in Lines : disk'[l] >= disk[l] /\ disk'[l] \in Nat
    BY <1>0, <2>1
  <2>4. ASSUME NEW l \in Lines, Wrote(w, l)' PROVE memory'[l] < disk'[l]
    <3>1. PICK k \in DOMAIN Batch(m) : k < n + 1 /\ Batch(m)[k] = l
      BY <2>1, <2>4 DEF Wrote, Becomes
    <3>2. CASE k < n
      <4>1. Wrote(w, l)
        BY <2>1, <2>2, <3>1, <3>2 DEF Wrote
      <4> QED  BY <1>0, <2>2, <2>3, <4>1 DEF Behind
    <3>3. CASE k = n
      <4>1. disk'[l] = disk[l] + 1
        BY <1>0, <2>1, <3>1, <3>3
      <4> QED  BY <1>0, <2>2, <4>1 DEF Behind
    <3>4. k \in Nat
      BY BatchFacts, <3>1
    <3> QED  BY <2>1, <3>1, <3>2, <3>3, <3>4
  <2>5. ASSUME NEW v \in Workers \ {w}, NEW l \in Lines, Wrote(v, l)'
        PROVE  memory'[l] < disk'[l]
    BY <1>0, <2>1, <2>2, <2>3, <2>5, OthersWrote DEF Behind
  <2> QED  BY <1>0, <2>2, <2>3, <2>4, <2>5 DEF Behind
<1>5. ASSUME NEW w \in Workers, WriteAgentMeta(w) PROVE Behind'
  <2>1. PICK m \in Messages : /\ m = worker[w].message /\ memory' = Published(m)
                              /\ worker[w].line = Len(Batch(m)) + 1
                              /\ worker[w].stage = "agent" /\ disk' = disk
    BY <1>5, PublishesOwn DEF At
  <2>2. Becomes(w, worker[w].message, "saved", worker[w].line)
    BY <1>5, Moves DEF MovesTo
  <2>3. \A v \in Workers : \A l \in Lines : ~Wrote(v, l)'
    <3>1. \A v \in Workers \ {w} : worker[v].stage \notin {"lines", "agent"}
      BY <2>1 DEF TypeOK, AppendStages
    <3> QED  BY <2>2, <3>1 DEF Becomes, Wrote
  <2>4. ASSUME NEW l \in Lines PROVE memory'[l] <= disk'[l]
    <3>1. CASE \E n \in DOMAIN Batch(m) : Batch(m)[n] = l
      <4>1. Wrote(w, l)
        BY <2>1, <3>1, BatchFacts DEF Wrote
      <4>2. memory'[l] = memory[l] + 1
        BY <2>1, <3>1, PublishedOnce
      <4> QED  BY <1>0, <2>1, <4>1, <4>2 DEF Behind
    <3>2. CASE ~\E n \in DOMAIN Batch(m) : Batch(m)[n] = l
      <4>1. memory'[l] = memory[l]
        BY <1>0, <2>1, <3>2, PublishedOnce
      <4> QED  BY <2>1, <4>1 DEF Behind
    <3> QED  BY <3>1, <3>2
  <2> QED  BY <2>3, <2>4 DEF Behind
<1>6. ASSUME NEW w \in Workers, NEW ok \in BOOLEAN, Settle(w, ok) PROVE Behind'
  BY <1>6, Moves, Settles, NotWriting, BehindSame
<1>7. CASE Crash
  <2>1. memory' = NoLines /\ disk' = disk
    BY <1>7 DEF Crash
  <2>2. \A v \in Workers : \A l \in Lines : ~Wrote(v, l)'
    BY <1>7 DEF Crash, IdleWorker, Wrote
  <2> QED  BY <1>0, <2>1, <2>2 DEF Behind, NoLines
<1>8. CASE Start
  <2>1. memory' = disk /\ UNCHANGED <<disk, worker>> /\ \A v \in Workers : At(v, "idle")
    BY <1>8 DEF Start, Down
  <2>2. \A v \in Workers : \A l \in Lines : ~Wrote(v, l)'
    BY <2>1 DEF At, Wrote
  <2> QED  BY <1>0, <2>1, <2>2 DEF Behind
<1>9. ASSUME NEW m \in Messages, Expire(m) PROVE Behind'
  BY <1>9, BehindSame DEF Expire, session, Wrote
<1> QED
  BY <1>1, <1>2, <1>3, <1>4, <1>5, <1>6, <1>7, <1>8, <1>9, <1>10, <1>11, <1>12 DEF Next

-----------------------------------------------------------------------------
(* What the deduper says                                                   *)

LEMMA DiskGrows ==
    ASSUME TypeOK, Work, Whole, Next
    PROVE  \A l \in Lines : disk'[l] >= disk[l] /\ disk[l] \in Nat /\ disk'[l] \in Nat
<1>0. disk \in [Lines -> Nat]
  BY DEF TypeOK
<1>1. ASSUME NEW w \in Workers, WriteLine(w)
      PROVE  \A l \in Lines : disk'[l] >= disk[l] /\ disk'[l] \in Nat
  <2>1. PICK k \in Lines : disk' = [disk EXCEPT ![k] = @ + 1]
    BY <1>1, Writing
  <2> QED  BY <1>0, <2>1
<1>2. CASE UNCHANGED disk
  BY <1>0, <1>2
<1> QED
  BY <1>0, <1>1, <1>2
     DEF Next, Receive, StartTurn, Steered, TurnEnds, TakeUp, TakeLocks, WriteConversationMeta, WriteAgentMeta, AppendFails,
         Settle, Expire, Crash, Start, session

LEMMA OnDiskStep ==
    ASSUME TypeOK, Work, Whole, OnDisk, Next
    PROVE  OnDisk'
<1>0. \A m \in Observed : m \in Messages /\ <<m, "user">> \in Lines
  BY DEF Observed, Lines
<1>1. \A m \in Observed : disk[<<m, "user">>] > 0 => disk'[<<m, "user">>] > 0
  BY <1>0, DiskGrows
<1>2. ASSUME NEW w \in Workers, NEW m, NEW stage, NEW n, Becomes(w, m, stage, n),
             (m \in Observed /\ stage \in {"agent", "saved"}) => disk'[<<m, "user">>] > 0
      PROVE  OnDisk'
  BY <1>1, <1>2 DEF OnDisk, Becomes
<1>3. ASSUME NEW w \in Workers, NEW m \in Messages, Receive(w, m) PROVE OnDisk'
  BY <1>2, <1>3, Moves
<1>4. ASSUME NEW w \in Workers, NEW cut \in BOOLEAN, TurnEnds(w, cut) PROVE OnDisk'
  <2>1. worker[w].message \notin Observed
    BY <1>4, WorkFits DEF TurnEnds, At, Fits
  <2> QED  BY <1>2, <1>4, <2>1, Moves DEF MovesTo
<1>11. ASSUME NEW w \in Workers, StartTurn(w) \/ Steered(w) PROVE OnDisk'
  BY <1>2, <1>11, Moves DEF MovesTo
<1>12. ASSUME NEW w \in Workers, NEW k \in Messages, TakeUp(w, k) PROVE OnDisk'
  BY <1>2, <1>12, Moves
<1>5. ASSUME NEW w \in Workers, TakeLocks(w) \/ WriteConversationMeta(w) \/ AppendFails(w)
      PROVE  OnDisk'
  BY <1>2, <1>5, Moves DEF MovesTo
<1>6. ASSUME NEW w \in Workers, WriteLine(w) PROVE OnDisk'
  <2>1. PICK m \in Messages, n \in Nat :
          /\ m = worker[w].message /\ n = worker[w].line
          /\ n \in 1..Len(Batch(m)) /\ Batch(m)[n] \in Lines
          /\ disk' = [disk EXCEPT ![Batch(m)[n]] = @ + 1]
          /\ Becomes(w, m, IF n = Len(Batch(m)) THEN "agent" ELSE "lines", n + 1)
    BY <1>6, WritesLine
  <2>2. m \in Observed => disk'[<<m, "user">>] > 0
    <3>1. m \in Observed => n = 1 /\ Batch(m)[n] = <<m, "user">>
      BY <2>1, BatchFacts
    <3> QED  BY <1>0, <2>1, <3>1 DEF TypeOK
  <2> QED  BY <1>2, <2>1, <2>2
<1>7. ASSUME NEW w \in Workers, WriteAgentMeta(w) PROVE OnDisk'
  <2>1. worker[w].message \in Observed => disk'[<<worker[w].message, "user">>] > 0
    BY <1>1, <1>7 DEF OnDisk, WriteAgentMeta, At
  <2> QED  BY <1>2, <1>7, <2>1, Moves DEF MovesTo
<1>8. ASSUME NEW w \in Workers, NEW ok \in BOOLEAN, Settle(w, ok) PROVE OnDisk'
  BY <1>2, <1>8, Moves
<1>9. CASE Crash
  BY <1>9 DEF Crash, OnDisk, IdleWorker
<1>10. CASE UNCHANGED <<worker, disk>>
  BY <1>10 DEF OnDisk
<1> QED
  BY <1>3, <1>4, <1>5, <1>6, <1>7, <1>8, <1>9, <1>10, <1>11, <1>12
     DEF Next, Expire, Start, session

\* A change of the deduper for m, seen from another message.
LEMMA OtherEntries ==
    ASSUME ~TornWrites, TypeOK, NEW m \in Messages,
           NEW e \in {"absent", "processing", "completed"},
           Persist([entries EXCEPT ![m] = e]), NEW k \in Messages, k # m
    PROVE  entries'[k] = entries[k] /\ seenFile'[k] \in {entries[k], seenFile[k]}
  BY Persisted

\* The two halves of SeenIsKept: what is completed is on disk...
Completed ==
    \A m \in Observed : "completed" \in {entries[m], seenFile[m]} => disk[<<m, "user">>] > 0

\* ... and what is processing is being worked on, or was handed on.
Processing ==
    starts = 1 /\ up =>
        \A m \in Messages :
            entries[m] = "processing" /\ m \notin handed => \E w \in Workers : Works(w, m)

LEMMA SeenHalves == SeenIsKept <=> Completed /\ Processing
  BY DEF SeenIsKept, Completed, Processing, Observed

LEMMA CompletedStep ==
    ASSUME ~TornWrites, TypeOK, Work, Turns, Whole, OnDisk, Completed, Next
    PROVE  Completed'
<1>0. \A m \in Observed : m \in Messages /\ <<m, "user">> \in Lines
  BY DEF Observed, Lines
<1>1. \A m \in Observed : disk[<<m, "user">>] > 0 => disk'[<<m, "user">>] > 0
  BY <1>0, DiskGrows
<1>2. ASSUME \A m \in Observed : "completed" \in {entries'[m], seenFile'[m]} =>
                "completed" \in {entries[m], seenFile[m]} \/ disk[<<m, "user">>] > 0
      PROVE  Completed'
  BY <1>1, <1>2 DEF Completed
<1>3. ASSUME NEW w \in Workers, NEW m \in Messages, Receive(w, m) PROVE Completed'
  <2>1. Persist([entries EXCEPT ![m] = "processing"])
    BY <1>3, Begins
  <2>2. entries'[m] # "completed" /\ seenFile'[m] \in {entries'[m], seenFile[m]}
    BY <2>1, Persisted
  <2> QED  BY <1>0, <1>2, <2>1, <2>2, OtherEntries
<1>4. ASSUME NEW w \in Workers, NEW ok \in BOOLEAN, Settle(w, ok) PROVE Completed'
  <2>1. PICK m \in Messages, e \in {"absent", "processing", "completed"} :
          /\ Persist([entries EXCEPT ![m] = e])
          /\ e = IF ok THEN "completed" ELSE "absent"
          /\ m \in Observed => ok = At(w, "saved") /\ worker[w].message = m
    BY <1>4, Settles
  <2>2. m \in Observed /\ e = "completed" => disk[<<m, "user">>] > 0
    BY <2>1 DEF OnDisk, At
  <2>3. entries'[m] = e /\ seenFile'[m] \in {e, seenFile[m]}
    BY <2>1, Persisted
  <2> QED  BY <1>0, <1>2, <2>1, <2>2, <2>3, OtherEntries
<1>5. ASSUME NEW m \in Messages, Expire(m) PROVE Completed'
  BY <1>0, <1>2, <1>5 DEF Expire, TypeOK
<1>6. CASE Crash
  BY <1>0, <1>2, <1>6 DEF Crash, Absent
<1>7. CASE Start
  BY <1>2, <1>7 DEF Start
<1>8. CASE UNCHANGED <<entries, seenFile>>
  BY <1>2, <1>8
<1> QED
  BY <1>3, <1>4, <1>5, <1>6, <1>7, <1>8
     DEF Next, StartTurn, Steered, TurnEnds, TakeUp, TakeLocks, WriteConversationMeta, WriteLine, WriteAgentMeta, AppendFails

LEMMA ProcessingStep ==
    ASSUME ~TornWrites, TypeOK, Work, Turns, Whole, Processing, Next
    PROVE  Processing'
<1>0. worker \in [Workers -> Job] /\ None \notin Messages
  BY JobTyped, IntakeAssumption
<1>1. ASSUME NEW w \in Workers, \A v \in Workers \ {w} : worker'[v] = worker[v],
             UNCHANGED <<starts, up>>, handed \subseteq handed',
             \A k \in Messages : entries'[k] = "processing" /\ k \notin handed' =>
                 Works(w, k)' \/ (entries[k] = "processing" /\ ~Works(w, k))
      PROVE  Processing'
  <2> SUFFICES ASSUME starts = 1, up, NEW k \in Messages, entries'[k] = "processing",
                      k \notin handed'
               PROVE  \E v \in Workers : Works(v, k)'
    BY <1>1 DEF Processing, Works
  <2>1. CASE Works(w, k)'
    BY <2>1
  <2>2. CASE entries[k] = "processing" /\ ~Works(w, k)
    <3>1. PICK v \in Workers : Works(v, k)
      BY <1>1, <2>2 DEF Processing
    <3>2. v # w
      BY <2>2, <3>1
    <3> QED  BY <1>1, <3>1, <3>2 DEF Works
  <2> QED  BY <1>1, <2>1, <2>2
<1>2. ASSUME NEW w \in Workers, NEW m \in Messages, Receive(w, m) PROVE Processing'
  <2>1. worker'[w].message = m /\ \A v \in Workers \ {w} : worker'[v] = worker[v]
    BY <1>0, <1>2 DEF Receive
  <2>2. worker[w].message = None /\ worker[w].turn = None /\ UNCHANGED <<starts, up, handed>>
    BY <1>2 DEF Receive, At, Work, Turns, ghosts
  <2>3. \A k \in Messages \ {m} : entries'[k] = entries[k]
    BY <1>2, Begins, Persisted
  <2> QED  BY <1>0, <1>1, <2>1, <2>2, <2>3 DEF Works
<1>3. ASSUME NEW w \in Workers, NEW ok \in BOOLEAN, Settle(w, ok) PROVE Processing'
  <2>1. PICK m \in Messages, e \in {"absent", "completed"} :
          /\ m = worker[w].turn /\ Persist([entries EXCEPT ![m] = e])
          /\ worker[w].message = m \/ worker[w].message \in handed
          /\ UNCHANGED <<starts, up, handed>>
    BY <1>3, Settles
  <2>2. entries'[m] = e /\ \A k \in Messages \ {m} : entries'[k] = entries[k]
    BY <2>1, Persisted
  <2>3. \A v \in Workers \ {w} : worker'[v] = worker[v]
    BY <1>0, <1>3 DEF Settle
  <2> QED  BY <1>1, <2>1, <2>2, <2>3 DEF Works
<1>4. ASSUME NEW w \in Workers, NEW stage, Step(w, stage),
             UNCHANGED <<starts, up, entries, handed>>
      PROVE  Processing'
  <2>1. /\ worker'[w].message = worker[w].message /\ worker'[w].turn = worker[w].turn
        /\ \A v \in Workers \ {w} : worker'[v] = worker[v]
    BY <1>0, <1>4 DEF Step, Job
  <2> QED  BY <1>1, <1>4, <2>1 DEF Works
<1>5. ASSUME NEW w \in Workers, NEW cut \in BOOLEAN, TurnEnds(w, cut) PROVE Processing'
  <2>1. /\ worker'[w].message = worker[w].message /\ worker'[w].turn = worker[w].turn
        /\ \A v \in Workers \ {w} : worker'[v] = worker[v]
    BY <1>0, <1>5 DEF TurnEnds, Job
  <2> QED  BY <1>1, <1>5, <2>1 DEF Works, TurnEnds, ghosts
<1>6. ASSUME NEW w \in Workers, StartTurn(w) \/ TakeLocks(w) \/ WriteConversationMeta(w)
      PROVE  Processing'
  BY <1>4, <1>6 DEF StartTurn, TakeLocks, WriteConversationMeta, ghosts
<1>7. ASSUME NEW w \in Workers, WriteAgentMeta(w) \/ AppendFails(w) PROVE Processing'
  BY <1>4, <1>7 DEF WriteAgentMeta, AppendFails, ghosts
<1>8. ASSUME NEW w \in Workers, WriteLine(w) PROVE Processing'
  <2>1. /\ worker'[w].message = worker[w].message /\ worker'[w].turn = worker[w].turn
        /\ \A v \in Workers \ {w} : worker'[v] = worker[v]
    BY <1>0, <1>8 DEF WriteLine, Job
  <2> QED  BY <1>1, <1>8, <2>1 DEF Works, WriteLine, ghosts
<1>9. ASSUME NEW m \in Messages, Expire(m) PROVE Processing'
  BY <1>9 DEF Expire, Processing, TypeOK, Works
<1>10. CASE Crash
  BY <1>10 DEF Crash, Processing
<1>11. CASE Start
  BY <1>11 DEF Start, Processing, TypeOK
<1>12. ASSUME NEW w \in Workers, Steered(w) PROVE Processing'
  <2>1. \A v \in Workers \ {w} : worker'[v] = worker[v]
    BY <1>0, <1>12 DEF Steered
  <2>2. worker[w].turn = worker[w].message
    BY <1>12 DEF Steered, Turns
  <2>3. /\ handed' = handed \cup {worker[w].message}
        /\ UNCHANGED <<starts, up, entries>>
    BY <1>12 DEF Steered
  <2> QED  BY <1>1, <2>1, <2>2, <2>3 DEF Works
<1>13. ASSUME NEW w \in Workers, NEW n \in Messages, TakeUp(w, n) PROVE Processing'
  <2>1. /\ worker'[w].turn = worker[w].turn
        /\ \A v \in Workers \ {w} : worker'[v] = worker[v]
    BY <1>0, <1>13 DEF TakeUp
  <2>2. worker[w].message = worker[w].turn \/ worker[w].message \in handed
    BY DEF Turns
  <2>3. UNCHANGED <<starts, up, entries, handed>>
    BY <1>13 DEF TakeUp, ghosts
  <2> QED  BY <1>1, <2>1, <2>2, <2>3 DEF Works
<1> QED
  BY <1>2, <1>3, <1>5, <1>6, <1>7, <1>8, <1>9, <1>10, <1>11, <1>12, <1>13 DEF Next

-----------------------------------------------------------------------------
(* The account of the copies                                               *)

\* The numbers of an account.
LEMMA Numbers ==
    ASSUME TypeOK, NEW m \in Messages, NEW l \in LinesOf(m), IsFiniteSet(Owing(l))
    PROVE  /\ disk[l] \in Nat /\ Cardinality(Owing(l)) \in Nat /\ Queued(m, l) \in Nat
           /\ Spent(m, l) \in Nat
           /\ errors \in Nat /\ expired[m] \in Nat /\ forgets[m] \in Nat /\ Forgetful \in Nat
           /\ Reasons(m) \in Nat
<1>1. disk[l] \in Nat /\ Cardinality(Owing(l)) \in Nat /\ Queued(m, l) \in Nat
  BY LineOf, FS_CardinalityType DEF TypeOK, Queued
<1>2. /\ MaxStarts \in Nat /\ MaxErrors \in Nat /\ MaxExpiries \in Nat
      /\ starts \in 1..MaxStarts /\ errors \in 0..MaxErrors
      /\ expired \in [Messages -> 0..MaxExpiries] /\ forgets \in [Messages -> Nat]
  BY IntakeAssumption DEF TypeOK
<1>3. errors \in Nat /\ expired[m] \in Nat /\ forgets[m] \in Nat /\ Forgetful \in Nat
  BY <1>2 DEF Forgetful
<1> QED  BY <1>1, <1>3 DEF Spent, Reasons

LEMMA NumbersNext ==
    ASSUME TypeOK', NEW m \in Messages, NEW l \in LinesOf(m), IsFiniteSet(Owing(l)')
    PROVE  /\ disk'[l] \in Nat /\ Cardinality(Owing(l)') \in Nat /\ Queued(m, l)' \in Nat
           /\ Spent(m, l)' \in Nat
           /\ Spent(m, l)' = disk'[l] + Cardinality(Owing(l)') + Queued(m, l)'
           /\ Reasons(m)' \in Nat
<1>1. disk'[l] \in Nat /\ Cardinality(Owing(l)') \in Nat /\ Queued(m, l)' \in Nat
  BY LineOf, FS_CardinalityType DEF TypeOK, Queued
<1>2. /\ MaxStarts \in Nat /\ MaxErrors \in Nat /\ MaxExpiries \in Nat
      /\ starts' \in 1..MaxStarts /\ errors' \in 0..MaxErrors
      /\ expired' \in [Messages -> 0..MaxExpiries] /\ forgets' \in [Messages -> Nat]
  BY IntakeAssumption DEF TypeOK
<1>4. starts' \in Nat /\ starts' >= 1
  BY <1>2
<1>5. Forgetful' \in Nat
  <2>1. CASE DedupeFile
    BY <2>1 DEF Forgetful
  <2>2. CASE ~DedupeFile
    <3>1. Forgetful' = starts' - 1
      BY <2>2 DEF Forgetful
    <3>2. starts' - 1 \in Nat
      <4>1. \A n \in Nat : n >= 1 => n - 1 \in Nat
        OBVIOUS
      <4> QED  BY <1>4, <4>1
    <3> QED  BY <3>1, <3>2, Zenon
  <2> QED  BY <2>1, <2>2
<1>3. errors' \in Nat /\ expired'[m] \in Nat /\ forgets'[m] \in Nat /\ Forgetful' \in Nat
  BY <1>2, <1>5
<1> QED  BY <1>1, <1>3 DEF Spent, Reasons

\* An account is kept by a step that adds no copy, written, owed or queued, takes no
\* reason away, and lets the message begin only if it could before or there is a new
\* reason.
LEMMA AccountKept ==
    ASSUME TypeOK, TypeOK', NEW m \in Messages, NEW l \in LinesOf(m), Account(m, l),
           IsFiniteSet(Owing(l)'),
           Spent(m, l)' <= Spent(m, l),
           Reasons(m)' >= Reasons(m),
           MayBegin(m)' => MayBegin(m) \/ Reasons(m)' >= Reasons(m) + 1
    PROVE  Account(m, l)'
<1>1. /\ Spent(m, l) \in Nat /\ Spent(m, l)' \in Nat
      /\ Reasons(m) \in Nat /\ Reasons(m)' \in Nat
  BY Numbers, NumbersNext DEF Account
<1>2. Spent(m, l)' <= 1 + Reasons(m)'
  BY <1>1 DEF Account
<1>3. MayBegin(m)' => Spent(m, l)' <= Reasons(m)'
  BY <1>1 DEF Account
<1> QED  BY <1>2, <1>3 DEF Account

\* Who owes a line after a step of one goroutine.
LEMMA OwingSame ==
    ASSUME NEW w \in Workers, NEW l, \A v \in Workers \ {w} : worker'[v] = worker[v],
           Owes(w, l)' <=> Owes(w, l)
    PROVE  Owing(l)' = Owing(l)
  BY DEF Owing, Owes

LEMMA OwingLess ==
    ASSUME NEW w \in Workers, NEW l, \A v \in Workers \ {w} : worker'[v] = worker[v],
           ~Owes(w, l)'
    PROVE  Owing(l)' = Owing(l) \ {w}
  BY DEF Owing, Owes

LEMMA OwingMore ==
    ASSUME NEW w \in Workers, NEW l, \A v \in Workers \ {w} : worker'[v] = worker[v],
           ~Owes(w, l)
    PROVE  Owing(l)' \in {Owing(l), Owing(l) \cup {w}}
<1>1. CASE Owes(w, l)'
  <2>1. Owing(l)' = Owing(l) \cup {w}
    BY <1>1 DEF Owing, Owes
  <2> QED  BY <2>1
<1>2. CASE ~Owes(w, l)'
  BY <1>2, OwingSame
<1> QED  BY <1>1, <1>2

\* The account is kept when nobody else moves, w owes no new line, and the deduper and
\* the queue stand still.
LEMMA AccountStill ==
    ASSUME TypeOK, TypeOK', NEW w \in Workers,
           \A v \in Workers \ {w} : worker'[v] = worker[v],
           NEW m \in Messages, NEW l \in LinesOf(m), Account(m, l),
           Owes(w, l)' => Owes(w, l), steered'[m] = steered[m],
           UNCHANGED <<up, entries, seenFile, disk, expired, forgets, starts>>,
           errors' >= errors
    PROVE  Account(m, l)'
<1>2. IsFiniteSet(Owing(l)') /\ Cardinality(Owing(l)') <= Cardinality(Owing(l))
  <2>1. Owing(l)' \in SUBSET Owing(l)
    BY DEF Owing, Owes
  <2> QED  BY <2>1, FS_Subset DEF Account
<1>3. Spent(m, l)' <= Spent(m, l)
  <2>1. Queued(m, l)' = Queued(m, l)
    BY DEF Queued
  <2> QED  BY <1>2, <2>1, Numbers, NumbersNext DEF Account, Spent
<1>4. Reasons(m)' >= Reasons(m)
  BY Numbers, IntakeAssumption DEF Account, Reasons, Forgetful, TypeOK
<1>5. MayBegin(m)' => MayBegin(m)
  BY DEF MayBegin
<1> QED  BY <1>2, <1>3, <1>4, <1>5, AccountKept

LEMMA CopiesStill ==
    ASSUME TypeOK, TypeOK', Copies, NEW w \in Workers,
           \A v \in Workers \ {w} : worker'[v] = worker[v],
           \A m \in Messages : \A l \in LinesOf(m) : Owes(w, l)' => Owes(w, l),
           UNCHANGED <<up, entries, seenFile, steered, disk, expired, forgets, starts>>,
           errors' >= errors
    PROVE  Copies'
<1> SUFFICES ASSUME NEW m \in Messages, NEW l \in LinesOf(m)
             PROVE  Account(m, l)'
  BY DEF Copies
<1>1. Account(m, l)
  BY DEF Copies
<1> QED  BY <1>1, AccountStill

\* The deduper changes its mind about m: nothing changes for the other messages.
LEMMA OtherAccounts ==
    ASSUME ~TornWrites, TypeOK, TypeOK', Copies, NEW w \in Workers,
           \A v \in Workers \ {w} : worker'[v] = worker[v],
           NEW m \in Messages, NEW e \in {"absent", "processing", "completed"},
           Persist([entries EXCEPT ![m] = e]), up, up',
           UNCHANGED <<disk, expired, steered, starts>>,
           NEW k \in Messages, k # m, forgets'[k] = forgets[k], NEW l \in LinesOf(k),
           Owes(w, l)' <=> Owes(w, l)
    PROVE  Account(k, l)'
<1>1. Account(k, l)
  BY DEF Copies
<1>2. Owing(l)' = Owing(l) /\ Queued(k, l)' = Queued(k, l)
  BY OwingSame DEF Queued
<1>3. Spent(k, l)' <= Spent(k, l) /\ IsFiniteSet(Owing(l)')
  BY <1>1, <1>2, Numbers DEF Spent, Account
<1>4. errors' >= errors
  <2>1. errors \in Nat
    BY <1>1, Numbers DEF Account
  <2>2. errors' = errors \/ errors' = errors + 1
    BY Persisted
  <2> QED  BY <2>1, <2>2
<1>5. Reasons(k)' >= Reasons(k)
  BY <1>1, <1>4, Numbers, IntakeAssumption DEF Account, Reasons, Forgetful, TypeOK
<1>6. MayBegin(k)' => MayBegin(k)
  BY OtherEntries DEF MayBegin
<1> QED  BY <1>1, <1>3, <1>5, <1>6, AccountKept

LEMMA CopiesReceive ==
    ASSUME ~TornWrites, TypeOK, TypeOK', Work, Copies, NEW w \in Workers, NEW m \in Messages,
           Receive(w, m)
    PROVE  Copies'
<1>1. Becomes(w, m, IF m \in Observed THEN "append" ELSE "begun", 1)
  BY Moves
<1>2. /\ Persist([entries EXCEPT ![m] = "processing"]) /\ entries[m] = "absent"
      /\ up /\ up' /\ UNCHANGED <<steered, disk, expired, forgets, starts>>
  BY Begins
<1>3. \A v \in Workers \ {w} : worker'[v] = worker[v]
  BY <1>1 DEF Becomes
<1>4. \A l : ~Owes(w, l)
  BY DEF Receive, At, Owes
<1>5. ASSUME NEW k \in Messages, k # m, NEW l \in LinesOf(k)
      PROVE  Account(k, l)'
  <2>1. ~Owes(w, l)'
    BY <1>1, <1>5, BatchFacts, LinesApart DEF Becomes, Owes
  <2> QED  BY <1>2, <1>3, <1>4, <1>5, <2>1, OtherAccounts
<1>6. ASSUME NEW l \in LinesOf(m)
      PROVE  Account(m, l)'
  <2>1. IsFiniteSet(Owing(l)) /\ Spent(m, l) <= Reasons(m)
    BY <1>2 DEF Copies, Account, MayBegin
  <2>2. Owing(l)' \in {Owing(l), Owing(l) \cup {w}}
    BY <1>3, <1>4, OwingMore
  <2>3. /\ IsFiniteSet(Owing(l)')
        /\ Cardinality(Owing(l)') \in {Cardinality(Owing(l)), Cardinality(Owing(l)) + 1}
    BY <2>1, <2>2, FS_AddElement
  <2>4. Spent(m, l) \in Nat /\ Spent(m, l)' \in {Spent(m, l), Spent(m, l) + 1}
    <3>1. Queued(m, l)' = Queued(m, l)
      BY <1>2 DEF Queued
    <3> QED  BY <1>2, <2>1, <2>3, <3>1, Numbers DEF Spent
  <2>5. /\ Reasons(m) \in Nat /\ Reasons(m)' >= Reasons(m) /\ Reasons(m)' \in Nat
        /\ MayBegin(m)' => Reasons(m)' = Reasons(m) + 1
    <3>1. entries'[m] = "processing"
      BY <1>2, Persisted
    <3>2. \/ errors' = errors /\ seenFile' = (IF DedupeFile THEN entries' ELSE seenFile)
          \/ errors' = errors + 1
      BY <1>2, Persisted
    <3>3. MayBegin(m)' => errors' = errors + 1
      BY <3>1, <3>2 DEF MayBegin
    <3>4. Forgetful' = Forgetful
      BY <1>2 DEF Forgetful
    <3> QED  BY <1>2, <2>1, <3>2, <3>3, <3>4, Numbers DEF Reasons
  <2>6. Spent(m, l)' <= 1 + Reasons(m)'
    BY <2>1, <2>4, <2>5
  <2>7. MayBegin(m)' => Spent(m, l)' <= Reasons(m)'
    BY <2>1, <2>4, <2>5
  <2> QED  BY <2>3, <2>6, <2>7 DEF Account
<1> QED  BY <1>5, <1>6 DEF Copies

LEMMA CopiesSettle ==
    ASSUME ~TornWrites, TypeOK, TypeOK', Turns, Copies, NEW w \in Workers,
           NEW ok \in BOOLEAN, Settle(w, ok)
    PROVE  Copies'
<1>1. Becomes(w, None, "idle", 0)
  BY Moves
<1>2. PICK m \in Messages, e \in {"absent", "processing", "completed"} :
        /\ Persist([entries EXCEPT ![m] = e])
        /\ e = IF ok THEN "completed" ELSE "absent"
        /\ forgets' = [forgets EXCEPT ![m] = IF ok THEN @ ELSE @ + 1]
        /\ up /\ up' /\ UNCHANGED <<steered, disk, expired, starts>>
  <2>1. /\ worker[w].turn \in Messages
        /\ Persist([entries EXCEPT ![worker[w].turn] = IF ok THEN "completed" ELSE "absent"])
        /\ forgets' = [forgets EXCEPT ![worker[w].turn] = IF ok THEN @ ELSE @ + 1]
        /\ up /\ up' /\ UNCHANGED <<steered, disk, expired, starts>>
    BY Settles
  <2>2. (IF ok THEN "completed" ELSE "absent") \in {"absent", "processing", "completed"}
    OBVIOUS
  <2> QED  BY <2>1, <2>2, Zenon
<1>3. \A v \in Workers \ {w} : worker'[v] = worker[v]
  BY <1>1 DEF Becomes
<1>4. \A l : ~Owes(w, l) /\ ~Owes(w, l)'
  BY <1>1, Settles DEF Becomes, Owes
<1>5. ASSUME NEW k \in Messages, k # m, NEW l \in LinesOf(k)
      PROVE  Account(k, l)'
  <2>1. forgets'[k] = forgets[k]
    BY <1>2, <1>5 DEF TypeOK
  <2> QED  BY <1>2, <1>3, <1>4, <1>5, <2>1, OtherAccounts
<1>6. ASSUME NEW l \in LinesOf(m)
      PROVE  Account(m, l)'
  <2>1. Account(m, l)
    BY DEF Copies
  <2>2. Owing(l)' = Owing(l) /\ Queued(m, l)' = Queued(m, l)
    BY <1>2, <1>3, <1>4, OwingSame DEF Queued
  <2>3. Spent(m, l)' <= Spent(m, l) /\ IsFiniteSet(Owing(l)')
    BY <1>2, <2>1, <2>2, Numbers DEF Spent, Account
  <2>4. /\ errors \in Nat /\ expired[m] \in Nat /\ forgets[m] \in Nat
        /\ Forgetful \in Nat /\ Forgetful' = Forgetful
    BY <1>2, <2>1, Numbers DEF Account, Forgetful
  <2>5. /\ entries'[m] = e
        /\ \/ errors' = errors /\ seenFile' = (IF DedupeFile THEN entries' ELSE seenFile)
           \/ errors' = errors + 1 /\ seenFile' = seenFile
    BY <1>2, Persisted
  <2>6. CASE ok
    <3>1. forgets'[m] = forgets[m]
      BY <1>2, <2>4, <2>6 DEF TypeOK
    <3>2. Reasons(m)' >= Reasons(m)
      BY <1>2, <2>4, <2>5, <3>1 DEF Reasons
    <3>3. MayBegin(m)' => MayBegin(m)
      BY <1>2, <2>5, <2>6 DEF MayBegin
    <3> QED  BY <2>1, <2>3, <3>2, <3>3, AccountKept
  <2>7. CASE ~ok
    <3>1. forgets'[m] = forgets[m] + 1
      BY <1>2, <2>4, <2>7 DEF TypeOK
    <3>2. Reasons(m)' >= Reasons(m) + 1 /\ Reasons(m)' >= Reasons(m)
      BY <1>2, <2>4, <2>5, <3>1 DEF Reasons
    <3> QED  BY <2>1, <2>3, <3>2, AccountKept
  <2> QED  BY <2>6, <2>7
<1> QED  BY <1>5, <1>6 DEF Copies

\* The copies that a handler owes wait in the queue when its message is handed on...
LEMMA CopiesSteered ==
    ASSUME TypeOK, TypeOK', Work, Copies, NEW w \in Workers, Steered(w)
    PROVE  Copies'
<1>1. PICK m \in Messages : m = worker[w].message
  BY WorksOn DEF Steered, At
<1>2. /\ worker[w].stage = "begun" /\ worker[w].line = 1
      /\ steered' = [steered EXCEPT ![m] = @ + 1]
      /\ UNCHANGED <<up, entries, seenFile, disk, expired, forgets, starts, errors>>
  BY <1>1 DEF Steered, At, Work, session
<1>3. \A v \in Workers \ {w} : worker'[v] = worker[v]
  BY Moves DEF Becomes
<1>4. \A l : ~Owes(w, l)'
  BY Moves DEF Becomes, Owes
<1>5. ASSUME NEW k \in Messages, NEW l \in LinesOf(k)
      PROVE  Account(k, l)'
  <2>1. Account(k, l)
    BY DEF Copies
  <2>2. CASE k # m
    <3>1. steered'[k] = steered[k]
      BY <1>2, <2>2 DEF TypeOK
    <3>2. errors' >= errors
      BY <1>2, <2>1, Numbers DEF Account
    <3> QED  BY <1>2, <1>3, <1>4, <2>1, <3>1, <3>2, AccountStill
  <2>3. CASE k = m /\ ~\E n \in DOMAIN Batch(m) : Batch(m)[n] = l
    <3>1. ~Owes(w, l)
      BY <1>1, <2>3 DEF Owes
    <3>2. Owing(l)' = Owing(l)
      BY <1>3, <1>4, <3>1, OwingSame
    <3>3. Queued(k, l)' = 0 /\ Queued(k, l) = 0
      BY <2>3 DEF Queued
    <3>4. Spent(k, l)' <= Spent(k, l) /\ IsFiniteSet(Owing(l)')
      BY <1>2, <2>1, <3>2, <3>3, Numbers DEF Spent, Account
    <3>5. Reasons(k)' = Reasons(k) /\ Reasons(k) \in Nat /\ (MayBegin(k)' <=> MayBegin(k))
      BY <1>2, <2>1, Numbers DEF Account, Reasons, MayBegin, Forgetful
    <3> QED  BY <2>1, <3>4, <3>5, AccountKept
  <2>4. CASE k = m /\ \E n \in DOMAIN Batch(m) : Batch(m)[n] = l
    <3>1. Owes(w, l)
      BY <1>1, <1>2, <2>4, BatchFacts DEF Owes
    <3>2. Owing(l)' = Owing(l) \ {w} /\ w \in Owing(l)
      BY <1>3, <1>4, <3>1, OwingLess DEF Owing
    <3>3. /\ IsFiniteSet(Owing(l)')
          /\ Cardinality(Owing(l)') = Cardinality(Owing(l)) - 1
      BY <2>1, <3>2, FS_RemoveElement DEF Account
    <3>4. Queued(k, l)' = Queued(k, l) + 1
      BY <1>2, <2>4 DEF Queued, TypeOK
    <3>5. Spent(k, l)' <= Spent(k, l)
      BY <1>2, <2>1, <3>3, <3>4, Numbers DEF Spent, Account
    <3>6. Reasons(k)' = Reasons(k) /\ Reasons(k) \in Nat /\ (MayBegin(k)' <=> MayBegin(k))
      BY <1>2, <2>1, Numbers DEF Account, Reasons, MayBegin, Forgetful
    <3> QED  BY <2>1, <3>3, <3>5, <3>6, AccountKept
  <2> QED  BY <2>2, <2>3, <2>4
<1> QED  BY <1>5 DEF Copies

\* ... and a turn owes them when it takes the message up.
LEMMA CopiesTakeUp ==
    ASSUME TypeOK, TypeOK', Copies, NEW w \in Workers, NEW m \in Messages, TakeUp(w, m)
    PROVE  Copies'
<1>1. Becomes(w, m, "turn", 1)
  BY Moves
<1>2. /\ worker[w].stage \in {"saved", "failed"} /\ steered[m] > 0
      /\ steered' = [steered EXCEPT ![m] = @ - 1]
      /\ UNCHANGED <<up, entries, seenFile, disk, expired, forgets, starts, errors>>
  BY DEF TakeUp, session, ghosts
<1>3. \A v \in Workers \ {w} : worker'[v] = worker[v]
  BY <1>1 DEF Becomes
<1>4. \A l : ~Owes(w, l)
  BY <1>2 DEF Owes
<1>5. ASSUME NEW k \in Messages, NEW l \in LinesOf(k)
      PROVE  Account(k, l)'
  <2>1. Account(k, l)
    BY DEF Copies
  <2>2. CASE k # m
    <3>1. steered'[k] = steered[k]
      BY <1>2, <2>2 DEF TypeOK
    <3>2. errors' >= errors
      BY <1>2, <2>1, Numbers DEF Account
    <3>3. ~Owes(w, l)'
      BY <1>1, <2>2, BatchFacts, LinesApart DEF Becomes, Owes
    <3> QED  BY <1>2, <1>3, <2>1, <3>1, <3>2, <3>3, AccountStill
  <2>3. CASE k = m /\ ~\E n \in DOMAIN Batch(m) : Batch(m)[n] = l
    <3>1. ~Owes(w, l)'
      BY <1>1, <2>3 DEF Owes, Becomes
    <3>2. Owing(l)' = Owing(l)
      BY <1>3, <1>4, <3>1, OwingSame
    <3>3. Queued(k, l)' = 0 /\ Queued(k, l) = 0
      BY <2>3 DEF Queued
    <3>4. Spent(k, l)' <= Spent(k, l) /\ IsFiniteSet(Owing(l)')
      BY <1>2, <2>1, <3>2, <3>3, Numbers DEF Spent, Account
    <3>5. Reasons(k)' = Reasons(k) /\ Reasons(k) \in Nat /\ (MayBegin(k)' <=> MayBegin(k))
      BY <1>2, <2>1, Numbers DEF Account, Reasons, MayBegin, Forgetful
    <3> QED  BY <2>1, <3>4, <3>5, AccountKept
  <2>4. CASE k = m /\ \E n \in DOMAIN Batch(m) : Batch(m)[n] = l
    <3>1. Owing(l)' \in {Owing(l), Owing(l) \cup {w}}
      BY <1>3, <1>4, OwingMore
    <3>2. /\ IsFiniteSet(Owing(l)')
          /\ Cardinality(Owing(l)') \in {Cardinality(Owing(l)), Cardinality(Owing(l)) + 1}
      BY <2>1, <3>1, FS_AddElement DEF Account
    <3>3. Queued(k, l)' = Queued(k, l) - 1
      BY <1>2, <2>4 DEF Queued, TypeOK
    <3>4. Spent(k, l)' <= Spent(k, l)
      BY <1>2, <2>1, <3>2, <3>3, Numbers DEF Spent, Account
    <3>5. Reasons(k)' = Reasons(k) /\ Reasons(k) \in Nat /\ (MayBegin(k)' <=> MayBegin(k))
      BY <1>2, <2>1, Numbers DEF Account, Reasons, MayBegin, Forgetful
    <3> QED  BY <2>1, <3>2, <3>4, <3>5, AccountKept
  <2> QED  BY <2>2, <2>3, <2>4
<1> QED  BY <1>5 DEF Copies

LEMMA CopiesWriteLine ==
    ASSUME TypeOK, TypeOK', Work, Whole, Copies, NEW w \in Workers, WriteLine(w)
    PROVE  Copies'
<1>1. PICK m \in Messages, n \in Nat :
        /\ m = worker[w].message /\ n = worker[w].line
        /\ n \in 1..Len(Batch(m)) /\ Len(Batch(m)) \in 1..2
        /\ Batch(m)[n] \in Lines
        /\ disk' = [disk EXCEPT ![Batch(m)[n]] = @ + 1]
        /\ Becomes(w, m, IF n = Len(Batch(m)) THEN "agent" ELSE "lines", n + 1)
  BY WritesLine
<1>2. /\ worker[w].stage = "lines"
      /\ UNCHANGED <<up, entries, seenFile, steered, expired, forgets, starts, errors>>
  BY DEF WriteLine, At, ghosts
<1>3. \A v \in Workers \ {w} : worker'[v] = worker[v]
  BY <1>1 DEF Becomes
<1>4. \A k \in Messages : /\ Reasons(k)' = Reasons(k) /\ (MayBegin(k)' <=> MayBegin(k))
                          /\ \A l : Queued(k, l)' = Queued(k, l)
  BY <1>2 DEF Reasons, Forgetful, MayBegin, Queued
<1>5. DOMAIN Batch(m) = 1..Len(Batch(m))
  BY BatchFacts
<1>6. ASSUME NEW k \in Messages, NEW l \in LinesOf(k)
      PROVE  Account(k, l)'
  <2>1. Account(k, l) /\ l \in Lines
    BY LineOf DEF Copies
  <2>2. disk[l] \in Nat /\ Cardinality(Owing(l)) \in Nat /\ Reasons(k) \in Nat
        /\ Queued(k, l) \in Nat
    BY <2>1, Numbers DEF Account
  <2>3. CASE l = Batch(m)[n]
    <3>1. Owes(w, l)
      BY <1>1, <1>2, <1>5, <2>3 DEF Owes
    <3>2. ~Owes(w, l)'
      <4>1. \A i \in 1..Len(Batch(m)) : i >= n + 1 => Batch(m)[i] # l
        BY <1>1, <2>3, BatchFacts
      <4> QED  BY <1>1, <1>5, <4>1 DEF Becomes, Owes
    <3>3. Owing(l)' = Owing(l) \ {w} /\ w \in Owing(l)
      BY <1>3, <3>1, <3>2, OwingLess DEF Owing
    <3>4. /\ IsFiniteSet(Owing(l)')
          /\ Cardinality(Owing(l)') = Cardinality(Owing(l)) - 1
      BY <2>1, <3>3, FS_RemoveElement DEF Account
    <3>5. disk'[l] = disk[l] + 1
      BY <1>1, <2>1, <2>3 DEF TypeOK
    <3>6. Spent(k, l)' <= Spent(k, l)
      BY <1>4, <2>2, <3>4, <3>5 DEF Spent
    <3> QED  BY <1>4, <2>1, <2>2, <3>4, <3>6, AccountKept
  <2>4. CASE l # Batch(m)[n]
    <3>1. Owes(w, l)' => Owes(w, l)
      <4> SUFFICES ASSUME Owes(w, l)' PROVE Owes(w, l)
        OBVIOUS
      <4>1. PICK i \in DOMAIN Batch(m) : i >= n + 1 /\ Batch(m)[i] = l
        BY <1>1 DEF Becomes, Owes
      <4>2. i >= n
        BY <1>1, <1>5, <4>1
      <4> QED  BY <1>1, <1>2, <4>1, <4>2 DEF Owes
    <3>2. IsFiniteSet(Owing(l)') /\ Cardinality(Owing(l)') <= Cardinality(Owing(l))
      <4>1. Owing(l)' \in SUBSET Owing(l)
        BY <1>3, <3>1 DEF Owing, Owes
      <4> QED  BY <2>1, <4>1, FS_Subset DEF Account
    <3>3. disk'[l] = disk[l]
      BY <1>1, <2>1, <2>4 DEF TypeOK
    <3>4. Spent(k, l)' <= Spent(k, l)
      <4>1. Cardinality(Owing(l)') \in Nat
        BY <3>2, FS_CardinalityType
      <4> QED  BY <1>4, <2>2, <3>2, <3>3, <4>1 DEF Spent
    <3> QED  BY <1>4, <2>1, <2>2, <3>2, <3>4, AccountKept
  <2> QED  BY <2>3, <2>4
<1> QED  BY <1>6 DEF Copies

LEMMA CopiesStep ==
    ASSUME ~TornWrites, TypeOK, TypeOK', Work, Turns, Down, Whole, Copies, Next
    PROVE  Copies'
<1>1. ASSUME NEW w \in Workers, NEW stage, MovesTo(w, stage), stage # "begun",
             \A m \in Messages : \A l \in LinesOf(m) :
                stage \in {"turn", "append", "conversation", "lines"} /\ Owes(w, l)' => Owes(w, l),
             UNCHANGED <<up, entries, seenFile, steered, disk, expired, forgets, starts>>,
             errors' >= errors
      PROVE  Copies'
  <2>1. \A m \in Messages : \A l \in LinesOf(m) : Owes(w, l)' => Owes(w, l)
    BY <1>1 DEF MovesTo, Becomes, Owes
  <2> QED  BY <1>1, <2>1, CopiesStill DEF MovesTo, Becomes
<1>2. ASSUME NEW w \in Workers, NEW stage, MovesTo(w, stage),
             worker[w].stage \in {"begun", "turn", "append", "conversation", "lines"}
      PROVE  \A l : Owes(w, l)' => Owes(w, l)
  BY <1>2 DEF MovesTo, Becomes, Owes
<1>3. errors \in Nat
  BY IntakeAssumption DEF TypeOK
<1>4. ASSUME NEW w \in Workers, NEW cut \in BOOLEAN, TurnEnds(w, cut) PROVE Copies'
  <2>1. /\ UNCHANGED <<up, entries, seenFile, steered, disk, expired, forgets, starts, errors>>
        /\ worker[w].stage = "turn"
        /\ MovesTo(w, IF Batch(worker[w].message) = <<>> THEN "saved" ELSE "append")
    BY <1>4, Moves DEF TurnEnds, session, ghosts, At
  <2>2. CASE Batch(worker[w].message) = <<>>
    BY <1>1, <1>2, <1>3, <2>1, <2>2
  <2>3. CASE Batch(worker[w].message) # <<>>
    BY <1>1, <1>2, <1>3, <2>1, <2>3
  <2> QED  BY <2>2, <2>3
<1>5. ASSUME NEW w \in Workers, TakeLocks(w) PROVE Copies'
  <2>1. /\ UNCHANGED <<up, entries, seenFile, steered, disk, expired, forgets, starts, errors>>
        /\ worker[w].stage = "append" /\ MovesTo(w, "conversation")
    BY <1>5, Moves DEF TakeLocks, session, ghosts, At
  <2> QED  BY <1>1, <1>2, <1>3, <2>1
<1>6. ASSUME NEW w \in Workers, WriteConversationMeta(w) PROVE Copies'
  <2>1. /\ UNCHANGED <<up, entries, seenFile, steered, disk, expired, forgets, starts, errors>>
        /\ worker[w].stage = "conversation" /\ MovesTo(w, "lines")
    BY <1>6, Moves DEF WriteConversationMeta, session, ghosts, At
  <2> QED  BY <1>1, <1>2, <1>3, <2>1
<1>7. ASSUME NEW w \in Workers, WriteAgentMeta(w) PROVE Copies'
  <2>1. /\ UNCHANGED <<up, entries, seenFile, steered, disk, expired, forgets, starts, errors>>
        /\ MovesTo(w, "saved")
    BY <1>7, Moves DEF WriteAgentMeta, ghosts
  <2> QED  BY <1>1, <1>3, <2>1
<1>8. ASSUME NEW w \in Workers, AppendFails(w) PROVE Copies'
  <2>1. /\ UNCHANGED <<up, entries, seenFile, steered, disk, expired, forgets, starts>>
        /\ errors' = errors + 1
        /\ MovesTo(w, "failed")
    BY <1>8, Moves DEF AppendFails, ghosts
  <2> QED  BY <1>1, <1>3, <2>1
<1>12. ASSUME NEW w \in Workers, StartTurn(w) PROVE Copies'
  <2>1. /\ UNCHANGED <<up, entries, seenFile, steered, disk, expired, forgets, starts, errors>>
        /\ worker[w].stage = "begun" /\ MovesTo(w, "turn")
    BY <1>12, Moves DEF StartTurn, session, ghosts, At
  <2> QED  BY <1>1, <1>2, <1>3, <2>1
<1>9. ASSUME NEW m \in Messages, Expire(m) PROVE Copies'
  <2> SUFFICES ASSUME NEW k \in Messages, NEW l \in LinesOf(k) PROVE Account(k, l)'
    BY DEF Copies
  <2>1. Account(k, l) /\ UNCHANGED <<worker, steered, disk, up, forgets, starts, errors>>
    BY <1>9 DEF Copies, Expire, session
  <2>2. Owing(l)' = Owing(l) /\ Queued(k, l)' = Queued(k, l) /\ Forgetful' = Forgetful
    BY <2>1 DEF Owing, Owes, Queued, Forgetful
  <2>3. Spent(k, l)' <= Spent(k, l) /\ IsFiniteSet(Owing(l)')
    BY <2>1, <2>2, Numbers DEF Spent, Account
  <2>4. errors \in Nat /\ expired[k] \in Nat /\ forgets[k] \in Nat /\ Forgetful \in Nat
    BY <2>1, Numbers DEF Account
  <2>5. CASE k = m
    <3>1. expired'[k] = expired[k] + 1
      BY <1>9, <2>5 DEF Expire, TypeOK
    <3>2. Reasons(k)' >= Reasons(k) + 1 /\ Reasons(k)' >= Reasons(k)
      BY <2>1, <2>2, <2>4, <3>1 DEF Reasons
    <3> QED  BY <2>1, <2>3, <3>2, AccountKept
  <2>6. CASE k # m
    <3>1. /\ expired'[k] = expired[k]
          /\ entries'[k] = entries[k] /\ seenFile'[k] = seenFile[k]
      BY <1>9, <2>6 DEF Expire, TypeOK
    <3>2. Reasons(k)' >= Reasons(k) /\ (MayBegin(k)' => MayBegin(k))
      BY <2>1, <2>2, <2>4, <3>1 DEF Reasons, MayBegin
    <3> QED  BY <2>1, <2>3, <3>2, AccountKept
  <2> QED  BY <2>5, <2>6
<1>10. ASSUME Crash PROVE Copies'
  <2> SUFFICES ASSUME NEW m \in Messages, NEW l \in LinesOf(m) PROVE Account(m, l)'
    BY DEF Copies
  <2>1. /\ Account(m, l) /\ ~up' /\ seenFile' = seenFile
        /\ UNCHANGED <<disk, expired, forgets, starts, errors>>
    BY <1>10 DEF Copies, Crash, ghosts
  <2>2. Owing(l)' = {} /\ Queued(m, l)' = 0
    BY <1>10 DEF Crash, IdleWorker, Owing, Owes, Queued
  <2>3. IsFiniteSet(Owing(l)') /\ Cardinality(Owing(l)') = 0
    BY <2>2, FS_EmptySet
  <2>4. Spent(m, l)' <= Spent(m, l)
    BY <2>1, <2>2, <2>3, Numbers DEF Spent, Account
  <2>5. Reasons(m)' = Reasons(m) /\ Reasons(m) \in Nat
    BY <2>1, Numbers DEF Account, Reasons, Forgetful
  <2>6. MayBegin(m)' => MayBegin(m)
    BY <2>1 DEF MayBegin
  <2> QED  BY <2>1, <2>3, <2>4, <2>5, <2>6, AccountKept
<1>11. ASSUME Start PROVE Copies'
  <2> SUFFICES ASSUME NEW m \in Messages, NEW l \in LinesOf(m) PROVE Account(m, l)'
    BY DEF Copies
  <2>1. /\ Account(m, l) /\ entries' = seenFile /\ starts' = starts + 1
        /\ UNCHANGED <<seenFile, worker, steered, disk, expired, forgets, errors>>
    BY <1>11 DEF Copies, Start, ghosts
  <2>2. Owing(l)' = Owing(l) /\ Queued(m, l)' = Queued(m, l)
    BY <2>1 DEF Owing, Owes, Queued
  <2>3. Spent(m, l)' <= Spent(m, l) /\ IsFiniteSet(Owing(l)')
    BY <2>1, <2>2, Numbers DEF Spent, Account
  <2>4. starts \in Nat /\ errors \in Nat /\ expired[m] \in Nat /\ forgets[m] \in Nat
    BY <2>1, Numbers, IntakeAssumption DEF Account, TypeOK
  <2>5. CASE DedupeFile
    <3>1. Reasons(m)' >= Reasons(m)
      BY <2>1, <2>4, <2>5 DEF Reasons, Forgetful
    <3>2. MayBegin(m)' => MayBegin(m)
      BY <2>1, <2>5 DEF MayBegin
    <3> QED  BY <2>1, <2>3, <3>1, <3>2, AccountKept
  <2>6. CASE ~DedupeFile
    <3>1. Reasons(m)' >= Reasons(m) + 1 /\ Reasons(m)' >= Reasons(m)
      BY <2>1, <2>4, <2>6 DEF Reasons, Forgetful
    <3> QED  BY <2>1, <2>3, <3>1, AccountKept
  <2> QED  BY <2>5, <2>6
<1> QED
  BY <1>4, <1>5, <1>6, <1>7, <1>8, <1>9, <1>10, <1>11, <1>12, CopiesReceive, CopiesSettle,
     CopiesSteered, CopiesTakeUp, CopiesWriteLine DEF Next

-----------------------------------------------------------------------------
(* The account of the first memory                                         *)

LEMMA DisplayKept ==
    ASSUME TypeOK, TypeOK', NEW m \in Observed, NEW l \in LinesOf(m), Display(m, l),
           IsFiniteSet(Publishing(m)'),
           memory'[l] + Cardinality(Publishing(m)')
               <= memory[l] + Cardinality(Publishing(m)),
           expired'[m] = expired[m],
           entries'[m] = "absent" =>
               \/ entries[m] = "absent"
               \/ memory'[l] + Cardinality(Publishing(m)')
                      < memory[l] + Cardinality(Publishing(m))
    PROVE  Display(m, l)'
<1>1. l \in Lines /\ m \in Messages
  BY LineOf DEF Observed
<1>2. memory[l] \in Nat /\ memory'[l] \in Nat /\ expired[m] \in Nat
  BY <1>1, IntakeAssumption DEF TypeOK
<1>3. Cardinality(Publishing(m)) \in Nat /\ Cardinality(Publishing(m)') \in Nat
  BY FS_CardinalityType DEF Display
<1>4. /\ memory[l] + Cardinality(Publishing(m)) <= 1 + expired[m]
      /\ entries[m] = "absent" => memory[l] + Cardinality(Publishing(m)) <= expired[m]
  BY DEF Display
<1>5. memory'[l] + Cardinality(Publishing(m)') <= 1 + expired'[m]
  BY <1>2, <1>3, <1>4
<1>6. entries'[m] = "absent" => memory'[l] + Cardinality(Publishing(m)') <= expired'[m]
  BY <1>2, <1>3, <1>4
<1> QED  BY <1>5, <1>6 DEF Display

\* The displays are kept when nobody begins or ends to publish.
LEMMA ShownStill ==
    ASSUME TypeOK, TypeOK', Shown, starts' = starts, up, UNCHANGED <<memory, expired>>,
           \A m \in Observed : entries'[m] = "absent" => entries[m] = "absent",
           \A m \in Observed : \A v \in Workers :
              v \in Publishing(m)' <=> v \in Publishing(m)
    PROVE  Shown'
<1> SUFFICES ASSUME starts = 1, NEW m \in Observed, NEW l \in LinesOf(m)
             PROVE  Display(m, l)'
  BY DEF Shown
<1>1. Display(m, l)
  BY DEF Shown
<1>2. Publishing(m)' = Publishing(m)
  BY DEF Publishing
<1>3. memory'[l] + Cardinality(Publishing(m)') <= memory[l] + Cardinality(Publishing(m))
  <2>1. memory[l] \in Nat /\ Cardinality(Publishing(m)) \in Nat
    BY <1>1, LineOf, FS_CardinalityType DEF TypeOK, Display, Observed
  <2> QED  BY <1>2, <2>1
<1> QED  BY <1>1, <1>2, <1>3, DisplayKept DEF Display

\* Nobody begins or ends to publish when one goroutine moves within its append, or
\* its message is not an observed one.
LEMMA PublishingSame ==
    ASSUME NEW w \in Workers, NEW k, NEW stage, NEW n, Becomes(w, k, stage, n),
           NEW m \in Observed,
           \/ k # m /\ worker[w].message # m
           \/ /\ k = worker[w].message
              /\ stage \in AppendStages \cup {"append", "failed"} <=>
                   worker[w].stage \in AppendStages \cup {"append", "failed"}
    PROVE  \A v \in Workers : v \in Publishing(m)' <=> v \in Publishing(m)
  BY DEF Becomes, Publishing

LEMMA ShownReceive ==
    ASSUME ~TornWrites, TypeOK, TypeOK', Work, Shown, NEW w \in Workers, NEW m \in Messages,
           Receive(w, m)
    PROVE  Shown'
<1>1. Becomes(w, m, IF m \in Observed THEN "append" ELSE "begun", 1)
  BY Moves
<1>2. /\ Persist([entries EXCEPT ![m] = "processing"]) /\ entries[m] = "absent"
      /\ up /\ UNCHANGED <<up, memory, expired, starts>>
  BY Begins
<1>3. /\ entries'[m] = "processing" /\ \A k \in Messages \ {m} : entries'[k] = entries[k]
  BY <1>2, Persisted
<1>4. worker[w].message = None /\ worker[w].stage = "idle"
  BY WorkFits DEF Receive, At, Fits
<1> SUFFICES ASSUME starts = 1, NEW k \in Observed, NEW l \in LinesOf(k)
             PROVE  Display(k, l)'
  BY <1>2 DEF Shown
<1>5. Display(k, l) /\ k \in Messages /\ l \in Lines
  BY <1>2, LineOf DEF Shown, Observed
<1>6. /\ memory[l] \in Nat /\ memory'[l] = memory[l] /\ Cardinality(Publishing(k)) \in Nat
      /\ expired[k] \in Nat /\ expired'[k] = expired[k]
  BY <1>2, <1>5, FS_CardinalityType, IntakeAssumption DEF TypeOK, Display
<1>7. CASE k = m
  <2>1. Publishing(k)' = Publishing(k) \cup {w} /\ w \notin Publishing(k)
    BY <1>1, <1>4, <1>7 DEF Becomes, Publishing, AppendStages
  <2>2. /\ IsFiniteSet(Publishing(k)')
        /\ Cardinality(Publishing(k)') = Cardinality(Publishing(k)) + 1
    BY <1>5, <2>1, FS_AddElement DEF Display
  <2>3. memory[l] + Cardinality(Publishing(k)) <= expired[k]
    BY <1>2, <1>5, <1>7 DEF Display
  <2>4. memory'[l] + Cardinality(Publishing(k)') <= 1 + expired'[k]
    BY <1>6, <2>2, <2>3
  <2> QED  BY <1>3, <1>7, <2>2, <2>4 DEF Display
<1>8. CASE k # m
  <2>1. k # None
    BY <1>5, IntakeAssumption
  <2>2. Publishing(k)' = Publishing(k)
    BY <1>1, <1>4, <1>8, <2>1 DEF Becomes, Publishing
  <2>3. entries'[k] = entries[k]
    BY <1>3, <1>5, <1>8
  <2>4. memory'[l] + Cardinality(Publishing(k)') <= memory[l] + Cardinality(Publishing(k))
    BY <1>6, <2>2
  <2> QED  BY <1>5, <1>6, <2>2, <2>3, <2>4, DisplayKept DEF Display
<1> QED  BY <1>7, <1>8

LEMMA ShownSettle ==
    ASSUME ~TornWrites, TypeOK, TypeOK', Turns, Shown, NEW w \in Workers, NEW ok \in BOOLEAN,
           Settle(w, ok)
    PROVE  Shown'
<1>1. Becomes(w, None, "idle", 0)
  BY Moves
<1>2. PICK m \in Messages, e \in {"absent", "processing", "completed"} :
        /\ Persist([entries EXCEPT ![m] = e])
        /\ e = IF ok THEN "completed" ELSE "absent"
        /\ m \in Observed => ok = At(w, "saved") /\ worker[w].message = m
        /\ worker[w].message \in Observed => worker[w].message = m
        /\ worker[w].stage \in {"saved", "failed"}
        /\ up /\ UNCHANGED <<up, memory, expired, starts>>
  BY Settles
<1>3. /\ entries'[m] = e /\ \A k \in Messages \ {m} : entries'[k] = entries[k]
  BY <1>2, Persisted
<1> SUFFICES ASSUME starts = 1, NEW k \in Observed, NEW l \in LinesOf(k)
             PROVE  Display(k, l)'
  BY <1>2 DEF Shown
<1>5. Display(k, l) /\ k \in Messages /\ l \in Lines
  BY <1>2, LineOf DEF Shown, Observed
<1>6. /\ memory[l] \in Nat /\ memory'[l] = memory[l] /\ Cardinality(Publishing(k)) \in Nat
      /\ expired[k] \in Nat /\ expired'[k] = expired[k]
  BY <1>2, <1>5, FS_CardinalityType, IntakeAssumption DEF TypeOK, Display
<1>7. CASE k = m /\ worker[w].stage = "failed"
  <2>1. Publishing(k)' = Publishing(k) \ {w} /\ w \in Publishing(k)
    BY <1>1, <1>2, <1>7 DEF Becomes, Publishing, AppendStages
  <2>2. /\ IsFiniteSet(Publishing(k)')
        /\ Cardinality(Publishing(k)') = Cardinality(Publishing(k)) - 1
    BY <1>5, <2>1, FS_RemoveElement DEF Display
  <2>3. memory'[l] + Cardinality(Publishing(k)') < memory[l] + Cardinality(Publishing(k))
    BY <1>6, <2>2
  <2>4. memory'[l] + Cardinality(Publishing(k)') <= memory[l] + Cardinality(Publishing(k))
    BY <1>6, <2>2
  <2> QED  BY <1>5, <1>6, <2>2, <2>3, <2>4, DisplayKept
<1>8. CASE k # m \/ worker[w].stage = "saved"
  <2>1. k # None
    BY <1>5, IntakeAssumption
  <2>2. Publishing(k)' = Publishing(k)
    BY <1>1, <1>2, <1>8, <2>1 DEF Becomes, Publishing, AppendStages
  <2>3. entries'[k] = "absent" => entries[k] = "absent"
    BY <1>2, <1>3, <1>5, <1>8 DEF At
  <2>4. memory'[l] + Cardinality(Publishing(k)') <= memory[l] + Cardinality(Publishing(k))
    BY <1>6, <2>2
  <2> QED  BY <1>5, <1>6, <2>2, <2>3, <2>4, DisplayKept DEF Display
<1> QED  BY <1>2, <1>7, <1>8

LEMMA ShownPublish ==
    ASSUME TypeOK, TypeOK', Work, Shown, NEW w \in Workers, WriteAgentMeta(w)
    PROVE  Shown'
<1>1. Becomes(w, worker[w].message, "saved", worker[w].line)
  BY Moves DEF MovesTo
<1>2. PICK m \in Messages : /\ m = worker[w].message /\ memory' = Published(m)
                            /\ worker[w].stage = "agent" /\ up
                            /\ UNCHANGED <<up, entries, expired>>
  BY PublishesOwn DEF At
<1>3. starts' = starts
  BY PublishesOwn
<1> SUFFICES ASSUME starts = 1, NEW k \in Observed, NEW l \in LinesOf(k)
             PROVE  Display(k, l)'
  BY <1>2, <1>3 DEF Shown
<1>5. Display(k, l) /\ k \in Messages /\ l \in Lines
  BY <1>2, LineOf DEF Shown, Observed
<1>6. memory[l] \in Nat /\ Cardinality(Publishing(k)) \in Nat
  BY <1>5, FS_CardinalityType DEF TypeOK, Display
<1>7. memory'[l] = memory[l] + (IF \E n \in DOMAIN Batch(m) : Batch(m)[n] = l THEN 1 ELSE 0)
  BY <1>2, <1>5, PublishedOnce
<1>8. CASE k = m
  <2>1. Publishing(k)' = Publishing(k) \ {w} /\ w \in Publishing(k)
    BY <1>1, <1>2, <1>8 DEF Becomes, Publishing, AppendStages
  <2>2. /\ IsFiniteSet(Publishing(k)')
        /\ Cardinality(Publishing(k)') = Cardinality(Publishing(k)) - 1
    BY <1>5, <2>1, FS_RemoveElement DEF Display
  <2>3. memory'[l] + Cardinality(Publishing(k)') <= memory[l] + Cardinality(Publishing(k))
    BY <1>6, <1>7, <2>2
  <2> QED  BY <1>2, <1>5, <2>2, <2>3, DisplayKept
<1>9. CASE k # m
  <2>1. Publishing(k)' = Publishing(k)
    BY <1>1, <1>2, <1>9 DEF Becomes, Publishing
  <2>2. ~\E n \in DOMAIN Batch(m) : Batch(m)[n] = l
    BY <1>5, <1>9, BatchFacts, LinesApart
  <2>3. memory'[l] + Cardinality(Publishing(k)') <= memory[l] + Cardinality(Publishing(k))
    BY <1>6, <1>7, <2>1, <2>2
  <2> QED  BY <1>2, <1>5, <2>1, <2>3, DisplayKept DEF Display
<1> QED  BY <1>8, <1>9

LEMMA ShownStep ==
    ASSUME ~TornWrites, TypeOK, TypeOK', Work, Turns, Whole, Shown, Next
    PROVE  Shown'
<1>1. ASSUME NEW w \in Workers, NEW cut \in BOOLEAN, TurnEnds(w, cut) PROVE Shown'
  <2>1. /\ worker[w].message \notin Observed /\ up
        /\ UNCHANGED <<starts, entries, memory, expired>>
    BY <1>1, WorkFits DEF TurnEnds, At, Fits, session, ghosts
  <2>2. \A m \in Observed : \A v \in Workers : v \in Publishing(m)' <=> v \in Publishing(m)
    BY <1>1, <2>1, Moves, PublishingSame DEF MovesTo
  <2> QED  BY <2>1, <2>2, ShownStill
<1>2. ASSUME NEW w \in Workers, NEW stage, NEW n, Becomes(w, worker[w].message, stage, n),
             stage \in AppendStages \cup {"failed"},
             worker[w].stage \in AppendStages \cup {"append"},
             up, UNCHANGED <<starts, entries, memory, expired>>
      PROVE  Shown'
  <2>1. \A m \in Observed : \A v \in Workers : v \in Publishing(m)' <=> v \in Publishing(m)
    BY <1>2, PublishingSame
  <2> QED  BY <1>2, <2>1, ShownStill
<1>3. ASSUME NEW w \in Workers, TakeLocks(w) PROVE Shown'
  BY <1>2, <1>3, Moves DEF TakeLocks, At, MovesTo, AppendStages, session, ghosts
<1>4. ASSUME NEW w \in Workers, WriteConversationMeta(w) PROVE Shown'
  BY <1>2, <1>4, Moves DEF WriteConversationMeta, At, MovesTo, AppendStages, session, ghosts
<1>5. ASSUME NEW w \in Workers, WriteLine(w) PROVE Shown'
  <2>1. PICK stage \in {"agent", "lines"}, n \in Nat :
          Becomes(w, worker[w].message, stage, n)
    <3>1. PICK m \in Messages, n \in Nat :
            /\ m = worker[w].message
            /\ Becomes(w, m, IF n = Len(Batch(m)) THEN "agent" ELSE "lines", n + 1)
      BY <1>5, WritesLine
    <3>2. CASE n = Len(Batch(m))
      BY <3>1, <3>2
    <3>3. CASE n # Len(Batch(m))
      BY <3>1, <3>3
    <3> QED  BY <3>2, <3>3
  <2> QED  BY <1>2, <1>5, <2>1 DEF WriteLine, At, AppendStages, ghosts
<1>6. ASSUME NEW w \in Workers, AppendFails(w) PROVE Shown'
  BY <1>2, <1>6, Moves DEF AppendFails, At, MovesTo, AppendStages, ghosts
<1>10. ASSUME NEW w \in Workers, NEW k, NEW stage, NEW n, Becomes(w, k, stage, n),
              k \notin Observed, worker[w].message \notin Observed,
              up, UNCHANGED <<starts, entries, memory, expired>>
       PROVE  Shown'
  <2>1. \A m \in Observed : \A v \in Workers : v \in Publishing(m)' <=> v \in Publishing(m)
    BY <1>10, PublishingSame
  <2> QED  BY <1>10, <2>1, ShownStill
<1>11. ASSUME NEW w \in Workers, StartTurn(w) PROVE Shown'
  <2>1. worker[w].message \notin Observed /\ up /\ UNCHANGED <<starts, entries, memory, expired>>
    BY <1>11, WorkFits DEF StartTurn, At, Fits, session, ghosts
  <2> QED  BY <1>10, <1>11, <2>1, Moves DEF MovesTo
<1>12. ASSUME NEW w \in Workers, Steered(w) PROVE Shown'
  <2>1. worker[w].message \notin Observed /\ up /\ UNCHANGED <<starts, entries, memory, expired>>
    BY <1>12, WorkFits DEF Steered, At, Fits, session
  <2>2. None \notin Observed
    BY IntakeAssumption DEF Observed
  <2> QED  BY <1>10, <1>12, <2>1, <2>2, Moves
<1>13. ASSUME NEW w \in Workers, NEW k \in Messages, TakeUp(w, k) PROVE Shown'
  <2>1. /\ k \notin Observed /\ worker[w].turn \notin Observed
        /\ up /\ UNCHANGED <<starts, entries, memory, expired>>
    BY <1>13 DEF TakeUp, Turns, session, ghosts
  <2>2. worker[w].message \notin Observed
    BY <2>1 DEF Turns
  <2> QED  BY <1>10, <1>13, <2>1, <2>2, Moves
<1>7. ASSUME NEW k \in Messages, Expire(k) PROVE Shown'
  <2> SUFFICES ASSUME starts = 1, up, NEW m \in Observed, NEW l \in LinesOf(m)
               PROVE  Display(m, l)'
    BY <1>7 DEF Shown, Expire
  <2>1. Display(m, l) /\ m \in Messages /\ l \in Lines
    BY LineOf DEF Shown, Observed
  <2>2. memory[l] \in Nat /\ Cardinality(Publishing(m)) \in Nat /\ expired[m] \in Nat
    BY <2>1, FS_CardinalityType, IntakeAssumption DEF TypeOK, Display
  <2>3. Publishing(m)' = Publishing(m) /\ memory' = memory
    BY <1>7 DEF Expire, session, Publishing
  <2>4. CASE m = k
    <3>1. expired'[m] = expired[m] + 1
      BY <1>7, <2>1, <2>4 DEF Expire, TypeOK
    <3> QED  BY <2>1, <2>2, <2>3, <3>1 DEF Display
  <2>5. CASE m # k
    <3>1. expired'[m] = expired[m] /\ entries'[m] = entries[m]
      BY <1>7, <2>1, <2>5 DEF Expire, TypeOK
    <3> QED  BY <2>1, <2>3, <3>1 DEF Display
  <2> QED  BY <2>4, <2>5
<1>8. CASE Crash
  BY <1>8 DEF Crash, Shown
<1>9. CASE Start
  BY <1>9 DEF Start, Shown, TypeOK
<1> QED
  BY <1>1, <1>3, <1>4, <1>5, <1>6, <1>7, <1>8, <1>9, <1>11, <1>12, <1>13, ShownReceive,
     ShownSettle, ShownPublish DEF Next

-----------------------------------------------------------------------------
(* The theorems                                                            *)

LEMMA IntakeInit == Init => IntakeInv
<1> SUFFICES ASSUME Init PROVE IntakeInv
  OBVIOUS
<1>1. /\ \A w \in Workers : worker[w] = IdleWorker
      /\ memory = NoLines /\ disk = NoLines
      /\ \A m \in Messages : entries[m] = "absent" /\ seenFile[m] = "absent"
      /\ \A m \in Messages : expired[m] = 0 /\ forgets[m] = 0
      /\ errors = 0 /\ starts = 1 /\ up = TRUE /\ torn = FALSE
  BY DEF Init, Absent
<1>2. TypeOK
  <2>1. MaxStarts \in Nat \ {0} /\ MaxErrors \in Nat /\ MaxExpiries \in Nat
    BY IntakeAssumption
  <2>2. IdleWorker \in Job
    BY DEF IdleWorker, Job
  <2>3. worker \in [Workers -> Job]
    BY <2>2 DEF Init
  <2>4. \A w \in Workers : worker[w].stage \notin AppendStages
    BY <1>1 DEF IdleWorker, AppendStages
  <2>5. \A l \in Lines : memory[l] = 0 /\ disk[l] = 0
    BY <1>1 DEF NoLines
  <2>6. memory \in [Lines -> Nat] /\ disk \in [Lines -> Nat]
    BY <1>1 DEF NoLines
  <2>7. /\ entries \in [Messages -> {"absent", "processing", "completed"}]
        /\ seenFile \in [Messages -> {"absent", "processing", "completed"}]
        /\ expired \in [Messages -> 0..MaxExpiries] /\ forgets \in [Messages -> Nat]
        /\ steered \in [Messages -> Nat] /\ handed \subseteq Messages
    BY <2>1 DEF Init, Absent
  <2>8. starts \in 1..MaxStarts /\ errors \in 0..MaxErrors
    BY <1>1, <2>1
  <2>9. up \in BOOLEAN /\ torn \in BOOLEAN
    BY <1>1
  <2>10. \A l \in Lines : memory[l] + disk[l] > 0 => Inbound[l[1]].allowed
    BY <2>5
  <2> QED  BY <2>3, <2>4, <2>6, <2>7, <2>8, <2>9, <2>10 DEF TypeOK, Job
<1>3. Work /\ Turns /\ Down /\ Whole /\ OnDisk
  <2>1. None \notin Observed /\ handed = {} /\ \A m \in Messages : steered[m] = 0
    BY IntakeAssumption DEF Init, Observed
  <2>2. Turns
    BY <1>1, <2>1 DEF Turns, IdleWorker, At
  <2> QED  BY <1>1, <2>2 DEF Work, Down, Whole, OnDisk, IdleWorker, At, AppendStages
<1>4. \A l : Owing(l) = {}
  BY <1>1 DEF Owing, Owes, IdleWorker
<1>5. \A m \in Messages : Publishing(m) = {}
  BY <1>1 DEF Publishing, IdleWorker, AppendStages
<1>6. IsFiniteSet({}) /\ Cardinality({}) = 0
  BY FS_EmptySet
<1>7. \A m \in Messages : \A l \in LinesOf(m) : memory[l] = 0 /\ disk[l] = 0
  BY <1>1, LineOf DEF NoLines
<1>8. Behind
  BY <1>1 DEF Behind, NoLines, Wrote, IdleWorker
<1>9. Copies
  <2>1. \A m \in Messages : \A l : Queued(m, l) = 0
    BY DEF Init, Queued
  <2>2. Forgetful = 0
    BY <1>1 DEF Forgetful
  <2> QED  BY <1>1, <1>4, <1>6, <1>7, <2>1, <2>2 DEF Copies, Account, Spent, Reasons
<1>10. Shown
  <2>1. \A m \in Observed : m \in Messages
    BY DEF Observed
  <2> QED  BY <1>1, <1>5, <1>6, <1>7, <2>1 DEF Shown, Display
<1>11. SeenIsKept
  BY <1>1 DEF SeenIsKept
<1> QED  BY <1>2, <1>3, <1>8, <1>9, <1>10, <1>11 DEF IntakeInv

LEMMA IntakeStep ==
    ASSUME ~TornWrites
    PROVE  IntakeInv /\ [Next]_vars => IntakeInv'
<1> SUFFICES ASSUME IntakeInv, [Next]_vars PROVE IntakeInv'
  OBVIOUS
<1>0. /\ TypeOK /\ Work /\ Turns /\ Down /\ Whole /\ Behind /\ Copies /\ Shown /\ OnDisk
      /\ Completed /\ Processing
  BY SeenHalves DEF IntakeInv
<1>1. CASE Next
  <2>1. TypeOK' /\ Work' /\ Turns' /\ Down' /\ Whole'
    BY <1>0, <1>1, TypeStep, WorkStep, TurnsStep, DownStep, WholeStep
  <2>2. Behind' /\ OnDisk'
    BY <1>0, <1>1, BehindStep, OnDiskStep
  <2>3. Completed' /\ Processing'
    BY <1>0, <1>1, CompletedStep, ProcessingStep
  <2>4. SeenIsKept'
    BY <2>3 DEF SeenIsKept, Completed, Processing, Observed
  <2>5. Copies' /\ Shown'
    BY <1>0, <1>1, <2>1, CopiesStep, ShownStep
  <2> QED  BY <2>1, <2>2, <2>4, <2>5 DEF IntakeInv
<1>2. CASE UNCHANGED vars
  <2>1. /\ UNCHANGED <<up, entries, seenFile, worker, memory, disk, torn, expired, forgets>>
        /\ UNCHANGED <<steered, handed, starts, errors>>
    BY <1>2 DEF vars, session, ghosts
  <2>2. TypeOK' /\ Work' /\ Turns' /\ Down' /\ Whole' /\ OnDisk'
    BY <1>0, <2>1 DEF TypeOK, Work, Turns, Down, Whole, OnDisk, At
  <2>3. Behind'
    BY <1>0, <2>1 DEF Behind, Wrote
  <2>4. Copies'
    <3>1. \A m \in Messages : \A l \in LinesOf(m) :
             /\ Owing(l)' = Owing(l) /\ Queued(m, l)' = Queued(m, l)
             /\ Reasons(m)' = Reasons(m) /\ (MayBegin(m)' <=> MayBegin(m))
      BY <2>1 DEF Owing, Owes, Queued, Reasons, Forgetful, MayBegin
    <3>2. \A m \in Messages : \A l \in LinesOf(m) : Spent(m, l)' = Spent(m, l)
      BY <2>1, <3>1 DEF Spent
    <3> QED  BY <1>0, <3>1, <3>2 DEF Copies, Account
  <2>5. Shown'
    BY <1>0, <2>1 DEF Shown, Display, Publishing
  <2>6. SeenIsKept'
    BY <1>0, <2>1, SeenHalves DEF SeenIsKept, Works, IntakeInv
  <2> QED  BY <2>2, <2>3, <2>4, <2>5, <2>6 DEF IntakeInv
<1> QED  BY <1>1, <1>2

LEMMA IntakeInvHolds ==
    ASSUME ~TornWrites
    PROVE  Spec => []IntakeInv
  BY IntakeInit, IntakeStep, PTL DEF Spec

\* When files are written whole, a line is in messages.jsonl at most once more than
\* there were reasons for the deduper to let its message through again, starts without
\* a file among them, and the first memory has an observed message at most once more
\* than its entry expired.
THEOREM CopiesHaveReasons ==
    ASSUME ~TornWrites
    PROVE  Spec => []CopiesAccounted
<1>1. IntakeInv => CopiesAccounted
  <2> SUFFICES ASSUME IntakeInv PROVE CopiesAccounted
    OBVIOUS
  <2>0. TypeOK /\ Down /\ Copies /\ Shown
    BY DEF IntakeInv
  <2> SUFFICES ASSUME NEW m \in Messages, NEW l \in {m} \X {"user", "reply"}
               PROVE  /\ disk[l] <= 1 + expired[m] + forgets[m] + errors + Forgetful
                      /\ m \in Observed /\ starts = 1 => memory[l] <= 1 + expired[m]
    BY <2>0 DEF CopiesAccounted
  <2>1. l \in LinesOf(m) /\ l \in Lines
    BY LineOf DEF LinesOf
  <2>2. memory[l] \in Nat /\ expired[m] \in Nat
    BY <2>0, <2>1, IntakeAssumption DEF TypeOK
  <2>3. disk[l] <= 1 + expired[m] + forgets[m] + errors + Forgetful
    <3>1. Account(m, l)
      BY <2>0, <2>1 DEF Copies
    <3>2. /\ disk[l] \in Nat /\ Cardinality(Owing(l)) \in Nat /\ Queued(m, l) \in Nat
          /\ errors \in Nat /\ expired[m] \in Nat /\ forgets[m] \in Nat /\ Forgetful \in Nat
      BY <2>0, <2>1, <3>1, Numbers DEF Account
    <3>3. disk[l] + Cardinality(Owing(l)) + Queued(m, l) <= 1 + Reasons(m)
      BY <3>1 DEF Account, Spent
    <3> QED  BY <3>2, <3>3 DEF Reasons
  <2>4. ASSUME m \in Observed, starts = 1 PROVE memory[l] <= 1 + expired[m]
    <3>1. CASE up
      <4>1. /\ memory[l] + Cardinality(Publishing(m)) <= 1 + expired[m]
            /\ Cardinality(Publishing(m)) \in Nat
        BY <2>0, <2>1, <2>4, <3>1, FS_CardinalityType DEF Shown, Display
      <4> QED  BY <2>2, <4>1
    <3>2. CASE ~up
      BY <2>0, <2>1, <2>2, <3>2 DEF Down, NoLines
    <3> QED  BY <3>1, <3>2
  <2> QED  BY <2>3, <2>4
<1> QED  BY <1>1, IntakeInvHolds, PTL

\* When files are written whole, what the deduper or its file calls completed is in
\* the history, and what it calls processing before a crash is being worked on or was
\* handed to a running turn.
THEOREM SeenStaysKept ==
    ASSUME ~TornWrites
    PROVE  Spec => []SeenIsKept
<1>1. IntakeInv => SeenIsKept
  BY DEF IntakeInv
<1> QED  BY <1>1, IntakeInvHolds, PTL

\* When files are written whole, no step takes a line away from what runs see, also
\* not a crash in the middle of an append and the restart after it.
THEOREM NothingIsForgotten ==
    ASSUME ~TornWrites
    PROVE  Spec => NothingForgotten
<1>1. IntakeInv /\ [Next]_vars => [\A l \in Lines : Log'[l] >= Log[l]]_vars
  <2> SUFFICES ASSUME IntakeInv, Next PROVE \A l \in Lines : Log'[l] >= Log[l]
    OBVIOUS
  <2>0. TypeOK /\ Work /\ Down /\ Whole /\ Behind
    BY DEF IntakeInv
  <2>1. memory \in [Lines -> Nat] /\ disk \in [Lines -> Nat]
    BY <2>0 DEF TypeOK
  <2> TAKE l \in Lines
  <2>2. memory[l] \in Nat /\ disk[l] \in Nat /\ memory[l] <= disk[l]
    BY <2>0, <2>1 DEF Behind
  <2>3. ASSUME NEW w \in Workers, WriteAgentMeta(w) PROVE Log'[l] >= Log[l]
    <3>1. PICK m \in Messages : memory' = Published(m) /\ up /\ up' = up
      BY <2>0, <2>3, PublishesOwn
    <3>2. memory'[l] >= memory[l]
      BY <2>2, <3>1, PublishedOnce
    <3> QED  BY <3>1, <3>2 DEF Log
  <2>4. CASE Crash
    BY <2>2, <2>4 DEF Crash, Log
  <2>5. CASE Start
    BY <2>2, <2>5 DEF Start, Log
  <2>6. CASE up /\ up' = up /\ memory' = memory
    BY <2>2, <2>6 DEF Log
  <2>7. ASSUME NEW m \in Messages, Expire(m) PROVE Log'[l] >= Log[l]
    BY <2>2, <2>7 DEF Expire, session, Log
  <2> QED
    BY <2>3, <2>4, <2>5, <2>6, <2>7
       DEF Next, Receive, StartTurn, Steered, TurnEnds, TakeUp, TakeLocks, WriteConversationMeta, WriteLine, AppendFails,
           Settle, session
<1> QED  BY <1>1, IntakeInvHolds, PTL DEF NothingForgotten, Spec
=============================================================================
