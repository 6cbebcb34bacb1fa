---------------------- MODULE HumanRequestStoreProofs ----------------------
(***************************************************************************)
(* Theorems about HumanRequestStore, for any requests, answers, crashes    *)
(* and write failures.                                                     *)
(*                                                                         *)
(* What holds however many processes share the state directory follows     *)
(* from BaseInv.  The rest needs a single process, the code's only means   *)
(* of keeping the record loaded under the mutex the one on disk (InHand),  *)
(* and follows from SingleInv.                                             *)
(***************************************************************************)
EXTENDS HumanRequestStore, TLAPS

SingleProcess == \A p, q \in Procs : p = q

-----------------------------------------------------------------------------
(* The inductive invariants                                                *)

\* The shape every record keeps, wherever it is.
WellFormed(rec) ==
    /\ rec.status = "pending"  => rec.response = None /\ rec.resume = "waiting_response"
    /\ rec.status = "failed"   => rec.response = None /\ rec.resume = ""
    /\ rec.status = "resolved" => /\ rec.response # None
                                  /\ rec.resume \in {"pending", "running", "completed", "failed"}

Backed(rec) == rec.status = "resolved" => rec.response \in responses[rec.id]

Sound(rec) == WellFormed(rec) /\ Backed(rec)

OpShape(p) ==
    /\ op[p].stage = "none" <=> op[p] \in {Down, Idle}
    /\ op[p].stage # "none" =>
        /\ op[p].rec \in Record
        /\ WellFormed(op[p].rec)
        /\ op[p].kind \notin {"down", "idle"}
    /\ op[p].stage = "response" => op[p].kind = "resolve"
    /\ op[p].stage \notin {"none", "response"} => Backed(op[p].rec)
    /\ op[p].kind = "resolve" => op[p].rec.status = "resolved"
    /\ op[p].kind \in {"complete", "fail"} => holders[op[p].rec.id][p] > 0
    /\ op[p].kind # "recover" => op[p].todo = {}
    /\ \A x \in op[p].todo : Sound(x)

BaseInv ==
    /\ TypeOK
    /\ \A p \in Procs : OpShape(p)
    /\ \A r \in Requests : Stored(r) => Sound(file[r])
    /\ \A rec \in leftover \ {Torn} : Sound(rec)

\* What a recovery is about to write still answers what the file answers.
RecoveryFits(x) ==
    /\ x.status = "resolved" /\ x.resume = "failed"
    /\ Stored(x.id) /\ file[x.id].status = "resolved"
    /\ file[x.id].response = x.response
    /\ ~CrashInWrite => file[x.id].resume = "running"

KeyPending(key) == \E s \in Requests : /\ Stored(s)
                                        /\ file[s].status = "pending"
                                        /\ file[s].key = key

\* The record in hand was loaded from the file that is still on disk.
InHand(p) ==
    LET o == op[p]
        r == op[p].rec.id
    IN /\ o.kind = "create"  => /\ ~Stored(r) /\ o.rec.status = "pending"
                                /\ o.rec.key # None => ~KeyPending(o.rec.key)
       /\ o.kind = "deliver" => /\ Stored(r) /\ file[r].status = "pending"
                                /\ o.rec.status \in {"pending", "failed"}
                                /\ o.rec.key = file[r].key
       /\ o.kind = "resolve" => /\ Stored(r) /\ file[r].status = "pending"
                                /\ o.rec.resume = "pending"
       /\ o.kind = "claim"   => /\ Stored(r) /\ Claimable(file[r])
                                /\ o.rec = Claimed(file[r])
       /\ o.kind = "complete" => /\ Stored(r) /\ Interrupted(file[r])
                                 /\ o.rec = Finished(file[r], TRUE)
       /\ o.kind = "fail" => /\ Stored(r) /\ Interrupted(file[r])
                             /\ o.rec = Finished(file[r], FALSE)
       /\ o.kind = "recover" => \A x \in {o.rec} \cup o.todo : RecoveryFits(x)

HoldersRun ==
    \A r \in Requests, p \in Procs : holders[r][p] > 0 =>
        /\ holders[r][p] = 1
        /\ Stored(r) /\ Interrupted(file[r])
        /\ op[p].kind \notin {"down", "recover"}

\* A temporary file that recovery would pick up answers what the file answers.
LeftoverFits ==
    \A rec \in leftover \ {Torn} : Interrupted(rec) =>
        /\ Stored(rec.id) /\ file[rec.id].status = "resolved"
        /\ file[rec.id].response = rec.response

\* Without torn writes a recovery writes each record once.
RecoversOnce ==
    ~CrashInWrite =>
        /\ leftover = {}
        /\ \A p \in Procs : op[p].kind = "recover" =>
              /\ op[p].rec \notin op[p].todo
              /\ \A x, y \in {op[p].rec} \cup op[p].todo : x.id = y.id => x = y

\* A claim on disk has its resumer, or is about to be recovered.
ClaimsAccounted ==
    ~CrashInWrite /\ writeFailures = 0 =>
        \A r \in Requests : Stored(r) /\ Interrupted(file[r]) =>
            \E p \in Procs : \/ holders[r][p] > 0
                             \/ op[p].kind = "down"
                             \/ /\ op[p].kind = "recover"
                                /\ \E x \in {op[p].rec} \cup op[p].todo : x.id = r

SingleInv ==
    /\ BaseInv
    /\ \A p \in Procs : InHand(p)
    /\ HoldersRun
    /\ LeftoverFits
    /\ AckedAnswerPersisted
    /\ OnePendingPerKey
    /\ RecoversOnce
    /\ ClaimsAccounted

-----------------------------------------------------------------------------
(* The transition tables keep records well formed                          *)

LEMMA NewRequestSound ==
    ASSUME NEW r \in Requests, NEW ask \in Ask
    PROVE  /\ NewRequest(r, ask) \in Record
           /\ Sound(NewRequest(r, ask))
  BY NoneAssumption DEF NewRequest, Ask, Record, Statuses, Deliveries, Resumes, Sound,
     WellFormed, Backed

LEMMA DeliverySound ==
    ASSUME NEW rec \in Record, WellFormed(rec), DeliveryOpen(rec)
    PROVE  /\ \A m \in Messages : Sent(rec, m) \in Record /\ Sound(Sent(rec, m))
           /\ NotSent(rec) \in Record /\ Sound(NotSent(rec))
           /\ Undeliverable(rec) \in Record /\ Sound(Undeliverable(rec))
  BY DEF Record, Statuses, Deliveries, Resumes, DeliveryOpen, Sent, NotSent, Undeliverable,
     Sound, WellFormed, Backed

LEMMA SaidIsAnswer ==
    ASSUME NEW a \in Answer
    PROVE  /\ Said(a) \in Answer
           /\ a # None /\ Said(a) # None
           /\ Said(Said(a)) = Said(a)
  BY NoneAssumption DEF Answer, Said

LEMMA ResolvedSound ==
    ASSUME NEW rec \in Record, WellFormed(rec), rec.status = "pending", NEW a \in Answer
    PROVE  /\ Resolved(rec, a) \in Record
           /\ WellFormed(Resolved(rec, a))
           /\ Resolved(rec, a).status = "resolved"
           /\ Resolved(rec, a).response = a
           /\ Resolved(rec, a).resume = "pending"
           /\ Resolved(rec, a).id = rec.id
  BY SaidIsAnswer DEF Record, Statuses, Resumes, Resolved, WellFormed

LEMMA ResumeSound ==
    ASSUME NEW rec \in Record, Sound(rec), rec.status = "resolved"
    PROVE  /\ Claimed(rec) \in Record /\ Sound(Claimed(rec))
           /\ \A ok \in BOOLEAN : Finished(rec, ok) \in Record /\ Sound(Finished(rec, ok))
           /\ Recovered(rec) \in Record /\ Sound(Recovered(rec))
  BY DEF Record, Resumes, Claimed, Finished, Recovered, Sound, WellFormed, Backed

-----------------------------------------------------------------------------
(* BaseInv is inductive, for any number of processes                       *)

\* What beginning an operation must establish of the record it will write.
Begins(p, kind, stage, rec) ==
    /\ kind \in Kinds \ {"down", "idle", "recover"}
    /\ stage \in {"response", "open"}
    /\ rec \in Record /\ WellFormed(rec)
    /\ stage = "open" => Backed(rec)
    /\ kind = "resolve" => rec.status = "resolved"
    /\ stage = "response" => kind = "resolve"
    /\ kind \in {"complete", "fail"} => holders[rec.id][p] > 0

LEMMA BeginBase ==
    ASSUME BaseInv, NEW p \in Procs, NEW kind, NEW stage, NEW rec,
           Begins(p, kind, stage, rec), Begin(p, kind, stage, rec)
    PROVE  BaseInv'
<1> USE DEF BaseInv
<1>1. TypeOK'
  BY DEF Begins, Begin, TypeOK, Op, Kinds, Stages, disk, Stored
<1>2. ASSUME NEW q \in Procs PROVE OpShape(q)'
  <2>1. CASE q = p
    <3>1. op'[q] = Op(kind, stage, rec, {})
      BY <2>1 DEF Begin, TypeOK
    <3> QED
      BY <3>1, <2>1 DEF Begins, Begin, OpShape, Op, Idle, Down, Kinds, Backed, disk
  <2>2. CASE q # p
    BY <2>2 DEF Begin, OpShape, TypeOK, Sound, Backed, disk
  <2> QED BY <2>1, <2>2
<1>3. \A r \in Requests : Stored(r)' => Sound(file[r])'
  BY DEF Begin, disk, Stored, Sound, Backed
<1>4. (\A rec2 \in leftover \ {Torn} : Sound(rec2))'
  BY DEF Begin, disk, Sound, Backed
<1> QED BY <1>1, <1>2, <1>3, <1>4

LEMMA CreateBase ==
    ASSUME BaseInv, NEW p \in Procs, NEW r \in Requests, NEW ask \in Asks, Create(p, r, ask)
    PROVE  BaseInv'
<1>1. NewRequest(r, ask) \in Record /\ Sound(NewRequest(r, ask))
  BY NewRequestSound, StoreAssumption
<1>2. Begins(p, "create", "open", NewRequest(r, ask))
  BY <1>1 DEF Begins, Kinds, Sound
<1> QED BY <1>2, BeginBase DEF Create

LEMMA DeliverBase ==
    ASSUME BaseInv, NEW p \in Procs, NEW r \in Requests, Deliver(p, r)
    PROVE  BaseInv'
<1>1. file[r] \in Record /\ Sound(file[r]) /\ DeliveryOpen(file[r])
  BY DEF Deliver, RecordDelivery, FailDelivery, BaseInv, TypeOK, Stored
<1>2. ASSUME NEW rec \in Record, Sound(rec) PROVE Begins(p, "deliver", "open", rec)
  BY <1>2 DEF Begins, Kinds, Sound
<1>3. /\ \A m \in Messages : Sent(file[r], m) \in Record /\ Sound(Sent(file[r], m))
      /\ NotSent(file[r]) \in Record /\ Sound(NotSent(file[r]))
      /\ Undeliverable(file[r]) \in Record /\ Sound(Undeliverable(file[r]))
  BY <1>1, DeliverySound DEF Sound
<1>4. PICK rec \in Record : Sound(rec) /\ Begin(p, "deliver", "open", rec)
  <2>1. CASE FailDelivery(p, r)
    BY <2>1, <1>3 DEF FailDelivery
  <2>2. ASSUME NEW m \in Messages \cup {None}, RecordDelivery(p, r, m)
        PROVE  \E rec \in Record : Sound(rec) /\ Begin(p, "deliver", "open", rec)
    BY <2>2, <1>3 DEF RecordDelivery
  <2> QED BY <2>1, <2>2 DEF Deliver
<1> QED BY <1>2, <1>4, BeginBase

LEMMA ResolveBase ==
    ASSUME BaseInv, NEW p \in Procs, NEW r \in Requests, NEW a \in Answers,
           NEW exact \in BOOLEAN, NEW genuine, NEW late,
           Resolve(p, r, a, exact, genuine, late)
    PROVE  BaseInv'
<1> DEFINE said == IF exact THEN a ELSE Said(a)
<1>1. said \in Answer
  BY SaidIsAnswer, StoreAssumption
<1>2. file[r] \in Record /\ WellFormed(file[r]) /\ file[r].status = "pending"
  BY DEF Resolve, Authorized, BaseInv, TypeOK, Stored, Sound
<1>3. Begins(p, "resolve", "response", Resolved(file[r], said))
  BY <1>1, <1>2, ResolvedSound DEF Begins, Kinds
<1> QED BY <1>3, BeginBase DEF Resolve

LEMMA ResolveAgainBase ==
    ASSUME BaseInv, NEW p \in Procs, NEW r \in Requests, NEW a \in Answers,
           NEW exact, NEW genuine, NEW late,
           ResolveAgain(p, r, a, exact, genuine, late)
    PROVE  BaseInv'
<1>1. Said(a) \in Answer
  BY SaidIsAnswer, StoreAssumption
<1>2. acked' \in [Requests -> SUBSET Answer]
  BY <1>1 DEF BaseInv, TypeOK, ResolveAgain
<1>3. TypeOK'
  BY <1>2 DEF BaseInv, TypeOK, ResolveAgain, disk, Stored
<1> QED
  BY <1>3 DEF BaseInv, ResolveAgain, disk, Stored, Sound, Backed, OpShape

LEMMA ResumeBase ==
    ASSUME BaseInv, NEW p \in Procs, NEW r \in Requests, ResumeWork(p, r)
    PROVE  BaseInv'
<1>1. Stored(r) /\ file[r] \in Record /\ Sound(file[r]) /\ file[r].id = r
  BY DEF ResumeWork, ClaimResume, FinishResume, BaseInv, TypeOK, Stored
<1>2. CASE ClaimResume(p, r)
  <2>1. Claimed(file[r]) \in Record /\ Sound(Claimed(file[r]))
    BY <1>1, <1>2, ResumeSound DEF ClaimResume, Claimable
  <2>2. Begins(p, "claim", "open", Claimed(file[r]))
    BY <2>1 DEF Begins, Kinds, Sound
  <2> QED BY <1>2, <2>2, BeginBase DEF ClaimResume
<1>3. ASSUME NEW ok \in BOOLEAN, FinishResume(p, r, ok), Finishable(file[r])
      PROVE  BaseInv'
  <2> DEFINE kind == IF ok THEN "complete" ELSE "fail"
  <2>1. file[r].status = "resolved"
    BY <1>1, <1>3 DEF Finishable, Sound, WellFormed, Record, Statuses
  <2>2. Finished(file[r], ok) \in Record /\ Sound(Finished(file[r], ok))
    BY <1>1, <2>1, ResumeSound
  <2>3. Finished(file[r], ok).id = r
    BY <1>1 DEF Finished, Record
  <2>4. Begins(p, kind, "open", Finished(file[r], ok))
    BY <1>3, <2>2, <2>3 DEF Begins, Kinds, Sound, FinishResume
  <2>5. Begin(p, kind, "open", Finished(file[r], ok))
    BY <1>3 DEF FinishResume
  <2> QED BY <2>4, <2>5, BeginBase
<1>4. ASSUME NEW ok \in BOOLEAN, FinishResume(p, r, ok), ~Finishable(file[r])
      PROVE  BaseInv'
  <2>1. /\ Release(r, p) /\ op[p] = Idle /\ holders[r][p] > 0
        /\ UNCHANGED <<disk, op, acked, crashes, writeFailures>>
    BY <1>4 DEF FinishResume
  <2>2. /\ holders' \in [Requests -> [Procs -> Nat]]
        /\ \A q \in Procs \ {p} : \A s \in Requests : holders'[s][q] = holders[s][q]
    BY <2>1 DEF Release, BaseInv, TypeOK
  <2>3. TypeOK'
    BY <2>1, <2>2 DEF BaseInv, TypeOK, disk, Stored
  <2>4. ASSUME NEW q \in Procs PROVE OpShape(q)'
    <3>1. q # p /\ op[q].kind \in {"complete", "fail"} => op[q].rec.id \in Requests
      BY DEF BaseInv, OpShape, Record, Idle, Down, Op
    <3>2. CASE q # p
      BY <3>1, <3>2, <2>1, <2>2 DEF BaseInv, OpShape, disk, Sound, Backed
    <3>3. CASE q = p
      BY <3>3, <2>1 DEF BaseInv, OpShape, disk, Idle, Op
    <3> QED BY <3>2, <3>3
  <2> QED
    BY <2>1, <2>3, <2>4 DEF BaseInv, disk, Stored, Sound, Backed
<1> QED BY <1>2, <1>3, <1>4 DEF ResumeWork

\* The operation a process goes on to after a write, or starts with.
LEMMA NextOp ==
    ASSUME BaseInv, NEW o, o.todo \subseteq Record, \A x \in o.todo : Sound(x),
           NEW next \in AfterWrite(o)
    PROVE  \/ next = Idle
           \/ /\ next \in [kind : {"recover"}, stage : {"open"}, rec : o.todo,
                           todo : SUBSET o.todo]
              /\ next.rec \in Record /\ Sound(next.rec)
              /\ next.todo = o.todo \ {next.rec}
  BY DEF AfterWrite, Op

Ops == [Procs -> [kind : Kinds, stage : Stages, rec : Record \cup {Absent}, todo : SUBSET Record]]

LEMMA StageTyped ==
    ASSUME TypeOK, NEW p \in Procs, NEW to \in Stages, op' = [op EXCEPT ![p].stage = to]
    PROVE  op' \in Ops
BY DEF TypeOK, Ops

LEMMA WriteStepsBase ==
    ASSUME BaseInv, NEW p \in Procs,
           WriteResponse(p) \/ CreateTemp(p) \/ FillTemp(p)
    PROVE  BaseInv'
<1>1. /\ op[p].stage # "none" /\ op[p].rec \in Record
      /\ op[p].stage = "response" => op[p].kind = "resolve"
      /\ op[p].kind = "resolve" => op[p].rec.status = "resolved"
  BY DEF WriteResponse, CreateTemp, FillTemp, Advance, BaseInv, OpShape
<1>2. CASE WriteResponse(p)
  <2>1. op[p].rec.id \in Requests /\ op[p].rec.response \in Answer
    BY <1>1, <1>2 DEF WriteResponse, Advance, Record, BaseInv, OpShape, WellFormed
  <2>2. responses' \in [Requests -> SUBSET Answer]
    BY <2>1, <1>2 DEF WriteResponse, BaseInv, TypeOK
  <2>3. \A r \in Requests : responses[r] \subseteq responses'[r]
    BY <2>1, <1>2 DEF WriteResponse, BaseInv, TypeOK
  <2>4. op[p].rec.response \in responses'[op[p].rec.id]
    BY <2>1, <1>2 DEF WriteResponse, BaseInv, TypeOK
  <2>5. \A rec \in Record : Sound(rec) => Sound(rec)'
    BY <2>3 DEF Sound, Backed, Record
  <2>6. TypeOK'
    <3>1. op' \in Ops
      BY <1>2, StageTyped DEF WriteResponse, Advance, BaseInv, Stages
    <3> QED BY <1>2, <2>2, <3>1 DEF WriteResponse, BaseInv, TypeOK, Ops, Stored
  <2>7. ASSUME NEW q \in Procs PROVE OpShape(q)'
    <3>1. CASE q = p
      <4>1. /\ op'[p].stage = "open" /\ op'[p].rec = op[p].rec
            /\ op'[p].kind = op[p].kind /\ op'[p].todo = op[p].todo
        BY <1>2 DEF WriteResponse, Advance, BaseInv, TypeOK
      <4> QED
        BY <3>1, <4>1, <2>4, <1>1, <1>2 DEF WriteResponse, Advance, BaseInv, OpShape, Idle,
           Down, Op, Backed
    <3>2. CASE q # p
      <4>1. op'[q] = op[q] /\ op[q].todo \subseteq Record
        BY <3>2, <1>2 DEF WriteResponse, Advance, BaseInv, TypeOK
      <4>2. op[q].stage # "none" /\ Backed(op[q].rec) => Backed(op[q].rec)'
        BY <2>3, <4>1 DEF BaseInv, OpShape, Backed, Record
      <4> QED BY <4>1, <4>2, <2>5, <1>2 DEF WriteResponse, BaseInv, OpShape
    <3> QED BY <3>1, <3>2
  <2>8. \A r \in Requests : Stored(r)' => Sound(file[r])'
    BY <1>2, <2>3 DEF WriteResponse, BaseInv, TypeOK, Stored, Sound, Backed, Record
  <2>9. (\A rec \in leftover \ {Torn} : Sound(rec))'
    BY <1>2, <2>5 DEF WriteResponse, BaseInv, TypeOK
  <2> QED
    BY <2>6, <2>7, <2>8, <2>9 DEF BaseInv
<1>3. ASSUME NEW to \in {"fill", "rename"}, op[p].stage \in {"open", "fill"},
             op' = [op EXCEPT ![p].stage = to],
             UNCHANGED <<disk, holders, acked, crashes, writeFailures>>
      PROVE  BaseInv'
  <2>1. TypeOK'
    <3>1. op' \in Ops
      BY <1>3, StageTyped DEF BaseInv, Stages
    <3> QED BY <1>3, <3>1 DEF BaseInv, TypeOK, Ops, disk, Stored
  <2>2. ASSUME NEW q \in Procs PROVE OpShape(q)'
    <3>1. CASE q = p
      <4>1. /\ op'[p].stage = to /\ op'[p].rec = op[p].rec
            /\ op'[p].kind = op[p].kind /\ op'[p].todo = op[p].todo
        BY <1>3 DEF BaseInv, TypeOK
      <4> QED
        BY <3>1, <4>1, <1>1, <1>3 DEF BaseInv, OpShape, Idle, Down, Op, Backed, Sound, disk
    <3>2. CASE q # p
      BY <3>2, <1>3 DEF BaseInv, TypeOK, OpShape, Backed, Sound, disk
    <3> QED BY <3>1, <3>2
  <2> QED
    BY <1>3, <2>1, <2>2 DEF BaseInv, disk, Stored, Sound, Backed
<1>4. CASE CreateTemp(p)
  BY <1>3, <1>4 DEF CreateTemp, Advance
<1>5. CASE FillTemp(p)
  BY <1>3, <1>5 DEF FillTemp, Advance
<1> QED BY <1>2, <1>4, <1>5

LEMMA RenameBase ==
    ASSUME BaseInv, NEW p \in Procs, Rename(p)
    PROVE  BaseInv'
<1> DEFINE o == op[p]
           r == op[p].rec.id
<1>1. /\ o.stage = "rename" /\ o.rec \in Record /\ Sound(o.rec) /\ r \in Requests
      /\ o.todo \subseteq Record /\ \A x \in o.todo : Sound(x)
      /\ o.kind \in {"complete", "fail"} => holders[r][p] > 0
      /\ o.kind = "resolve" => o.rec.response \in Answer
  BY DEF Rename, BaseInv, OpShape, TypeOK, Sound, WellFormed, Record
<1>2. PICK next \in AfterWrite(o) : op' = [op EXCEPT ![p] = next]
  BY DEF Rename
<1>3. \/ next = Idle
      \/ /\ next \in [kind : {"recover"}, stage : {"open"}, rec : o.todo, todo : SUBSET o.todo]
         /\ next.rec \in Record /\ Sound(next.rec)
         /\ next.todo = o.todo \ {next.rec}
  BY <1>1, <1>2, NextOp
<1>4. file' = [file EXCEPT ![r] = o.rec] /\ UNCHANGED <<leftover, responses, crashes, writeFailures>>
  BY DEF Rename
<1>5. /\ holders' \in [Requests -> [Procs -> Nat]]
      /\ \A q \in Procs \ {p} : \A s \in Requests : holders'[s][q] = holders[s][q]
  <2>1. holders \in [Requests -> [Procs -> Nat]]
    BY DEF BaseInv, TypeOK
  <2>2. CASE o.kind = "claim"
    <3>1. holders' = [holders EXCEPT ![r][p] = @ + 1]
      BY <2>2 DEF Rename
    <3> QED BY <1>1, <2>1, <3>1
  <2>3. CASE o.kind \in {"complete", "fail"}
    <3>1. holders' = [holders EXCEPT ![r][p] = @ - 1]
      BY <2>3 DEF Rename
    <3>2. holders[r][p] - 1 \in Nat
      BY <1>1, <2>1, <2>3
    <3> QED BY <1>1, <2>1, <3>1, <3>2
  <2>4. CASE o.kind \notin {"claim", "complete", "fail"}
    <3>1. holders' = holders
      BY <2>4 DEF Rename
    <3> QED BY <2>1, <3>1
  <2> QED BY <2>2, <2>3, <2>4
<1>6. acked' \in [Requests -> SUBSET Answer]
  <2>1. o.kind = "resolve" => Said(o.rec.response) \in Answer
    BY <1>1, SaidIsAnswer
  <2> QED BY <1>1, <2>1 DEF Rename, BaseInv, TypeOK
<1>7. file' \in [Requests -> Record \cup {Absent}] /\ \A s \in Requests : Stored(s)' => file'[s].id = s
  BY <1>1, <1>4 DEF BaseInv, TypeOK, Stored
<1>8. op' \in [Procs -> [kind : Kinds, stage : Stages, rec : Record \cup {Absent}, todo : SUBSET Record]]
  <2>1. next \in [kind : Kinds, stage : Stages, rec : Record \cup {Absent}, todo : SUBSET Record]
    BY <1>1, <1>3 DEF Idle, Op, Kinds, Stages
  <2> QED BY <1>2, <2>1 DEF BaseInv, TypeOK
<1>9. TypeOK'
  BY <1>4, <1>5, <1>6, <1>7, <1>8 DEF BaseInv, TypeOK
<1>10. ASSUME NEW q \in Procs PROVE OpShape(q)'
  <2>1. CASE q = p
    <3>1. op'[q] = next
      BY <2>1, <1>2 DEF BaseInv, TypeOK
    <3>2. CASE next = Idle
      BY <3>1, <3>2, <2>1 DEF OpShape, Idle, Op
    <3>3. CASE next # Idle
      <4>1. \A x \in {next.rec} \cup next.todo : Sound(x)'
        BY <1>1, <1>3, <1>4, <3>3 DEF Sound, Backed
      <4> QED BY <1>3, <3>1, <3>3, <2>1, <4>1 DEF OpShape, Sound, Idle, Down, Op
    <3> QED BY <3>2, <3>3
  <2>2. CASE q # p
    <3>1. op'[q] = op[q]
      BY <2>2, <1>2 DEF BaseInv, TypeOK
    <3>2. op[q].stage # "none" => op[q].rec.id \in Requests
      BY DEF BaseInv, OpShape, Record
    <3>3. op[q].kind \in {"complete", "fail"} => op[q].stage # "none"
      BY DEF BaseInv, OpShape, Idle, Down, Op
    <3> QED
      BY <3>1, <3>2, <3>3, <2>2, <1>4, <1>5 DEF BaseInv, OpShape, Sound, Backed
  <2> QED BY <2>1, <2>2
<1>11. \A s \in Requests : Stored(s)' => Sound(file[s])'
  BY <1>1, <1>4 DEF BaseInv, TypeOK, Stored, Sound, Backed
<1>12. (\A rec \in leftover \ {Torn} : Sound(rec))'
  BY <1>4 DEF BaseInv, Sound, Backed
<1> QED BY <1>9, <1>10, <1>11, <1>12 DEF BaseInv

LEMMA WriteFailsBase ==
    ASSUME BaseInv, NEW p \in Procs, WriteFails(p)
    PROVE  BaseInv'
<1> DEFINE o == op[p]
           r == op[p].rec.id
<1>1. /\ o.stage # "none" /\ o.rec \in Record /\ r \in Requests
      /\ o.todo \subseteq Record /\ \A x \in o.todo : Sound(x)
      /\ o.kind \in {"complete", "fail"} => holders[r][p] > 0
  BY DEF WriteFails, BaseInv, OpShape, TypeOK, Record
<1>2. PICK next \in AfterWrite(o) : op' = [op EXCEPT ![p] = next]
  BY DEF WriteFails
<1>3. \/ next = Idle
      \/ /\ next \in [kind : {"recover"}, stage : {"open"}, rec : o.todo, todo : SUBSET o.todo]
         /\ next.rec \in Record /\ Sound(next.rec)
         /\ next.todo = o.todo \ {next.rec}
  BY <1>1, <1>2, NextOp
<1>4. UNCHANGED <<disk, acked, crashes>> /\ writeFailures' \in 0..MaxWriteFailures
  BY StoreAssumption DEF WriteFails, BaseInv, TypeOK
<1>5. /\ holders' \in [Requests -> [Procs -> Nat]]
      /\ \A q \in Procs \ {p} : \A s \in Requests : holders'[s][q] = holders[s][q]
  <2>1. holders \in [Requests -> [Procs -> Nat]]
    BY DEF BaseInv, TypeOK
  <2>2. CASE o.kind \in {"complete", "fail"}
    <3>1. holders' = [holders EXCEPT ![r][p] = @ - 1]
      BY <2>2 DEF WriteFails, Release
    <3>2. holders[r][p] - 1 \in Nat
      BY <1>1, <2>1, <2>2
    <3> QED BY <1>1, <2>1, <3>1, <3>2
  <2>3. CASE o.kind \notin {"complete", "fail"}
    BY <2>1, <2>3 DEF WriteFails
  <2> QED BY <2>2, <2>3
<1>6. op' \in [Procs -> [kind : Kinds, stage : Stages, rec : Record \cup {Absent}, todo : SUBSET Record]]
  <2>1. next \in [kind : Kinds, stage : Stages, rec : Record \cup {Absent}, todo : SUBSET Record]
    BY <1>1, <1>3 DEF Idle, Op, Kinds, Stages
  <2> QED BY <1>2, <2>1 DEF BaseInv, TypeOK
<1>7. TypeOK'
  BY <1>4, <1>5, <1>6 DEF BaseInv, TypeOK, disk, Stored
<1>8. ASSUME NEW q \in Procs PROVE OpShape(q)'
  <2>1. CASE q = p
    <3>1. op'[q] = next
      BY <2>1, <1>2 DEF BaseInv, TypeOK
    <3>2. CASE next = Idle
      BY <3>1, <3>2, <2>1 DEF OpShape, Idle, Op
    <3>3. CASE next # Idle
      <4>1. \A x \in {next.rec} \cup next.todo : Sound(x)'
        BY <1>1, <1>3, <1>4, <3>3 DEF Sound, Backed, disk
      <4> QED BY <1>3, <3>1, <3>3, <2>1, <4>1 DEF OpShape, Sound, Idle, Down, Op
    <3> QED BY <3>2, <3>3
  <2>2. CASE q # p
    <3>1. op'[q] = op[q]
      BY <2>2, <1>2 DEF BaseInv, TypeOK
    <3>2. op[q].stage # "none" => op[q].rec.id \in Requests
      BY DEF BaseInv, OpShape, Record
    <3>3. op[q].kind \in {"complete", "fail"} => op[q].stage # "none"
      BY DEF BaseInv, OpShape, Idle, Down, Op
    <3> QED
      BY <3>1, <3>2, <3>3, <2>2, <1>4, <1>5 DEF BaseInv, OpShape, Sound, Backed, disk
  <2> QED BY <2>1, <2>2
<1>9. \A s \in Requests : Stored(s)' => Sound(file[s])'
  BY <1>4 DEF BaseInv, Stored, Sound, Backed, disk
<1>10. (\A rec \in leftover \ {Torn} : Sound(rec))'
  BY <1>4 DEF BaseInv, Sound, Backed, disk
<1> QED BY <1>7, <1>8, <1>9, <1>10 DEF BaseInv

\* Everything a listing that succeeds reads is sound.
LEMMA ListedSound ==
    ASSUME BaseInv, ~ListFails, NEW x \in Listed, Interrupted(x)
    PROVE  x \in Record /\ Sound(x)
<1>1. ASSUME NEW q \in Procs, op[q].stage = "rename"
      PROVE  op[q].rec \in Record /\ Sound(op[q].rec)
  BY <1>1 DEF BaseInv, OpShape, Sound
<1>2. CASE x \in {file[r] : r \in {q \in Requests : Stored(q)}}
  BY <1>2 DEF BaseInv, TypeOK, Stored
<1>3. CASE x \in leftover
  BY <1>3 DEF BaseInv, TypeOK, ListFails, Temps
<1>4. CASE x \in LiveTemps
  BY <1>1, <1>4 DEF LiveTemps, ListFails, Temps
<1> QED BY <1>2, <1>3, <1>4 DEF Listed, Temps

LEMMA StartBase ==
    ASSUME BaseInv, NEW p \in Procs, Start(p)
    PROVE  BaseInv'
<1> DEFINE stale == IF ListFails THEN {} ELSE {x \in Listed : Interrupted(x)}
           o     == Op("recover", "none", Absent, {Recovered(x) : x \in stale})
<1>1. PICK next \in AfterWrite(o) : op' = [op EXCEPT ![p] = next]
  BY DEF Start
<1>2. UNCHANGED <<disk, holders, acked, crashes, writeFailures>>
  BY DEF Start
<1>3. \A x \in stale : Recovered(x) \in Record /\ Sound(Recovered(x))
  BY ListedSound, ResumeSound DEF Interrupted
<1>4. o.todo \subseteq Record /\ \A x \in o.todo : Sound(x)
  BY <1>3 DEF Op
<1> HIDE DEF o
<1>5. \/ next = Idle
      \/ /\ next \in [kind : {"recover"}, stage : {"open"}, rec : o.todo, todo : SUBSET o.todo]
         /\ next.rec \in Record /\ Sound(next.rec)
         /\ next.todo = o.todo \ {next.rec}
  BY <1>1, <1>4, NextOp
<1>6. next \in [kind : Kinds, stage : Stages, rec : Record \cup {Absent}, todo : SUBSET Record]
  BY <1>4, <1>5 DEF Idle, Op, Kinds, Stages
<1>7. TypeOK'
  BY <1>1, <1>2, <1>6 DEF BaseInv, TypeOK, disk, Stored
<1>8. ASSUME NEW q \in Procs PROVE OpShape(q)'
  <2>1. CASE q = p
    <3>1. op'[q] = next
      BY <2>1, <1>1 DEF BaseInv, TypeOK
    <3>2. CASE next = Idle
      BY <3>1, <3>2, <2>1 DEF OpShape, Idle, Op
    <3>3. CASE next # Idle
      <4>1. \A x \in {next.rec} \cup next.todo : Sound(x)'
        BY <1>2, <1>4, <1>5, <3>3 DEF Sound, Backed, disk
      <4> QED BY <1>5, <3>1, <3>3, <2>1, <4>1 DEF OpShape, Sound, Idle, Down, Op
    <3> QED BY <3>2, <3>3
  <2>2. CASE q # p
    BY <2>2, <1>1, <1>2 DEF BaseInv, TypeOK, OpShape, Sound, Backed, disk
  <2> QED BY <2>1, <2>2
<1> QED BY <1>2, <1>7, <1>8 DEF BaseInv, Stored, Sound, Backed, disk

LEMMA CrashBase ==
    ASSUME BaseInv, NEW p \in Procs, Crash(p)
    PROVE  BaseInv'
<1>1. /\ op' = [op EXCEPT ![p] = Down]
      /\ holders' = [r \in Requests |-> [holders[r] EXCEPT ![p] = 0]]
      /\ UNCHANGED <<file, responses, acked, writeFailures>>
      /\ crashes' \in 0..MaxCrashes
  BY StoreAssumption DEF Crash, BaseInv, TypeOK
<1>2. \/ leftover' = leftover
      \/ leftover' = leftover \cup {Torn}
      \/ /\ op[p].rec \in Record /\ Sound(op[p].rec)
         /\ leftover' = leftover \cup {op[p].rec}
  <2>1. op[p].stage = "rename" => op[p].rec \in Record /\ Sound(op[p].rec)
    BY DEF BaseInv, OpShape, Sound
  <2> QED BY <2>1 DEF Crash
<1>3. holders' \in [Requests -> [Procs -> Nat]]
      /\ \A q \in Procs \ {p} : \A s \in Requests : holders'[s][q] = holders[s][q]
  BY <1>1 DEF BaseInv, TypeOK
<1>4. Down \in [kind : Kinds, stage : Stages, rec : Record \cup {Absent}, todo : SUBSET Record]
  BY DEF Down, Op, Kinds, Stages
<1>5. TypeOK'
  BY <1>1, <1>2, <1>3, <1>4 DEF BaseInv, TypeOK, Stored
<1>6. ASSUME NEW q \in Procs PROVE OpShape(q)'
  <2>1. CASE q = p
    BY <2>1, <1>1 DEF BaseInv, TypeOK, OpShape, Down, Op
  <2>2. CASE q # p
    <3>1. op'[q] = op[q]
      BY <2>2, <1>1 DEF BaseInv, TypeOK
    <3>2. op[q].stage # "none" => op[q].rec.id \in Requests
      BY DEF BaseInv, OpShape, Record
    <3>3. op[q].kind \in {"complete", "fail"} => op[q].stage # "none"
      BY DEF BaseInv, OpShape, Idle, Down, Op
    <3> QED
      BY <3>1, <3>2, <3>3, <2>2, <1>1, <1>3 DEF BaseInv, OpShape, Sound, Backed
  <2> QED BY <2>1, <2>2
<1>7. (\A rec \in leftover \ {Torn} : Sound(rec))'
  BY <1>1, <1>2 DEF BaseInv, Sound, Backed
<1> QED BY <1>1, <1>5, <1>6, <1>7 DEF BaseInv, Stored, Sound, Backed

LEMMA InitBase == Init => BaseInv
<1> SUFFICES ASSUME Init PROVE BaseInv
  OBVIOUS
<1>1. Down \in [kind : Kinds, stage : Stages, rec : Record \cup {Absent}, todo : SUBSET Record]
  BY DEF Down, Op, Kinds, Stages
<1>2. TypeOK
  BY <1>1, StoreAssumption DEF Init, TypeOK, Stored
<1>3. \A p \in Procs : OpShape(p)
  BY DEF Init, OpShape, Down, Op
<1> QED BY <1>2, <1>3 DEF BaseInv, Init, Stored

LEMMA StepBase == BaseInv /\ [Next]_vars => BaseInv'
<1> SUFFICES ASSUME BaseInv, [Next]_vars PROVE BaseInv'
  OBVIOUS
<1>1. CASE UNCHANGED vars
  BY <1>1 DEF vars, disk, BaseInv, TypeOK, OpShape, Stored, Sound, Backed
<1>2. ASSUME NEW p \in Procs, NEW r \in Requests, Respond(p, r) PROVE BaseInv'
  BY <1>2, ResolveBase, ResolveAgainBase DEF Respond
<1>3. CASE Next
  BY <1>2, <1>3, StartBase, CrashBase, WriteStepsBase, RenameBase, WriteFailsBase, DeliverBase,
     ResumeBase, CreateBase DEF Next, Write
<1> QED BY <1>1, <1>3

\* Every variable keeps its type, however many processes there are.
THEOREM TypeCorrect == Spec => []TypeOK
<1>1. BaseInv => TypeOK
  BY DEF BaseInv
<1> QED BY InitBase, StepBase, <1>1, PTL DEF Spec

\* The response file of an answer is always written before any record, stored
\* or left over, that carries the answer: for any number of processes.
THEOREM ResponseFileComesFirst == Spec => []ResponseFileFirst
<1>1. BaseInv => ResponseFileFirst
  BY DEF BaseInv, TypeOK, ResponseFileFirst, Sound, Backed
<1> QED BY InitBase, StepBase, <1>1, PTL DEF Spec

-----------------------------------------------------------------------------
(* SingleInv is inductive when one process has the directory to itself     *)

LEMMA BeginSingle ==
    ASSUME SingleProcess, SingleInv, NEW p \in Procs,
           NEW kind \in Kinds \ {"down", "idle", "recover"}, NEW stage, NEW rec,
           Begin(p, kind, stage, rec), InHand(p)', BaseInv'
    PROVE  SingleInv'
<1>1. op' = [op EXCEPT ![p] = Op(kind, stage, rec, {})] /\ op[p] = Idle
  BY DEF Begin
<1>2. UNCHANGED <<file, leftover, responses, holders, acked>>
  BY DEF Begin, disk
<1>3. op'[p] = Op(kind, stage, rec, {})
  BY <1>1 DEF SingleInv, BaseInv, TypeOK
<1>4. \A q \in Procs : InHand(q)'
  BY DEF SingleProcess
<1>5. HoldersRun'
  BY <1>2, <1>3 DEF SingleProcess, SingleInv, HoldersRun, Stored, Op
<1>6. LeftoverFits' /\ AckedAnswerPersisted'
  BY <1>2 DEF SingleInv, LeftoverFits, AckedAnswerPersisted, Stored
<1>7. RecoversOnce'
  BY <1>2, <1>3 DEF SingleProcess, SingleInv, RecoversOnce, Op
<1>8. OnePendingPerKey'
  BY <1>2 DEF SingleInv, OnePendingPerKey, Stored
<1>9. ClaimsAccounted'
  <2>1. writeFailures' = writeFailures /\ op[p].kind \notin {"down", "recover"}
    BY <1>1 DEF Begin, Idle, Op
  <2> QED BY <1>2, <2>1 DEF SingleProcess, SingleInv, ClaimsAccounted, Stored, Interrupted
<1> QED BY <1>4, <1>5, <1>6, <1>7, <1>8, <1>9 DEF SingleInv

LEMMA CreateSingle ==
    ASSUME SingleProcess, SingleInv, BaseInv', NEW p \in Procs, NEW r \in Requests,
           NEW ask \in Asks, Create(p, r, ask)
    PROVE  SingleInv'
<1>1. op'[p] = Op("create", "open", NewRequest(r, ask), {}) /\ file' = file
  BY DEF Create, Begin, disk, SingleInv, BaseInv, TypeOK
<1>2. ask.key # None => ~KeyPending(ask.key)
  BY DEF Create, DuplicatePending, Listed, KeyPending
<1>3. ask.key # None => ~KeyPending(ask.key)'
  BY <1>1, <1>2 DEF KeyPending, Stored
<1>4. InHand(p)'
  BY <1>1, <1>3 DEF Create, Fresh, InHand, Op, NewRequest, Stored
<1> QED BY <1>4, BeginSingle DEF Create, Kinds

LEMMA DeliverSingle ==
    ASSUME SingleProcess, SingleInv, BaseInv', NEW p \in Procs, NEW r \in Requests,
           Deliver(p, r)
    PROVE  SingleInv'
<1>1. Stored(r) /\ file[r] \in Record /\ file[r].id = r /\ file[r].status = "pending"
  BY DEF Deliver, RecordDelivery, FailDelivery, DeliveryOpen, SingleInv, BaseInv, TypeOK, Stored
<1>2. PICK rec : /\ Begin(p, "deliver", "open", rec)
                 /\ rec.id = r /\ rec.status \in {"pending", "failed"} /\ rec.key = file[r].key
  <2>1. CASE FailDelivery(p, r)
    <3>1. /\ Undeliverable(file[r]).id = r
          /\ Undeliverable(file[r]).status = "failed"
          /\ Undeliverable(file[r]).key = file[r].key
      BY <1>1 DEF Undeliverable, NotSent, Record
    <3> QED BY <2>1, <3>1 DEF FailDelivery
  <2>2. ASSUME NEW m \in Messages \cup {None}, RecordDelivery(p, r, m)
        PROVE  \E rec : /\ Begin(p, "deliver", "open", rec)
                        /\ rec.id = r /\ rec.status \in {"pending", "failed"} /\ rec.key = file[r].key
    <3>1. /\ Sent(file[r], m).id = r /\ Sent(file[r], m).status = "pending"
          /\ NotSent(file[r]).id = r /\ NotSent(file[r]).status = "pending"
          /\ Sent(file[r], m).key = file[r].key /\ NotSent(file[r]).key = file[r].key
      BY <1>1 DEF Sent, NotSent, Record
    <3> QED BY <2>2, <3>1 DEF RecordDelivery
  <2> QED BY <2>1, <2>2 DEF Deliver
<1>3. op'[p] = Op("deliver", "open", rec, {}) /\ file' = file
  BY <1>2 DEF Begin, disk, SingleInv, BaseInv, TypeOK
<1>4. InHand(p)'
  BY <1>1, <1>2, <1>3 DEF InHand, Op, Stored
<1> QED BY <1>2, <1>4, BeginSingle DEF Kinds

LEMMA ResolveSingle ==
    ASSUME SingleProcess, SingleInv, BaseInv', NEW p \in Procs, NEW r \in Requests,
           NEW a \in Answers, NEW exact \in BOOLEAN, NEW genuine, NEW late,
           Resolve(p, r, a, exact, genuine, late)
    PROVE  SingleInv'
<1> DEFINE said == IF exact THEN a ELSE Said(a)
<1>1. /\ Stored(r) /\ file[r] \in Record /\ file[r].id = r /\ file[r].status = "pending"
      /\ WellFormed(file[r]) /\ said \in Answer
  BY SaidIsAnswer, StoreAssumption
     DEF Resolve, Authorized, SingleInv, BaseInv, TypeOK, Stored, Sound
<1>2. Resolved(file[r], said).id = r /\ Resolved(file[r], said).resume = "pending"
  BY <1>1, ResolvedSound
<1>3. Begin(p, "resolve", "response", Resolved(file[r], said))
  BY DEF Resolve
<1>4. op'[p] = Op("resolve", "response", Resolved(file[r], said), {}) /\ file' = file
  BY <1>3 DEF Begin, disk, SingleInv, BaseInv, TypeOK
<1>5. InHand(p)'
  BY <1>1, <1>2, <1>4 DEF InHand, Op, Stored
<1> QED BY <1>3, <1>5, BeginSingle DEF Kinds

\* Nothing of an operation or of the files changes but how far it has got.
LEMMA InHandKept ==
    ASSUME NEW q, InHand(q), UNCHANGED file,
           op'[q].kind = op[q].kind, op'[q].rec = op[q].rec, op'[q].todo = op[q].todo
    PROVE  InHand(q)'
BY DEF InHand, KeyPending, RecoveryFits, Stored

LEMMA ResolveAgainSingle ==
    ASSUME SingleProcess, SingleInv, BaseInv', NEW p \in Procs, NEW r \in Requests,
           NEW a \in Answers, NEW exact, NEW genuine, NEW late,
           ResolveAgain(p, r, a, exact, genuine, late)
    PROVE  SingleInv'
<1>1. /\ Stored(r) /\ file[r] \in Record
      /\ SameResponseRetry(file[r], a, exact)
      /\ acked' = [acked EXCEPT ![r] = @ \cup {Said(a)}]
      /\ UNCHANGED <<file, leftover, op, holders>>
  BY DEF ResolveAgain, Authorized, disk, SingleInv, BaseInv, TypeOK, Stored
<1>2. a \in Answer
  BY StoreAssumption
<1>3. file[r].response # None /\ file[r].response \in Answer
  BY <1>1 DEF SameResponseRetry, Record
<1>4. Said(file[r].response) = Said(a)
  BY <1>1, <1>2, <1>3 DEF SameResponseRetry, Said, Answer
<1>5. AckedAnswerPersisted'
  BY <1>1, <1>3, <1>4 DEF SingleInv, BaseInv, TypeOK, AckedAnswerPersisted, Stored
<1>6. \A q \in Procs : InHand(q)'
  BY <1>1, InHandKept DEF SingleInv
<1>7. HoldersRun' /\ LeftoverFits' /\ RecoversOnce' /\ OnePendingPerKey' /\ ClaimsAccounted'
  BY <1>1 DEF ResolveAgain, SingleInv, HoldersRun, LeftoverFits, RecoversOnce, OnePendingPerKey,
     ClaimsAccounted, Stored, Interrupted
<1> QED
  BY <1>5, <1>6, <1>7 DEF SingleInv

LEMMA ResumeSingle ==
    ASSUME SingleProcess, SingleInv, BaseInv', NEW p \in Procs, NEW r \in Requests,
           ResumeWork(p, r)
    PROVE  SingleInv'
<1>1. Stored(r) /\ file[r] \in Record /\ Sound(file[r]) /\ file[r].id = r
  BY DEF ResumeWork, ClaimResume, FinishResume, SingleInv, BaseInv, TypeOK, Stored
<1>2. CASE ClaimResume(p, r)
  <2>1. op'[p] = Op("claim", "open", Claimed(file[r]), {}) /\ file' = file
    BY <1>2 DEF ClaimResume, Begin, disk, SingleInv, BaseInv, TypeOK
  <2>2. Claimed(file[r]).id = r
    BY <1>1 DEF Claimed, Record
  <2>3. /\ op'[p].kind = "claim" /\ op'[p].rec.id = r
        /\ op'[p].rec = Claimed(file'[r]) /\ Claimable(file'[r]) /\ file'[r] # Absent
    BY <1>1, <1>2, <2>1, <2>2 DEF ClaimResume, Op, Stored
  <2>4. InHand(p)'
    BY <2>3 DEF InHand, Stored, Claimable, NeedsRetry, Claimed
  <2> QED BY <1>2, <2>4, BeginSingle DEF ClaimResume, Kinds
<1>3. ASSUME NEW ok \in BOOLEAN, FinishResume(p, r, ok) PROVE SingleInv'
  <2> DEFINE kind == IF ok THEN "complete" ELSE "fail"
  <2>1. Interrupted(file[r])
    BY <1>3 DEF FinishResume, SingleInv, HoldersRun
  <2>2. Begin(p, kind, "open", Finished(file[r], ok))
    BY <1>3, <2>1 DEF FinishResume, Finishable, Interrupted
  <2>3. op'[p] = Op(kind, "open", Finished(file[r], ok), {}) /\ file' = file
    BY <2>2 DEF Begin, disk, SingleInv, BaseInv, TypeOK
  <2>4. Finished(file[r], ok).id = r
    BY <1>1 DEF Finished, Record
  <2>5. /\ op'[p].kind = kind /\ op'[p].rec.id = r
        /\ op'[p].rec = Finished(file'[r], ok) /\ Interrupted(file'[r]) /\ file'[r] # Absent
    BY <1>1, <2>1, <2>3, <2>4 DEF Op, Stored
  <2>6. InHand(p)'
    BY <2>5 DEF InHand, Stored, Interrupted, Finished
  <2>7. kind \in Kinds \ {"down", "idle", "recover"}
    BY DEF Kinds
  <2> QED BY <2>2, <2>6, <2>7, BeginSingle
<1> QED BY <1>2, <1>3 DEF ResumeWork

LEMMA WriteStepsSingle ==
    ASSUME SingleProcess, SingleInv, BaseInv', NEW p \in Procs,
           WriteResponse(p) \/ CreateTemp(p) \/ FillTemp(p)
    PROVE  SingleInv'
<1>1. /\ op'[p].kind = op[p].kind /\ op'[p].rec = op[p].rec /\ op'[p].todo = op[p].todo
      /\ UNCHANGED <<file, leftover, holders, acked, writeFailures>>
  BY DEF WriteResponse, CreateTemp, FillTemp, Advance, disk, SingleInv, BaseInv, TypeOK
<1>2. \A q \in Procs : q = p
  BY DEF SingleProcess
<1>3. InHand(p)'
  BY <1>1, InHandKept DEF SingleInv
<1>4. /\ HoldersRun' /\ LeftoverFits' /\ AckedAnswerPersisted' /\ OnePendingPerKey'
      /\ RecoversOnce' /\ ClaimsAccounted'
  BY <1>1, <1>2 DEF SingleInv, HoldersRun, LeftoverFits, AckedAnswerPersisted, OnePendingPerKey,
     RecoversOnce, ClaimsAccounted, Stored, Interrupted
<1> QED
  BY <1>2, <1>3, <1>4 DEF SingleInv

\* What an operation publishes.
LEMMA RenamedShape ==
    ASSUME BaseInv, NEW p \in Procs, op[p].stage = "rename"
    PROVE  /\ op[p].rec \in Record /\ op[p].rec # Absent /\ op[p].rec.id \in Requests
           /\ WellFormed(op[p].rec)
           /\ op[p].kind \in Kinds \ {"down", "idle"}
           /\ op[p].kind # "recover" => op[p].todo = {}
           /\ op[p].kind = "resolve" => op[p].rec.status = "resolved"
           /\ op[p].kind \in {"complete", "fail"} => holders[op[p].rec.id][p] > 0
<1>1. OpShape(p) /\ op[p].kind \in Kinds
  BY DEF BaseInv, TypeOK
<1>2. op[p].rec \in Record
  BY <1>1 DEF OpShape
<1>3. op[p].rec.id \in Requests
  BY <1>2 DEF Record
<1> QED BY <1>1, <1>2, <1>3, StoreAssumption DEF OpShape

\* A rename never reopens a closed request or changes its answer.
LEMMA RenameKeepsClosed ==
    ASSUME SingleInv, NEW p \in Procs, Rename(p), NEW s \in Requests, Stored(s)
    PROVE  /\ Stored(s)'
           /\ file[s].status # "pending" => /\ file'[s].status = file[s].status
                                            /\ file'[s].response = file[s].response
<1> DEFINE o == op[p]
           r == op[p].rec.id
<1>1. /\ o.rec \in Record /\ o.rec # Absent /\ r \in Requests
      /\ o.kind \in Kinds \ {"down", "idle"}
  BY RenamedShape DEF Rename, SingleInv
<1>2. file' = [file EXCEPT ![r] = o.rec] /\ file \in [Requests -> Record \cup {Absent}]
  BY DEF Rename, SingleInv, BaseInv, TypeOK
<1>3. CASE s # r
  BY <1>1, <1>2, <1>3 DEF Stored
<1>4. CASE s = r
  <2>1. file'[s] = o.rec /\ file[s] \in Record
    BY <1>1, <1>2, <1>4 DEF Stored
  <2>2. InHand(p)
    BY DEF SingleInv
  <2>3. file[s].status # "pending" =>
          o.rec.status = file[s].status /\ o.rec.response = file[s].response
    <3>1. CASE o.kind \in {"create", "deliver", "resolve"}
      BY <1>4, <2>2, <3>1 DEF InHand
    <3>2. CASE o.kind = "claim"
      BY <1>4, <2>1, <2>2, <3>2 DEF InHand, Claimed, Record
    <3>3. CASE o.kind \in {"complete", "fail"}
      BY <1>4, <2>1, <2>2, <3>3 DEF InHand, Finished, Record
    <3>4. CASE o.kind = "recover"
      BY <1>4, <2>2, <3>4 DEF InHand, RecoveryFits
    <3> QED BY <1>1, <3>1, <3>2, <3>3, <3>4 DEF Kinds
  <2> QED BY <1>1, <2>1, <2>3 DEF Stored
<1> QED BY <1>3, <1>4

LEMMA RenameSingle ==
    ASSUME SingleProcess, SingleInv, BaseInv', NEW p \in Procs, Rename(p)
    PROVE  SingleInv'
<1> DEFINE o == op[p]
           r == op[p].rec.id
<1>1. /\ o.rec \in Record /\ o.rec # Absent /\ r \in Requests
      /\ o.kind \in Kinds \ {"down", "idle"}
      /\ o.kind # "recover" => o.todo = {}
      /\ o.kind = "resolve" => o.rec.status = "resolved"
      /\ o.kind \in {"complete", "fail"} => holders[r][p] > 0
      /\ WellFormed(o.rec)
      /\ InHand(p)
  BY RenamedShape DEF Rename, SingleInv
<1>2. /\ file' = [file EXCEPT ![r] = o.rec] /\ file \in [Requests -> Record \cup {Absent}]
      /\ leftover' = leftover
      /\ holders \in [Requests -> [Procs -> Nat]]
      /\ acked \in [Requests -> SUBSET Answer]
  BY DEF Rename, SingleInv, BaseInv, TypeOK
<1>3. PICK next \in AfterWrite(o) : op' = [op EXCEPT ![p] = next]
  BY DEF Rename
<1>4. op'[p] = next
  BY <1>3 DEF SingleInv, BaseInv, TypeOK
<1>5. \/ next = Idle
      \/ /\ o.kind = "recover" /\ next.kind = "recover" /\ next.rec \in o.todo
         /\ next.todo = o.todo \ {next.rec}
  BY <1>1, <1>3 DEF AfterWrite, Op
<1>6. \A q \in Procs : q = p
  BY DEF SingleProcess
<1>7. \A s \in Requests : Stored(s) =>
        /\ Stored(s)'
        /\ file[s].status # "pending" => /\ file'[s].status = file[s].status
                                         /\ file'[s].response = file[s].response
  BY RenameKeepsClosed
<1>8. InHand(p)'
  <2>1. CASE next = Idle
    BY <1>4, <2>1 DEF InHand, Idle, Op
  <2>2. CASE next # Idle
    <3>1. \A x \in o.todo : x.id \in Requests /\ RecoveryFits(x)
      BY <1>1, <1>5, <2>2 DEF InHand, SingleInv, BaseInv, TypeOK, Record
    <3>2. \A x \in o.todo : ~CrashInWrite => x.id # r
      BY <1>5, <2>2 DEF SingleInv, RecoversOnce
    <3>3. \A x \in o.todo : RecoveryFits(x)'
      BY <1>1, <1>2, <1>7, <3>1, <3>2 DEF RecoveryFits, Stored
    <3> QED BY <1>4, <1>5, <2>2, <3>3 DEF InHand
  <2> QED BY <2>1, <2>2
<1>9. HoldersRun'
  <2>1. CASE o.kind \in {"create", "deliver", "resolve"}
    <3>1. holders' = holders
      BY <2>1 DEF Rename
    <3>2. \A s \in Requests : holders[s][p] > 0 => s # r
      BY <1>1, <2>1 DEF InHand, SingleInv, HoldersRun, Interrupted, Stored
    <3>3. next = Idle
      BY <1>5, <2>1
    <3> QED
      BY <1>1, <1>2, <1>4, <1>6, <3>1, <3>2, <3>3
         DEF SingleInv, HoldersRun, Stored, Interrupted, Idle, Op
  <2>2. CASE o.kind = "claim"
    <3>1. holders' = [holders EXCEPT ![r][p] = @ + 1]
      BY <2>2 DEF Rename
    <3>2. file[r] # Absent /\ Claimable(file[r]) /\ o.rec = Claimed(file[r])
      BY <1>1, <2>2 DEF InHand, Stored
    <3>3. holders[r][p] = 0
      BY <1>1, <1>2, <3>2 DEF SingleInv, HoldersRun, Interrupted, Claimable, NeedsRetry
    <3>4. file'[r] = o.rec /\ Interrupted(o.rec)
      BY <1>1, <1>2, <3>2 DEF Claimed, Claimable, Interrupted, Record
    <3>5. next = Idle
      BY <1>5, <2>2
    <3> QED
      BY <1>1, <1>2, <1>4, <1>6, <3>1, <3>3, <3>4, <3>5
         DEF SingleInv, HoldersRun, Stored, Interrupted, Idle, Op
  <2>3. CASE o.kind \in {"complete", "fail"}
    <3>1. holders' = [holders EXCEPT ![r][p] = @ - 1]
      BY <2>3 DEF Rename
    <3>2. holders'[r][p] = 0
      BY <1>1, <1>2, <2>3, <3>1 DEF SingleInv, HoldersRun
    <3>3. next = Idle
      BY <1>5, <2>3
    <3> QED
      BY <1>1, <1>2, <1>4, <1>6, <3>1, <3>2, <3>3
         DEF SingleInv, HoldersRun, Stored, Interrupted, Idle, Op
  <2>4. CASE o.kind = "recover"
    <3>1. holders' = holders
      BY <2>4 DEF Rename
    <3>2. \A s \in Requests : ~(holders[s][p] > 0)
      BY <2>4 DEF SingleInv, HoldersRun
    <3> QED BY <1>6, <3>1, <3>2 DEF HoldersRun
  <2> QED BY <1>1, <2>1, <2>2, <2>3, <2>4 DEF Kinds
<1>10. LeftoverFits'
  <2>1. \A rec \in leftover \ {Torn} : rec.id \in Requests
    BY DEF SingleInv, BaseInv, TypeOK, Record
  <2> QED BY <1>2, <1>7, <2>1 DEF SingleInv, LeftoverFits, Interrupted
<1>11. AckedAnswerPersisted'
  <2>1. ASSUME NEW s \in Requests, NEW said \in acked[s]
        PROVE  Stored(s)' /\ file'[s].response # None /\ Said(file'[s].response) = said
    <3>1. Stored(s) /\ file[s].response # None /\ Said(file[s].response) = said
      BY DEF SingleInv, AckedAnswerPersisted
    <3>2. file[s].status # "pending"
      BY <3>1 DEF SingleInv, BaseInv, Sound, WellFormed
    <3> QED BY <1>7, <3>1, <3>2
  <2>2. CASE o.kind # "resolve"
    BY <2>1, <2>2 DEF Rename, AckedAnswerPersisted
  <2>3. CASE o.kind = "resolve"
    <3>1. acked' = [acked EXCEPT ![r] = @ \cup {Said(o.rec.response)}]
      BY <2>3 DEF Rename
    <3>2. o.rec.response # None /\ file'[r] = o.rec
      BY <1>1, <1>2, <2>3 DEF WellFormed
    <3> QED BY <1>1, <1>2, <2>1, <3>1, <3>2 DEF AckedAnswerPersisted, Stored
  <2> QED BY <2>2, <2>3
<1>12. RecoversOnce'
  <2>1. CASE next = Idle
    BY <1>2, <1>4, <1>6, <2>1 DEF SingleInv, RecoversOnce, Idle, Op
  <2>2. CASE next # Idle
    BY <1>2, <1>4, <1>5, <1>6, <2>2 DEF SingleInv, RecoversOnce
  <2> QED BY <2>1, <2>2
<1>13. OnePendingPerKey'
  <2>1. o.rec.status = "pending" => o.kind \in {"create", "deliver"}
    BY <1>1, <1>2 DEF InHand, Claimed, Finished, Claimable, Interrupted, RecoveryFits, Record,
       Kinds, Stored
  <2>2. CASE o.rec.status # "pending"
    BY <1>1, <1>2, <2>2 DEF SingleInv, OnePendingPerKey, Stored
  <2>3. CASE o.kind = "create"
    <3>1. o.rec.key # None => ~KeyPending(o.rec.key)
      BY <1>1, <2>3 DEF InHand
    <3>2. OnePendingPerKey
      BY DEF SingleInv
    <3> QED BY <1>1, <1>2, <3>1, <3>2 DEF KeyPending, OnePendingPerKey, Stored
  <2>4. CASE o.kind = "deliver"
    BY <1>1, <1>2, <2>4 DEF InHand, SingleInv, OnePendingPerKey, Stored
  <2> QED BY <2>1, <2>2, <2>3, <2>4
<1>14. ClaimsAccounted'
  <2> SUFFICES ASSUME ~CrashInWrite, writeFailures' = 0, NEW s \in Requests,
                      Stored(s)', Interrupted(file'[s])
               PROVE  \/ holders'[s][p] > 0
                      \/ next.kind = "recover" /\ \E x \in {next.rec} \cup next.todo : x.id = s
    BY <1>4 DEF ClaimsAccounted
  <2>1. writeFailures = 0 /\ op[p].kind # "down"
    BY <1>1 DEF Rename
  <2>2. CASE s # r
    <3>1. file'[s] = file[s] /\ Stored(s)
      BY <1>1, <1>2, <2>2 DEF Stored
    <3>2. \/ holders[s][p] > 0
          \/ o.kind = "recover" /\ \E x \in o.todo : x.id = s
      BY <1>6, <2>1, <2>2, <3>1 DEF SingleInv, ClaimsAccounted
    <3>3. holders'[s][p] = holders[s][p]
      BY <1>1, <1>2, <2>2 DEF Rename
    <3>4. o.kind = "recover" /\ o.todo # {} => next.kind = "recover" /\ o.todo = {next.rec} \cup next.todo
      BY <1>3 DEF AfterWrite, Op
    <3> QED BY <3>2, <3>3, <3>4
  <2>3. CASE s = r
    <3>1. file'[s] = o.rec
      BY <1>1, <1>2, <2>3
    <3>2. o.kind = "claim"
      BY <1>1, <1>2, <3>1 DEF Interrupted, InHand, Finished, RecoveryFits, Record, Kinds, Stored
    <3>3. holders' = [holders EXCEPT ![r][p] = @ + 1]
      BY <3>2 DEF Rename
    <3> QED BY <1>1, <1>2, <2>3, <3>3
  <2> QED BY <2>2, <2>3
<1> QED BY <1>6, <1>8, <1>9, <1>10, <1>11, <1>12, <1>13, <1>14 DEF SingleInv

LEMMA WriteFailsSingle ==
    ASSUME SingleProcess, SingleInv, BaseInv', NEW p \in Procs, WriteFails(p)
    PROVE  SingleInv'
<1> DEFINE o == op[p]
           r == op[p].rec.id
<1>1. /\ r \in Requests /\ o.kind \notin {"down", "idle"}
      /\ o.kind # "recover" => o.todo = {}
      /\ o.kind \in {"complete", "fail"} => holders[r][p] > 0
      /\ InHand(p)
  BY DEF WriteFails, SingleInv, BaseInv, OpShape, Record
<1>2. /\ UNCHANGED <<file, leftover, acked>>
      /\ holders \in [Requests -> [Procs -> Nat]]
      /\ writeFailures \in Nat /\ writeFailures' = writeFailures + 1
  BY DEF WriteFails, disk, SingleInv, BaseInv, TypeOK
<1>3. PICK next \in AfterWrite(o) : op' = [op EXCEPT ![p] = next]
  BY DEF WriteFails
<1>4. op'[p] = next
  BY <1>3 DEF SingleInv, BaseInv, TypeOK
<1>5. \/ next = Idle
      \/ /\ o.kind = "recover" /\ next.kind = "recover" /\ next.rec \in o.todo
         /\ next.todo = o.todo \ {next.rec}
  BY <1>1, <1>3 DEF AfterWrite, Op
<1>6. \A q \in Procs : q = p
  BY DEF SingleProcess
<1>7. InHand(p)'
  <2>1. CASE next = Idle
    BY <1>4, <2>1 DEF InHand, Idle, Op
  <2>2. CASE next # Idle
    <3>1. \A x \in o.todo : RecoveryFits(x)'
      BY <1>1, <1>2, <1>5, <2>2 DEF InHand, RecoveryFits, Stored
    <3> QED BY <1>4, <1>5, <2>2, <3>1 DEF InHand
  <2> QED BY <2>1, <2>2
<1>8. HoldersRun'
  <2>1. CASE o.kind \in {"complete", "fail"}
    <3>1. holders' = [holders EXCEPT ![r][p] = @ - 1] /\ next = Idle
      BY <1>5, <2>1 DEF WriteFails, Release
    <3>2. holders'[r][p] = 0
      BY <1>1, <1>2, <2>1, <3>1 DEF SingleInv, HoldersRun
    <3> QED
      BY <1>1, <1>2, <1>4, <1>6, <3>1, <3>2 DEF SingleInv, HoldersRun, Stored, Idle, Op
  <2>2. CASE o.kind \notin {"complete", "fail", "recover"}
    <3>1. holders' = holders /\ next = Idle
      BY <1>5, <2>2 DEF WriteFails
    <3> QED BY <1>2, <1>4, <1>6, <3>1 DEF SingleInv, HoldersRun, Stored, Idle, Op
  <2>3. CASE o.kind = "recover"
    <3>1. holders' = holders /\ \A s \in Requests : ~(holders[s][p] > 0)
      BY <2>3 DEF WriteFails, SingleInv, HoldersRun
    <3> QED BY <1>6, <3>1 DEF HoldersRun
  <2> QED BY <2>1, <2>2, <2>3
<1>9. LeftoverFits' /\ AckedAnswerPersisted' /\ OnePendingPerKey'
  BY <1>2 DEF SingleInv, LeftoverFits, AckedAnswerPersisted, OnePendingPerKey, Stored
<1>10. RecoversOnce'
  <2>1. CASE next = Idle
    BY <1>2, <1>4, <1>6, <2>1 DEF SingleInv, RecoversOnce, Idle, Op
  <2>2. CASE next # Idle
    BY <1>2, <1>4, <1>5, <1>6, <2>2 DEF SingleInv, RecoversOnce
  <2> QED BY <2>1, <2>2
<1>11. ClaimsAccounted'
  BY <1>2 DEF ClaimsAccounted
<1> QED BY <1>6, <1>7, <1>8, <1>9, <1>10, <1>11 DEF SingleInv

LEMMA StartSingle ==
    ASSUME SingleProcess, SingleInv, BaseInv', NEW p \in Procs, Start(p)
    PROVE  SingleInv'
<1> DEFINE stale == IF ListFails THEN {} ELSE {x \in Listed : Interrupted(x)}
           work  == {Recovered(x) : x \in stale}
<1>1. PICK next \in AfterWrite(Op("recover", "none", Absent, work)) :
        op' = [op EXCEPT ![p] = next]
  BY DEF Start
<1>2. /\ UNCHANGED <<file, leftover, holders, acked, writeFailures>>
      /\ op'[p] = next /\ op[p] = Down
  BY <1>1 DEF Start, disk, SingleInv, BaseInv, TypeOK
<1>3. \A q \in Procs : q = p
  BY DEF SingleProcess
<1>4. LiveTemps = {}
  BY <1>2, <1>3 DEF LiveTemps, Down, Op
<1>5. \A x \in stale : /\ x \in Record /\ Interrupted(x)
                       /\ Stored(x.id) /\ file[x.id].status = "resolved"
                       /\ file[x.id].response = x.response
                       /\ ~CrashInWrite => x = file[x.id]
  <2> SUFFICES ASSUME ~ListFails, NEW x \in Listed, Interrupted(x)
               PROVE  /\ x \in Record
                      /\ Stored(x.id) /\ file[x.id].status = "resolved"
                      /\ file[x.id].response = x.response
                      /\ ~CrashInWrite => x = file[x.id]
    OBVIOUS
  <2>1. CASE x \in {file[r] : r \in {q \in Requests : Stored(q)}}
    BY <2>1 DEF Interrupted, SingleInv, BaseInv, TypeOK, Stored
  <2>2. CASE x \in leftover
    BY <2>2 DEF SingleInv, LeftoverFits, BaseInv, TypeOK, RecoversOnce, ListFails, Temps
  <2> QED BY <1>4, <2>1, <2>2 DEF Listed, Temps
<1>6. \A x \in stale : /\ Recovered(x).id = x.id /\ Recovered(x).status = "resolved"
                       /\ Recovered(x).resume = "failed"
                       /\ Recovered(x).response = x.response
  BY <1>5 DEF Recovered, Interrupted, Record
<1>7. \A y \in work : RecoveryFits(y)'
  BY <1>2, <1>5, <1>6 DEF RecoveryFits, Stored, Interrupted
<1>8. \A y, z \in work : ~CrashInWrite /\ y.id = z.id => y = z
  BY <1>5, <1>6
<1>9. ~CrashInWrite => \A r \in Requests : Stored(r) /\ Interrupted(file[r]) =>
        \E y \in work : y.id = r
  <2>1. ~CrashInWrite => ~ListFails
    BY <1>4 DEF SingleInv, RecoversOnce, ListFails, Temps
  <2>2. \A r \in Requests : Stored(r) => file[r] \in Listed /\ file[r].id = r
    BY DEF Listed, SingleInv, BaseInv, TypeOK
  <2>3. ASSUME ~CrashInWrite, NEW r \in Requests, Stored(r), Interrupted(file[r])
        PROVE  Recovered(file[r]) \in work /\ Recovered(file[r]).id = r
    BY <1>6, <2>1, <2>2, <2>3
  <2> QED BY <2>3
<1> HIDE DEF work
<1>10. \/ next = Idle /\ work = {}
       \/ /\ next.kind = "recover" /\ next.rec \in work /\ next.todo = work \ {next.rec}
  BY <1>1 DEF AfterWrite, Op
<1>11. \A s \in Requests : ~(holders[s][p] > 0)
  BY <1>2 DEF SingleInv, HoldersRun, Down, Op
<1>12. InHand(p)'
  <2>1. CASE next.kind = "idle"
    BY <1>2, <2>1 DEF InHand
  <2>2. CASE next.kind = "recover"
    BY <1>2, <1>7, <1>10, <2>2 DEF InHand, Idle, Op
  <2> QED BY <1>10, <2>1, <2>2 DEF Idle, Op
<1>13. HoldersRun'
  BY <1>2, <1>3, <1>11 DEF HoldersRun
<1>14. LeftoverFits' /\ AckedAnswerPersisted' /\ OnePendingPerKey'
  BY <1>2 DEF SingleInv, LeftoverFits, AckedAnswerPersisted, OnePendingPerKey, Stored
<1>15. RecoversOnce'
  BY <1>2, <1>3, <1>8, <1>10 DEF SingleInv, RecoversOnce, Idle, Op
<1>16. ClaimsAccounted'
  BY <1>2, <1>9, <1>10 DEF ClaimsAccounted, Stored, Interrupted
<1> QED BY <1>3, <1>12, <1>13, <1>14, <1>15, <1>16 DEF SingleInv

LEMMA CrashSingle ==
    ASSUME SingleProcess, SingleInv, BaseInv', NEW p \in Procs, Crash(p)
    PROVE  SingleInv'
<1>1. /\ op'[p] = Down /\ UNCHANGED <<file, acked, writeFailures>>
      /\ \A s \in Requests : holders'[s][p] = 0
  BY DEF Crash, SingleInv, BaseInv, TypeOK
<1>2. \A q \in Procs : q = p
  BY DEF SingleProcess
<1>3. leftover' = leftover \cup (CASE op[p].stage = "fill" -> {Torn}
                                   [] op[p].stage = "rename" -> {op[p].rec}
                                   [] OTHER -> {})
  BY DEF Crash
<1>4. op[p].stage = "rename" /\ Interrupted(op[p].rec) =>
        /\ Stored(op[p].rec.id) /\ file[op[p].rec.id].status = "resolved"
        /\ file[op[p].rec.id].response = op[p].rec.response
  <2> SUFFICES ASSUME op[p].stage = "rename", Interrupted(op[p].rec)
               PROVE  /\ Stored(op[p].rec.id) /\ file[op[p].rec.id].status = "resolved"
                      /\ file[op[p].rec.id].response = op[p].rec.response
    OBVIOUS
  <2>1. /\ op[p].rec \in Record /\ op[p].rec.id \in Requests /\ WellFormed(op[p].rec)
        /\ op[p].kind \in Kinds \ {"down", "idle"} /\ InHand(p)
    BY DEF SingleInv, BaseInv, OpShape, TypeOK, Record
  <2>2. Stored(op[p].rec.id) => file[op[p].rec.id] \in Record
    BY <2>1 DEF Stored, SingleInv, BaseInv, TypeOK
  <2>3. op[p].kind = "claim"
    BY <2>1, <2>2 DEF Interrupted, InHand, Finished, RecoveryFits, Record, Kinds
  <2> QED BY <2>1, <2>2, <2>3 DEF InHand, Claimed, Claimable, Record
<1>5. InHand(p)'
  <2>1. op'[p].kind = "down"
    BY <1>1 DEF Down, Op
  <2> QED BY <2>1 DEF InHand
<1>6. HoldersRun'
  BY <1>1, <1>2 DEF HoldersRun
<1>7. LeftoverFits'
  <2>1. \A rec \in leftover' \ {Torn} : rec \in leftover \/ (op[p].stage = "rename" /\ rec = op[p].rec)
    BY <1>3
  <2> QED BY <1>1, <1>4, <2>1 DEF SingleInv, LeftoverFits, Stored
<1>8. AckedAnswerPersisted' /\ OnePendingPerKey'
  BY <1>1 DEF SingleInv, AckedAnswerPersisted, OnePendingPerKey, Stored
<1>9. RecoversOnce'
  BY <1>1, <1>2, <1>3 DEF Crash, SingleInv, RecoversOnce, Down, Op
<1>10. ClaimsAccounted'
  BY <1>1 DEF ClaimsAccounted, Down, Op
<1> QED BY <1>2, <1>5, <1>6, <1>7, <1>8, <1>9, <1>10 DEF SingleInv

LEMMA InitSingle == SingleProcess /\ Init => SingleInv
<1> SUFFICES ASSUME Init PROVE SingleInv
  OBVIOUS
<1>1. \A p \in Procs : op[p] = Down /\ op[p].kind = "down"
  BY DEF Init, Down, Op
<1>2. \A p \in Procs : InHand(p)
  BY <1>1 DEF InHand
<1>3. RecoversOnce
  BY <1>1 DEF Init, RecoversOnce, Down, Op
<1> QED
  BY <1>2, <1>3, InitBase DEF Init, SingleInv, HoldersRun, LeftoverFits, AckedAnswerPersisted,
     OnePendingPerKey, ClaimsAccounted, Stored

LEMMA StepSingle == SingleProcess /\ SingleInv /\ [Next]_vars => SingleInv'
<1> SUFFICES ASSUME SingleProcess, SingleInv, [Next]_vars PROVE SingleInv'
  OBVIOUS
<1>1. BaseInv'
  BY StepBase DEF SingleInv
<1>2. CASE UNCHANGED vars
  <2>1. \A p \in Procs : InHand(p)'
    BY <1>2, InHandKept DEF vars, disk, SingleInv
  <2> QED
    BY <1>1, <1>2, <2>1 DEF vars, disk, SingleInv, HoldersRun, LeftoverFits, AckedAnswerPersisted,
       OnePendingPerKey, RecoversOnce, ClaimsAccounted, Stored, Interrupted
<1>3. ASSUME NEW p \in Procs, NEW r \in Requests, Respond(p, r) PROVE SingleInv'
  BY <1>1, <1>3, ResolveSingle, ResolveAgainSingle DEF Respond
<1>4. CASE Next
  BY <1>1, <1>3, <1>4, StartSingle, CrashSingle, WriteStepsSingle, RenameSingle, WriteFailsSingle,
     DeliverSingle, ResumeSingle, CreateSingle DEF Next, Write
<1> QED BY <1>2, <1>4

-----------------------------------------------------------------------------
(* What one process alone can rely on                                      *)

LEMMA SingleAlways ==
    ASSUME SingleProcess
    PROVE  Spec => []SingleInv
<1>1. Init => SingleInv
  BY InitSingle
<1>2. SingleInv /\ [Next]_vars => SingleInv'
  BY StepSingle
<1> QED BY <1>1, <1>2, PTL DEF Spec

\* ClaimResume hands a request to one resumer at a time: with one process, at
\* whatever point it crashes, two resumes of one request are never in progress,
\* and none is while the record says that it waits, failed or is completed.
THEOREM OneResumerAtATime ==
    ASSUME SingleProcess
    PROVE  Spec => []ClaimExclusive
<1>1. SingleInv => ClaimExclusive
  BY DEF SingleInv, HoldersRun, ClaimExclusive, SingleProcess
<1> QED BY <1>1, SingleAlways, PTL

\* An answer a caller was told is recorded is the one the request holds.
THEOREM AcknowledgedAnswersLast ==
    ASSUME SingleProcess
    PROVE  Spec => []AckedAnswerPersisted
<1>1. SingleInv => AckedAnswerPersisted
  BY DEF SingleInv
<1> QED BY <1>1, SingleAlways, PTL

\* Create's duplicate check leaves one pending request per run, call and key.
THEOREM NoDuplicateQuestion ==
    ASSUME SingleProcess
    PROVE  Spec => []OnePendingPerKey
<1>1. SingleInv => OnePendingPerKey
  BY DEF SingleInv
<1> QED BY <1>1, SingleAlways, PTL

\* Only Rename writes a record, and it closes for good.
THEOREM ClosedForGood ==
    ASSUME SingleProcess
    PROVE  Spec => ClosedStaysClosed
<1> DEFINE Kept == \A r \in Requests : Stored(r) /\ file[r].status # "pending" =>
                      /\ file'[r] # Absent
                      /\ file'[r].status = file[r].status
                      /\ file'[r].response = file[r].response
<1>1. SingleInv /\ [Next]_vars => [Kept]_vars
  <2> SUFFICES ASSUME SingleInv, Next PROVE Kept
    OBVIOUS
  <2>1. CASE file' = file
    BY <2>1 DEF Stored
  <2>2. CASE \E p \in Procs : Rename(p)
    BY <2>2, RenameKeepsClosed DEF Stored
  <2>3. (\E p \in Procs : Rename(p)) \/ file' = file
    BY DEF Next, Start, Crash, Write, WriteResponse, CreateTemp, FillTemp, WriteFails, Deliver,
       RecordDelivery, FailDelivery, Respond, Resolve, ResolveAgain, ResumeWork, ClaimResume,
       FinishResume, Create, Begin, disk
  <2> QED BY <2>1, <2>2, <2>3
<1> QED BY <1>1, SingleAlways, PTL DEF Spec, ClosedStaysClosed

\* When crashes spare the writes, every claim of a process that died is found
\* by the recovery of the next one.
THEOREM NoClaimIsLost ==
    ASSUME SingleProcess, ~CrashInWrite
    PROVE  Spec => []StaleClaimsRecovered
<1>1. SingleInv => StaleClaimsRecovered
  <2> SUFFICES ASSUME SingleInv, NEW r \in Requests, Stored(r), file[r].resume = "running",
                      writeFailures = 0, \A p \in Procs : op[p].kind \notin {"down", "recover"}
               PROVE  \E p \in Procs : holders[r][p] > 0
    BY DEF StaleClaimsRecovered
  <2>1. Interrupted(file[r])
    BY DEF Interrupted, SingleInv, BaseInv, TypeOK, Sound, WellFormed, Record, Statuses, Stored
  <2> QED BY <2>1 DEF SingleInv, ClaimsAccounted
<1> QED BY <1>1, SingleAlways, PTL

-----------------------------------------------------------------------------
(***************************************************************************)
(* HumanRequestStore implements HumanRequestLifecycle, for any requests,   *)
(* answers and crashes between the writes, when one process has the state  *)
(* directory to itself.                                                    *)
(*                                                                         *)
(* Everything a step may change of the abstract state it changes by one    *)
(* rename, or by acknowledging a repeated answer; every other step maps to *)
(* a stutter.  What the rename publishes is tied to the record it replaces *)
(* by InHand, the part of SingleInv this proof rests on.                   *)
(***************************************************************************)

phase  == [r \in Requests |-> Phase(r)]
answer == [r \in Requests |-> AnswerOf(r)]

\* One request moves; the others stay where they are.
LEMMA OneMoves ==
    ASSUME NEW r \in Requests, NEW p \in Procs, SingleInv, Rename(p), op[p].rec.id = r
    PROVE  /\ phase' = [phase EXCEPT ![r] = Phase(r)']
           /\ answer' = [answer EXCEPT ![r] = AnswerOf(r)']
<1>1. \A s \in Requests \ {r} : file'[s] = file[s]
  BY DEF Rename, SingleInv, BaseInv, TypeOK
<1>2. \A s \in Requests \ {r} : Phase(s)' = Phase(s) /\ AnswerOf(s)' = AnswerOf(s)
  BY <1>1 DEF Phase, AnswerOf, Stored
<1> QED BY <1>2 DEF phase, answer

\* The phase of a request as its record tells it.
LEMMA PhaseOfRecord ==
    ASSUME NEW r \in Requests, Stored(r), file[r] \in Record, Sound(file[r])
    PROVE  /\ file[r].status = "pending" => Phase(r) = "open" /\ AnswerOf(r) = None
           /\ file[r].status = "failed" => Phase(r) = "undeliverable" /\ AnswerOf(r) = None
           /\ file[r].status = "resolved" =>
                /\ AnswerOf(r) = Said(file[r].response)
                /\ file[r].resume = "pending" => Phase(r) = "answered"
                /\ file[r].resume = "running" => Phase(r) = "resuming"
                /\ file[r].resume = "completed" => Phase(r) = "done"
                /\ file[r].resume = "failed" => Phase(r) = "retry"
BY DEF Phase, AnswerOf, Sound, WellFormed

LEMMA RenameRefines ==
    ASSUME ~CrashInWrite, SingleInv, SingleInv', NEW p \in Procs, Rename(p)
    PROVE  [Lifecycle!LNext]_Lifecycle!lvars
<1> PICK rec, kind, r :
         r \in Requests /\ rec = op[p].rec /\ kind = op[p].kind /\ r = op[p].rec.id
  BY DEF Rename, SingleInv, BaseInv, OpShape, Record
<1>1. /\ rec \in Record /\ rec # Absent /\ WellFormed(rec) /\ rec.id = r
      /\ kind \in Kinds \ {"down", "idle"}
      /\ kind = "resolve" => rec.status = "resolved"
      /\ InHand(p)
  BY RenamedShape DEF Rename, SingleInv
<1>2. file'[r] = rec /\ Stored(r)'
  BY <1>1 DEF Rename, SingleInv, BaseInv, TypeOK, Stored
<1>3. Stored(r) => file[r] \in Record /\ Sound(file[r])
  BY <1>1 DEF SingleInv, BaseInv, TypeOK, Stored
<1>4. /\ phase' = [phase EXCEPT ![r] = Phase(r)']
      /\ answer' = [answer EXCEPT ![r] = AnswerOf(r)']
      /\ phase[r] = Phase(r) /\ answer[r] = AnswerOf(r)
      /\ phase = [phase EXCEPT ![r] = Phase(r)]
      /\ answer = [answer EXCEPT ![r] = AnswerOf(r)]
  BY <1>1, OneMoves DEF phase, answer
<1>5. /\ rec.status = "pending" => Phase(r)' = "open" /\ AnswerOf(r)' = None
      /\ rec.status = "failed" => Phase(r)' = "undeliverable" /\ AnswerOf(r)' = None
      /\ rec.status = "resolved" =>
           /\ AnswerOf(r)' = Said(rec.response)
           /\ rec.resume = "pending" => Phase(r)' = "answered"
           /\ rec.resume = "running" => Phase(r)' = "resuming"
           /\ rec.resume = "completed" => Phase(r)' = "done"
           /\ rec.resume = "failed" => Phase(r)' = "retry"
  BY <1>1, <1>2 DEF Phase, AnswerOf, WellFormed
<1>6. CASE kind = "create"
  <2>1. Phase(r) = "absent" /\ AnswerOf(r) = None /\ acked' = acked /\ rec.status = "pending"
    BY <1>1, <1>6 DEF InHand, Phase, AnswerOf, Rename
  <2>2. Lifecycle!Ask(r)
    BY <1>4, <1>5, <2>1 DEF Lifecycle!Ask, Lifecycle!Move, phase, answer
  <2> QED BY <1>1, <2>2 DEF Lifecycle!LNext
<1>7. CASE kind = "deliver"
  <2>1. /\ Phase(r) = "open" /\ AnswerOf(r) = None /\ acked' = acked
        /\ rec.status \in {"pending", "failed"}
    BY <1>1, <1>3, <1>7, PhaseOfRecord DEF InHand, Rename
  <2>2. CASE rec.status = "pending"
    BY <1>4, <1>5, <2>1, <2>2 DEF Lifecycle!lvars, phase, answer
  <2>3. CASE rec.status = "failed"
    <3>1. Lifecycle!Close(r)
      BY <1>4, <1>5, <2>1, <2>3 DEF Lifecycle!Close, Lifecycle!Move, phase, answer
    <3> QED BY <1>1, <3>1 DEF Lifecycle!LNext
  <2> QED BY <2>1, <2>2, <2>3
<1>8. CASE kind = "resolve"
  <2> DEFINE said == Said(rec.response)
  <2>1. /\ Phase(r) = "open" /\ rec.status = "resolved" /\ rec.resume = "pending"
        /\ acked' = [acked EXCEPT ![r] = @ \cup {said}]
    BY <1>1, <1>3, <1>8, PhaseOfRecord DEF InHand, Rename
  <2>2. rec.response \in Answer
    BY <1>1, <2>1 DEF WellFormed, Record
  <2>3. Lifecycle!Accept(r, said)
    BY <1>4, <1>5, <2>1 DEF Lifecycle!Accept, Lifecycle!Move, phase, answer
  <2> QED BY <1>1, <2>2, <2>3 DEF Lifecycle!LNext
<1>9. CASE kind = "claim"
  <2>1. /\ Stored(r) /\ Claimable(file[r]) /\ rec = Claimed(file[r]) /\ acked' = acked
    BY <1>1, <1>9 DEF InHand, Rename
  <2>2. /\ rec.status = "resolved" /\ rec.resume = "running"
        /\ rec.response = file[r].response
    BY <1>3, <2>1 DEF Claimed, Claimable, Record
  <2>3. Phase(r) \in {"answered", "retry"} /\ AnswerOf(r) = AnswerOf(r)'
    BY <1>1, <1>3, <1>5, <2>1, <2>2, PhaseOfRecord DEF Claimable, NeedsRetry
  <2>4. Lifecycle!Claim(r)
    BY <1>4, <1>5, <2>1, <2>2, <2>3 DEF Lifecycle!Claim, Lifecycle!Move, phase, answer
  <2> QED BY <1>1, <2>4 DEF Lifecycle!LNext
<1>10. CASE kind \in {"complete", "fail"}
  <2>1. /\ Stored(r) /\ Interrupted(file[r]) /\ acked' = acked
        /\ rec = Finished(file[r], kind = "complete")
    BY <1>1, <1>10 DEF InHand, Rename
  <2>2. /\ rec.status = "resolved" /\ rec.response = file[r].response
        /\ rec.resume = IF kind = "complete" THEN "completed" ELSE "failed"
    BY <1>3, <2>1 DEF Finished, Interrupted, Record
  <2>3. Phase(r) = "resuming" /\ AnswerOf(r) = AnswerOf(r)'
    BY <1>1, <1>3, <1>5, <2>1, <2>2, PhaseOfRecord DEF Interrupted
  <2>4. Lifecycle!Finish(r) \/ Lifecycle!GiveUp(r)
    BY <1>4, <1>5, <1>10, <2>1, <2>2, <2>3
       DEF Lifecycle!Finish, Lifecycle!GiveUp, Lifecycle!Move, phase, answer
  <2> QED BY <1>1, <2>4 DEF Lifecycle!LNext
<1>11. CASE kind = "recover"
  <2>1. /\ Stored(r) /\ file[r].status = "resolved" /\ file[r].resume = "running"
        /\ rec.status = "resolved" /\ rec.resume = "failed"
        /\ rec.response = file[r].response /\ acked' = acked
    BY <1>1, <1>11 DEF InHand, RecoveryFits, Rename
  <2>2. Phase(r) = "resuming" /\ AnswerOf(r) = AnswerOf(r)'
    BY <1>1, <1>3, <1>5, <2>1, PhaseOfRecord
  <2>3. Phase(r)' = "retry" /\ answer' = answer
    BY <1>4, <1>5, <2>1, <2>2
  <2>4. Lifecycle!GiveUp(r)
    BY <1>4, <2>1, <2>2, <2>3 DEF Lifecycle!GiveUp, Lifecycle!Move, phase, answer
  <2> QED BY <1>1, <2>4 DEF Lifecycle!LNext
<1> QED BY <1>1, <1>6, <1>7, <1>8, <1>9, <1>10, <1>11 DEF Kinds

LEMMA ResolveAgainRefines ==
    ASSUME SingleInv, NEW p \in Procs, NEW r \in Requests, NEW a \in Answers, NEW exact,
           NEW genuine, NEW late, ResolveAgain(p, r, a, exact, genuine, late)
    PROVE  Lifecycle!LNext
<1>1. /\ Stored(r) /\ file[r] \in Record /\ SameResponseRetry(file[r], a, exact)
      /\ acked' = [acked EXCEPT ![r] = @ \cup {Said(a)}] /\ file' = file
  BY DEF ResolveAgain, Authorized, disk, SingleInv, BaseInv, TypeOK, Stored
<1>2. file[r].response # None /\ file[r].response \in Answer /\ a \in Answer
  BY <1>1, StoreAssumption DEF SameResponseRetry, Record
<1>3. AnswerOf(r) = Said(a) /\ Said(a) # None
  BY <1>1, <1>2, NoneAssumption DEF AnswerOf, SameResponseRetry, Said, Answer
<1>4. phase' = phase /\ answer' = answer /\ answer[r] = Said(a)
  BY <1>1, <1>3 DEF phase, answer, Phase, AnswerOf, Stored
<1>5. Lifecycle!AcceptAgain(r)
  BY <1>1, <1>3, <1>4 DEF Lifecycle!AcceptAgain, phase, answer
<1> QED BY <1>5 DEF Lifecycle!LNext

\* Every other step writes a file of its own, or none.
LEMMA OthersStutter ==
    ASSUME file' = file, acked' = acked
    PROVE  UNCHANGED Lifecycle!lvars
BY DEF Lifecycle!lvars, Phase, AnswerOf, Stored

LEMMA StepRefines ==
    ASSUME ~CrashInWrite, SingleInv, SingleInv', [Next]_vars
    PROVE  [Lifecycle!LNext]_Lifecycle!lvars
<1>1. ASSUME NEW p \in Procs, NEW r \in Requests, Respond(p, r)
      PROVE  [Lifecycle!LNext]_Lifecycle!lvars
  <2>1. ASSUME NEW a \in Answers, NEW exact \in BOOLEAN, NEW genuine \in BOOLEAN,
               NEW late \in BOOLEAN, ResolveAgain(p, r, a, exact, genuine, late)
        PROVE  Lifecycle!LNext
    BY <2>1, ResolveAgainRefines
  <2>2. ASSUME NEW a \in Answers, NEW exact \in BOOLEAN, NEW genuine \in BOOLEAN,
               NEW late \in BOOLEAN, Resolve(p, r, a, exact, genuine, late)
        PROVE  file' = file /\ acked' = acked
    BY <2>2 DEF Resolve, Begin, disk
  <2> QED BY <1>1, <2>1, <2>2, OthersStutter DEF Respond
<1>2. ASSUME NEW p \in Procs,
             \/ Start(p) \/ Crash(p) \/ WriteResponse(p) \/ CreateTemp(p) \/ FillTemp(p)
             \/ WriteFails(p)
             \/ \E r \in Requests : Deliver(p, r) \/ ResumeWork(p, r)
             \/ \E r \in Requests, ask \in Asks : Create(p, r, ask)
      PROVE  file' = file /\ acked' = acked
  BY <1>2 DEF Start, Crash, WriteResponse, CreateTemp, FillTemp, WriteFails, Deliver,
     RecordDelivery, FailDelivery, ResumeWork, ClaimResume, FinishResume, Create, Begin, disk
<1>3. CASE UNCHANGED vars
  BY <1>3, OthersStutter DEF vars, disk
<1>4. CASE Next
  BY <1>1, <1>2, <1>4, RenameRefines, OthersStutter DEF Next, Write
<1> QED BY <1>3, <1>4

LEMMA InitRefines == Init => Lifecycle!LInit
BY DEF Init, Lifecycle!LInit, Phase, AnswerOf, Stored

\* Each request is asked once, answered once and resumed by one resumer at a
\* time until one succeeds, whatever the files, crashes and recoveries do.
THEOREM StoreImplementsLifecycle ==
    ASSUME SingleProcess, ~CrashInWrite
    PROVE  Spec => LifecycleSpec
<1>1. SingleInv /\ SingleInv' /\ [Next]_vars => [Lifecycle!LNext]_Lifecycle!lvars
  BY StepRefines
<1> QED BY <1>1, InitRefines, SingleAlways, PTL DEF Spec, LifecycleSpec, Lifecycle!LSpec

=============================================================================
