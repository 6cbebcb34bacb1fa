------------------------- MODULE HumanRequestRecord -------------------------
(***************************************************************************)
(* The persisted human request (package humanrequest, types.go) and the    *)
(* transition tables that may change one: creation, delivery, the answer   *)
(* and the durable resume.  Every operator is a function of the record     *)
(* that was loaded; HumanRequestStore says when it is loaded and written,  *)
(* HitlResume what the resume does in between.                             *)
(*                                                                         *)
(* Data the properties do not tell apart is left out: texts, options, the  *)
(* audit trail, attempt counters and error strings.  A sender stands for   *)
(* the triple (entrypoint, sender id, sender id type) the store compares   *)
(* field by field.                                                         *)
(***************************************************************************)
CONSTANTS
    Requests,   \* request ids (fresh uuids in the code)
    Keys,       \* values of the triple (run, tool call, dedupe key)
    Senders,    \* who may answer
    Messages,   \* platform message ids of a delivered request
    Contents,   \* kind and text of an answer
    IdemKeys,   \* idempotency keys of an answer
    None        \* an empty optional field

ASSUME NoneAssumption ==
    /\ None \notin Keys \cup Senders \cup Messages \cup Contents \cup IdemKeys
    /\ None \notin [sender : Senders \cup {None}, msg : Messages \cup {None},
                    content : Contents, key : IdemKeys \cup {None}]

\* HumanResponse
Answer == [sender : Senders \cup {None}, msg : Messages \cup {None},
           content : Contents, key : IdemKeys \cup {None}]

Statuses   == {"pending", "resolved", "failed"}
Deliveries == {"none", "pending", "sent", "failed"}
\* "" is the zero ResumeState a terminal delivery failure leaves behind.
Resumes    == {"", "waiting_response", "pending", "running", "completed", "failed"}

\* HumanRequest
Record == [id : Requests, key : Keys \cup {None}, sender : Senders \cup {None},
           expires : BOOLEAN, status : Statuses, delivery : Deliveries,
           msg : Messages \cup {None}, resume : Resumes,
           response : Answer \cup {None}]

\* What CreateRequest chooses.
Ask == [key : Keys \cup {None}, sender : Senders \cup {None},
        expires : BOOLEAN, deliver : BOOLEAN]

NewRequest(id, ask) ==
    [id |-> id, key |-> ask.key, sender |-> ask.sender, expires |-> ask.expires,
     status |-> "pending", msg |-> None, response |-> None,
     delivery |-> IF ask.deliver THEN "pending" ELSE "none",
     resume |-> "waiting_response"]

-----------------------------------------------------------------------------
(* Delivery: applyDeliveryAttempt and applyTerminalDeliveryFailure         *)

\* Fault model: the request's own status is forgotten.
DeliveryOpenAnyStatus(rec) == rec.delivery \in {"pending", "failed"}

DeliveryOpen(rec) == /\ rec.status = "pending"
                     /\ rec.delivery \in {"pending", "failed"}

Sent(rec, m)       == [rec EXCEPT !.delivery = "sent", !.msg = m]
NotSent(rec)       == [rec EXCEPT !.delivery = "failed"]
Undeliverable(rec) == [NotSent(rec) EXCEPT !.status = "failed", !.resume = ""]

-----------------------------------------------------------------------------
(* The answer: validateExactResponse, sameResponseRetry and resolve        *)

\* `genuine` is the comparison of the opaque correlation token, `late` that of
\* the clock with the request's expiry.
ExactlyAuthorized(rec, a, genuine, late) ==
    /\ genuine
    /\ rec.sender \in {None, a.sender}
    /\ rec.msg \in {None, a.msg}
    /\ ~(rec.expires /\ late)

\* What a caller said, wherever it was said: an answer without the message that
\* carried the question.
Said(a) == [a EXCEPT !.msg = None]

\* Fault model: a known idempotency key is enough.
SameKeyRetry(rec, a, exact) ==
    rec.response # None /\ a.key # None /\ rec.response.key = a.key

\* Without the exact envelope the delivery message is not compared.
SameResponseRetry(rec, a, exact) ==
    /\ rec.response # None
    /\ a.key # None
    /\ rec.response.key = a.key
    /\ rec.response.content = a.content
    /\ rec.response.sender = a.sender
    /\ exact => rec.response.msg = a.msg

Resolved(rec, a) ==
    [rec EXCEPT !.status = "resolved", !.response = a,
                !.resume = IF @ = "waiting_response" THEN "pending" ELSE @]

-----------------------------------------------------------------------------
(* The durable resume: applyResumeClaim, applyResumeFinish,                *)
(* resumeNeedsRetry and recoverInterruptedResume                           *)

\* Fault model: a resume in progress may be taken over.
NotCompleted(rec) == rec.resume \in {"pending", "failed", "running"}

NeedsRetry(rec) == rec.resume \in {"pending", "failed"}

Claimable(rec) == /\ rec.status = "resolved"
                  /\ rec.response # None
                  /\ NeedsRetry(rec)

Claimed(rec) == [rec EXCEPT !.resume = "running"]

Finishable(rec) == rec.resume = "running"

Finished(rec, ok) == [rec EXCEPT !.resume = IF ok THEN "completed" ELSE "failed"]

\* Fault model: recovery picks finished resumes up too.
InterruptedOrDone(rec) == rec.status = "resolved" /\ rec.resume \in {"running", "completed"}

Interrupted(rec) == rec.status = "resolved" /\ rec.resume = "running"

Recovered(rec) == [rec EXCEPT !.resume = "failed"]

=============================================================================
