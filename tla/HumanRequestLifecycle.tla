----------------------- MODULE HumanRequestLifecycle -----------------------
(***************************************************************************)
(* What the human request store promises its callers, one request at a     *)
(* time: a request is asked once, ends undeliverable or with one answer    *)
(* that never changes, and its answer is acted on by one resumer at a time *)
(* until one of them succeeds.  HumanRequestStore, with its files, locks,  *)
(* crashes and recovery, is shown to implement this module.                *)
(***************************************************************************)
CONSTANTS Requests, Sayings, None

VARIABLES
    phase,      \* where the request stands
    answer,     \* the answer it got, None before
    accepted    \* the answers its callers were told were accepted

lvars == <<phase, answer, accepted>>

Phases == {"absent", "open", "undeliverable", "answered", "resuming", "retry", "done"}

LInit == /\ phase    = [r \in Requests |-> "absent"]
         /\ answer   = [r \in Requests |-> None]
         /\ accepted = [r \in Requests |-> {}]

Move(r, from, to) == phase[r] \in from /\ phase' = [phase EXCEPT ![r] = to]

Ask(r)   == Move(r, {"absent"}, "open") /\ UNCHANGED <<answer, accepted>>

Close(r) == Move(r, {"open"}, "undeliverable") /\ UNCHANGED <<answer, accepted>>

Accept(r, a) == /\ Move(r, {"open"}, "answered")
                /\ answer'   = [answer EXCEPT ![r] = a]
                /\ accepted' = [accepted EXCEPT ![r] = @ \cup {a}]

\* A caller repeats the answer that was recorded.
AcceptAgain(r) == /\ answer[r] # None
                  /\ accepted' = [accepted EXCEPT ![r] = @ \cup {answer[r]}]
                  /\ UNCHANGED <<phase, answer>>

Claim(r)  == Move(r, {"answered", "retry"}, "resuming") /\ UNCHANGED <<answer, accepted>>

Finish(r) == Move(r, {"resuming"}, "done") /\ UNCHANGED <<answer, accepted>>

\* The resumer reports a failure, or died and a restart found its claim.
GiveUp(r) == Move(r, {"resuming"}, "retry") /\ UNCHANGED <<answer, accepted>>

LNext == \E r \in Requests :
            \/ Ask(r) \/ Close(r) \/ AcceptAgain(r)
            \/ Claim(r) \/ Finish(r) \/ GiveUp(r)
            \/ \E a \in Sayings : Accept(r, a)

LSpec == LInit /\ [][LNext]_lvars

=============================================================================
