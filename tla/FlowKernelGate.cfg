\* A flow without loops, with retries, an approval, a decision and failure
\* routes; one call is cut off.
SPECIFICATION Spec
CONSTANTS
    None = None
    draft = draft
    gate = gate
    merge = merge
    publish = publish
    report = report
    ok = ok
    bad = bad
    Requests = {q1, q2}
    Sayings = {"approve", "deny", "reject", "cancel"}
    AgentOutputs = {ok, bad}
    Steps <- GatedSteps
    First = draft
    Flow <- GatedFlow
    MaxInterrupts = 1
\* A flow that has ended, and one that nobody answers, stop.
CHECK_DEADLOCK FALSE
INVARIANTS
    NothingTwice
    OnlyRouted
    PausedOnSomething
PROPERTIES
    EndsOrWaits
