\* A crash, or resumed turns that ask again with calls that fail.
SPECIFICATION Spec
CONSTANTS
    None = None
    u1 = u1
    u2 = u2
    q1 = q1
    q2 = q2
    q3 = q3
    Runs = {u1, u2}
    Requests = {q1, q2, q3}
    Sayings = {yes, no}
    Refusals = {no}
    Situations <- MCSituations
    AgentsMayGo = FALSE
    CrashInSave = FALSE
    MaxRepeats = 1
\* When every request is done nobody has anything to do.
CHECK_DEADLOCK FALSE
INVARIANTS
    AnswerAppliedOnce
    OneWorkerPerRun
    NotStranded
PROPERTIES
    ClosedRunKept
    AnswerActedOn
