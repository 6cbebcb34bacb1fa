\* Three spawn calls compete for two slots.
SPECIFICATION Spec
CONSTANTS
    None = None
    Children = {c1, c2, c3}
    Askers = {c1}
    MaxParallel = 2
    MaxOutstanding = 2
    MaxRuns = 2
\* When the turns are over and every child is gone nobody has anything to do.
CHECK_DEADLOCK FALSE
INVARIANTS
    SlotsMatch
    ResultsKept
PROPERTIES
    SlotsReturned
    AnsweringIsAnswered
