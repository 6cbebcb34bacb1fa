\* Writes, turns and persists fail, entries expire and the process crashes, but
\* not between two lines of one append.
SPECIFICATION Spec
CONSTANTS
    None = None
    said = said
    asked = asked
    bind = bind
    stray = stray
    Messages = {said, asked, stray}
    Inbound <- MCInbound
    Workers = {w1, w2}
    DedupeFile = TRUE
    CrashInAppend = FALSE
    TornWrites = FALSE
    MaxStarts = 2
    MaxErrors = 2
    MaxExpiries = 1
\* The bounds end behaviours in which every message is completed.
CHECK_DEADLOCK FALSE
SYMMETRY Symmetry
INVARIANTS
    CopiesAccounted
    SeenIsKept
PROPERTY
    NothingForgotten
