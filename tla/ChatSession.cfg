\* Both kinds of channel, redeliveries and a crash.
SPECIFICATION Spec
CONSTANTS
    None = None
    Messages = {m1, m2, c1}
    Commands = {c1}
    Entries = {e1, e2}
    Channels = {"im", "websocket"}
    AgeWhileRouting = FALSE
    MaxDeliveries = 4
    MaxCrashes = 1
\* When every message is settled nobody has anything to do.
CHECK_DEADLOCK FALSE
INVARIANTS
    OneTurnPerChat
    AnsweredOnce
PROPERTIES
    EndsSettled
