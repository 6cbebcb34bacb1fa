\* An account of the configuration and one that is not; a restart.
SPECIFICATION Spec
CONSTANTS
    None = None
    Torn = Torn
    bot = bot
    Accounts = {bot, alt}
    Static = {bot}
    Pairings = {p1}
    Messages = {m1}
    SentTo <- MCSentTo
    Overlap = FALSE
    MaxStarts = 2
    MaxErrors = 1
    MaxDrops = 1
\* The bounds end behaviours in which all is paired and handled.
CHECK_DEADLOCK FALSE
INVARIANTS
    SurvivesRestart
    PolledOnce
PROPERTY
    PairedIsPolled
