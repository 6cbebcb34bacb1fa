\* Two messages, two children that report at the same time, both feeds.
SPECIFICATION FeedSpec
CONSTANTS
    Nothing = Nothing
    MaxMessages = 2
    MaxChildren = 2
    Paths = {"raw", "bus"}
    Offers <- MCOffers
    ParentQuota = 1
    ChildQuota = 1
    Capacity = 1
    MaxEvents = 3
\* When the turns are over and all is said nobody has anything to do.
CHECK_DEADLOCK FALSE
INVARIANTS
    NoFlood
    QuestionsShown
PROPERTY
    TurnReleased
