\* Writes fail and crashes fall anywhere, also when the file is torn.
SPECIFICATION OwnerSpec
CONSTANTS
    Nobody = Nobody
    e1 = e1
    e2 = e2
    s1 = s1
    Entrypoints = {e1, e2}
    Senders = {s1, s2}
    StaticOwner <- MCStaticOwner
    Calls = {k1, k2}
    NotifyFor = e1
    MaxLoads = 2
    MaxFailures = 1
SYMMETRY CallSymmetry
\* The bounds on starts end every behaviour in which all is bound and answered.
CHECK_DEADLOCK FALSE
INVARIANTS
    SuccessLasts
    NotifiedOnce
PROPERTY
    AnsweredByOwner
