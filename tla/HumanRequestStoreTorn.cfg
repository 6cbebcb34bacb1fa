\* One process that may crash anywhere, in the middle of a write included.
SPECIFICATION Spec
CONSTANTS
    r1 = r1
    r2 = r2
    k1 = k1
    alice = alice
    bob = bob
    m1 = m1
    yes = yes
    no = no
    i1 = i1
    None = None
    Torn = Torn
    Absent = Absent
    Requests = {r1, r2}
    Procs = {p1}
    Keys = {k1}
    Senders = {alice, bob}
    Messages = {m1}
    Contents = {yes, no}
    IdemKeys = {i1}
    Answers <- MCAnswers
    Asks <- MCAsks
    CrashInWrite = TRUE
    MaxCrashes = 1
    MaxWriteFailures = 0
SYMMETRY Symmetry
INVARIANTS
    TypeOK
    ClaimExclusive
    AckedAnswerPersisted
    ResponseFileFirst
    OnePendingPerKey
PROPERTY ClosedStaysClosed
\* When every request is closed and resumed nobody has anything to call.
CHECK_DEADLOCK FALSE
