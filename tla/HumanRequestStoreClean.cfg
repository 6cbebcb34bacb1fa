\* One process that crashes between writes, never inside one.
SPECIFICATION Spec
CONSTANTS
    r1 = r1
    r2 = r2
    k1 = k1
    alice = alice
    bob = bob
    m1 = m1
    yes = yes
    no = no
    i1 = i1
    None = None
    Torn = Torn
    Absent = Absent
    Requests = {r1, r2}
    Procs = {p1}
    Keys = {k1}
    Senders = {alice, bob}
    Messages = {m1}
    Contents = {yes, no}
    IdemKeys = {i1}
    Answers <- MCAnswers
    Asks <- MCAsks
    CrashInWrite = FALSE
    MaxCrashes = 1
    MaxWriteFailures = 1
SYMMETRY Symmetry
\* When every request is closed and resumed nobody has anything to call.
CHECK_DEADLOCK FALSE
INVARIANT StaleClaimsRecovered
PROPERTY LifecycleSpec
