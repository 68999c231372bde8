\* One event, one member, a request at a time beside the scheduler, two days,
\* every fault, fair scheduling.
SPECIFICATION FairSpec
CONSTANTS
    u1 = u1
    e1 = e1
    h1 = h1
    h2 = h2
    Users = {u1}
    Events = {e1}
    Limit = 1
    Slots = {1, 2}
    LastMoment = 2
    Handlers = {h1}
    Faults = {"gone", "slack", "pass"}
INVARIANTS
    MarkedIsReminded
    MorningOnce
PROPERTIES
    NeverPendingAgain
    DueIsEnded
