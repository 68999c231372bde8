\* Two challenges, one without a type, and no fault, or one challenge and every
\* fault; two concurrent requests, fair scheduling.
SPECIFICATION BothSpec
CONSTANTS
    c1 = c1
    c2 = c2
    u1 = u1
    h1 = h1
    h2 = h2
    Challenges = {c1, c2}
    Typed = {c1}
    Users = {u1}
    Team <- Teams
    JuryCount = 2
    Handlers = {h1, h2}
    Faults = {"restart", "db", "timeout", "slack"}
INVARIANTS
    TypeOK
    OneEvaluationChannel
    CalmDelivered
PROPERTIES
    ClosedStaysClosed
    CalmEnds
