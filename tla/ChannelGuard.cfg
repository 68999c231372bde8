\* One challenge, one member and two others, one request at a time beside the
\* monitors, every fault, fair scheduling of the guard.
SPECIFICATION FairSpec
CONSTANTS
    c1 = c1
    u1 = u1
    u2 = u2
    u3 = u3
    h1 = h1
    h2 = h2
    Challenges = {c1}
    Users = {u1, u2, u3}
    Team <- OneTeam
    JuryCount = 1
    Handlers = {h1}
    Faults = {"slack", "restart", "db", "timeout"}
PROPERTIES
    StrangersLeave
    SeatedJurorsStay
