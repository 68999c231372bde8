\* Two challenges that compete for a juror, one request at a time beside
\* /jury leave, fair scheduling, lost threads.
SPECIFICATION FairSpec
CONSTANTS
    c1 = c1
    c2 = c2
    u1 = u1
    u2 = u2
    u3 = u3
    u4 = u4
    h1 = h1
    h2 = h2
    Challenges = {c1, c2}
    Users = {u1, u2}
    Team <- TwoTeams
    JuryCount = 1
    Handlers = {h1}
    Faults = {"timeout"}
INVARIANT NoStrandedChallenge
PROPERTIES
    KeepsPromise
    EvaluationEnds
