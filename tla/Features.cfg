\* Three requests of one member, an edit at a time, every fault, fair scheduling.
SPECIFICATION FairSpec
CONSTANTS
    u1 = u1
    h1 = h1
    h2 = h2
    Users = {u1}
    MaxRows = 3
    MaxFailing = 1
    MaxEdits = 1
    DirectMax = 1
    HdbscanMin = 3
    NoiseLimit = 2
    Handlers = {h1}
    Faults = {"embed", "compute", "week", "slack"}
INVARIANT ReportedOnce
PROPERTIES
    NothingLost
    EveryRequestEnds
