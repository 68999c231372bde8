\* Two users and two groups, two requests at a time, every fault, the monitor
\* fair.
SPECIFICATION FairSpec
CONSTANTS
    u1 = u1
    u2 = u2
    u3 = u3
    k1 = k1
    k2 = k2
    h1 = h1
    h2 = h2
    Users = {u1, u2}
    Categories = {k1}
    Sizes = {2}
    Groups = {1, 2}
    Handlers = {h1, h2}
    Faults = {"slack", "db", "restart"}
INVARIANTS
    TypeOK
    TakenOnce
    FullIsLaunched
PROPERTIES
    NobodyDropped
    GroupEnds
