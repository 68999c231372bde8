\* One challenge, two concurrent requests, every fault.
SPECIFICATION Spec
CONSTANTS
    c1 = c1
    c2 = c2
    u1 = u1
    u2 = u2
    u3 = u3
    u4 = u4
    h1 = h1
    h2 = h2
    Challenges = {c1}
    Users = {u1, u2, u3, u4}
    Team <- OneTeam
    JuryCount = 2
    Handlers = {h1, h2}
    Faults = {"restart", "db", "timeout"}
SYMMETRY JurorSymmetry
INVARIANTS
    JurorsOutsideTeam
    PanelSize
    VerdictIsEarned
PROPERTY PanelFinal
