\* A challenge from start to verdict, two concurrent requests, restarts.
SPECIFICATION Spec
CONSTANTS
    c1 = c1
    u1 = u1
    h1 = h1
    h2 = h2
    Challenges = {c1}
    Typed = {c1}
    Users = {u1}
    Team <- NoTeam
    JuryCount = 1
    Handlers = {h1, h2}
    Faults = {"restart"}
SYMMETRY Symmetry
INVARIANTS
    PanelHasChannel
    NoStrandedChallenge
    RegistryMatchesRows
PROPERTY NeverGoesBack
