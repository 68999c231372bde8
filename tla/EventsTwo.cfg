\* One event, two concurrent requests beside the scheduler.
SPECIFICATION Spec
CONSTANTS
    u1 = u1
    e1 = e1
    h1 = h1
    h2 = h2
    Users = {u1}
    Events = {e1}
    Limit = 1
    Slots = {1, 2}
    LastMoment = 2
    Handlers = {h1, h2}
    Faults = {}
SYMMETRY Symmetry
INVARIANTS
    PublicOnlyApproved
    RowIsTold
    QuotaOvershoot
