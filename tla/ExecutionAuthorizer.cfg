\* Three authorizations, three threads, one restart.
CONSTANTS
    AuthIds = {a1, a2, a3}
    Presenters = {p1, p2, p3}
    Ttl = 2
    MaxClock = 3
    MaxRestarts = 1
    MaxUses = 2
SYMMETRY Symmetry
SPECIFICATION Spec
INVARIANTS
    SingleUseWhileFresh
    FreshUseIsRemembered
CHECK_DEADLOCK FALSE
