\* Two requests, two snapshot contents, one budgeted release per window.
CONSTANTS
    r1 = r1
    r2 = r2
    c1 = c1
    c2 = c2
    s1 = s1
    Requests = {r1, r2}
    Scopes = {s1}
    Contents = {c1, c2}
    ScopeOf <- MCScopeOf
    Verdict <- MCVerdict
    Protected <- MCProtected
    MaxProtected = 1
    Window = 1
    MaxAge = 1
    Ttl = 1
    MaxClock = 1
    FaultPlans <- MCFaultPlans
SPECIFICATION FairSpec
INVARIANTS
    RowsAreAccounted
    RowsUnderOneSnapshot
    AdmittedWithinBudget
    NoRowsNoHistoryWhenHealthy
PROPERTIES
    ReservationsSettle
CHECK_DEADLOCK FALSE
