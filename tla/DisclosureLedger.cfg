CONSTANTS
    r1 = r1  r2 = r2  r3 = r3
    s1 = s1  s2 = s2
    a1 = a1  a2 = a2
    Receipts <- MCReceipts
    Scopes <- MCScopes
    AuthIds <- MCAuthIds
    Requested <- MCRequested
    Times = {0, 2, 3}
    MaxProtected = 2
    Window = 3
    ClockStep = 1
    Processes = {p1, p2}
    Ids = {i1}
    Contents = {c1, c2}
    NoFile = NoFile
    Short = Short
    MaxFaults = 2
SPECIFICATION MCSpec
SYMMETRY Symmetry
INVARIANTS
    TypeOK
    BudgetBound
    ReleasedIsClaimed
    ChainIntact
    LegacyBlocksScope
    OneCapabilityPerReservation
    KeysAreKept
    ReturnedReceiptsStay
PROPERTIES
    JournalOnlyAdvances
    ImplementsBudget
CHECK_DEADLOCK FALSE
