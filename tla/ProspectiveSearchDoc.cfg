\* As ProspectiveSearch.cfg, for what the docstring says of exhausted resources.
CONSTANTS
    w0 = w0
    w1 = w1
    k0 = k0
    k1 = k1
    NoColumn = NoColumn
    NoCohort = NoCohort
    NoRelease = NoRelease
    NoSnapshot = NoSnapshot
    NoBinding = NoBinding
    NoCall = NoCall
    NoStage = NoStage
    NoPlan = NoPlan
    UnresolvedRef = UnresolvedRef
    NoAlias = NoAlias
    NoTable = NoTable
    NoQuery = NoQuery
    NoHaving = NoHaving
    NoName = NoName
    Columns <- MCColumns
    CategoryOf <- MCCategoryOf
    DatasetOf <- MCDatasetOf
    Governed <- MCGoverned
    LineageOf <- MCLineageOf
    FieldOf <- MCFieldOf
    MinimumGroupSize = 2
    PredicateMinimum = 2
    QuasiThreshold = 2
    FailClosed = TRUE
    MaxActions = 32
    MaxStateAtoms = 24
    MaxDepth = 3
    Inputs <- MCInputs
    Requests <- MCRequests
    Governance = "current"
    GroupSizes = {0, 1, 2, 3}
    Orders <- MCOrders
SPECIFICATION MCSpec
INVARIANTS
    ExhaustionFailsClosed
CHECK_DEADLOCK FALSE
