SPECIFICATION MCSpec
CONSTANTS
    a = a
    b = b
    None = None
    Unclassified = Unclassified
    NoUrn = NoUrn
    MissingLineage = MissingLineage
    Requests = {a, b}
    IdentityOf <- MCIdentityOf
    PurposeOf <- MCPurposeOf
    Drafts <- MCDrafts
    PlanOf <- MCPlanOf
    AssetsOf <- MCAssetsOf
    Permitted <- MCPermitted
    Changes <- MCChanges
    EvidenceTtl = 3
    ProofTtl = 2
    CapabilityTtl = 1
    Skew = 1
    MaxNow = 4
    MaxDetours = 2
INVARIANTS ExecutionIsBound NothingOutlivesEvidence  GroundedIsWhole
PROPERTIES NothingIsRevived
CHECK_DEADLOCK FALSE
