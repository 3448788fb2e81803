CONSTANTS
    alice = alice
    bob = bob
    p1 = p1
    Nobody = Nobody
    Account <- TwoAccounts
    MaxSupply = 2
    BatchSizes = {1, 2}
    ClockSteps = {300001}
    MaxTime = 300001
    LockDurations = {}
    LockTypeResolves = FALSE
    ProposalId <- OneId
    OfferLists <- Singles
    OffsetMinutes = {5}
SPECIFICATION SwapSpec
SYMMETRY AccountSymmetry
INVARIANTS
    SwapTypeOK
    MomentConservation
PROPERTIES
    MovesAreConsented
    NoDoubleSpend
    ImplementsAtomicSwap
