CONSTANTS
    alice = alice
    bob = bob
    p1 = p1
    Nobody = Nobody
    Account <- TwoAccounts
    MaxSupply = 2
    BatchSizes = {1}
    ClockSteps = {1500}
    MaxTime = 1500
    LockDurations = {}
    LockTypeResolves = FALSE
    ProposalId <- OneId
    OfferLists <- Singles
    OffsetMinutes = {5}
SPECIFICATION OpenSpec
PROPERTY
    SettlesWithinMaxMinutes
