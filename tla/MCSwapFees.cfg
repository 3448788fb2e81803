CONSTANTS
    alice = alice
    bob = bob
    p1 = p1
    platform = platform
    usd = usd
    Nobody = Nobody
    Account <- TwoAccounts
    MaxSupply = 2
    BatchSizes = {1}
    ClockSteps = {60}
    MaxTime = 60
    LockDurations = {60}
    LockTypeResolves = TRUE
    ProposalId <- OneId
    OfferLists <- Singles
    OffsetMinutes = {20}
    Platform <- OnePlatform
    Token <- OneToken
    FeeLists <- SomeFees
    StartBalance <- SomeBalances
SPECIFICATION SettlementSpec
INVARIANTS
    FeesTypeOK
    
PROPERTIES
    FeesArePaidWithTheSwap
    StepsImplementMarket
    LockedMomentsStayPut
    LocksAreHonoured
