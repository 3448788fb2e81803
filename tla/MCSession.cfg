CONSTANTS
    alice = alice
    bob = bob
    login1 = login1
    login2 = login2
    NoUser = NoUser
    NoHandler = NoHandler
    Account <- TwoUsers
    Handler <- TwoLogins
    WelcomeSize = 1
    MaxSupply = 2
    BatchSizes = {1}
    ClockSteps = {1}
    MaxTime = 0
    LockDurations = {}
    LockTypeResolves = FALSE
    ProposalId = {}
    OfferLists = {}
    OffsetMinutes = {5}
SPECIFICATION HouseholdSpec
INVARIANTS
    SessionTypeOK
    WelcomedAtMostOnce
    MintingsCanSucceed
PROPERTIES
    NewcomersAreWelcomed
    SetupSheetGoes
