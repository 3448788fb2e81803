CONSTANTS
    alice = alice
    bob = bob
    p1 = p1
    p2 = p2
    Nobody = Nobody
    Unanswered = Unanswered
    Account <- TwoAccounts
    MaxSupply = 2
    BatchSizes = {1}
    ClockSteps = {60}
    MaxTime = 0
    LockDurations = {}
    LockTypeResolves = FALSE
    ProposalId <- TwoIds
    OfferLists <- Singles
    OffsetMinutes = {5}
    MaxSent = 1
SYMMETRY IdSymmetry
SPECIFICATION OpenDeskSpec
INVARIANTS
    DeskTypeOK
PROPERTIES
    AcceptedTradeIsTheOneShown
    TradedMomentsLeaveTheBlocks
    DeclinedTradesStayDeclined
    StepsImplementMarket
