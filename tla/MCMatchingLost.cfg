CONSTANTS
    u1 = u1
    u2 = u2
    m1 = m1
    m2 = m2
    d1 = d1
    d2 = d2
    User = {u1, u2}
    Moment = {m1, m2}
    Device = {d1, d2}
    Nobody = Nobody
    NotLoaded = NotLoaded
    Unanswered = Unanswered
    Home <- OwnDevice
    Blocks <- OneMomentEach
    AskThreshold = 1
    TransactionsFail = FALSE
    MaxLikes = 2
    MaxQueries = 1
    MaxSubmissions = 1
SPECIFICATION Spec
PROPERTIES
    LikesLeaveTheQueueOnChain
