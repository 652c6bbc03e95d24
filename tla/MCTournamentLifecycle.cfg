SPECIFICATION FairSpec
CONSTANTS
    poll = poll  view = view  stream = stream  credit = credit  distribute = distribute
    u1 = u1  u2 = u2  s1 = s1
    None = None
    Actor = {poll, view, stream, credit, distribute}
    Player = {u1, u2}
    Entered <- TheScores
    BuyIn = 10
    MaxScores = 2
    MaxErased = 1
    MaxRequests = 1
    Kind <- TheKind
    ConfiguredDist <- TheConfigured
    CreatedDist <- TheCreated
    Unit = 2
    Seeds <- TheSeeds
INVARIANTS TypeOK PoolNeverInvented OneResultPerUser PayoutWithinShares
PROPERTY EndedIsFinalized
CHECK_DEADLOCK FALSE
