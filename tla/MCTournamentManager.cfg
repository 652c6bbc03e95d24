\* Three players with funds for at most two entries; one of the three configurations
\* asked for is invalid.
CONSTANTS
    wld = wld
    p1 = p1
    p2 = p2
    p3 = p3
    Id = {1, 2}
    Player = {p1, p2, p3}
    Other = {game}
    Owner = owner
    Token = {wld}
    Config <- MCConfig
    NoConfig = NoConfig
    Scale = 10
    Score = {1, 2}
    Funds = 3
    MaxTime = 4
SPECIFICATION Spec
INVARIANTS
    TypeOK
    PoolMatchesPlayers
    WinnersRanked
    Solvent
    PaidWithinPool
PROPERTY FinalizedIsFinal
CHECK_DEADLOCK FALSE
