\* One player pays twice; the second request about r1 presents a transaction that does not match.
CONSTANTS
    u1 = u1
    s1 = s1
    s2 = s2
    r1 = r1
    r2 = r2
    c1 = c1
    c2 = c2
    c3 = c3
    User = {u1}
    Session = {s1, s2}
    UserOf <- MCUserOf
    Ref = {r1, r2}
    Payer <- TwoPayer
    Call = {c1, c2, c3}
    CallRef <- TwoCallRef
    CallBy <- TwoCallBy
    Mismatched = {c2}
    Joiner = {}
    MaxPlayers = 1
    Attempts = 2
    MaxStalls = 1
    LastPhase = "upcoming"
    MaxFaults = 1
SPECIFICATION Spec
INVARIANTS
    TypeOK
    SeatIsVouched
    OneSeatPerUser
    ErasedStaysErased
    CompletedJobSeats
CHECK_DEADLOCK FALSE
