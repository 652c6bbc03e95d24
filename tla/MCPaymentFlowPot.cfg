\* No fault at all: one payment, confirmed once.
CONSTANTS
    u1 = u1
    s1 = s1
    s2 = s2
    r1 = r1
    r2 = r2
    c1 = c1
    c2 = c2
    c3 = c3
    User = {u1}
    Session = {s1, s2}
    UserOf <- MCUserOf
    Ref = {r1}
    Payer <- OnePayer
    Call = {c1, c2}
    CallRef <- OneCallRef
    CallBy <- OneCallBy
    Mismatched = {}
    Joiner = {}
    MaxPlayers = 1
    Attempts = 2
    MaxStalls = 1
    LastPhase = "over"
    MaxFaults = 0
SPECIFICATION Spec
INVARIANT PotCountsPaymentsOnce
CHECK_DEADLOCK FALSE
