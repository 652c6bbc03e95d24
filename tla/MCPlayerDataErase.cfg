SPECIFICATION Spec
CONSTANTS
    p1 = p1  p2 = p2  v1 = v1  v2 = v2  v3 = v3  n1 = n1  n2 = n2  u1 = u1  u2 = u2
    w1 = w1  w2 = w2
    erase = erase  consent = consent  progress = progress  initiate = initiate
    stats = stats  profile = profile  view = view
    None = None
    Process = {p1}
    Verify = {v1}
    Nullifier = {n1}
    User = {u1}
    Named = {v1}
    Wallet = {w1}
    MaxRequests = 2
    MaxFaults = 0
    Request = {erase, profile}
    Valid = {erase, profile}
    NullifierOf <- TheNullifierOf
    UserOf <- TheUserOf
    VerifiedBy <- TheVerifiedBy
    WalletOf <- TheWalletOf
    Kind <- TheKind
    Cookie <- TheCookie
    ServedBy <- OneServer
    Pays <- ThePays
INVARIANT ErasureIsComplete
CHECK_DEADLOCK FALSE
