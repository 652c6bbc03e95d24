SPECIFICATION Spec
CONSTANTS
    p1 = p1  p2 = p2  v1 = v1  v2 = v2  v3 = v3  n1 = n1  n2 = n2  u1 = u1  u2 = u2
    w1 = w1  w2 = w2
    erase = erase  consent = consent  progress = progress  initiate = initiate
    stats = stats  profile = profile  view = view
    None = None
    Process = {p1, p2}
    Verify = {v1, v2}
    Nullifier = {n1}
    User = {u1}
    Named = {v2}
    Wallet = {w1}
    MaxRequests = 3
    MaxFaults = 1
    Request = {erase, progress, consent, initiate, stats, profile}
    Valid = {erase, progress, consent, initiate, stats, profile}
    NullifierOf <- TheNullifierOf
    UserOf <- TheUserOf
    VerifiedBy <- TheVerifiedBy
    WalletOf <- TheWalletOf
    Kind <- TheKind
    Cookie <- TheCookie
    ServedBy <- TheServedBy
    Pays <- ThePays
INVARIANTS TypeOK OneSessionPerPerson ServedIsStored ErasedNotServed ErasedStayErased
CHECK_DEADLOCK FALSE
