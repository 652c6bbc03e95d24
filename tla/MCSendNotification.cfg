SPECIFICATION Spec
CONSTANTS
    c1 = c1  c2 = c2  k1 = k1  k2 = k2  n1 = n1
    None = None
    l1 = l1
    Listed = {l1}
    Process = {p1, p2}
    Registered = {0}
    MaxSeats = 0
    MaxWallets = 1
    Concurrency = 1
    attempts = 2
    maxRetries = 1
    MaxStalls = 1
    MaxEvents = 3
    Call = {c1, c2}
    Nonce = {n1}
    ApiKey = {k1, k2}
    Expiring = {k2}
    KeyOf <- TheKeys
    NonceOf <- TheNonces
    Admitted = {c1, c2}
    WellFormed = {c1, c2}
    Clean = {c1, c2}
    maxRequests = 1
    maxPosts = 2
INVARIANTS TypeOK NonceOnce OneKeyInForce
CHECK_DEADLOCK FALSE
