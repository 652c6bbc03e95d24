SPECIFICATION QueueSpec
CONSTANTS
    Process = {p1, p2}
    Registered = {1, 2}
    MaxSeats = 3
    MaxWallets = 2
    Concurrency = 1
    attempts = 2
    maxRetries = 1
    MaxStalls = 1
    MaxEvents = 3
INVARIANT AnnouncedOnce
PROPERTY EndAnnounced
CHECK_DEADLOCK FALSE
