\* The default (sqlite) dialect, nobody slow, one crash.
CONSTANTS
    web = web
    worker = worker
    t1 = t1
    t2 = t2
    t3 = t3
    global = global
    tournamentKey = tournamentKey
    NoTxn = NoTxn
    Process = {web, worker}
    Txn = {t1, t2, t3}
    Snapshot = {}
    ProcOf <- MCProcOf
    LockKeys <- MCLockKeys
    Key = {global, tournamentKey}
    GlobalKey = global
    Sqlite = TRUE
    Overdue = {}
    Attempts = 2
    MaxRounds <- MCMaxRounds
    MaxFaults = 1
SPECIFICATION Spec
INVARIANT GlobalMutualExclusion
