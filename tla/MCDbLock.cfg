\* Postgres dialect (row locks per key), one call that may outlive
\* LOCK_MAX_AGE_MS, one crash or unlink that fails.
CONSTANTS
    web = web
    worker = worker
    t1 = t1
    t2 = t2
    t3 = t3
    global = global
    tournamentKey = tournamentKey
    NoTxn = NoTxn
    Process = {web, worker}
    Txn = {t1, t2, t3}
    Snapshot = {}
    ProcOf <- MCProcOf
    LockKeys <- MCLockKeys
    Key = {global, tournamentKey}
    GlobalKey = global
    Sqlite = FALSE
    Overdue = {t1}
    Attempts = 2
    MaxRounds <- MCMaxRounds
    MaxFaults = 1
SPECIFICATION FairSpec
INVARIANTS
    TypeOK
    MutualExclusion
    CommittedSurvive
    UsurpedOnlyAfterExpiry
    RowExclusion
PROPERTIES
    EveryCallEnds
    LockFileGoesAway
