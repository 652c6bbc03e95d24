------------------------------- MODULE DbLock -------------------------------
(***************************************************************************)
(* The two locks in front of data/database.json (src/lib/database.ts):     *)
(*                                                                         *)
(*  - the row locks, an in-memory Map of every Node process, taken by      *)
(*    withDbTransaction;                                                   *)
(*  - the lockfile data/database.lock, shared by all processes (the web    *)
(*    server and the queue workers), created with open(.., 'wx'), unlinked *)
(*    to release, and unlinked by ANYONE who finds it older than           *)
(*    LOCK_MAX_AGE_MS.                                                     *)
(*                                                                         *)
(* One action per system call: what other processes do between a stat and  *)
(* the unlink that follows it is the point of the model.  The database is  *)
(* the set of transactions whose effects it holds; how it is laid out in   *)
(* files is the subject of DbFile.                                         *)
(*                                                                         *)
(* Time is abstract.  A deadline may have passed whenever the code looks   *)
(* at one; a lockfile passes LOCK_MAX_AGE_MS only when its creator crashed *)
(* or is one of the transactions in Overdue.                               *)
(***************************************************************************)
EXTENDS Naturals, FiniteSets

CONSTANTS
    Process,     \* Node processes that import database.ts
    Txn,         \* calls of withDbTransaction or withDbSnapshot
    Snapshot,    \* those of Txn that are calls of withDbSnapshot
    ProcOf,      \* the process each call runs in
    LockKeys,    \* TransactionOptions.lockKeys of each call
    Key,         \* row lock names
    Sqlite,      \* DB_DIALECT = 'sqlite', the default
    GlobalKey,   \* 'sqlite:database'
    Overdue,     \* calls that may hold a lock longer than LOCK_MAX_AGE_MS
    NoTxn,       \* no lockfile
    Attempts,    \* RETRY_ATTEMPTS
    MaxRounds,   \* bound: rounds of withDbTransaction's loop, for each call
    MaxFaults    \* bound: process crashes and unlinks of the lockfile that fail

ASSUME DbLockAssumption ==
    /\ Snapshot \subseteq Txn
    /\ Overdue \subseteq Txn
    /\ ProcOf \in [Txn -> Process]
    /\ LockKeys \in [Txn -> SUBSET Key]
    /\ GlobalKey \in Key
    /\ Sqlite \in BOOLEAN
    /\ NoTxn \notin Txn
    /\ Attempts \in Nat \ {0}
    /\ MaxRounds \in [Txn -> Nat \ {0}]
    /\ MaxFaults \in Nat

VARIABLES
    pc,         \* where each call stands
    attempt,    \* acquireLock's attempt, from 0
    round,      \* withDbTransaction's attempt, from 1
    rowLocks,   \* inMemoryRowLocks of each process: the locked keys ...
    rowOld,     \* ... and those locked for more than LOCK_MAX_AGE_MS
    held,       \* acquireRowLocks' "acquired": the keys each call will release
    lockFile,   \* which call created the lockfile on disk
    lockOld,    \* its mtime is more than LOCK_MAX_AGE_MS ago
    stuck,      \* how many times it could not be unlinked
    watchdog,   \* where each process's releaseStaleFileLock stands
    db,         \* transactions whose effects the database holds
    seen,       \* the database each call has loaded
    result,     \* what each call has achieved
    crashes,
    \* history, read by no guard
    expired,    \* some lockfile has grown older than LOCK_MAX_AGE_MS
    usurped,    \* someone unlinked the lockfile of a call still using it
    rowExpired  \* a watchdog has dropped a row lock

rowVars  == <<rowLocks, rowOld, held>>
fileVars == <<lockFile, lockOld, stuck, expired, usurped>>
dataVars == <<db, seen, result>>
vars == <<pc, attempt, round, rowVars, fileVars, watchdog, dataVars, crashes,
          rowExpired>>

PC == {"idle", "rows", "open", "stat", "unlinkOld", "giveUp", "load", "write",
       "release", "done", "failed", "dead"}

Critical == {"load", "write", "release"}  \* inside withDbLock's operation
Final    == {"done", "failed", "dead"}

InCritical(t) == pc[t] \in Critical

\* augmentLockKeys: with the sqlite dialect all keys of a process come under one.
AugmentedKeys(t) == LockKeys[t] \cup (IF Sqlite THEN {GlobalKey} ELSE {})

Init ==
    /\ pc = [t \in Txn |-> "idle"]
    /\ attempt = [t \in Txn |-> 0]
    /\ round = [t \in Txn |-> 0]
    /\ rowLocks = [p \in Process |-> {}]
    /\ rowOld = [p \in Process |-> {}]
    /\ held = [t \in Txn |-> {}]
    /\ lockFile = NoTxn
    /\ lockOld = FALSE
    /\ stuck = 0
    /\ watchdog = [p \in Process |-> "idle"]
    /\ db = {}
    /\ seen = [t \in Txn |-> {}]
    /\ result = [t \in Txn |-> "none"]
    /\ crashes = 0
    /\ expired = FALSE
    /\ usurped = FALSE
    /\ rowExpired = FALSE

----------------------------------------------------------------------------
(* Row locks.                                                              *)

\* A snapshot goes straight to the lockfile, a transaction to its row locks.
Begin(t) ==
    /\ pc[t] = "idle"
    /\ pc' = [pc EXCEPT ![t] = IF t \in Snapshot THEN "open" ELSE "rows"]
    /\ round' = [round EXCEPT ![t] = 1]
    /\ UNCHANGED <<attempt, rowVars, fileVars, watchdog, dataVars, crashes,
                   rowExpired>>

\* Fault: the event loop runs between the look at the keys and their taking.
TakeRows_Unchecked(t) ==
    LET p == ProcOf[t]
    IN  /\ pc[t] = "rows"
        /\ rowLocks' = [rowLocks EXCEPT ![p] = @ \cup AugmentedKeys(t)]
        /\ held' = [held EXCEPT ![t] = AugmentedKeys(t)]
        /\ pc' = [pc EXCEPT ![t] = "open"]
        /\ UNCHANGED <<attempt, round, rowOld, fileVars, watchdog, dataVars, crashes,
                       rowExpired>>

\* acquireRowLocks: all keys in one turn of the event loop, or none.
TakeRows(t) ==
    LET p == ProcOf[t]
    IN  /\ pc[t] = "rows"
        /\ AugmentedKeys(t) \cap rowLocks[p] = {}
        /\ rowLocks' = [rowLocks EXCEPT ![p] = @ \cup AugmentedKeys(t)]
        /\ held' = [held EXCEPT ![t] = AugmentedKeys(t)]
        /\ pc' = [pc EXCEPT ![t] = "open"]
        /\ UNCHANGED <<attempt, round, rowOld, fileVars, watchdog, dataVars, crashes,
                       rowExpired>>

\* ROW_LOCK_TIMEOUT: the deadline is looked at before the keys are.
RowTimeout(t) ==
    /\ pc[t] = "rows"
    /\ pc' = [pc EXCEPT ![t] = "failed"]
    /\ round' = [round EXCEPT ![t] = 0]
    /\ result' = [result EXCEPT ![t] = "error"]
    /\ UNCHANGED <<attempt, rowVars, fileVars, watchdog, db, seen,
                   crashes, rowExpired>>

\* releaseRowLocks deletes the keys it took by name, whoever holds them now.
ReleaseRows(t) ==
    LET p == ProcOf[t]
    IN  /\ rowLocks' = [rowLocks EXCEPT ![p] = @ \ held[t]]
        /\ rowOld' = [rowOld EXCEPT ![p] = @ \ held[t]]
        /\ held' = [held EXCEPT ![t] = {}]

----------------------------------------------------------------------------
(* The lockfile.                                                           *)

\* unlink(LOCK_PATH) by `who' (a call, or NoTxn for a watchdog): the file goes,
\* whoever created it.  ENOENT is ignored, and so is any other error: the file stays.
UnlinkLock(who) ==
    /\ \/ /\ lockFile' = NoTxn
          /\ lockOld' = FALSE
          /\ usurped' = (usurped \/ \E v \in Txn \ {who} : lockFile = v /\ InCritical(v))
          /\ UNCHANGED stuck
       \/ /\ lockFile # NoTxn /\ crashes + stuck < MaxFaults
          /\ stuck' = stuck + 1
          /\ UNCHANGED <<lockFile, lockOld, usurped>>
    /\ UNCHANGED expired

\* Fault: open(LOCK_PATH, 'w').
OpenLock_NotExclusive(t) ==
    /\ pc[t] = "open"
    /\ lockFile' = t
    /\ lockOld' = FALSE
    /\ pc' = [pc EXCEPT ![t] = "load"]
    /\ attempt' = [attempt EXCEPT ![t] = 0]
    /\ UNCHANGED <<round, rowVars, stuck, expired, usurped, watchdog, dataVars, crashes,
                   rowExpired>>

\* open(LOCK_PATH, 'wx') creates the file ...
OpenLock(t) ==
    /\ pc[t] = "open"
    /\ lockFile = NoTxn
    /\ lockFile' = t
    /\ lockOld' = FALSE
    /\ pc' = [pc EXCEPT ![t] = "load"]
    /\ attempt' = [attempt EXCEPT ![t] = 0]
    /\ UNCHANGED <<round, rowVars, stuck, expired, usurped, watchdog, dataVars, crashes,
                   rowExpired>>

\* ... or fails, with EEXIST or, whether the file is there or not, with EACCES: the
\* loop goes on ...
OpenBusy(t) ==
    /\ pc[t] = "open"
    /\ pc' = [pc EXCEPT ![t] = "stat"]
    /\ UNCHANGED <<attempt, round, rowVars, fileVars, watchdog, dataVars, crashes,
                   rowExpired>>

\* ... or with any other error, which nobody retries: the caller gets it.
OpenFails(t) ==
    /\ pc[t] = "open"
    /\ ReleaseRows(t)
    /\ pc' = [pc EXCEPT ![t] = "failed"]
    /\ attempt' = [attempt EXCEPT ![t] = 0]
    /\ round' = [round EXCEPT ![t] = 0]
    /\ result' = [result EXCEPT ![t] = "error"]
    /\ UNCHANGED <<fileVars, watchdog, db, seen, crashes, rowExpired>>

\* Fault: the attempts are counted and never limited.
NextAttempt_Unlimited(t) ==
    /\ attempt' = [attempt EXCEPT ![t] = @ + 1]
    /\ pc' = [pc EXCEPT ![t] = "open"]

\* What the for loop of acquireLock does at the end of an attempt.
NextAttempt(t) ==
    \/ /\ attempt[t] + 1 < Attempts
       /\ attempt' = [attempt EXCEPT ![t] = @ + 1]
       /\ pc' = [pc EXCEPT ![t] = "open"]
    \/ /\ attempt[t] + 1 = Attempts
       /\ attempt' = [attempt EXCEPT ![t] = 0]
       /\ pc' = [pc EXCEPT ![t] = "giveUp"]

\* Fault: the age of the lockfile is not compared with LOCK_MAX_AGE_MS.
StatOld_AnyAge(t) ==
    /\ pc[t] = "stat"
    /\ lockFile # NoTxn
    /\ pc' = [pc EXCEPT ![t] = "unlinkOld"]
    /\ UNCHANGED <<attempt, round, rowVars, fileVars, watchdog, dataVars, crashes,
                   rowExpired>>

\* The lockfile is obsolete: acquireLock is going to unlink it.
StatOld(t) ==
    /\ pc[t] = "stat"
    /\ lockFile # NoTxn /\ lockOld
    /\ pc' = [pc EXCEPT ![t] = "unlinkOld"]
    /\ UNCHANGED <<attempt, round, rowVars, fileVars, watchdog, dataVars, crashes,
                   rowExpired>>

\* It is recent, or gone, or the stat fails: wait, then try again.
StatYoung(t) ==
    /\ pc[t] = "stat"
    /\ NextAttempt(t)
    /\ UNCHANGED <<round, rowVars, fileVars, watchdog, dataVars, crashes, rowExpired>>

\* The same, with acquireLock's own deadline behind us.
StatLate(t) ==
    /\ pc[t] = "stat"
    /\ pc' = [pc EXCEPT ![t] = "giveUp"]
    /\ attempt' = [attempt EXCEPT ![t] = 0]
    /\ UNCHANGED <<round, rowVars, fileVars, watchdog, dataVars, crashes,
                   rowExpired>>

UnlinkOld(t) ==
    /\ pc[t] = "unlinkOld"
    /\ UnlinkLock(t)
    /\ NextAttempt(t)
    /\ UNCHANGED <<round, rowVars, watchdog, dataVars, crashes, rowExpired>>

\* EEXIST or EACCES reaches withDbTransaction before its deadline: the delay runs with
\* the row locks still held, then they are released and the loop starts over.
Retry(t) ==
    /\ pc[t] = "giveUp"
    /\ t \notin Snapshot
    /\ round[t] < MaxRounds[t]
    /\ round' = [round EXCEPT ![t] = @ + 1]
    /\ ReleaseRows(t)
    /\ pc' = [pc EXCEPT ![t] = "rows"]
    /\ UNCHANGED <<attempt, fileVars, watchdog, dataVars, crashes, rowExpired>>

\* Fault: the last EEXIST is swallowed, and the caller waits for ever.
Abort_Swallowed(t) ==
    /\ pc[t] = "giveUp"
    /\ round[t] < MaxRounds[t]
    /\ ReleaseRows(t)
    /\ pc' = [pc EXCEPT ![t] = "failed"]
    /\ round' = [round EXCEPT ![t] = 0]
    /\ result' = [result EXCEPT ![t] = "error"]
    /\ UNCHANGED <<attempt, fileVars, watchdog, db, seen, crashes, rowExpired>>

\* Past the deadline, or in a snapshot: the caller gets the error.
Abort(t) ==
    /\ pc[t] = "giveUp"
    /\ ReleaseRows(t)
    /\ pc' = [pc EXCEPT ![t] = "failed"]
    /\ round' = [round EXCEPT ![t] = 0]
    /\ result' = [result EXCEPT ![t] = "error"]
    /\ UNCHANGED <<attempt, fileVars, watchdog, db, seen, crashes, rowExpired>>

----------------------------------------------------------------------------
(* Inside the lock.                                                        *)

\* Fault: the document read at start-up is used again instead of the file.
Load_Cached(t) ==
    /\ pc[t] = "load"
    /\ seen' = [seen EXCEPT ![t] = {}]
    /\ result' = [result EXCEPT ![t] = IF t \in Snapshot THEN "ok" ELSE @]
    /\ pc' = [pc EXCEPT ![t] = IF t \in Snapshot THEN "release" ELSE "write"]
    /\ UNCHANGED <<attempt, round, rowVars, fileVars, watchdog, db, crashes, rowExpired>>

Load(t) ==
    /\ pc[t] = "load"
    /\ seen' = [seen EXCEPT ![t] = IF t \in Snapshot THEN @ ELSE db]
    /\ result' = [result EXCEPT ![t] = IF t \in Snapshot THEN "ok" ELSE @]
    /\ pc' = [pc EXCEPT ![t] = IF t \in Snapshot THEN "release" ELSE "write"]
    /\ UNCHANGED <<attempt, round, rowVars, fileVars, watchdog, db, crashes, rowExpired>>

\* persistDb writes the whole document: what was loaded, with this call's effects.
Persist(t) ==
    /\ pc[t] = "write"
    /\ db' = seen[t] \cup {t}
    /\ seen' = [seen EXCEPT ![t] = {}]
    /\ result' = [result EXCEPT ![t] = "ok"]
    /\ pc' = [pc EXCEPT ![t] = "release"]
    /\ UNCHANGED <<attempt, round, rowVars, fileVars, watchdog, crashes, rowExpired>>

\* loadDb, the operation or persistDb throws and nothing is written: either an error
\* the caller gets (TOURNAMENT_NOT_FOUND and the like), or one that withDbTransaction
\* takes for contention (EACCES from the file system), which leaves no result yet.
OperationThrows(t) ==
    /\ pc[t] \in {"load", "write"}
    /\ \/ result' = [result EXCEPT ![t] = "error"]
       \/ UNCHANGED result
    /\ seen' = [seen EXCEPT ![t] = {}]
    /\ pc' = [pc EXCEPT ![t] = "release"]
    /\ UNCHANGED <<attempt, round, rowVars, fileVars, watchdog, db, crashes, rowExpired>>

\* releaseLock in withDbLock's finally, then releaseRowLocks in
\* withDbTransaction's.  (Only handle.close() runs between the two.)
ReleaseLock(t) ==
    /\ pc[t] = "release"
    /\ result[t] # "none"
    /\ UnlinkLock(t)
    /\ ReleaseRows(t)
    /\ pc' = [pc EXCEPT ![t] = IF result[t] = "ok" THEN "done" ELSE "failed"]
    /\ round' = [round EXCEPT ![t] = 0]
    /\ UNCHANGED <<attempt, watchdog, dataVars, crashes, rowExpired>>

\* The same finally, when what was thrown is taken for contention.
ReleaseRefused(t) ==
    /\ pc[t] = "release"
    /\ result[t] = "none"
    /\ UnlinkLock(t)
    /\ pc' = [pc EXCEPT ![t] = "giveUp"]
    /\ UNCHANGED <<attempt, round, rowVars, watchdog, dataVars, crashes, rowExpired>>

----------------------------------------------------------------------------
(* Watchdogs, time and crashes.                                            *)

\* Fault: the watchdog looks after the row locks only.
WatchdogTick_RowsOnly(p) ==
    /\ watchdog[p] = "idle"
    /\ rowLocks' = [rowLocks EXCEPT ![p] = @ \ rowOld[p]]
    /\ rowOld' = [rowOld EXCEPT ![p] = {}]
    /\ rowExpired' = (rowExpired \/ rowOld[p] # {})
    /\ UNCHANGED <<pc, attempt, round, held, fileVars, watchdog, dataVars, crashes>>

\* A tick of the interval: releaseStaleRowLocks, then the stat of
\* releaseStaleFileLock, which may fail.  (Ticks come at any time, so the one that has
\* no old key to drop stands for a stat that comes later than its own tick.)
WatchdogTick(p) ==
    /\ watchdog[p] = "idle"
    /\ rowLocks' = [rowLocks EXCEPT ![p] = @ \ rowOld[p]]
    /\ rowOld' = [rowOld EXCEPT ![p] = {}]
    /\ rowExpired' = (rowExpired \/ rowOld[p] # {})
    /\ \/ /\ lockFile # NoTxn /\ lockOld
          /\ watchdog' = [watchdog EXCEPT ![p] = "unlink"]
       \/ UNCHANGED watchdog
    /\ UNCHANGED <<pc, attempt, round, held, fileVars, dataVars, crashes>>

WatchdogUnlink(p) ==
    /\ watchdog[p] = "unlink"
    /\ UnlinkLock(NoTxn)
    /\ watchdog' = [watchdog EXCEPT ![p] = "idle"]
    /\ UNCHANGED <<pc, attempt, round, rowVars, dataVars, crashes, rowExpired>>

\* The lockfile passes LOCK_MAX_AGE_MS.
LockGrowsOld ==
    /\ lockFile # NoTxn
    /\ lockFile \in Overdue \/ ~InCritical(lockFile)
    /\ ~lockOld
    /\ lockOld' = TRUE
    /\ expired' = TRUE
    /\ UNCHANGED <<pc, attempt, round, rowVars, lockFile, stuck, usurped, watchdog,
                   dataVars, crashes, rowExpired>>

\* So does a row lock.
RowGrowsOld(t, k) ==
    LET p == ProcOf[t]
    IN  /\ t \in Overdue
        /\ k \in (held[t] \cap rowLocks[p]) \ rowOld[p]
        /\ rowOld' = [rowOld EXCEPT ![p] = @ \cup {k}]
        /\ UNCHANGED <<pc, attempt, round, rowLocks, held, fileVars, watchdog, dataVars,
                       crashes, rowExpired>>

\* A process dies and is started again: its memory is gone, the lockfile is not.
Crash(p) ==
    LET Killed == {t \in Txn : ProcOf[t] = p /\ pc[t] \notin Final \cup {"idle"}}
        Forget(f, v) == [t \in Txn |-> IF t \in Killed THEN v ELSE f[t]]
    IN  /\ crashes + stuck < MaxFaults
        /\ Killed # {}
        /\ crashes' = crashes + 1
        /\ pc' = Forget(pc, "dead")
        /\ attempt' = Forget(attempt, 0)
        /\ round' = Forget(round, 0)
        /\ held' = Forget(held, {})
        /\ seen' = Forget(seen, {})
        /\ rowLocks' = [rowLocks EXCEPT ![p] = {}]
        /\ rowOld' = [rowOld EXCEPT ![p] = {}]
        /\ watchdog' = [watchdog EXCEPT ![p] = "idle"]
        /\ UNCHANGED <<fileVars, db, result, rowExpired>>

----------------------------------------------------------------------------

\* The steps of a call that has begun.
Step(t) ==
    \/ TakeRows(t) \/ RowTimeout(t)
    \/ OpenLock(t) \/ OpenBusy(t) \/ OpenFails(t)
    \/ StatOld(t) \/ StatYoung(t) \/ StatLate(t)
    \/ UnlinkOld(t) \/ Retry(t) \/ Abort(t)
    \/ Load(t) \/ Persist(t) \/ OperationThrows(t)
    \/ ReleaseLock(t) \/ ReleaseRefused(t)

WatchdogStep(p) == WatchdogTick(p) \/ WatchdogUnlink(p)

Next ==
    \/ \E t \in Txn : Begin(t) \/ Step(t)
    \/ \E t \in Txn, k \in Key : RowGrowsOld(t, k)
    \/ \E p \in Process : WatchdogStep(p) \/ Crash(p)
    \/ LockGrowsOld

Spec == Init /\ [][Next]_vars

\* The event loop runs every continuation and every interval, and time passes.
Fairness ==
    /\ \A t \in Txn : WF_vars(Step(t))
    /\ \A p \in Process : WF_vars(WatchdogStep(p))
    /\ WF_vars(LockGrowsOld)

FairSpec == Spec /\ Fairness

----------------------------------------------------------------------------
(* Properties.                                                             *)

\* Every variable stays in its domain.
TypeOK ==
    /\ pc \in [Txn -> PC]
    /\ attempt \in [Txn -> 0..Attempts]
    /\ round \in [Txn -> Nat] /\ \A t \in Txn : round[t] \in 0..MaxRounds[t]
    /\ rowLocks \in [Process -> SUBSET Key]
    /\ rowOld \in [Process -> SUBSET Key]
    /\ held \in [Txn -> SUBSET Key]
    /\ lockFile \in Txn \cup {NoTxn}
    /\ lockOld \in BOOLEAN
    /\ stuck \in 0..MaxFaults
    /\ watchdog \in [Process -> {"idle", "unlink"}]
    /\ db \in SUBSET Txn
    /\ seen \in [Txn -> SUBSET Txn]
    /\ result \in [Txn -> {"none", "ok", "error"}]
    /\ crashes \in 0..MaxFaults
    /\ expired \in BOOLEAN
    /\ usurped \in BOOLEAN
    /\ rowExpired \in BOOLEAN

\* withDbLock excludes: two calls are inside it at once only after somebody has
\* unlinked a lockfile its creator was still using.  Crashes, retries, give-ups and
\* a takeover of a dead call's lockfile do not break it by themselves.
MutualExclusion ==
    ~usurped => \A t, u \in Txn : InCritical(t) /\ InCritical(u) => t = u

\* No lost update: what a transaction has reported as written is in the database,
\* however many whole-document writes of other processes came after it.
CommittedSurvive ==
    ~usurped => \A t \in Txn \ Snapshot : result[t] = "ok" => t \in db

\* Nobody's lockfile is taken away while every lockfile is younger than
\* LOCK_MAX_AGE_MS: neither a late finally nor a watchdog does it.
UsurpedOnlyAfterExpiry == usurped => expired

\* Two transactions of one process never hold a common row lock, unless a watchdog
\* has dropped one: waiting, retrying and aborting leave no key behind or stolen.
RowExclusion ==
    ~rowExpired =>
        \A t, u \in Txn :
            /\ held[t] \subseteq rowLocks[ProcOf[t]]
            /\ t # u /\ ProcOf[t] = ProcOf[u] => held[t] \cap held[u] = {}

\* The reading of docs/data-layer-review.md: mutual exclusion, with no condition.
GlobalMutualExclusion ==
    \A t, u \in Txn : InCritical(t) /\ InCritical(u) => t = u

\* Every call that has begun ends, committed, with an error, or with its process: again
\* and again none is under way (each is made once, and an end is final).
EveryCallEnds == []<>(\A t \in Txn : pc[t] \in Final \cup {"idle"})

\* A lockfile does not stay for ever, not even one whose creator crashed.
LockFileGoesAway == []<>(lockFile = NoTxn)
=============================================================================
