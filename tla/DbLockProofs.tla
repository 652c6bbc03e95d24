----------------------------- MODULE DbLockProofs -----------------------------
(***************************************************************************)
(* Proofs about DbLock, for any number of processes, calls, row keys,      *)
(* attempts, rounds and crashes.  The inductive invariant is TypeOK and    *)
(* the named parts below; each theorem at the end reads one property off   *)
(* it.                                                                     *)
(***************************************************************************)
EXTENDS DbLock, TLAPS

\* A call inside the lock is the creator of the lockfile on disk.
Owned == ~usurped => \A t \in Txn : InCritical(t) => lockFile = t

\* What a call is about to write over is what it has read.
Fresh ==
    \A t \in Txn : pc[t] = "write" => t \notin Snapshot /\ (~usurped => seen[t] = db)

\* Whoever is about to unlink a lockfile found one too old at some time.
Aged ==
    /\ lockOld => expired
    /\ usurped => expired
    /\ \A t \in Txn : pc[t] = "unlinkOld" => expired
    /\ \A p \in Process : watchdog[p] = "unlink" => expired

\* A call that waits for its row locks, or has ended, holds none.
NothingHeld == \A t \in Txn : pc[t] \in Final \cup {"idle", "rows"} => held[t] = {}

IInv ==
    /\ TypeOK
    /\ Owned
    /\ Fresh
    /\ CommittedSurvive
    /\ Aged
    /\ NothingHeld
    /\ RowExclusion

----------------------------------------------------------------------------
(* Initialisation and types.                                               *)

\* The initial state satisfies every part.
LEMMA InitIInv == Init => IInv
<1> SUFFICES ASSUME Init PROVE IInv
    OBVIOUS
<1>1. TypeOK
    <2>1. \A t \in Txn : round[t] \in 0..MaxRounds[t]
        BY DbLockAssumption DEF Init
    <2>2. attempt \in [Txn -> 0..Attempts]
          /\ crashes \in 0..MaxFaults /\ stuck \in 0..MaxFaults
        BY DbLockAssumption DEF Init
    <2>3. QED
        BY <2>1, <2>2 DEF Init, TypeOK, PC
<1>2. Owned /\ Fresh /\ CommittedSurvive /\ Aged /\ NothingHeld
    BY DEF Init, Owned, Fresh, CommittedSurvive, Aged, NothingHeld, InCritical, Critical
<1>3. RowExclusion
    BY DbLockAssumption DEF Init, RowExclusion
<1>4. QED
    BY <1>1, <1>2, <1>3 DEF IInv

\* The keys a call takes are row keys.
LEMMA KeysType == \A t \in Txn : ProcOf[t] \in Process /\ AugmentedKeys(t) \subseteq Key
BY DbLockAssumption DEF AugmentedKeys

\* Releasing row locks keeps the three row variables in their domains.
LEMMA ReleaseRowsType ==
    ASSUME TypeOK, NEW t \in Txn, ReleaseRows(t)
    PROVE  /\ rowLocks' \in [Process -> SUBSET Key]
           /\ rowOld' \in [Process -> SUBSET Key]
           /\ held' \in [Txn -> SUBSET Key]
BY KeysType DEF TypeOK, ReleaseRows

\* So does unlinking the lockfile, for its own.
LEMMA UnlinkLockType ==
    ASSUME TypeOK, NEW who, UnlinkLock(who)
    PROVE  /\ lockFile' \in Txn \cup {NoTxn} /\ stuck' \in 0..MaxFaults
           /\ {lockOld', expired', usurped'} \subseteq BOOLEAN
<1>1. usurped' \in BOOLEAN
    BY Zenon DEF UnlinkLock, TypeOK
<1>2. stuck' \in 0..MaxFaults
    BY DbLockAssumption DEF UnlinkLock, TypeOK
<1>3. QED
    BY <1>1, <1>2 DEF UnlinkLock, TypeOK

\* An unlink either leaves the lockfile as it is or says whether it was in use.
LEMMA UnlinkCases ==
    ASSUME NEW who, UnlinkLock(who)
    PROVE  \/ lockFile' = lockFile /\ usurped' = usurped
           \/ usurped' = (usurped \/ \E v \in Txn \ {who} : lockFile = v /\ InCritical(v))
BY Zenon DEF UnlinkLock

\* Every call has at least one round.
LEMMA MaxRoundsType == \A t \in Txn : MaxRounds[t] \in Nat /\ MaxRounds[t] >= 1
BY DbLockAssumption

\* A new value for one call's round keeps the rounds in their domain.
LEMMA RoundType ==
    ASSUME TypeOK, NEW t \in Txn, NEW n \in 0..MaxRounds[t], round' = [round EXCEPT ![t] = n]
    PROVE  round' \in [Txn -> Nat] /\ \A u \in Txn : round'[u] \in 0..MaxRounds[u]
<1>1. \A u \in Txn : MaxRounds[u] \in Nat
    BY MaxRoundsType
<1>2. n \in Nat
    BY <1>1
<1>3. round \in [Txn -> Nat] /\ \A u \in Txn : round[u] \in 0..MaxRounds[u]
    BY DEF TypeOK
<1>4. \A u \in Txn : round'[u] = IF u = t THEN n ELSE round[u]
    BY <1>3
<1>5. QED
    BY <1>2, <1>3, <1>4

\* NextAttempt keeps the counter within Attempts.
LEMMA NextAttemptType ==
    ASSUME TypeOK, NEW t \in Txn, NextAttempt(t)
    PROVE  attempt' \in [Txn -> 0..Attempts] /\ pc' \in [Txn -> PC]
BY DbLockAssumption DEF TypeOK, NextAttempt, PC

\* Every step keeps every variable in its domain.
LEMMA TypeStep == TypeOK /\ [Next]_vars => TypeOK'
<1> SUFFICES ASSUME TypeOK, [Next]_vars PROVE TypeOK'
    OBVIOUS
<1>1. CASE \E t \in Txn : Begin(t)
    <2> PICK t \in Txn : Begin(t)
        BY <1>1
    <2>1. 1 \in 0..MaxRounds[t]
        BY MaxRoundsType DEF Begin, TypeOK
    <2>2. round' \in [Txn -> Nat] /\ \A u \in Txn : round'[u] \in 0..MaxRounds[u]
        BY <2>1, RoundType DEF Begin, TypeOK
    <2>3. attempt' \in [Txn -> 0..Attempts]
        BY DbLockAssumption DEF Begin, TypeOK
    <2>4. QED
        BY <2>2, <2>3, DbLockAssumption
           DEF Begin, TypeOK, PC, rowVars, fileVars, dataVars
<1>2. CASE \E t \in Txn : TakeRows(t)
    BY <1>2, KeysType DEF TakeRows, TypeOK, PC, rowVars, fileVars, dataVars
<1>3. CASE \E t \in Txn : RowTimeout(t)
    <2> PICK t \in Txn : RowTimeout(t)
        BY <1>3
    <2>1. 0 \in 0..MaxRounds[t]
        BY MaxRoundsType DEF RowTimeout, TypeOK
    <2>2. round' \in [Txn -> Nat] /\ \A u \in Txn : round'[u] \in 0..MaxRounds[u]
        BY <2>1, RoundType DEF RowTimeout, TypeOK
    <2>3. attempt' \in [Txn -> 0..Attempts]
        BY DbLockAssumption DEF RowTimeout, TypeOK
    <2>4. QED
        BY <2>2, <2>3, DbLockAssumption
           DEF RowTimeout, TypeOK, PC, rowVars, fileVars, dataVars
<1>4. CASE \E t \in Txn : OpenLock(t)
    <2> PICK t \in Txn : OpenLock(t)
        BY <1>4
    <2>1. attempt' \in [Txn -> 0..Attempts]
        BY DbLockAssumption DEF OpenLock, TypeOK
    <2>2. round' \in [Txn -> Nat] /\ \A u \in Txn : round'[u] \in 0..MaxRounds[u]
        BY DEF OpenLock, TypeOK
    <2>3. QED
        BY <2>1, <2>2 DEF OpenLock, TypeOK, PC, rowVars, fileVars, dataVars
<1>5. CASE \E t \in Txn : OpenBusy(t)
    BY <1>5, DbLockAssumption
       DEF OpenBusy, TypeOK, PC, Final, rowVars, fileVars, dataVars
<1>6. CASE \E t \in Txn : StatOld(t)
    BY <1>6, DbLockAssumption
       DEF StatOld, TypeOK, PC, Final, rowVars, fileVars, dataVars
<1>7. CASE \E t \in Txn : StatYoung(t)
    BY <1>7, NextAttemptType, DbLockAssumption
       DEF StatYoung, TypeOK, PC, Final, rowVars, fileVars, dataVars
<1>8. CASE \E t \in Txn : StatLate(t)
    BY <1>8, DbLockAssumption
       DEF StatLate, TypeOK, PC, Final, rowVars, fileVars, dataVars
<1>9. CASE \E t \in Txn : UnlinkOld(t)
    BY <1>9, NextAttemptType, UnlinkLockType, DbLockAssumption
       DEF UnlinkOld, UnlinkLock, TypeOK, PC, Final, rowVars, fileVars, dataVars
<1>10. CASE \E t \in Txn : Retry(t)
    <2> PICK t \in Txn : Retry(t)
        BY <1>10
    <2>1. round[t] + 1 \in 0..MaxRounds[t]
        BY MaxRoundsType DEF Retry, TypeOK
    <2>2. round' \in [Txn -> Nat] /\ \A u \in Txn : round'[u] \in 0..MaxRounds[u]
        BY <2>1, RoundType DEF Retry, TypeOK
    <2>3. attempt' \in [Txn -> 0..Attempts]
        BY DbLockAssumption DEF Retry, TypeOK
    <2>4. QED
        BY <2>2, <2>3, DbLockAssumption, ReleaseRowsType
           DEF Retry, TypeOK, PC, rowVars, fileVars, dataVars
<1>11. CASE \E t \in Txn : Abort(t)
    <2> PICK t \in Txn : Abort(t)
        BY <1>11
    <2>1. 0 \in 0..MaxRounds[t]
        BY MaxRoundsType DEF Abort, TypeOK
    <2>2. round' \in [Txn -> Nat] /\ \A u \in Txn : round'[u] \in 0..MaxRounds[u]
        BY <2>1, RoundType DEF Abort, TypeOK
    <2>3. attempt' \in [Txn -> 0..Attempts]
        BY DbLockAssumption DEF Abort, TypeOK
    <2>4. QED
        BY <2>2, <2>3, DbLockAssumption, ReleaseRowsType
           DEF Abort, TypeOK, PC, rowVars, fileVars, dataVars
<1>12. CASE \E t \in Txn : Load(t)
    BY <1>12, DbLockAssumption DEF Load, TypeOK, PC, Final, rowVars, fileVars, dataVars
<1>13. CASE \E t \in Txn : Persist(t)
    BY <1>13, DbLockAssumption
       DEF Persist, TypeOK, PC, Final, rowVars, fileVars, dataVars
<1>14. CASE \E t \in Txn : OperationThrows(t)
    BY <1>14, DbLockAssumption
       DEF OperationThrows, TypeOK, PC, Final, rowVars, fileVars, dataVars
<1>15. CASE \E t \in Txn : ReleaseLock(t)
    <2> PICK t \in Txn : ReleaseLock(t)
        BY <1>15
    <2>1. 0 \in 0..MaxRounds[t]
        BY MaxRoundsType DEF ReleaseLock, TypeOK
    <2>2. round' \in [Txn -> Nat] /\ \A u \in Txn : round'[u] \in 0..MaxRounds[u]
        BY <2>1, RoundType DEF ReleaseLock, TypeOK
    <2>3. QED
        BY <2>2, ReleaseRowsType, UnlinkLockType
           DEF ReleaseLock, TypeOK, PC, rowVars, fileVars, dataVars
<1>16. CASE \E t \in Txn, k \in Key : RowGrowsOld(t, k)
    BY <1>16, DbLockAssumption
       DEF RowGrowsOld, TypeOK, PC, Final, rowVars, fileVars, dataVars
<1>17. CASE \E p \in Process : WatchdogTick(p)
    BY <1>17, DbLockAssumption
       DEF WatchdogTick, TypeOK, PC, Final, rowVars, fileVars, dataVars
<1>18. CASE \E p \in Process : WatchdogUnlink(p)
    BY <1>18, UnlinkLockType, DbLockAssumption
       DEF WatchdogUnlink, UnlinkLock, TypeOK, PC, Final, rowVars, fileVars, dataVars
<1>19. CASE \E p \in Process : Crash(p)
    <2> PICK p \in Process : Crash(p)
        BY <1>19
    <2>1. round' \in [Txn -> Nat] /\ \A u \in Txn : round'[u] \in 0..MaxRounds[u]
        BY DbLockAssumption DEF Crash, TypeOK
    <2>2. attempt' \in [Txn -> 0..Attempts] /\ crashes' \in 0..MaxFaults
        BY DbLockAssumption DEF Crash, TypeOK
    <2>3. QED
        BY <2>1, <2>2 DEF Crash, TypeOK, PC, rowVars, fileVars, dataVars
<1>20. CASE LockGrowsOld
    BY <1>20, DbLockAssumption
       DEF LockGrowsOld, TypeOK, PC, Final, rowVars, fileVars, dataVars
<1>21. CASE UNCHANGED vars
    BY <1>21 DEF vars, rowVars, fileVars, dataVars, TypeOK, PC, Final
<1>22. CASE \E t \in Txn : OpenFails(t)
    <2> PICK t \in Txn : OpenFails(t)
        BY <1>22
    <2>1. 0 \in 0..MaxRounds[t]
        BY MaxRoundsType DEF OpenFails, TypeOK
    <2>2. round' \in [Txn -> Nat] /\ \A u \in Txn : round'[u] \in 0..MaxRounds[u]
        BY <2>1, RoundType DEF OpenFails, TypeOK
    <2>3. attempt' \in [Txn -> 0..Attempts]
        BY DbLockAssumption DEF OpenFails, TypeOK
    <2>4. QED
        BY <2>2, <2>3, ReleaseRowsType
           DEF OpenFails, TypeOK, PC, rowVars, fileVars, dataVars
<1>23. CASE \E t \in Txn : ReleaseRefused(t)
    BY <1>23, UnlinkLockType DEF ReleaseRefused, TypeOK, PC, rowVars, fileVars, dataVars
<1>24. QED
    BY <1>1, <1>2, <1>3, <1>4, <1>5, <1>6, <1>7, <1>8, <1>9, <1>10, <1>11, <1>12,
       <1>13, <1>14, <1>15, <1>16, <1>17, <1>18, <1>19, <1>20, <1>21, <1>22,
       <1>23
       DEF Next, Step, WatchdogStep

----------------------------------------------------------------------------
(* The lockfile.                                                           *)

\* A call inside the lock keeps the lockfile its own.
LEMMA OwnedStep == TypeOK /\ Owned /\ [Next]_vars => Owned'
<1> SUFFICES ASSUME TypeOK, Owned, [Next]_vars PROVE Owned'
    OBVIOUS
<1>1. CASE \E t \in Txn : Begin(t)
    BY <1>1, DbLockAssumption
       DEF Begin, TypeOK, PC, Owned, InCritical, Critical, rowVars, fileVars,
           dataVars
<1>2. CASE \E t \in Txn : TakeRows(t)
    BY <1>2, DbLockAssumption
       DEF TakeRows, AugmentedKeys, TypeOK, PC, Owned, InCritical, Critical, rowVars,
           fileVars, dataVars
<1>3. CASE \E t \in Txn : RowTimeout(t)
    BY <1>3, DbLockAssumption
       DEF RowTimeout, TypeOK, PC, Owned, InCritical, Critical, rowVars, fileVars,
           dataVars
<1>4. CASE \E t \in Txn : OpenLock(t)
    BY <1>4, DbLockAssumption
       DEF OpenLock, TypeOK, PC, Owned, InCritical, Critical, rowVars, fileVars,
           dataVars
<1>5. CASE \E t \in Txn : OpenBusy(t)
    BY <1>5, DbLockAssumption
       DEF OpenBusy, TypeOK, PC, Owned, InCritical, Critical, rowVars, fileVars,
           dataVars
<1>6. CASE \E t \in Txn : StatOld(t)
    BY <1>6, DbLockAssumption
       DEF StatOld, TypeOK, PC, Owned, InCritical, Critical, rowVars, fileVars,
           dataVars
<1>7. CASE \E t \in Txn : StatYoung(t)
    BY <1>7
       DEF StatYoung, NextAttempt, TypeOK, Owned, InCritical, Critical, rowVars,
           fileVars, dataVars
<1>8. CASE \E t \in Txn : StatLate(t)
    BY <1>8, DbLockAssumption
       DEF StatLate, TypeOK, PC, Owned, InCritical, Critical, rowVars, fileVars,
           dataVars
<1>9. CASE \E t \in Txn : UnlinkOld(t)
    <2> PICK t \in Txn : UnlinkOld(t)
        BY <1>9
    <2>1. ASSUME NEW v \in Txn, ~usurped', pc'[v] \in Critical PROVE lockFile' = v
        <3>1. v # t /\ pc[v] \in Critical
            BY <2>1 DEF UnlinkOld, NextAttempt, TypeOK, Critical
        <3>2. CASE lockFile' = lockFile /\ usurped' = usurped
            BY <2>1, <3>1, <3>2 DEF Owned, InCritical
        <3>3. CASE usurped' = (usurped \/ \E u \in Txn \ {t} : lockFile = u /\ InCritical(u))
            <4>1. ~usurped /\ ~(lockFile = v /\ InCritical(v))
                BY <2>1, <3>1, <3>3
            <4>2. QED
                BY <3>1, <4>1 DEF Owned, InCritical
        <3>4. QED
            BY <3>2, <3>3, UnlinkCases DEF UnlinkOld
    <2>2. QED
        BY <2>1 DEF Owned, InCritical
<1>10. CASE \E t \in Txn : Retry(t)
    BY <1>10, DbLockAssumption
       DEF Retry, ReleaseRows, TypeOK, PC, Owned, InCritical, Critical, rowVars,
           fileVars, dataVars
<1>11. CASE \E t \in Txn : Abort(t)
    BY <1>11, DbLockAssumption
       DEF Abort, ReleaseRows, TypeOK, PC, Owned, InCritical, Critical, rowVars,
           fileVars, dataVars
<1>12. CASE \E t \in Txn : Load(t)
    BY <1>12, DbLockAssumption
       DEF Load, TypeOK, PC, Owned, InCritical, Critical, rowVars, fileVars, dataVars
<1>13. CASE \E t \in Txn : Persist(t)
    BY <1>13, DbLockAssumption
       DEF Persist, TypeOK, PC, Owned, InCritical, Critical, rowVars, fileVars,
           dataVars
<1>14. CASE \E t \in Txn : OperationThrows(t)
    BY <1>14, DbLockAssumption
       DEF OperationThrows, TypeOK, PC, Owned, InCritical, Critical, rowVars,
           fileVars, dataVars
<1>15. CASE \E t \in Txn : ReleaseLock(t)
    BY <1>15, DbLockAssumption
       DEF ReleaseLock, ReleaseRows, UnlinkLock, TypeOK, PC, Owned, InCritical,
           Critical, rowVars, fileVars, dataVars
<1>16. CASE \E t \in Txn, k \in Key : RowGrowsOld(t, k)
    BY <1>16, DbLockAssumption
       DEF RowGrowsOld, TypeOK, PC, Owned, InCritical, Critical, rowVars, fileVars,
           dataVars
<1>17. CASE \E p \in Process : WatchdogTick(p)
    BY <1>17, DbLockAssumption
       DEF WatchdogTick, TypeOK, PC, Owned, InCritical, Critical, rowVars, fileVars,
           dataVars
<1>18. CASE \E p \in Process : WatchdogUnlink(p)
    <2> PICK p \in Process : WatchdogUnlink(p)
        BY <1>18
    <2>1. pc' = pc
        BY DEF WatchdogUnlink
    <2>2. CASE lockFile' = lockFile /\ usurped' = usurped
        BY <2>1, <2>2 DEF Owned, InCritical
    <2>3. CASE usurped' = (usurped \/ \E u \in Txn \ {NoTxn} : lockFile = u /\ InCritical(u))
        BY <2>1, <2>3, DbLockAssumption DEF Owned, InCritical
    <2>4. QED
        BY <2>2, <2>3, UnlinkCases DEF WatchdogUnlink
<1>19. CASE \E p \in Process : Crash(p)
    BY <1>19, DbLockAssumption
       DEF Crash, TypeOK, PC, Owned, InCritical, Critical, rowVars, fileVars,
           dataVars
<1>20. CASE LockGrowsOld
    BY <1>20, DbLockAssumption
       DEF LockGrowsOld, TypeOK, PC, Owned, InCritical, Critical, rowVars, fileVars,
           dataVars
<1>21. CASE UNCHANGED vars
    BY <1>21
       DEF vars, rowVars, fileVars, dataVars, TypeOK, PC, Owned, InCritical, Critical
<1>22. CASE \E t \in Txn : OpenFails(t)
    BY <1>22, DbLockAssumption
       DEF OpenFails, ReleaseRows, TypeOK, PC, Owned, InCritical, Critical,
           rowVars, fileVars, dataVars
<1>23. CASE \E t \in Txn : ReleaseRefused(t)
    BY <1>23, DbLockAssumption
       DEF ReleaseRefused, UnlinkLock, TypeOK, PC, Owned, InCritical, Critical,
           rowVars, fileVars, dataVars
<1>24. QED
    BY <1>1, <1>2, <1>3, <1>4, <1>5, <1>6, <1>7, <1>8, <1>9, <1>10, <1>11, <1>12,
       <1>13, <1>14, <1>15, <1>16, <1>17, <1>18, <1>19, <1>20, <1>21, <1>22,
       <1>23
       DEF Next, Step, WatchdogStep

\* No lockfile is unlinked, or about to be, before one has grown old.
LEMMA AgedStep == TypeOK /\ Owned /\ Aged /\ [Next]_vars => Aged'
<1> SUFFICES ASSUME TypeOK, Owned, Aged, [Next]_vars PROVE Aged'
    OBVIOUS
<1>1. CASE \E t \in Txn : Begin(t)
    BY <1>1, DbLockAssumption DEF Begin, TypeOK, PC, Aged, rowVars, fileVars, dataVars
<1>2. CASE \E t \in Txn : TakeRows(t)
    BY <1>2, DbLockAssumption
       DEF TakeRows, AugmentedKeys, TypeOK, PC, Aged, rowVars, fileVars, dataVars
<1>3. CASE \E t \in Txn : RowTimeout(t)
    BY <1>3, DbLockAssumption
       DEF RowTimeout, TypeOK, PC, Aged, rowVars, fileVars, dataVars
<1>4. CASE \E t \in Txn : OpenLock(t)
    BY <1>4, DbLockAssumption
       DEF OpenLock, TypeOK, PC, Aged, rowVars, fileVars, dataVars
<1>5. CASE \E t \in Txn : OpenBusy(t)
    BY <1>5, DbLockAssumption
       DEF OpenBusy, TypeOK, PC, Aged, rowVars, fileVars, dataVars
<1>6. CASE \E t \in Txn : StatOld(t)
    BY <1>6, DbLockAssumption DEF StatOld, TypeOK, PC, Aged, rowVars, fileVars, dataVars
<1>7. CASE \E t \in Txn : StatYoung(t)
    BY <1>7 DEF StatYoung, NextAttempt, TypeOK, Aged, rowVars, fileVars, dataVars
<1>8. CASE \E t \in Txn : StatLate(t)
    BY <1>8, DbLockAssumption
       DEF StatLate, TypeOK, PC, Aged, rowVars, fileVars, dataVars
<1>9. CASE \E t \in Txn : UnlinkOld(t)
    BY <1>9
       DEF UnlinkOld, UnlinkLock, NextAttempt, TypeOK, Aged, rowVars, fileVars,
           dataVars
<1>10. CASE \E t \in Txn : Retry(t)
    BY <1>10, DbLockAssumption
       DEF Retry, ReleaseRows, TypeOK, PC, Aged, rowVars, fileVars, dataVars
<1>11. CASE \E t \in Txn : Abort(t)
    BY <1>11, DbLockAssumption
       DEF Abort, ReleaseRows, TypeOK, PC, Aged, rowVars, fileVars, dataVars
<1>12. CASE \E t \in Txn : Load(t)
    BY <1>12, DbLockAssumption DEF Load, TypeOK, PC, Aged, rowVars, fileVars, dataVars
<1>13. CASE \E t \in Txn : Persist(t)
    BY <1>13, DbLockAssumption
       DEF Persist, TypeOK, PC, Aged, rowVars, fileVars, dataVars
<1>14. CASE \E t \in Txn : OperationThrows(t)
    BY <1>14, DbLockAssumption
       DEF OperationThrows, TypeOK, PC, Aged, rowVars, fileVars, dataVars
<1>15. CASE \E t \in Txn : ReleaseLock(t)
    BY <1>15
       DEF ReleaseLock, UnlinkLock, ReleaseRows, TypeOK, Owned, Aged, InCritical,
           Critical, rowVars, fileVars, dataVars
<1>16. CASE \E t \in Txn, k \in Key : RowGrowsOld(t, k)
    BY <1>16, DbLockAssumption
       DEF RowGrowsOld, TypeOK, PC, Aged, rowVars, fileVars, dataVars
<1>17. CASE \E p \in Process : WatchdogTick(p)
    BY <1>17, DbLockAssumption
       DEF WatchdogTick, TypeOK, PC, Aged, rowVars, fileVars, dataVars
<1>18. CASE \E p \in Process : WatchdogUnlink(p)
    BY <1>18, DbLockAssumption
       DEF WatchdogUnlink, UnlinkLock, TypeOK, PC, Aged, rowVars, fileVars, dataVars
<1>19. CASE \E p \in Process : Crash(p)
    BY <1>19, DbLockAssumption DEF Crash, TypeOK, PC, Aged, rowVars, fileVars, dataVars
<1>20. CASE LockGrowsOld
    BY <1>20, DbLockAssumption
       DEF LockGrowsOld, TypeOK, PC, Aged, rowVars, fileVars, dataVars
<1>21. CASE UNCHANGED vars
    BY <1>21 DEF vars, rowVars, fileVars, dataVars, TypeOK, PC, Aged
<1>22. CASE \E t \in Txn : OpenFails(t)
    BY <1>22, DbLockAssumption
       DEF OpenFails, ReleaseRows, TypeOK, PC, Aged, rowVars, fileVars, dataVars
<1>23. CASE \E t \in Txn : ReleaseRefused(t)
    <2> PICK t \in Txn : ReleaseRefused(t)
        BY <1>23
    <2>1. expired' = expired /\ watchdog' = watchdog /\ (lockOld' => lockOld)
        BY DEF ReleaseRefused, UnlinkLock
    <2>2. \A u \in Txn : pc'[u] = "unlinkOld" => pc[u] = "unlinkOld"
        BY DEF ReleaseRefused, TypeOK
    <2>3. CASE lockFile' = lockFile /\ usurped' = usurped
        BY <2>1, <2>2, <2>3 DEF Aged
    <2>4. CASE usurped' = (usurped \/ \E u \in Txn \ {t} : lockFile = u /\ InCritical(u))
        <3>1. ~usurped => lockFile = t
            BY DEF ReleaseRefused, Owned, InCritical, Critical
        <3>2. usurped' => usurped
            BY <2>4, <3>1
        <3>3. QED
            BY <2>1, <2>2, <3>2 DEF Aged
    <2>5. QED
        BY <2>3, <2>4, UnlinkCases DEF ReleaseRefused
<1>24. QED
    BY <1>1, <1>2, <1>3, <1>4, <1>5, <1>6, <1>7, <1>8, <1>9, <1>10, <1>11, <1>12,
       <1>13, <1>14, <1>15, <1>16, <1>17, <1>18, <1>19, <1>20, <1>21, <1>22,
       <1>23
       DEF Next, Step, WatchdogStep

----------------------------------------------------------------------------
(* The data.                                                               *)

\* What a call has read stays what the database holds until the call writes.
LEMMA FreshStep == TypeOK /\ Owned /\ Fresh /\ [Next]_vars => Fresh'
<1> SUFFICES ASSUME TypeOK, Owned, Fresh, [Next]_vars PROVE Fresh'
    OBVIOUS
<1>1. CASE \E t \in Txn : Begin(t)
    BY <1>1, DbLockAssumption DEF Begin, TypeOK, PC, Fresh, rowVars, fileVars, dataVars
<1>2. CASE \E t \in Txn : TakeRows(t)
    BY <1>2, DbLockAssumption
       DEF TakeRows, AugmentedKeys, TypeOK, PC, Fresh, rowVars, fileVars, dataVars
<1>3. CASE \E t \in Txn : RowTimeout(t)
    BY <1>3, DbLockAssumption
       DEF RowTimeout, TypeOK, PC, Fresh, rowVars, fileVars, dataVars
<1>4. CASE \E t \in Txn : OpenLock(t)
    BY <1>4, DbLockAssumption
       DEF OpenLock, TypeOK, PC, Fresh, rowVars, fileVars, dataVars
<1>5. CASE \E t \in Txn : OpenBusy(t)
    BY <1>5, DbLockAssumption
       DEF OpenBusy, TypeOK, PC, Fresh, rowVars, fileVars, dataVars
<1>6. CASE \E t \in Txn : StatOld(t)
    BY <1>6, DbLockAssumption
       DEF StatOld, TypeOK, PC, Fresh, rowVars, fileVars, dataVars
<1>7. CASE \E t \in Txn : StatYoung(t)
    BY <1>7 DEF StatYoung, NextAttempt, TypeOK, Fresh, rowVars, fileVars, dataVars
<1>8. CASE \E t \in Txn : StatLate(t)
    BY <1>8, DbLockAssumption
       DEF StatLate, TypeOK, PC, Fresh, rowVars, fileVars, dataVars
<1>9. CASE \E t \in Txn : UnlinkOld(t)
    BY <1>9
       DEF UnlinkOld, UnlinkLock, NextAttempt, TypeOK, Fresh, rowVars, fileVars,
           dataVars
<1>10. CASE \E t \in Txn : Retry(t)
    BY <1>10, DbLockAssumption
       DEF Retry, ReleaseRows, TypeOK, PC, Fresh, rowVars, fileVars, dataVars
<1>11. CASE \E t \in Txn : Abort(t)
    BY <1>11, DbLockAssumption
       DEF Abort, ReleaseRows, TypeOK, PC, Fresh, rowVars, fileVars, dataVars
<1>12. CASE \E t \in Txn : Load(t)
    BY <1>12, DbLockAssumption DEF Load, TypeOK, PC, Fresh, rowVars, fileVars, dataVars
<1>13. CASE \E t \in Txn : Persist(t)
    BY <1>13
       DEF Persist, TypeOK, Owned, Fresh, InCritical, Critical, rowVars, fileVars,
           dataVars
<1>14. CASE \E t \in Txn : OperationThrows(t)
    BY <1>14, DbLockAssumption
       DEF OperationThrows, TypeOK, PC, Fresh, rowVars, fileVars, dataVars
<1>15. CASE \E t \in Txn : ReleaseLock(t)
    BY <1>15, DbLockAssumption
       DEF ReleaseLock, ReleaseRows, UnlinkLock, TypeOK, PC, Fresh, rowVars,
           fileVars, dataVars
<1>16. CASE \E t \in Txn, k \in Key : RowGrowsOld(t, k)
    BY <1>16, DbLockAssumption
       DEF RowGrowsOld, TypeOK, PC, Fresh, rowVars, fileVars, dataVars
<1>17. CASE \E p \in Process : WatchdogTick(p)
    BY <1>17, DbLockAssumption
       DEF WatchdogTick, TypeOK, PC, Fresh, rowVars, fileVars, dataVars
<1>18. CASE \E p \in Process : WatchdogUnlink(p)
    BY <1>18, DbLockAssumption
       DEF WatchdogUnlink, UnlinkLock, TypeOK, PC, Fresh, rowVars, fileVars, dataVars
<1>19. CASE \E p \in Process : Crash(p)
    BY <1>19, DbLockAssumption DEF Crash, TypeOK, PC, Fresh, rowVars, fileVars, dataVars
<1>20. CASE LockGrowsOld
    BY <1>20, DbLockAssumption
       DEF LockGrowsOld, TypeOK, PC, Fresh, rowVars, fileVars, dataVars
<1>21. CASE UNCHANGED vars
    BY <1>21 DEF vars, rowVars, fileVars, dataVars, TypeOK, PC, Fresh
<1>22. CASE \E t \in Txn : OpenFails(t)
    BY <1>22, DbLockAssumption
       DEF OpenFails, ReleaseRows, TypeOK, PC, Fresh, rowVars, fileVars, dataVars
<1>23. CASE \E t \in Txn : ReleaseRefused(t)
    BY <1>23, DbLockAssumption
       DEF ReleaseRefused, UnlinkLock, TypeOK, PC, Fresh, rowVars, fileVars, dataVars
<1>24. QED
    BY <1>1, <1>2, <1>3, <1>4, <1>5, <1>6, <1>7, <1>8, <1>9, <1>10, <1>11, <1>12,
       <1>13, <1>14, <1>15, <1>16, <1>17, <1>18, <1>19, <1>20, <1>21, <1>22,
       <1>23
       DEF Next, Step, WatchdogStep

\* So the whole-document write of one call loses nothing another has written.
LEMMA CommittedStep ==
    TypeOK /\ Fresh /\ CommittedSurvive /\ [Next]_vars => CommittedSurvive'
<1> SUFFICES ASSUME TypeOK, Fresh, CommittedSurvive, [Next]_vars PROVE CommittedSurvive'
    OBVIOUS
<1>1. CASE \E t \in Txn : Begin(t)
    BY <1>1, DbLockAssumption
       DEF Begin, TypeOK, CommittedSurvive, rowVars, fileVars, dataVars
<1>2. CASE \E t \in Txn : TakeRows(t)
    BY <1>2, DbLockAssumption
       DEF TakeRows, AugmentedKeys, TypeOK, CommittedSurvive, rowVars, fileVars,
           dataVars
<1>3. CASE \E t \in Txn : RowTimeout(t)
    BY <1>3, DbLockAssumption
       DEF RowTimeout, TypeOK, CommittedSurvive, rowVars, fileVars, dataVars
<1>4. CASE \E t \in Txn : OpenLock(t)
    BY <1>4, DbLockAssumption
       DEF OpenLock, TypeOK, CommittedSurvive, rowVars, fileVars, dataVars
<1>5. CASE \E t \in Txn : OpenBusy(t)
    BY <1>5, DbLockAssumption
       DEF OpenBusy, TypeOK, CommittedSurvive, rowVars, fileVars, dataVars
<1>6. CASE \E t \in Txn : StatOld(t)
    BY <1>6, DbLockAssumption
       DEF StatOld, TypeOK, CommittedSurvive, rowVars, fileVars, dataVars
<1>7. CASE \E t \in Txn : StatYoung(t)
    BY <1>7, DbLockAssumption
       DEF StatYoung, TypeOK, CommittedSurvive, rowVars, fileVars, dataVars
<1>8. CASE \E t \in Txn : StatLate(t)
    BY <1>8, DbLockAssumption
       DEF StatLate, TypeOK, CommittedSurvive, rowVars, fileVars, dataVars
<1>9. CASE \E t \in Txn : UnlinkOld(t)
    BY <1>9, DbLockAssumption
       DEF UnlinkOld, UnlinkLock, TypeOK, CommittedSurvive, rowVars, fileVars,
           dataVars
<1>10. CASE \E t \in Txn : Retry(t)
    BY <1>10, DbLockAssumption
       DEF Retry, ReleaseRows, TypeOK, CommittedSurvive, rowVars, fileVars, dataVars
<1>11. CASE \E t \in Txn : Abort(t)
    BY <1>11, DbLockAssumption
       DEF Abort, ReleaseRows, TypeOK, CommittedSurvive, rowVars, fileVars, dataVars
<1>12. CASE \E t \in Txn : Load(t)
    BY <1>12, DbLockAssumption
       DEF Load, TypeOK, CommittedSurvive, rowVars, fileVars, dataVars
<1>13. CASE \E t \in Txn : Persist(t)
    BY <1>13 DEF Persist, TypeOK, Fresh, CommittedSurvive, rowVars, fileVars, dataVars
<1>14. CASE \E t \in Txn : OperationThrows(t)
    BY <1>14, DbLockAssumption
       DEF OperationThrows, TypeOK, CommittedSurvive, rowVars, fileVars, dataVars
<1>15. CASE \E t \in Txn : ReleaseLock(t)
    BY <1>15, DbLockAssumption
       DEF ReleaseLock, ReleaseRows, UnlinkLock, TypeOK, CommittedSurvive, rowVars,
           fileVars, dataVars
<1>16. CASE \E t \in Txn, k \in Key : RowGrowsOld(t, k)
    BY <1>16, DbLockAssumption
       DEF RowGrowsOld, TypeOK, CommittedSurvive, rowVars, fileVars, dataVars
<1>17. CASE \E p \in Process : WatchdogTick(p)
    BY <1>17, DbLockAssumption
       DEF WatchdogTick, TypeOK, CommittedSurvive, rowVars, fileVars, dataVars
<1>18. CASE \E p \in Process : WatchdogUnlink(p)
    BY <1>18, DbLockAssumption
       DEF WatchdogUnlink, UnlinkLock, TypeOK, CommittedSurvive, rowVars, fileVars,
           dataVars
<1>19. CASE \E p \in Process : Crash(p)
    BY <1>19, DbLockAssumption
       DEF Crash, TypeOK, CommittedSurvive, rowVars, fileVars, dataVars
<1>20. CASE LockGrowsOld
    BY <1>20, DbLockAssumption
       DEF LockGrowsOld, TypeOK, CommittedSurvive, rowVars, fileVars, dataVars
<1>21. CASE UNCHANGED vars
    BY <1>21 DEF vars, rowVars, fileVars, dataVars, TypeOK, CommittedSurvive
<1>22. CASE \E t \in Txn : OpenFails(t)
    BY <1>22, DbLockAssumption
       DEF OpenFails, ReleaseRows, TypeOK, PC, CommittedSurvive,
           rowVars, fileVars, dataVars
<1>23. CASE \E t \in Txn : ReleaseRefused(t)
    BY <1>23, DbLockAssumption
       DEF ReleaseRefused, UnlinkLock, TypeOK, PC, CommittedSurvive,
           rowVars, fileVars, dataVars
<1>24. QED
    BY <1>1, <1>2, <1>3, <1>4, <1>5, <1>6, <1>7, <1>8, <1>9, <1>10, <1>11, <1>12,
       <1>13, <1>14, <1>15, <1>16, <1>17, <1>18, <1>19, <1>20, <1>21, <1>22,
       <1>23
       DEF Next, Step, WatchdogStep

----------------------------------------------------------------------------
(* The row locks.                                                          *)

\* A call lets go of its row locks before it waits again or ends.
LEMMA NothingHeldStep == TypeOK /\ NothingHeld /\ [Next]_vars => NothingHeld'
<1> SUFFICES ASSUME TypeOK, NothingHeld, [Next]_vars PROVE NothingHeld'
    OBVIOUS
<1>1. CASE \E t \in Txn : Begin(t)
    BY <1>1, DbLockAssumption
       DEF Begin, TypeOK, PC, NothingHeld, Final, rowVars, fileVars, dataVars
<1>2. CASE \E t \in Txn : TakeRows(t)
    BY <1>2, DbLockAssumption
       DEF TakeRows, AugmentedKeys, TypeOK, PC, NothingHeld, Final, rowVars,
           fileVars, dataVars
<1>3. CASE \E t \in Txn : RowTimeout(t)
    BY <1>3, DbLockAssumption
       DEF RowTimeout, TypeOK, PC, NothingHeld, Final, rowVars, fileVars, dataVars
<1>4. CASE \E t \in Txn : OpenLock(t)
    BY <1>4, DbLockAssumption
       DEF OpenLock, TypeOK, PC, NothingHeld, Final, rowVars, fileVars, dataVars
<1>5. CASE \E t \in Txn : OpenBusy(t)
    BY <1>5, DbLockAssumption
       DEF OpenBusy, TypeOK, PC, NothingHeld, Final, rowVars, fileVars, dataVars
<1>6. CASE \E t \in Txn : StatOld(t)
    BY <1>6, DbLockAssumption
       DEF StatOld, TypeOK, PC, NothingHeld, Final, rowVars, fileVars, dataVars
<1>7. CASE \E t \in Txn : StatYoung(t)
    BY <1>7
       DEF StatYoung, NextAttempt, TypeOK, NothingHeld, Final, rowVars, fileVars,
           dataVars
<1>8. CASE \E t \in Txn : StatLate(t)
    BY <1>8, DbLockAssumption
       DEF StatLate, TypeOK, PC, NothingHeld, Final, rowVars, fileVars, dataVars
<1>9. CASE \E t \in Txn : UnlinkOld(t)
    BY <1>9
       DEF UnlinkOld, UnlinkLock, NextAttempt, TypeOK, NothingHeld, Final, rowVars,
           fileVars, dataVars
<1>10. CASE \E t \in Txn : Retry(t)
    BY <1>10, DbLockAssumption
       DEF Retry, ReleaseRows, TypeOK, PC, NothingHeld, Final, rowVars, fileVars,
           dataVars
<1>11. CASE \E t \in Txn : Abort(t)
    BY <1>11, DbLockAssumption
       DEF Abort, ReleaseRows, TypeOK, PC, NothingHeld, Final, rowVars, fileVars,
           dataVars
<1>12. CASE \E t \in Txn : Load(t)
    BY <1>12, DbLockAssumption
       DEF Load, TypeOK, PC, NothingHeld, Final, rowVars, fileVars, dataVars
<1>13. CASE \E t \in Txn : Persist(t)
    BY <1>13, DbLockAssumption
       DEF Persist, TypeOK, PC, NothingHeld, Final, rowVars, fileVars, dataVars
<1>14. CASE \E t \in Txn : OperationThrows(t)
    BY <1>14, DbLockAssumption
       DEF OperationThrows, TypeOK, PC, NothingHeld, Final, rowVars, fileVars,
           dataVars
<1>15. CASE \E t \in Txn : ReleaseLock(t)
    BY <1>15, DbLockAssumption
       DEF ReleaseLock, ReleaseRows, UnlinkLock, TypeOK, PC, NothingHeld, Final,
           rowVars, fileVars, dataVars
<1>16. CASE \E t \in Txn, k \in Key : RowGrowsOld(t, k)
    BY <1>16, DbLockAssumption
       DEF RowGrowsOld, TypeOK, PC, NothingHeld, Final, rowVars, fileVars, dataVars
<1>17. CASE \E p \in Process : WatchdogTick(p)
    BY <1>17, DbLockAssumption
       DEF WatchdogTick, TypeOK, PC, NothingHeld, Final, rowVars, fileVars, dataVars
<1>18. CASE \E p \in Process : WatchdogUnlink(p)
    BY <1>18, DbLockAssumption
       DEF WatchdogUnlink, UnlinkLock, TypeOK, PC, NothingHeld, Final, rowVars,
           fileVars, dataVars
<1>19. CASE \E p \in Process : Crash(p)
    BY <1>19, DbLockAssumption
       DEF Crash, TypeOK, PC, NothingHeld, Final, rowVars, fileVars, dataVars
<1>20. CASE LockGrowsOld
    BY <1>20, DbLockAssumption
       DEF LockGrowsOld, TypeOK, PC, NothingHeld, Final, rowVars, fileVars, dataVars
<1>21. CASE UNCHANGED vars
    BY <1>21 DEF vars, rowVars, fileVars, dataVars, TypeOK, PC, NothingHeld, Final
<1>22. CASE \E t \in Txn : OpenFails(t)
    BY <1>22, DbLockAssumption
       DEF OpenFails, ReleaseRows, TypeOK, PC, NothingHeld, Final,
           rowVars, fileVars, dataVars
<1>23. CASE \E t \in Txn : ReleaseRefused(t)
    BY <1>23, DbLockAssumption
       DEF ReleaseRefused, UnlinkLock, TypeOK, PC, NothingHeld, Final,
           rowVars, fileVars, dataVars
<1>24. QED
    BY <1>1, <1>2, <1>3, <1>4, <1>5, <1>6, <1>7, <1>8, <1>9, <1>10, <1>11, <1>12,
       <1>13, <1>14, <1>15, <1>16, <1>17, <1>18, <1>19, <1>20, <1>21, <1>22,
       <1>23
       DEF Next, Step, WatchdogStep

\* The row locks of two calls of one process stay apart.
LEMMA RowExclusionStep ==
    TypeOK /\ NothingHeld /\ RowExclusion /\ [Next]_vars => RowExclusion'
<1> SUFFICES ASSUME TypeOK, NothingHeld, RowExclusion, [Next]_vars PROVE RowExclusion'
    OBVIOUS
<1>1. CASE \E t \in Txn : Begin(t)
    BY <1>1, DbLockAssumption
       DEF Begin, TypeOK, RowExclusion, rowVars, fileVars, dataVars
<1>2. CASE \E t \in Txn : TakeRows(t)
    <2> PICK t \in Txn : TakeRows(t)
        BY <1>2
    <2> DEFINE p == ProcOf[t]
    <2>1. SUFFICES ASSUME ~rowExpired PROVE RowExclusion'
        BY DEF TakeRows, RowExclusion
    <2>2. held' = [held EXCEPT ![t] = AugmentedKeys(t)]
          /\ rowLocks' = [rowLocks EXCEPT ![p] = @ \cup AugmentedKeys(t)]
          /\ AugmentedKeys(t) \cap rowLocks[p] = {}
        BY DEF TakeRows
    <2>3. \A u \in Txn : held'[u] \subseteq rowLocks'[ProcOf[u]]
        BY <2>1, <2>2, KeysType DEF TypeOK, RowExclusion
    <2>4. \A u \in Txn \ {t} : ProcOf[u] = p => held'[t] \cap held'[u] = {}
        BY <2>1, <2>2, KeysType DEF TypeOK, RowExclusion
    <2>5. \A u, v \in Txn \ {t} : held'[u] = held[u] /\ held'[v] = held[v]
        BY <2>2 DEF TypeOK
    <2>6. QED
        BY <2>1, <2>3, <2>4, <2>5 DEF RowExclusion
<1>3. CASE \E t \in Txn : RowTimeout(t)
    BY <1>3, DbLockAssumption
       DEF RowTimeout, TypeOK, RowExclusion, rowVars, fileVars, dataVars
<1>4. CASE \E t \in Txn : OpenLock(t)
    BY <1>4, DbLockAssumption
       DEF OpenLock, TypeOK, RowExclusion, rowVars, fileVars, dataVars
<1>5. CASE \E t \in Txn : OpenBusy(t)
    BY <1>5, DbLockAssumption
       DEF OpenBusy, TypeOK, RowExclusion, rowVars, fileVars, dataVars
<1>6. CASE \E t \in Txn : StatOld(t)
    BY <1>6, DbLockAssumption
       DEF StatOld, TypeOK, RowExclusion, rowVars, fileVars, dataVars
<1>7. CASE \E t \in Txn : StatYoung(t)
    BY <1>7, DbLockAssumption
       DEF StatYoung, TypeOK, RowExclusion, rowVars, fileVars, dataVars
<1>8. CASE \E t \in Txn : StatLate(t)
    BY <1>8, DbLockAssumption
       DEF StatLate, TypeOK, RowExclusion, rowVars, fileVars, dataVars
<1>9. CASE \E t \in Txn : UnlinkOld(t)
    BY <1>9, DbLockAssumption
       DEF UnlinkOld, UnlinkLock, TypeOK, RowExclusion, rowVars, fileVars, dataVars
<1>10. CASE \E t \in Txn : Retry(t)
    BY <1>10, DbLockAssumption
       DEF Retry, ReleaseRows, TypeOK, RowExclusion, rowVars, fileVars, dataVars
<1>11. CASE \E t \in Txn : Abort(t)
    BY <1>11, DbLockAssumption
       DEF Abort, ReleaseRows, TypeOK, RowExclusion, rowVars, fileVars, dataVars
<1>12. CASE \E t \in Txn : Load(t)
    BY <1>12, DbLockAssumption
       DEF Load, TypeOK, RowExclusion, rowVars, fileVars, dataVars
<1>13. CASE \E t \in Txn : Persist(t)
    BY <1>13, DbLockAssumption
       DEF Persist, TypeOK, RowExclusion, rowVars, fileVars, dataVars
<1>14. CASE \E t \in Txn : OperationThrows(t)
    BY <1>14, DbLockAssumption
       DEF OperationThrows, TypeOK, RowExclusion, rowVars, fileVars, dataVars
<1>15. CASE \E t \in Txn : ReleaseLock(t)
    BY <1>15, DbLockAssumption
       DEF ReleaseLock, ReleaseRows, UnlinkLock, TypeOK, RowExclusion, rowVars,
           fileVars, dataVars
<1>16. CASE \E t \in Txn, k \in Key : RowGrowsOld(t, k)
    BY <1>16, DbLockAssumption
       DEF RowGrowsOld, TypeOK, RowExclusion, rowVars, fileVars, dataVars
<1>17. CASE \E p \in Process : WatchdogTick(p)
    <2> PICK p \in Process : WatchdogTick(p)
        BY <1>17
    <2>1. SUFFICES ASSUME ~rowExpired' PROVE RowExclusion'
        BY DEF RowExclusion
    <2>2. rowOld[p] = {} /\ ~rowExpired
        BY <2>1 DEF WatchdogTick
    <2>3. rowLocks' = rowLocks /\ held' = held
        BY <2>2 DEF WatchdogTick, TypeOK
    <2>4. QED
        BY <2>2, <2>3 DEF RowExclusion
<1>18. CASE \E p \in Process : WatchdogUnlink(p)
    BY <1>18, DbLockAssumption
       DEF WatchdogUnlink, UnlinkLock, TypeOK, RowExclusion, rowVars, fileVars,
           dataVars
<1>19. CASE \E p \in Process : Crash(p)
    BY <1>19, DbLockAssumption
       DEF Crash, TypeOK, NothingHeld, RowExclusion, Final, rowVars, fileVars,
           dataVars
<1>20. CASE LockGrowsOld
    BY <1>20, DbLockAssumption
       DEF LockGrowsOld, TypeOK, RowExclusion, rowVars, fileVars, dataVars
<1>21. CASE UNCHANGED vars
    BY <1>21 DEF vars, rowVars, fileVars, dataVars, TypeOK, RowExclusion
<1>22. CASE \E t \in Txn : OpenFails(t)
    BY <1>22, DbLockAssumption
       DEF OpenFails, ReleaseRows, TypeOK, PC, RowExclusion, rowVars, fileVars, dataVars
<1>23. CASE \E t \in Txn : ReleaseRefused(t)
    BY <1>23, DbLockAssumption
       DEF ReleaseRefused, UnlinkLock, TypeOK, PC, RowExclusion,
           rowVars, fileVars, dataVars
<1>24. QED
    BY <1>1, <1>2, <1>3, <1>4, <1>5, <1>6, <1>7, <1>8, <1>9, <1>10, <1>11, <1>12,
       <1>13, <1>14, <1>15, <1>16, <1>17, <1>18, <1>19, <1>20, <1>21, <1>22,
       <1>23
       DEF Next, Step, WatchdogStep

----------------------------------------------------------------------------
(* The theorems.                                                           *)

\* IInv is an invariant.
THEOREM Invariance == Spec => []IInv
<1>1. IInv /\ [Next]_vars => IInv'
    BY TypeStep, OwnedStep, AgedStep, FreshStep, CommittedStep, NothingHeldStep,
       RowExclusionStep
       DEF IInv
<1>2. QED
    BY InitIInv, <1>1, PTL DEF Spec

\* Every variable of the locking protocol stays in its domain; in particular no call
\* goes round acquireLock or withDbTransaction more often than it may.
THEOREM TypeCorrect == Spec => []TypeOK
<1>1. IInv => TypeOK
    BY DEF IInv
<1>2. QED
    BY Invariance, <1>1, PTL

\* withDbLock excludes, as long as nobody has unlinked a lockfile in use.
THEOREM Exclusion == Spec => []MutualExclusion
<1>1. IInv => MutualExclusion
    BY DEF IInv, Owned, MutualExclusion
<1>2. QED
    BY Invariance, <1>1, PTL

\* As long as nobody has, no transaction that was reported written is lost.
THEOREM NoLostUpdate == Spec => []CommittedSurvive
<1>1. IInv => CommittedSurvive
    BY DEF IInv
<1>2. QED
    BY Invariance, <1>1, PTL

\* Nobody has, unless a lockfile has outlived LOCK_MAX_AGE_MS.
THEOREM UsurpedLate == Spec => []UsurpedOnlyAfterExpiry
<1>1. IInv => UsurpedOnlyAfterExpiry
    BY DEF IInv, Aged, UsurpedOnlyAfterExpiry
<1>2. QED
    BY Invariance, <1>1, PTL

\* Calls of one process never share a row lock, unless a watchdog has dropped one.
THEOREM RowsApart == Spec => []RowExclusion
<1>1. IInv => RowExclusion
    BY DEF IInv
<1>2. QED
    BY Invariance, <1>1, PTL
=============================================================================
