----------------------------- MODULE DbFileProofs -----------------------------
(***************************************************************************)
(* Proofs about DbFile, for any number of calls, attempts, faults, crashes *)
(* and power cuts: its invariants, and that the files implement the atomic *)
(* store of AtomicStore.                                                   *)
(***************************************************************************)
EXTENDS DbFile, TLAPS

----------------------------------------------------------------------------
(* The inductive invariant.                                                *)

\* A file is absent, torn or a document, and so is what has been read of one.
IsFile(c) == c = Absent \/ c = Torn \/ (c = Document(c.txns) /\ c.txns \subseteq Txn)
Files == IsFile(tmp) /\ IsFile(saved)

\* A file that can be loaded is one of the versions and, unless an unlink has failed,
\* holds what has been settled.
Sound(c) ==
    /\ IsFile(c)
    /\ Parses(c) => c.txns \in versions /\ (journalKept \/ settled \subseteq c.txns)

\* The files as a program, or what a power cut has left, may find them.
Good(d, j) == Sound(d) /\ Sound(j) /\ (d = Absent => j = Absent /\ settled = {})

Now  == Good(dbFile, journal)
Past == past \subseteq Content \X Content /\ \A v \in past : Good(v[1], v[2])

Loading    == {"journal", "check", "restoring", "dropJournal", "read"}
Persisting == {"backup", "backingUp", "writeTmp", "writingTmp", "rename"}

\* The domains of the variables that are not files.
Memory ==
    /\ unsynced \subseteq {"db", "journal", "tmp"}
    /\ pc \in {"idle", "ensure", "creating", "unlinkJournal"} \cup Loading \cup Persisting
    /\ cur \in Txn \cup {NoTxn} /\ (cur = NoTxn <=> pc = "idle")
    /\ doc \subseteq Txn
    /\ tries \in 0..Attempts
    /\ outcome \in [Txn -> {"none", "ok", "error", "unknown"}]
    /\ cur # NoTxn => outcome[cur] = "none"
    /\ faults \in 0..MaxFaults /\ crashes \in 0..MaxCrashes /\ powerCuts \in 0..MaxPowerCuts
    /\ journalKept \in BOOLEAN
    /\ misreads \in 0..faults
    /\ versions \subseteq SUBSET Txn /\ {} \in versions
    /\ settled \subseteq Acknowledged

\* What a call has in memory agrees with the files as long as it is going to use it.
Places ==
    /\ pc = "creating" => dbFile = Torn
    /\ pc \in Loading \cup Persisting \cup {"unlinkJournal"} => dbFile # Absent
    /\ pc \in {"check", "restoring", "dropJournal"} => saved = journal /\ journal # Absent
    /\ pc = "restoring" => dbFile = Torn
    /\ pc \in Persisting => dbFile = Document(doc) /\ tries > 0
    /\ pc = "backingUp" => saved = dbFile
    /\ pc = "rename" => tmp = Document(doc \cup {cur})
    /\ pc = "unlinkJournal" => dbFile = Document(doc \cup {cur})

\* The page cache holds data of files that exist.
Pages ==
    /\ "db" \in unsynced => dbFile # Absent
    /\ "journal" \in unsynced => journal # Absent

\* Before the database exists there is nothing to lose, or it has been lost.
NothingYet == Acknowledged = {} /\ versions = {{}}
Empty ==
    dbFile = Absent \/ pc = "creating" =>
        journal = Absent /\ settled = {} /\ (powerCuts = 0 => NothingYet)

\* Unless an unlink has failed or the host has lost power, whatever may be loaded holds
\* what was acknowledged.
Kept ==
    ~journalKept /\ powerCuts = 0 =>
        /\ Parses(dbFile) => Acknowledged \subseteq dbFile.txns
        /\ Parses(journal) => Acknowledged \subseteq journal.txns

\* Calls that have not come to their rename, and never will if they were refused.
Outside ==
    {t \in Txn : \/ outcome[t] = "error"
                 \/ outcome[t] = "none" /\ ~(t = cur /\ pc = "unlinkJournal")}

\* No version has their effects.
Untouched == \A t \in Outside, v \in versions : t \notin v

\* A torn database is empty, or there has been an accident.
Intact == dbFile = Torn /\ powerCuts = 0 /\ misreads = 0 => journal = Absent /\ NothingYet

Rest == Files /\ Now /\ Memory /\ Places /\ Pages /\ Empty /\ Kept /\ Untouched /\ Intact
IInv == Rest /\ Past

----------------------------------------------------------------------------
\* The three kinds of file differ.
LEMMA Kinds ==
    /\ Absent # Torn /\ ~Parses(Absent) /\ ~Parses(Torn)
    /\ Absent.txns = {} /\ Torn.txns = {}
    /\ \A S : /\ Parses(Document(S)) /\ Document(S).txns = S
              /\ Document(S) # Absent /\ Document(S) # Torn
BY DEF Absent, Torn, Document, Parses

\* The initial state satisfies IInv.
LEMMA InitIInv == Init => IInv
<1> SUFFICES ASSUME Init PROVE IInv
    OBVIOUS
<1>1. Files /\ Now /\ Places /\ Pages /\ Past
    BY Kinds DEF Init, Files, IsFile, Now, Good, Sound, Places, Pages, Past, Loading, Persisting
<1>2. Acknowledged = {} /\ NothingYet /\ Empty /\ Kept /\ Intact
    BY DEF Init, Acknowledged, NothingYet, Empty, Kept, Intact
<1>3. Memory
    <2>1. journalKept \in BOOLEAN
        BY DEF Init
    <2>2. outcome \in [Txn -> {"none", "ok", "error", "unknown"}]
        BY DEF Init
    <2>3. cur \in Txn \cup {NoTxn} /\ (cur = NoTxn <=> pc = "idle")
        BY DEF Init
    <2>4. /\ faults \in 0..MaxFaults /\ crashes \in 0..MaxCrashes
          /\ powerCuts \in 0..MaxPowerCuts /\ misreads \in 0..faults
        BY DbFileAssumption DEF DbFileAssumption, Init
    <2>5. tries \in 0..Attempts
        BY DbFileAssumption DEF DbFileAssumption, Init
    <2>6. QED
        BY <1>2, <2>1, <2>2, <2>3, <2>4, <2>5 DEF Init, Memory
<1>4. Untouched
    BY DEF Init, Untouched
<1>5. QED
    BY <1>1, <1>2, <1>3, <1>4 DEF IInv, Rest

\* Whatever the disk holds now is as good as the files are.
LEMMA OnDiskGood ==
    ASSUME IInv
    PROVE  OnDisk \subseteq Content \X Content /\ \A v \in OnDisk : Good(v[1], v[2])
<1>1. ASSUME NEW c, IsFile(c) PROVE c \in Content
    BY <1>1 DEF IsFile, Absent, Torn, Document, Content
<1>2. ASSUME NEW v \in OnDisk
      PROVE  v \in Content \X Content /\ Good(v[1], v[2])
    <2>1. PICK d \in Written("db", dbFile), j \in Written("journal", journal) : v = <<d, j>>
        BY <1>2 DEF OnDisk
    <2>2. d \in {dbFile, Torn} /\ ("db" \notin unsynced => d = dbFile)
        BY <2>1 DEF Written
    <2>3. j \in {journal, Torn} /\ ("journal" \notin unsynced => j = journal)
        BY <2>1 DEF Written
    <2>4. Good(d, j)
        BY <2>2, <2>3, Kinds DEF IInv, Rest, Now, Good, Sound, IsFile, Pages
    <2>5. d \in Content /\ j \in Content
        BY <2>4, <1>1 DEF Good, Sound
    <2>6. QED
        BY <2>1, <2>4, <2>5
<1>3. QED
    BY <1>2

\* What the disk may still hold is forgotten, or grows by what it holds now.
Grows ==
    /\ past' \subseteq past \cup OnDisk
    /\ versions \subseteq versions' /\ settled' = settled /\ (journalKept => journalKept')

\* Every step but a Sync and a power cut leaves more that a power cut may bring back.
LEMMA PastGrows == [Next]_vars => past' = {} \/ Grows
<1> SUFFICES ASSUME [Next]_vars PROVE past' = {} \/ Grows
    OBVIOUS
<1> USE DEF Grows, NotYetDurable, files, history
<1>1. CASE (\E t \in Txn : Start(t)) \/ Crash \/ UNCHANGED vars
    BY <1>1 DEF Start, Crash, vars
<1>2. CASE Sync \/ PowerCut
    BY <1>2 DEF Sync, PowerCut
<1>3. CASE EnsurePresent \/ EnsureFault \/ CreateBegin \/ CreateEnd \/ CreateFault
    BY <1>3 DEF EnsurePresent, EnsureFault, CreateBegin, CreateEnd, CreateFault
<1>4. CASE NoJournal \/ ReadJournal \/ ReadJournalFault \/ DbParses \/ RestoreBegin
    BY <1>4 DEF NoJournal, ReadJournal, ReadJournalFault, DbParses, RestoreBegin
<1>5. CASE MisreadDb \/ RestoreEnd \/ RestoreFault \/ DropJournal \/ DropJournalFault
    BY <1>5 DEF MisreadDb, RestoreEnd, RestoreFault, DropJournal, DropJournalFault
<1>6. CASE Read \/ ReadFault \/ ReadUnparsable \/ NothingToPersist
    BY <1>6 DEF Read, ReadFault, ReadUnparsable, NothingToPersist
<1>7. CASE BackupBegin \/ BackupEnd \/ BackupReadFault \/ BackupFault
    BY <1>7 DEF BackupBegin, BackupEnd, BackupReadFault, BackupFault
<1>8. CASE TmpBegin \/ TmpEnd \/ Rename \/ PersistRetry \/ PersistFails
    BY <1>8 DEF TmpBegin, TmpEnd, Rename, PersistRetry, PersistFails
<1>9. CASE UnlinkJournal \/ UnlinkJournalFault
    BY <1>9 DEF UnlinkJournal, UnlinkJournalFault
<1>10. QED
    BY <1>1, <1>2, <1>3, <1>4, <1>5, <1>6, <1>7, <1>8, <1>9 DEF Next, LoadDb, PersistDb

\* It stays good.
LEMMA PastStep == IInv /\ [Next]_vars => Past'
<1> SUFFICES ASSUME IInv, [Next]_vars PROVE Past'
    OBVIOUS
<1>1. CASE past' = {}
    BY <1>1 DEF Past
<1>2. CASE Grows
    <2>1. \A v \in past' : v \in Content \X Content /\ Good(v[1], v[2])
        BY <1>2, OnDiskGood DEF Grows, IInv, Past
    <2>2. ASSUME NEW d, NEW j, Good(d, j) PROVE Good(d, j)'
        BY <1>2, <2>2 DEF Grows, Good, Sound
    <2>3. \A v \in past' : Good(v[1], v[2])'
        BY <2>1, <2>2
    <2>4. QED
        BY <2>1, <2>3 DEF Past
<1>3. QED
    BY <1>1, <1>2, PastGrows

\* Every step preserves IInv.  Only a rename, which makes a new document visible, and
\* a power cut, which tears any files at once, take more than their definition.
LEMMA RestStep == IInv /\ [Next]_vars => Rest'
<1> SUFFICES ASSUME IInv, [Next]_vars PROVE Rest'
    OBVIOUS
<1> USE Kinds, DbFileAssumption
    DEF IInv, Rest, Files, Now, Good, Sound, IsFile, Memory, Places, Pages, Empty, NothingYet,
        Kept, Untouched, Intact, Outside, Acknowledged, Loading, Persisting,
        Goto, Fault, Return, files, memory, env, history
<1>1. CASE \E t \in Txn : Start(t)
    BY <1>1 DEF Start
<1>2. CASE EnsurePresent
    BY <1>2 DEF EnsurePresent
<1>3. CASE EnsureFault
    BY <1>3 DEF EnsureFault
<1>4. CASE CreateBegin
    BY <1>4 DEF CreateBegin
<1>5. CASE CreateEnd
    BY <1>5 DEF CreateEnd
<1>6. CASE CreateFault
    BY <1>6 DEF CreateFault
<1>7. CASE NoJournal
    BY <1>7 DEF NoJournal
<1>8. CASE ReadJournal
    BY <1>8 DEF ReadJournal
<1>9. CASE ReadJournalFault
    BY <1>9 DEF ReadJournalFault
<1>10. CASE DbParses
    BY <1>10 DEF DbParses
<1>11. CASE RestoreBegin
    BY <1>11 DEF RestoreBegin
<1>12. CASE MisreadDb
    BY <1>12 DEF MisreadDb
<1>13. CASE RestoreEnd
    BY <1>13 DEF RestoreEnd
<1>14. CASE RestoreFault
    BY <1>14 DEF RestoreFault
<1>15. CASE DropJournal
    BY <1>15 DEF DropJournal
<1>16. CASE DropJournalFault
    BY <1>16 DEF DropJournalFault
<1>17. CASE Read
    BY <1>17 DEF Read
<1>18. CASE ReadFault
    BY <1>18 DEF ReadFault
<1>19. CASE ReadUnparsable
    BY <1>19 DEF ReadUnparsable
<1>20. CASE NothingToPersist
    BY <1>20 DEF NothingToPersist
<1>21. CASE BackupBegin
    BY <1>21 DEF BackupBegin
<1>22. CASE BackupEnd
    BY <1>22 DEF BackupEnd
<1>23. CASE BackupReadFault
    BY <1>23 DEF BackupReadFault
<1>24. CASE BackupFault
    BY <1>24 DEF BackupFault
<1>25. CASE TmpBegin
    BY <1>25 DEF TmpBegin
<1>26. CASE TmpEnd
    BY <1>26 DEF TmpEnd
<1>27. CASE Rename
    <2>1. /\ pc = "rename" /\ pc' = "unlinkJournal"
          /\ tmp = Document(doc \cup {cur}) /\ dbFile = Document(doc)
          /\ dbFile' = tmp /\ tmp' = Absent /\ versions' = versions \cup {doc \cup {cur}}
          /\ UNCHANGED <<journal, cur, doc, saved, tries, outcome, env>>
          /\ UNCHANGED <<journalKept, misreads, settled>>
        BY <1>27 DEF Rename
    <2>2. dbFile'.txns = dbFile.txns \cup {cur} /\ Parses(dbFile') /\ Parses(dbFile)
        BY <2>1
    <2>3. cur \in Txn /\ outcome[cur] = "none"
        BY <2>1
    <2>4. Files' /\ Now' /\ Places' /\ Empty' /\ Intact'
        BY <2>1, <2>2, <2>3
    <2>5. Pages'
        BY <1>27, <2>1 DEF Rename
    <2>6. Memory'
        <3>1. versions' \subseteq SUBSET Txn /\ {} \in versions' /\ settled' \subseteq Acknowledged'
            BY <2>1, <2>3
        <3>2. unsynced' \subseteq {"db", "journal", "tmp"}
            BY <1>27 DEF Rename
        <3>3. QED
            BY <2>1, <2>3, <3>1, <3>2
    <2>7. Kept'
        BY <2>1, <2>2
    <2>8. Outside' \subseteq Outside \ {cur}
        BY <2>1, <2>3
    <2>9. Untouched'
        <3>1. dbFile.txns = doc /\ doc \in versions
            BY <2>1, <2>2
        <3>2. QED
            BY <2>1, <2>8, <3>1
    <2>10. QED
        BY <2>4, <2>5, <2>6, <2>7, <2>9
<1>28. CASE PersistRetry
    BY <1>28 DEF PersistRetry
<1>29. CASE PersistFails
    BY <1>29 DEF PersistFails
<1>30. CASE UnlinkJournal
    BY <1>30 DEF UnlinkJournal
<1>31. CASE UnlinkJournalFault
    BY <1>31 DEF UnlinkJournalFault
<1>32. CASE Crash
    BY <1>32 DEF Crash
<1>33. CASE PowerCut
    <2>1. /\ unsynced' = {} /\ powerCuts < MaxPowerCuts /\ powerCuts' = powerCuts + 1
          /\ tmp' \in {tmp, Torn, Absent}
          /\ UNCHANGED <<faults, crashes, journalKept, misreads, versions, settled>>
        BY <1>33 DEF PowerCut
    <2>2. \/ UNCHANGED <<cur, pc, doc, saved, tries, outcome>> /\ cur = NoTxn
          \/ cur # NoTxn /\ Return("unknown")
        BY <1>33 DEF PowerCut
    <2>3. Good(dbFile', journal')
        <3>1. PICK v \in past \cup OnDisk : dbFile' = v[1] /\ journal' = v[2]
            BY <1>33 DEF PowerCut
        <3>2. Good(v[1], v[2])
            BY OnDiskGood DEF Past
        <3>3. QED
            BY <3>1, <3>2
    <2>4. pc' = "idle" /\ cur' = NoTxn
        BY <2>2
    <2>5. Acknowledged' = Acknowledged /\ Outside' \subseteq Outside
        BY <2>2
    <2>6. powerCuts' # 0 /\ powerCuts' \in 0..MaxPowerCuts
        BY <2>1
    <2>7. Files' /\ Now'
        BY <2>1, <2>2, <2>3
    <2>8. Places' /\ Pages'
        BY <2>1, <2>4
    <2>9. Empty' /\ Kept' /\ Intact'
        BY <2>3, <2>4, <2>6, <2>1
    <2>10. Memory'
        <3>1. outcome' \in [Txn -> {"none", "ok", "error", "unknown"}]
            BY <2>2
        <3>2. doc' \subseteq Txn /\ tries' \in 0..Attempts
            BY <2>2
        <3>3. /\ journalKept' \in BOOLEAN /\ misreads' \in 0..faults'
              /\ faults' \in 0..MaxFaults /\ crashes' \in 0..MaxCrashes
              /\ versions' \subseteq SUBSET Txn /\ {} \in versions'
            BY <2>1
        <3>4. settled' \subseteq Acknowledged'
            BY <2>1, <2>5
        <3>5. unsynced' \subseteq {"db", "journal", "tmp"}
            BY <2>1
        <3>6. QED
            BY <2>4, <2>6, <3>1, <3>2, <3>3, <3>4, <3>5 DEF Memory
    <2>11. Untouched'
        BY <2>1, <2>5
    <2>12. QED
        BY <2>7, <2>8, <2>9, <2>10, <2>11
<1>34. CASE Sync
    BY <1>34 DEF Sync, Stored
<1>35. CASE UNCHANGED vars
    BY <1>35 DEF vars
<1>36. QED
    BY <1>1, <1>2, <1>3, <1>4, <1>5, <1>6, <1>7, <1>8, <1>9, <1>10, <1>11, <1>12, <1>13,
       <1>14, <1>15, <1>16, <1>17, <1>18, <1>19, <1>20, <1>21, <1>22, <1>23, <1>24, <1>25,
       <1>26, <1>27, <1>28, <1>29, <1>30, <1>31, <1>32, <1>33, <1>34, <1>35
       DEF Next, LoadDb, PersistDb

\* Every step preserves IInv.
LEMMA IInvStep == IInv /\ [Next]_vars => IInv'
BY RestStep, PastStep DEF IInv

\* IInv is an invariant.
THEOREM Invariance == Spec => []IInv
BY InitIInv, IInvStep, PTL DEF Spec

----------------------------------------------------------------------------
(* What follows from it.                                                   *)

\* Every variable stays in its domain.
THEOREM TypeCorrect == Spec => []TypeOK
<1>1. IInv => TypeOK
    <2> SUFFICES ASSUME IInv PROVE TypeOK
        OBVIOUS
    <2>1. ASSUME NEW c, IsFile(c) PROVE c \in Content
        BY <2>1 DEF IsFile, Absent, Torn, Document, Content
    <2>2. {dbFile, journal, tmp, saved} \subseteq Content
        BY <2>1 DEF IInv, Rest, Files, Now, Good, Sound
    <2>3. QED
        BY <2>2 DEF IInv, Rest, Past, Memory, TypeOK
<1>2. QED
    BY Invariance, <1>1, PTL

\* An acknowledged write is in whatever can still be read, unless an unlink has failed
\* or the host has lost power.
THEOREM AcknowledgedStay == Spec => []AcknowledgedSurvive
<1>1. IInv => AcknowledgedSurvive
    BY Kinds DEF IInv, Rest, Empty, NothingYet, Kept, AcknowledgedSurvive, Stored
<1>2. QED
    BY Invariance, <1>1, PTL

\* What had been written back when it was acknowledged is there after any power cut.
THEOREM SettledStay == Spec => []SettledSurvive
<1>1. IInv => SettledSurvive
    BY Kinds DEF IInv, Rest, Now, Good, Sound, Empty, SettledSurvive, Stored
<1>2. QED
    BY Invariance, <1>1, PTL

\* A refused write is not in what can be read.
THEOREM RejectedNeverStored == Spec => []RejectedStayOut
<1>1. IInv => RejectedStayOut
    BY Kinds DEF IInv, Rest, Memory, Now, Good, Sound, Untouched, Outside, RejectedStayOut, Stored
<1>2. QED
    BY Invariance, <1>1, PTL

\* Only an accident makes a database with something in it unreadable.
THEOREM UnreadableNeedsAccident == Spec => []UnreadableOnlyWhenEmpty
<1>1. IInv => UnreadableOnlyWhenEmpty
    BY Kinds DEF IInv, Rest, Now, Good, Sound, IsFile, NothingYet, Intact,
       UnreadableOnlyWhenEmpty, Stored
<1>2. QED
    BY Invariance, <1>1, PTL

----------------------------------------------------------------------------
(* The refinement.                                                         *)

Accidents == powerCuts + misreads

\* The steps of the atomic store, in terms of Stored.
Stutters   == Stored' = Stored /\ versions' = versions /\ Accidents' = Accidents
Commits(t) ==
    /\ Stored # Torn /\ \A v \in versions : t \notin v
    /\ Stored' # Torn /\ Stored'.txns = Stored.txns \cup {t}
    /\ versions' = versions \cup {Stored'.txns}
    /\ Accidents' = Accidents
Lost       == Stored' = Torn /\ versions' = versions
LosesFirst == versions = {{}} /\ Lost /\ Accidents' = Accidents
Suffers ==
    /\ Accidents' = Accidents + 1
    /\ Lost \/ (Stored' # Torn /\ Stored'.txns \in versions /\ versions' = versions)
LosesLate == Accidents > 0 /\ Lost /\ Accidents' = Accidents

StoreStep == Stutters \/ (\E t \in Txn : Commits(t)) \/ LosesFirst \/ Suffers \/ LosesLate

\* The number of accidents is a number.
LEMMA AccidentsType == IInv => powerCuts \in Nat /\ misreads \in Nat /\ Accidents \in Nat
BY DbFileAssumption DEF DbFileAssumption, IInv, Rest, Memory, Accidents

\* A step that touches neither the database nor its journal changes nothing that can
\* be loaded, once the database is there.
LEMMA Quiet ==
    ASSUME UNCHANGED <<dbFile, journal, powerCuts, misreads, versions>>,
           pc # "creating", pc' # "creating"
    PROVE  Stutters
BY DEF Stutters, Stored, Accidents

\* Nor does one that touches the journal of a database that is whole.
LEMMA WholeStays ==
    ASSUME UNCHANGED <<dbFile, powerCuts, misreads, versions>>, Parses(dbFile),
           pc # "creating", pc' # "creating"
    PROVE  Stutters
BY Kinds DEF Stutters, Stored, Accidents

\* A database that is being created is lost before anything was committed, or after a
\* power cut had taken it away already.
LEMMA CreationLost ==
    ASSUME IInv, pc = "creating", Lost, Accidents' = Accidents
    PROVE  StoreStep
<1>1. powerCuts = 0 => versions = {{}}
    BY DEF IInv, Rest, Empty, NothingYet
<1>2. powerCuts # 0 => Accidents > 0
    BY AccidentsType DEF Accidents
<1>3. QED
    BY <1>1, <1>2 DEF StoreStep, LosesFirst, LosesLate

\* Creating the database shows only if it fails or is cut short.
LEMMA CreateSteps ==
    ASSUME IInv, CreateBegin \/ CreateEnd \/ CreateFault
    PROVE  StoreStep
<1>1. CASE CreateBegin
    BY <1>1 DEF CreateBegin, Goto, env, history, StoreStep, Stutters, Stored, Accidents
<1>2. CASE CreateEnd
    BY <1>2, Kinds DEF CreateEnd, Goto, env, history, StoreStep, Stutters, Stored, Accidents
<1>3. CASE CreateFault
    <2>1. Accidents' = Accidents /\ versions' = versions
        BY <1>3 DEF CreateFault, Fault, history, Accidents
    <2>2. Stored' = Torn /\ pc = "creating"
        BY <1>3, Kinds DEF CreateFault, Return, files, IInv, Rest, Places, Empty, Stored
    <2>3. QED
        BY <2>1, <2>2, CreationLost DEF Lost
<1>4. QED
    BY <1>1, <1>2, <1>3

\* Recovery restores what would have been loaded from the journal.  It is an accident
\* when it takes a whole database for a damaged one, and loses what one has left when
\* it fails.
LEMMA RecoverySteps ==
    ASSUME IInv, RestoreBegin \/ MisreadDb \/ RestoreEnd \/ DropJournal
    PROVE  StoreStep
<1>0. versions' = versions
    BY DEF RestoreBegin, MisreadDb, RestoreEnd, DropJournal, history
<1>1. CASE RestoreBegin
    <2>1. Stored' = Stored
        BY <1>1, Kinds DEF RestoreBegin, Goto, IInv, Rest, Places, Loading, Stored
    <2>2. QED
        BY <1>0, <1>1, <2>1 DEF RestoreBegin, env, history, StoreStep, Stutters, Accidents
<1>2. CASE MisreadDb
    <2>1. Accidents' = Accidents + 1
        BY <1>2, AccidentsType DEF MisreadDb, Fault, Accidents
    <2>2. Stored' = Torn \/ (Stored' = journal /\ Parses(journal))
        BY <1>2, Kinds DEF MisreadDb, Goto, Stored
    <2>3. QED
        BY <1>0, <2>1, <2>2, Kinds DEF IInv, Rest, Now, Good, Sound, StoreStep, Suffers, Lost
<1>3. CASE RestoreEnd
    <2>1. pc = "restoring" /\ pc' = "dropJournal" /\ dbFile = Torn /\ dbFile' = journal
          /\ journal # Absent /\ journal' = journal
        BY <1>3 DEF RestoreEnd, Goto, IInv, Rest, Places
    <2>2. Stored' = Stored
        BY <2>1, Kinds DEF IInv, Rest, Now, Good, Sound, IsFile, Stored
    <2>3. QED
        BY <1>0, <1>3, <2>2 DEF RestoreEnd, env, history, StoreStep, Stutters, Accidents
<1>4. CASE DropJournal
    <2>1. /\ pc = "dropJournal" /\ pc' = "read" /\ journal' = Absent /\ dbFile' = dbFile
          /\ dbFile # Absent /\ Accidents' = Accidents
        BY <1>4 DEF DropJournal, Goto, IInv, Rest, Places, Loading, env, history, Accidents
    <2>2. CASE Parses(dbFile)
        BY <1>0, <2>1, <2>2, Kinds DEF StoreStep, Stutters, Stored
    <2>3. CASE ~Parses(dbFile)
        <3>1. Stored' = Torn
            BY <2>1, <2>3, Kinds DEF Stored
        <3>2. dbFile = Torn /\ journal # Absent
            BY <2>1, <2>3, Kinds DEF IInv, Rest, Now, Good, Sound, IsFile, Places
        <3>3. Accidents > 0
            BY <3>2, AccidentsType DEF IInv, Rest, Intact, Accidents
        <3>4. QED
            BY <1>0, <2>1, <3>1, <3>3 DEF StoreStep, LosesLate, Lost
    <2>4. QED
        BY <2>2, <2>3
<1>5. QED
    BY <1>1, <1>2, <1>3, <1>4

\* The rename is the commit.
LEMMA RenameStep ==
    ASSUME IInv, Rename
    PROVE  StoreStep
<1>1. /\ pc = "rename" /\ pc' = "unlinkJournal"
      /\ dbFile = Document(doc) /\ dbFile' = tmp /\ tmp = Document(doc \cup {cur})
      /\ versions' = versions \cup {tmp.txns}
      /\ UNCHANGED <<powerCuts, misreads>>
    BY DEF Rename, Goto, IInv, Rest, Places, Persisting, env
<1>2. cur \in Outside
    BY <1>1 DEF IInv, Rest, Memory, Outside
<1>3. cur \in Txn /\ \A v \in versions : cur \notin v
    BY <1>2 DEF Outside, IInv, Rest, Untouched
<1>4. Stored = dbFile /\ Stored' = dbFile' /\ dbFile.txns = doc /\ dbFile'.txns = doc \cup {cur}
    BY <1>1, Kinds DEF Stored
<1>5. Commits(cur)
    BY <1>1, <1>3, <1>4, Kinds DEF Commits, Accidents
<1>6. QED
    BY <1>3, <1>5 DEF StoreStep

\* A process that dies loses nothing but a database it was creating.
LEMMA CrashStep ==
    ASSUME IInv, Crash
    PROVE  StoreStep
<1>1. UNCHANGED <<dbFile, journal, powerCuts, misreads, versions>> /\ pc' = "idle"
    BY DEF Crash, Return, files, history
<1>2. CASE pc = "creating"
    <2>1. Stored' = Torn
        BY <1>1, <1>2, Kinds DEF IInv, Rest, Places, Empty, Stored
    <2>2. QED
        BY <1>1, <1>2, <2>1, CreationLost DEF Lost, Accidents
<1>3. CASE pc # "creating"
    BY <1>1, <1>3, Quiet DEF StoreStep
<1>4. QED
    BY <1>2, <1>3

\* A power cut leaves one of the versions, or nothing that can be read.
LEMMA PowerCutStep ==
    ASSUME IInv, PowerCut
    PROVE  StoreStep
<1>1. powerCuts' = powerCuts + 1 /\ UNCHANGED <<misreads, versions>>
    BY DEF PowerCut, history
<1>2. pc' = "idle"
    BY DEF PowerCut, Return, memory, IInv, Rest, Memory
<1>3. Accidents' = Accidents + 1
    BY <1>1, AccidentsType DEF Accidents
<1>4. Good(dbFile', journal')
    <2>1. PICK v \in past \cup OnDisk : dbFile' = v[1] /\ journal' = v[2]
        BY DEF PowerCut
    <2>2. Good(v[1], v[2])
        BY OnDiskGood DEF IInv, Past
    <2>3. QED
        BY <2>1, <2>2
<1>5. Stored' = Torn \/ (Stored' # Torn /\ Stored'.txns \in versions)
    BY <1>2, <1>4, Kinds DEF Good, Sound, IsFile, IInv, Rest, Memory, Stored
<1>6. QED
    BY <1>1, <1>3, <1>5 DEF StoreStep, Suffers, Lost

\* Every step of DbFile is one of the atomic store, or none.
LEMMA StoreSteps == IInv /\ [Next]_vars => StoreStep
<1> SUFFICES ASSUME IInv, [Next]_vars PROVE StoreStep
    OBVIOUS
<1>1. CASE CreateBegin \/ CreateEnd \/ CreateFault
    BY <1>1, CreateSteps
<1>2. CASE RestoreBegin \/ MisreadDb \/ RestoreEnd \/ DropJournal
    BY <1>2, RecoverySteps
<1>3. CASE Rename
    BY <1>3, RenameStep
<1>4. CASE Crash
    BY <1>4, CrashStep
<1>5. CASE PowerCut
    BY <1>5, PowerCutStep
<1>6. CASE BackupBegin \/ BackupEnd \/ UnlinkJournal
    <2>1. UNCHANGED <<dbFile, powerCuts, misreads, versions>> /\ pc # "creating" /\ pc' # "creating"
        BY <1>6 DEF BackupBegin, BackupEnd, UnlinkJournal, Goto, Return, env, history
    <2>2. Parses(dbFile)
        BY <1>6, Kinds DEF BackupBegin, BackupEnd, UnlinkJournal, Goto, IInv, Rest, Places,
           Persisting
    <2>3. QED
        BY <2>1, <2>2, WholeStays DEF StoreStep
<1>7. CASE \/ \E t \in Txn : Start(t)
           \/ Sync
           \/ EnsurePresent \/ EnsureFault \/ NoJournal \/ ReadJournal \/ ReadJournalFault
           \/ DbParses \/ RestoreFault \/ DropJournalFault \/ Read \/ ReadFault
           \/ ReadUnparsable \/ NothingToPersist \/ BackupReadFault \/ BackupFault
           \/ TmpBegin \/ TmpEnd \/ PersistRetry \/ PersistFails \/ UnlinkJournalFault
           \/ UNCHANGED vars
    <2>1. UNCHANGED <<dbFile, journal, powerCuts, misreads, versions>>
        BY <1>7 DEF Start, Sync, EnsurePresent, EnsureFault, NoJournal, ReadJournal,
           ReadJournalFault, DbParses, RestoreFault, DropJournalFault, Read, ReadFault,
           ReadUnparsable, NothingToPersist, BackupReadFault, BackupFault, TmpBegin, TmpEnd,
           PersistRetry, PersistFails, UnlinkJournalFault, Fault, files, env, history, vars
    <2>2. pc' # "creating" \/ pc' = pc
        BY <1>7 DEF Start, Sync, EnsurePresent, EnsureFault, NoJournal, ReadJournal,
           ReadJournalFault, DbParses, RestoreFault, DropJournalFault, Read, ReadFault,
           ReadUnparsable, NothingToPersist, BackupReadFault, BackupFault, TmpBegin, TmpEnd,
           PersistRetry, PersistFails, UnlinkJournalFault, Goto, Return, memory, vars
    <2>3. pc # "creating" \/ pc' = pc
        BY <1>7 DEF Start, Sync, EnsurePresent, EnsureFault, NoJournal, ReadJournal,
           ReadJournalFault, DbParses, RestoreFault, DropJournalFault, Read, ReadFault,
           ReadUnparsable, NothingToPersist, BackupReadFault, BackupFault, TmpBegin, TmpEnd,
           PersistRetry, PersistFails, UnlinkJournalFault, Goto, Return, memory, vars
    <2>4. QED
        BY <2>1, <2>2, <2>3, Quiet DEF StoreStep, Stutters, Stored, Accidents
<1>8. QED
    BY <1>1, <1>2, <1>3, <1>4, <1>5, <1>6, <1>7 DEF Next, LoadDb, PersistDb

\* The initial states map to one of the atomic store.
LEMMA AbstractInit == Init => Abstract!Init
BY Kinds DEF Init, Abstract!Init, Stored

\* StoreStep is what its name says.
LEMMA AbstractStep == IInv /\ StoreStep => [Abstract!Next]_(Abstract!vars)
<1> SUFFICES ASSUME IInv, StoreStep PROVE Abstract!Next \/ UNCHANGED Abstract!vars
    OBVIOUS
<1>0. ASSUME Lost PROVE Abstract!Damage
    BY <1>0, Kinds DEF Lost, Abstract!Damage
<1>1. CASE Stutters
    BY <1>1 DEF Stutters, Accidents, Abstract!vars
<1>2. ASSUME NEW t \in Txn, Commits(t) PROVE Abstract!Commit(t)
    BY <1>2 DEF Commits, Accidents, Abstract!Commit
<1>3. CASE LosesFirst
    BY <1>0, <1>3 DEF LosesFirst, Accidents, Abstract!Next, Abstract!FirstWriteLost
<1>4. CASE Suffers
    BY <1>0, <1>4 DEF Suffers, Accidents, Abstract!Next, Abstract!Accident, Abstract!Revert
<1>5. CASE LosesLate
    BY <1>0, <1>5 DEF LosesLate, Accidents, Abstract!Next, Abstract!LateDamage
<1>6. QED
    BY <1>1, <1>2, <1>3, <1>4, <1>5 DEF StoreStep, Abstract!Next

\* The files implement the atomic store: at once or not at all, whatever dies or fails.
THEOREM Refinement == Spec => ImplementsAtomicStore
<1>1. IInv /\ [Next]_vars => [Abstract!Next]_(Abstract!vars)
    BY StoreSteps, AbstractStep
<1>2. QED
    BY Invariance, <1>1, AbstractInit, PTL DEF Spec, ImplementsAtomicStore, Abstract!Spec
===============================================================================
