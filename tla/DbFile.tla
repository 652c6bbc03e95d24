------------------------------- MODULE DbFile -------------------------------
(***************************************************************************)
(* The files behind withDbTransaction (src/lib/database.ts): database.json,*)
(* its .journal and its .tmp, through ensureDbFile, recoverFromJournal-    *)
(* IfNeeded, loadDb and persistDb.  One action per file operation; a       *)
(* writeFile takes two, since a file that is being written holds neither   *)
(* its old nor its new content.  Between any two of them the process may   *)
(* die, an operation may fail, or the host may lose power.                 *)
(*                                                                         *)
(* Nothing in the code calls fsync, on a file or on the directory.  So,    *)
(* until the kernel writes everything back (Sync), a power cut may undo    *)
(* the latest creations, truncations, renames and unlinks (a journaling    *)
(* file system keeps a prefix of them), and tear any file whose data has   *)
(* not been written back.                                                  *)
(*                                                                         *)
(* Calls run one at a time: that is what the lockfile is for (DbLock).  A  *)
(* document is the set of transactions whose effects it holds.             *)
(***************************************************************************)
EXTENDS Naturals

CONSTANTS
    Txn,
    NoTxn,
    Attempts,     \* RETRY_ATTEMPTS
    MaxFaults,    \* bound: failed file operations
    MaxCrashes,   \* bound: process deaths
    MaxPowerCuts  \* bound

ASSUME DbFileAssumption ==
    /\ NoTxn \notin Txn
    /\ Attempts \in Nat \ {0}
    /\ MaxFaults \in Nat /\ MaxCrashes \in Nat /\ MaxPowerCuts \in Nat

VARIABLES
    dbFile, journal, tmp,  \* content of the three files
    unsynced,              \* those whose data only the page cache holds
    past,                  \* the older <<database, journal>> the disk may still hold
    cur, pc,               \* the call inside withDbLock, and where it stands
    doc,                   \* the document it has loaded
    saved,                 \* file content it has read (journal, or backup)
    tries,                 \* withRetries' attempt in persistDb, from 1
    outcome,               \* what each call's caller has been told
    faults, crashes, powerCuts,
    journalKept,           \* history: an unlink of the journal has failed
    misreads,              \* history: restores of a database that was not damaged
    versions,              \* history: the documents that have been renamed into place
    settled                \* history: acknowledged writes that a Sync has put on disk

files   == <<dbFile, journal, tmp, unsynced, past>>
memory  == <<cur, pc, doc, saved, tries>>
env     == <<faults, crashes, powerCuts>>
history == <<journalKept, misreads, versions, settled>>
vars == <<files, memory, outcome, env, history>>

\* The content of a file: none, a document, or something deserializeDb rejects.
Content == [kind : {"absent", "torn", "document"}, txns : SUBSET Txn]
Absent  == [kind |-> "absent", txns |-> {}]
Torn    == [kind |-> "torn", txns |-> {}]
Document(S) == [kind |-> "document", txns |-> S]
Parses(c)   == c.kind = "document"

Init ==
    /\ dbFile = Absent
    /\ journal = Absent
    /\ tmp = Absent
    /\ unsynced = {}
    /\ past = {}
    /\ cur = NoTxn
    /\ pc = "idle"
    /\ doc = {}
    /\ saved = Absent
    /\ tries = 0
    /\ outcome = [t \in Txn |-> "none"]
    /\ faults = 0
    /\ crashes = 0
    /\ powerCuts = 0
    /\ journalKept = FALSE
    /\ misreads = 0
    /\ versions = {{}}
    /\ settled = {}

\* The document the next call will load, if its recovery works.
Stored ==
    IF dbFile = Absent \/ pc = "creating" THEN Document({})
    ELSE IF Parses(dbFile) THEN dbFile
    ELSE IF Parses(journal) THEN journal
    ELSE Torn

Acknowledged == {t \in Txn : outcome[t] = "ok"}

\* What the disk holds of the database and its journal, if it has kept up.
Written(f, content) == {content} \cup (IF f \in unsynced THEN {Torn} ELSE {})
OnDisk == Written("db", dbFile) \X Written("journal", journal)

\* A file is created, truncated, renamed or removed: a power cut may undo it.
NotYetDurable == past' = past \cup OnDisk

Goto(from, to) == pc = from /\ pc' = to

\* A file operation fails (ENOSPC, EIO, EPERM).
Fault == faults < MaxFaults /\ faults' = faults + 1 /\ UNCHANGED <<crashes, powerCuts>>

\* The call returns to its caller and its variables are gone.
Return(o) ==
    /\ outcome' = [outcome EXCEPT ![cur] = o]
    /\ cur' = NoTxn
    /\ pc' = "idle"
    /\ doc' = {}
    /\ saved' = Absent
    /\ tries' = 0

----------------------------------------------------------------------------
(* loadDb.                                                                 *)

Start(t) ==
    /\ outcome[t] = "none"
    /\ cur = NoTxn
    /\ cur' = t
    /\ Goto("idle", "ensure")
    /\ UNCHANGED <<files, doc, saved, tries, outcome, env, history>>

\* ensureDbFile: access(DB_PATH) succeeds ...
EnsurePresent ==
    /\ dbFile # Absent
    /\ Goto("ensure", "journal")
    /\ UNCHANGED <<files, cur, doc, saved, tries, outcome, env, history>>

EnsureFault ==
    /\ pc = "ensure"
    /\ Fault
    /\ Return("error")
    /\ UNCHANGED <<files, history>>

\* Fault: any error of access() counts as ENOENT.
CreateBegin_AnyError ==
    /\ dbFile' = Torn
    /\ NotYetDurable
    /\ Goto("ensure", "creating")
    /\ UNCHANGED <<journal, tmp, unsynced, cur, doc, saved, tries, outcome, env, history>>

\* ... or the empty database is written straight to DB_PATH.
CreateBegin ==
    /\ dbFile = Absent
    /\ dbFile' = Torn
    /\ NotYetDurable
    /\ Goto("ensure", "creating")
    /\ UNCHANGED <<journal, tmp, unsynced, cur, doc, saved, tries, outcome, env, history>>

CreateEnd ==
    /\ dbFile' = Document({})
    /\ unsynced' = unsynced \cup {"db"}
    /\ Goto("creating", "journal")
    /\ UNCHANGED <<journal, tmp, past, cur, doc, saved, tries, outcome, env, history>>

CreateFault ==
    /\ pc = "creating"
    /\ Fault
    /\ Return("error")
    /\ UNCHANGED <<files, history>>

\* recoverFromJournalIfNeeded: no journal ...
NoJournal ==
    /\ journal = Absent
    /\ Goto("journal", "read")
    /\ UNCHANGED <<files, cur, doc, saved, tries, outcome, env, history>>

\* ... or one, read as it is: its content is not parsed.
ReadJournal ==
    /\ journal # Absent
    /\ saved' = journal
    /\ Goto("journal", "check")
    /\ UNCHANGED <<files, cur, doc, tries, outcome, env, history>>

\* A journal that cannot be read is logged, left alone and not used.
ReadJournalFault ==
    /\ journal # Absent
    /\ Fault
    /\ Goto("journal", "read")
    /\ UNCHANGED <<files, cur, doc, saved, tries, outcome, history>>

DbParses ==
    /\ Parses(dbFile)
    /\ Goto("check", "dropJournal")
    /\ UNCHANGED <<files, cur, doc, saved, tries, outcome, env, history>>

RestoreBegin ==
    /\ ~Parses(dbFile)
    /\ dbFile' = Torn
    /\ unsynced' = unsynced \ {"db"}
    /\ NotYetDurable
    /\ Goto("check", "restoring")
    /\ UNCHANGED <<journal, tmp, cur, doc, saved, tries, outcome, env, history>>

\* The database cannot be read just now, and is restored as if it were damaged.
MisreadDb ==
    /\ Parses(dbFile)
    /\ Fault
    /\ dbFile' = Torn
    /\ unsynced' = unsynced \ {"db"}
    /\ NotYetDurable
    /\ misreads' = misreads + 1
    /\ Goto("check", "restoring")
    /\ UNCHANGED <<journal, tmp, cur, doc, saved, tries, outcome>>
    /\ UNCHANGED <<journalKept, versions, settled>>

RestoreEnd ==
    /\ dbFile' = saved
    /\ unsynced' = unsynced \cup {"db"}
    /\ Goto("restoring", "dropJournal")
    /\ UNCHANGED <<journal, tmp, past, cur, doc, saved, tries, outcome, env, history>>

\* A restore that fails is logged, and the journal is removed all the same.
RestoreFault ==
    /\ Fault
    /\ Goto("restoring", "dropJournal")
    /\ UNCHANGED <<files, cur, doc, saved, tries, outcome, history>>

DropJournal ==
    /\ journal' = Absent
    /\ unsynced' = unsynced \ {"journal"}
    /\ NotYetDurable
    /\ saved' = Absent
    /\ Goto("dropJournal", "read")
    /\ UNCHANGED <<dbFile, tmp, cur, doc, tries, outcome, env, history>>

DropJournalFault ==
    /\ Fault
    /\ saved' = Absent
    /\ Goto("dropJournal", "read")
    /\ journalKept' = TRUE
    /\ UNCHANGED <<files, cur, doc, tries, outcome, misreads, versions, settled>>

Read ==
    /\ Parses(dbFile)
    /\ doc' = dbFile.txns
    /\ tries' = 1
    /\ Goto("read", "backup")
    /\ UNCHANGED <<files, cur, saved, outcome, env, history>>

\* readFile fails in every attempt.
ReadFault ==
    /\ pc = "read"
    /\ Fault
    /\ Return("error")
    /\ UNCHANGED <<files, history>>

\* Fault: a database that does not parse is taken for an empty one.
ReadUnparsable_AsEmpty ==
    /\ ~Parses(dbFile)
    /\ doc' = {}
    /\ tries' = 1
    /\ Goto("read", "backup")
    /\ UNCHANGED <<files, cur, saved, outcome, env, history>>

\* deserializeDb throws.
ReadUnparsable ==
    /\ pc = "read"
    /\ ~Parses(dbFile)
    /\ Return("error")
    /\ UNCHANGED <<files, env, history>>

----------------------------------------------------------------------------
(* The operation, and persistDb.                                           *)

\* The operation throws, or was a snapshot's: nothing is written.
NothingToPersist ==
    /\ pc = "backup"
    /\ tries = 1
    /\ Return("error")
    /\ UNCHANGED <<files, env, history>>

\* createJournalBackup copies the database file, as it is on disk.
BackupBegin ==
    /\ saved' = dbFile
    /\ journal' = Torn
    /\ unsynced' = unsynced \ {"journal"}
    /\ NotYetDurable
    /\ Goto("backup", "backingUp")
    /\ UNCHANGED <<dbFile, tmp, cur, doc, tries, outcome, env, history>>

BackupEnd ==
    /\ journal' = saved
    /\ unsynced' = unsynced \cup {"journal"}
    /\ saved' = Absent
    /\ Goto("backingUp", "writeTmp")
    /\ UNCHANGED <<dbFile, tmp, past, cur, doc, tries, outcome, env, history>>

\* The database cannot be read for the backup, which is then not made ...
BackupReadFault ==
    /\ Fault
    /\ Goto("backup", "writeTmp")
    /\ UNCHANGED <<files, cur, doc, saved, tries, outcome, history>>

\* ... or its writing fails.  Either is logged, and the write goes on.
BackupFault ==
    /\ Fault
    /\ saved' = Absent
    /\ Goto("backingUp", "writeTmp")
    /\ UNCHANGED <<files, cur, doc, tries, outcome, history>>

\* Fault: the database is written in place, without the temporary file.
TmpBegin_InPlace ==
    /\ tmp' = Document(doc \cup {cur})
    /\ dbFile' = Torn
    /\ unsynced' = unsynced \ {"db"}
    /\ NotYetDurable
    /\ Goto("writeTmp", "writingTmp")
    /\ UNCHANGED <<journal, cur, doc, saved, tries, outcome, env, history>>

TmpBegin ==
    /\ tmp' = Torn
    /\ unsynced' = unsynced \ {"tmp"}
    /\ Goto("writeTmp", "writingTmp")
    /\ UNCHANGED <<dbFile, journal, past, cur, doc, saved, tries, outcome, env, history>>

TmpEnd ==
    /\ tmp' = Document(doc \cup {cur})
    /\ unsynced' = unsynced \cup {"tmp"}
    /\ Goto("writingTmp", "rename")
    /\ UNCHANGED <<dbFile, journal, past, cur, doc, saved, tries, outcome, env, history>>

Rename ==
    /\ dbFile' = tmp
    /\ tmp' = Absent
    /\ unsynced' = (unsynced \ {"db", "tmp"})
                        \cup {f \in {"db"} : "tmp" \in unsynced}
    /\ NotYetDurable
    /\ versions' = versions \cup {tmp.txns}
    /\ Goto("rename", "unlinkJournal")
    /\ UNCHANGED <<journal, cur, doc, saved, tries, outcome, env>>
    /\ UNCHANGED <<journalKept, misreads, settled>>

\* Fault: the attempts are counted and never limited.
PersistRetry_Unlimited ==
    /\ pc \in {"writingTmp", "rename"}
    /\ Fault
    /\ tries' = tries + 1
    /\ pc' = "backup"
    /\ UNCHANGED <<files, cur, doc, saved, outcome, history>>

\* writeFile or rename throws: withRetries starts persistDb's body again ...
PersistRetry ==
    /\ pc \in {"writingTmp", "rename"}
    /\ Fault
    /\ tries < Attempts
    /\ tries' = tries + 1
    /\ pc' = "backup"
    /\ UNCHANGED <<files, cur, doc, saved, outcome, history>>

\* ... or gives up, and the caller gets the error.
PersistFails ==
    /\ pc \in {"writingTmp", "rename"}
    /\ Fault
    /\ tries = Attempts
    /\ Return("error")
    /\ UNCHANGED <<files, history>>

\* Fault: the journal is left for the next load to clean up.
UnlinkJournal_Left ==
    /\ pc = "unlinkJournal"
    /\ Return("ok")
    /\ UNCHANGED <<files, env, history>>

UnlinkJournal ==
    /\ pc = "unlinkJournal"
    /\ journal' = Absent
    /\ unsynced' = unsynced \ {"journal"}
    /\ NotYetDurable
    /\ Return("ok")
    /\ UNCHANGED <<dbFile, tmp, env, history>>

\* Fault: a failed unlink is thrown to withRetries, which is out of attempts.
UnlinkJournalFault_Throws ==
    /\ pc = "unlinkJournal"
    /\ Fault
    /\ Return("error")
    /\ journalKept' = TRUE
    /\ UNCHANGED <<files, misreads, versions, settled>>

\* The caller is told of success though the journal is still there.
UnlinkJournalFault ==
    /\ pc = "unlinkJournal"
    /\ Fault
    /\ Return("ok")
    /\ journalKept' = TRUE
    /\ UNCHANGED <<files, misreads, versions, settled>>

----------------------------------------------------------------------------
(* What is outside the program.                                            *)

\* Some time after the last change the kernel has written everything back.
Sync ==
    /\ unsynced # {} \/ past # {}
    /\ unsynced' = {}
    /\ past' = {}
    /\ settled' = settled \cup {t \in Acknowledged \cap Stored.txns :
                                  Parses(journal) => t \in journal.txns}
    /\ UNCHANGED <<dbFile, journal, tmp, memory, outcome, env>>
    /\ UNCHANGED <<journalKept, misreads, versions>>

\* The process dies; whoever called does not know what became of the call.
Crash ==
    /\ cur # NoTxn
    /\ crashes < MaxCrashes
    /\ crashes' = crashes + 1
    /\ Return("unknown")
    /\ UNCHANGED <<files, faults, powerCuts, history>>

\* The host loses power: the disk holds what it has now or had since the last Sync.
\* (The temporary file may be anything: it is written again before it is used.)
PowerCut ==
    /\ powerCuts < MaxPowerCuts
    /\ powerCuts' = powerCuts + 1
    /\ \E left \in past \cup OnDisk : dbFile' = left[1] /\ journal' = left[2]
    /\ tmp' \in {tmp, Torn, Absent}
    /\ unsynced' = {}
    /\ past' = {}
    /\ IF cur = NoTxn THEN UNCHANGED <<memory, outcome>> ELSE Return("unknown")
    /\ UNCHANGED <<faults, crashes, history>>

----------------------------------------------------------------------------

LoadDb ==
    \/ EnsurePresent \/ EnsureFault \/ CreateBegin \/ CreateEnd \/ CreateFault
    \/ NoJournal \/ ReadJournal \/ ReadJournalFault \/ DbParses
    \/ RestoreBegin \/ MisreadDb \/ RestoreEnd \/ RestoreFault
    \/ DropJournal \/ DropJournalFault
    \/ Read \/ ReadFault \/ ReadUnparsable

PersistDb ==
    \/ NothingToPersist
    \/ BackupBegin \/ BackupEnd \/ BackupReadFault \/ BackupFault
    \/ TmpBegin \/ TmpEnd \/ Rename \/ PersistRetry \/ PersistFails
    \/ UnlinkJournal \/ UnlinkJournalFault

Next ==
    \/ \E t \in Txn : Start(t)
    \/ LoadDb
    \/ PersistDb
    \/ Sync
    \/ Crash
    \/ PowerCut

Spec == Init /\ [][Next]_vars

----------------------------------------------------------------------------
(* Properties.                                                             *)

TypeOK ==
    /\ {dbFile, journal, tmp, saved} \subseteq Content
    /\ unsynced \subseteq {"db", "journal", "tmp"}
    /\ cur \in Txn \cup {NoTxn}
    /\ (cur = NoTxn) <=> (pc = "idle")
    /\ doc \in SUBSET Txn
    /\ tries \in 0..Attempts
    /\ outcome \in [Txn -> {"none", "ok", "error", "unknown"}]
    /\ faults \in 0..MaxFaults
    /\ crashes \in 0..MaxCrashes
    /\ powerCuts \in 0..MaxPowerCuts
    /\ journalKept \in BOOLEAN
    /\ misreads \in 0..faults
    /\ past \subseteq Content \X Content
    /\ versions \subseteq SUBSET Txn
    /\ settled \subseteq Acknowledged

\* Whatever dies or fails in the process, a transaction takes effect at once or not
\* at all, and stays: the files implement the atomic store, with Rename as the commit.
Abstract == INSTANCE AtomicStore WITH
                store <- Stored.txns, readable <- (Stored # Torn),
                accidents <- powerCuts + misreads
ImplementsAtomicStore == Abstract!Spec

\* A caller that was told "ok" finds its write in whatever the database can still be
\* read as, after crashes, failed operations and mistaken restores from the journal;
\* unless an unlink had failed and left an old journal to restore from, or the host
\* has lost power, which nothing in persistDb provides for.
AcknowledgedSurvive ==
    Stored # Torn /\ ~journalKept /\ powerCuts = 0 => Acknowledged \subseteq Stored.txns

\* Power cuts or not, it finds its write if everything had been written back since:
\* no recovery, and no journal that comes back, undoes what has reached the disk.
SettledSurvive ==
    Stored # Torn /\ ~journalKept => settled \subseteq Stored.txns

\* A caller that was told of an error is not surprised later by the write taking effect.
RejectedStayOut ==
    \A t \in Txn : outcome[t] = "error" /\ Stored # Torn => t \notin Stored.txns

\* Without a power cut or a mistaken restore the database becomes unreadable only if
\* the process died (or the disk filled up) while writing the first, empty one.
UnreadableOnlyWhenEmpty ==
    Stored = Torn /\ powerCuts = 0 /\ misreads = 0 => Acknowledged = {} /\ journal = Absent
=============================================================================
