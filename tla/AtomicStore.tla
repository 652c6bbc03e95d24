----------------------------- MODULE AtomicStore -----------------------------
(***************************************************************************)
(* What the JSON database of src/lib/database.ts promises to its callers:  *)
(* a document to which each transaction adds its effects at once, and that *)
(* afterwards only an accident can change: a power cut, or a restore of a  *)
(* database that could not be read for a moment.  An accident may damage   *)
(* the document or take it back to a version it has had, never to a        *)
(* mixture.  DbFile shows that the files under data/ implement it.         *)
(***************************************************************************)
EXTENDS Naturals

CONSTANT Txn

VARIABLES
    store,     \* transactions whose effects the document holds
    readable,  \* the document can be loaded
    versions,  \* what store has been after each commit, and at first
    accidents  \* how many there have been

vars == <<store, readable, versions, accidents>>

Init ==
    /\ store = {}
    /\ readable = TRUE
    /\ versions = {{}}
    /\ accidents = 0

\* A transaction commits once, whatever becomes of its effects.
Commit(t) ==
    /\ readable
    /\ \A v \in versions : t \notin v
    /\ store' = store \cup {t}
    /\ versions' = versions \cup {store'}
    /\ UNCHANGED <<readable, accidents>>

Damage == store' = {} /\ readable' = FALSE /\ UNCHANGED versions

\* The very first write, of an empty document, is the one that is not atomic.
FirstWriteLost == versions = {{}} /\ Damage /\ UNCHANGED accidents

Revert == store' \in versions /\ readable' = TRUE /\ UNCHANGED versions

Accident == accidents' = accidents + 1 /\ (Damage \/ Revert)

\* After one, the damage may show late, when a restore fails.
LateDamage == accidents > 0 /\ Damage /\ UNCHANGED accidents

Next == (\E t \in Txn : Commit(t)) \/ FirstWriteLost \/ Accident \/ LateDamage

Spec == Init /\ [][Next]_vars
=============================================================================
