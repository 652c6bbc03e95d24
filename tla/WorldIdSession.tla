--------------------------- MODULE WorldIdSession ---------------------------
(***************************************************************************)
(* World ID verifications of database.ts, their in-memory caches, and the  *)
(* route POST /api/verify-world-id that creates them.                      *)
(*                                                                         *)
(* A verification ties a nullifier (a person) to a user id and is the      *)
(* session whose token the route sets as a cookie.  It is stored in        *)
(* world_id_verifications, and every process keeps three maps of those it  *)
(* has seen, which lookups consult before the database, inside the         *)
(* database lock.  Only the process itself changes its maps.               *)
(*                                                                         *)
(* The token is a fresh UUID: it is named by the request that creates it.  *)
(* Time is abstract: a verification may have expired at any time after it  *)
(* was made; `now' of a lookup is one instant.  A transaction is one step  *)
(* (DbLock, DbFile).                                                       *)
(***************************************************************************)
EXTENDS Naturals, Sequences, FiniteSets, SequencesExt, Rows

CONSTANTS
    Process,                \* web server processes that share the database
    Verify,                 \* verify-world-id requests, and the tokens they create
    Nullifier, User,
    NullifierOf, UserOf,    \* of each request; user_id, or the nullifier itself
    Named,                  \* requests whose body has a user_id
    Wallet, None, WalletOf, \* wallet_address of each request, or None
    VerifiedBy,             \* the process that serves each request
    MaxFaults               \* bound: calls of persistDb that fail

ASSUME WorldIdSessionAssumption ==
    /\ NullifierOf \in [Verify -> Nullifier] /\ UserOf \in [Verify -> User]
    /\ VerifiedBy \in [Verify -> Process] /\ Named \subseteq Verify
    /\ None \notin Wallet /\ WalletOf \in [Verify -> Wallet \cup {None}]
    /\ MaxFaults \in Nat

VARIABLES
    verifications,  \* world_id_verifications, in the order of the file
    cache,          \* worldIdCacheByNullifier, ..BySession, ..ByUser of each process
    expired,        \* tokens past expires_at
    asked,          \* where each verify request stands
    erased,         \* tokens issued to a user before deleteUserDataset ran for him
    forgotten,      \* [process]: those whose deletion it has carried through
    faults

sessionVars == <<verifications, cache, expired, asked, erased, forgotten, faults>>

Verification ==
    [nullifier : Nullifier, user : User, token : Verify, wallet : Wallet \cup {None}]
Key == [nullifier |-> Nullifier, user |-> User, token |-> Verify]
Map == DOMAIN Key

EmptyCache == [m \in Map |-> [k \in Key[m] |-> None]]

Init ==
    /\ verifications = <<>>
    /\ cache = [p \in Process |-> EmptyCache]
    /\ expired = {}
    /\ asked = [v \in Verify |-> "idle"]
    /\ erased = {}
    /\ forgotten = [p \in Process |-> {}]
    /\ faults = 0

----------------------------------------------------------------------------
(* Expiry and the caches.                                                  *)

\* purgeExpiredWorldIdVerifications
Purged(db) == Without(db, {r \in ToSet(db) : r.token \in expired})

Entries(c) == (UNION {{c[m][k] : k \in Key[m]} : m \in Map}) \ {None}

\* Drops each map's entries under the keys of the records in S.
Drop(c, S) == [m \in Map |-> [k \in Key[m] |-> IF \E r \in S : r[m] = k THEN None ELSE c[m][k]]]

\* purgeWorldIdCaches, one map after the other: an expired entry also takes along what
\* the other two hold under its keys.
PurgedMap(c, m) == Drop(c, {r \in {c[m][k] : k \in Key[m]} \ {None} : r.token \in expired})
PurgedCache(p) == PurgedMap(PurgedMap(PurgedMap(cache[p], "nullifier"), "token"), "user")

\* cacheWorldIdVerification
Cached(c, r) == [m \in Map |-> [c[m] EXCEPT ![r[m]] = r]]

\* clearWorldIdCacheForUser
Cleared(c, u) ==
    [m \in Map |-> [k \in Key[m] |->
        IF c[m][k] # None /\ c[m][k].user = u THEN None ELSE c[m][k]]]

First(db, m, k) == SelectInSeq(db, LAMBDA r : r[m] = k)  \* 0 if there is none

\* What findWorldIdVerificationBy.. returns in process p: the cached record if there
\* is one, else the stored one.
Found(p, m, k) ==
    LET c == PurgedCache(p)
        i == First(Purged(verifications), m, k)
    IN  IF c[m][k] # None THEN c[m][k]
        ELSE IF i = 0 THEN None ELSE Purged(verifications)[i]

\* withWorldIdCleanupSnapshot around such a lookup: expired verifications go, from the
\* database and from the maps, and what was found in the database is cached.
Lookup(p, m, k) ==
    LET r == Found(p, m, k) IN
    /\ verifications' = Purged(verifications)
    /\ cache' = [cache EXCEPT ![p] =
           IF PurgedCache(p)[m][k] # None \/ r = None THEN PurgedCache(p)
           ELSE Cached(PurgedCache(p), r)]

\* The same when there was something to purge and persistDb fails: the caller gets an
\* exception, the maps have changed.
LookupFault(p, m, k) ==
    /\ faults < MaxFaults /\ faults' = faults + 1
    /\ Purged(verifications) # verifications
    /\ cache' = [cache EXCEPT ![p] =
           IF PurgedCache(p)[m][k] # None \/ Found(p, m, k) = None THEN PurgedCache(p)
           ELSE Cached(PurgedCache(p), Found(p, m, k))]
    /\ UNCHANGED verifications

\* expires_at of a stored or cached verification passes.
Expires(v) ==
    /\ asked[v] \in {"verified", "failed"} /\ v \notin expired
    /\ expired' = expired \cup {v}
    /\ UNCHANGED <<verifications, cache, asked, erased, forgotten, faults>>

\* scripts/cleanupExpiredSessions.ts, a process of its own with empty maps.
CleanupExpired ==
    /\ Purged(verifications) # verifications
    /\ verifications' = Purged(verifications)
    /\ UNCHANGED <<cache, expired, asked, erased, forgotten, faults>>

----------------------------------------------------------------------------
(* POST /api/verify-world-id.                                              *)

Ask(v, place) == asked' = [asked EXCEPT ![v] = place]

\* A body, a wallet or an action that does not pass validation.
RefuseVerify(v) ==
    /\ asked[v] = "idle"
    /\ Ask(v, "rejected")
    /\ UNCHANGED <<verifications, cache, expired, erased, forgotten, faults>>

\* The nullifier must be new ...
FindByNullifier(v) ==
    LET p == VerifiedBy[v] IN
    /\ asked[v] = "idle"
    /\ Lookup(p, "nullifier", NullifierOf[v])
    /\ Ask(v, IF Found(p, "nullifier", NullifierOf[v]) # None THEN "conflict"
              ELSE IF v \in Named THEN "user"
              ELSE "proof")
    /\ UNCHANGED <<expired, erased, forgotten, faults>>

\* ... and the user, if one is named, not tied to another one.
FindByUser(v) ==
    LET r == Found(VerifiedBy[v], "user", UserOf[v]) IN
    /\ asked[v] = "user"
    /\ Lookup(VerifiedBy[v], "user", UserOf[v])
    /\ Ask(v, IF r # None /\ r.nullifier # NullifierOf[v] THEN "conflict" ELSE "proof")
    /\ UNCHANGED <<expired, erased, forgotten, faults>>

VerifyLookupFails(v) ==
    /\ \/ asked[v] = "idle" /\ LookupFault(VerifiedBy[v], "nullifier", NullifierOf[v])
       \/ asked[v] = "user" /\ LookupFault(VerifiedBy[v], "user", UserOf[v])
    /\ Ask(v, "lost")
    /\ UNCHANGED <<expired, erased, forgotten>>

\* The answer of verifyCloudProof (external); every code of VERIFY_CLOUD_PROOF_ERRORS,
\* and any other one, ends the request.
ProofAnswer(v) ==
    /\ asked[v] = "proof"
    /\ \E answer \in {"insert", "rejected"} : Ask(v, answer)
    /\ UNCHANGED <<verifications, cache, expired, erased, forgotten, faults>>

NewVerification(v) ==
    [nullifier |-> NullifierOf[v], user |-> UserOf[v], token |-> v, wallet |-> WalletOf[v]]
Duplicate(v) == First(Purged(verifications), "nullifier", NullifierOf[v]) # 0
CacheNew(v) == cache' = [cache EXCEPT ![VerifiedBy[v]] = Cached(@, NewVerification(v))]

\* Fault: insert relies on the route's lookup of the nullifier.
InsertVerification_Unchecked(v) ==
    /\ asked[v] = "insert"
    /\ CacheNew(v)
    /\ verifications' = Append(Purged(verifications), NewVerification(v))
    /\ Ask(v, "verified")
    /\ UNCHANGED <<expired, erased, forgotten, faults>>

\* Fault: the record is cached before it is known to be new.
InsertVerification_CacheFirst(v) ==
    /\ asked[v] = "insert"
    /\ CacheNew(v)
    /\ IF Duplicate(v) THEN Ask(v, "conflict") /\ UNCHANGED verifications
       ELSE /\ Ask(v, "verified")
            /\ verifications' = Append(Purged(verifications), NewVerification(v))
    /\ UNCHANGED <<expired, erased, forgotten, faults>>

\* insertWorldIdVerification looks for the nullifier again, in the transaction; a
\* duplicate aborts it.
InsertVerification(v) ==
    /\ asked[v] = "insert"
    /\ IF Duplicate(v) THEN Ask(v, "conflict") /\ UNCHANGED <<verifications, cache>>
       ELSE /\ CacheNew(v)
            /\ verifications' = Append(Purged(verifications), NewVerification(v))
            /\ Ask(v, "verified")
    /\ UNCHANGED <<expired, erased, forgotten, faults>>

\* The record is cached before persistDb, which fails: the answer is an error and the
\* cookie is not set, but the process has it in its maps.
InsertFault(v) ==
    /\ faults < MaxFaults /\ faults' = faults + 1
    /\ asked[v] = "insert" /\ ~Duplicate(v)
    /\ CacheNew(v)
    /\ Ask(v, "failed")
    /\ UNCHANGED <<verifications, expired, erased, forgotten>>

VerifyStep(v) ==
    \/ RefuseVerify(v) \/ FindByNullifier(v) \/ FindByUser(v) \/ VerifyLookupFails(v)
    \/ ProofAnswer(v) \/ InsertVerification(v) \/ InsertFault(v)

SessionNext == (\E v \in Verify : VerifyStep(v) \/ Expires(v)) \/ CleanupExpired

----------------------------------------------------------------------------
(* Operations of other handlers on the same state.                         *)

\* assertUserExists, with the wallet a payment carries or None.
UserExists(u, wallet) ==
    LET i == SelectInSeq(verifications, LAMBDA r : r.user = u /\ r.token \notin expired)
    IN  i # 0 /\ (wallet = None \/ verifications[i].wallet \in {None, wallet})

\* updateWorldIdWallet changes the stored record only.
SetWallet(u, w) ==
    LET i == First(Purged(verifications), "user", u)
    IN  verifications' = IF i = 0 THEN verifications
                         ELSE [Purged(verifications) EXCEPT ![i].wallet = w]

\* deleteUserDataset: the verifications of u, in its transaction ...
EraseVerifications(u) ==
    /\ verifications' = Without(verifications, {r \in ToSet(verifications) : r.user = u})
    /\ erased' = erased \cup {v \in Verify : UserOf[v] = u /\ asked[v] = "verified"}

\* ... and the maps of its own process when that has been committed.
ForgetUser(p, u) ==
    /\ cache' = [cache EXCEPT ![p] = Cleared(@, u)]
    /\ forgotten' = [forgotten EXCEPT ![p] = @ \cup {t \in erased : UserOf[t] = u}]

----------------------------------------------------------------------------
(* Properties.                                                             *)

Place == {"idle", "user", "proof", "insert", "verified", "conflict", "rejected", "lost", "failed"}

\* The type invariant of the verifications, the maps and the requests.
SessionTypeOK ==
    /\ verifications \in Seq(Verification)
    /\ \A i, j \in DOMAIN verifications : verifications[i].token = verifications[j].token => i = j
    /\ \A p \in Process : \A m \in Map : \A k \in Key[m] :
           cache[p][m][k] = None \/ (cache[p][m][k] \in Verification /\ cache[p][m][k][m] = k)
    /\ expired \subseteq Verify /\ erased \subseteq Verify
    /\ asked \in [Verify -> Place]
    /\ forgotten \in [Process -> SUBSET Verify]
    /\ faults \in 0 .. MaxFaults

\* A person has one live session: however many requests present the same nullifier, in
\* any processes, at most one unexpired verification of it is stored.  (The route's
\* lookup and the insertion are separate transactions.)
OneSessionPerPerson ==
    \A i, j \in DOMAIN verifications :
        (i # j /\ {verifications[i].token, verifications[j].token} \cap expired = {})
            => verifications[i].nullifier # verifications[j].nullifier

\* What a process serves from its maps is stored, with two exceptions: the user has
\* been erased (by a deletion in another process, or one that is about to clear these
\* maps), or persistDb failed and the request was answered with an error.
ServedIsStored ==
    \A p \in Process : \A r \in Entries(cache[p]) :
        r.token \in expired \cup erased
        \/ asked[r.token] = "failed"
        \/ First(verifications, "token", r.token) # 0

\* Once a process has carried a user's deletion through, it never again serves the
\* sessions that were deleted, whatever lookups overlap with it.
ErasedNotServed ==
    \A p \in Process : \A r \in Entries(cache[p]) : r.token \notin forgotten[p]
=============================================================================
