----------------------------- MODULE PlayerData -----------------------------
(***************************************************************************)
(* What the app keeps about a player, and its erasure: the routes          *)
(* /api/player/{privacy,data,stats,profile}, /api/game/progress and        *)
(* /api/initiate-payment, composed with the sessions of WorldIdSession.    *)
(*                                                                         *)
(* Every handler finds its session first and writes later, in steps of     *)
(* its own; the deletion of a user runs beside them.  The tables are in    *)
(* the database, where a transaction is one step.  The player statistics   *)
(* are a JSON file without any lock: a request reads it, and writes the    *)
(* whole of its own copy back, first truncating the file.                  *)
(*                                                                         *)
(* Of a row the model keeps its table and its user; of the statistics the  *)
(* users that have an entry.  payment_status_history goes with payments.   *)
(***************************************************************************)
EXTENDS WorldIdSession

CONSTANTS
    Request,                \* requests to the routes above
    Kind,                   \* of each
    Cookie,                 \* the token each presents
    ServedBy,               \* the process that serves each
    Pays,                   \* wallet in the body of an initiate-payment request, or None
    Valid,                  \* requests whose CSRF token and body pass validation
    MaxRequests             \* bound: requests that are made

Kinds == {"view", "consent", "progress", "initiate", "stats", "profile", "erase"}

ASSUME PlayerDataAssumption ==
    /\ Kind \in [Request -> Kinds]
    /\ Cookie \in [Request -> Verify]
    /\ ServedBy \in [Request -> Process]
    /\ Pays \in [Request -> Wallet \cup {None}]
    /\ Valid \subseteq Request /\ MaxRequests \in Nat
    /\ Request \cap Verify = {} /\ None \notin User

VARIABLES
    rows,       \* <<table, user>>: which tables hold something about whom
    statsFile,  \* data/player-stats.json: users with an entry, or Torn
    at,         \* where each request stands
    file,       \* where its work on the statistics stands
    copy,       \* the users in the copy of the file it works on
    seen        \* the identity that requireActiveSession returned, or None

playerVars == <<rows, statsFile, at, file, copy, seen>>
vars == <<sessionVars, playerVars>>

Table == {"consent", "progress", "payment"}
Torn == {None}  \* no set of users: truncated, and not yet written

PlayerInit ==
    /\ Init
    /\ rows = {}
    /\ statsFile = {}
    /\ at = [r \in Request |-> "idle"]
    /\ file = [r \in Request |-> "idle"]
    /\ copy = [r \in Request |-> {}]
    /\ seen = [r \in Request |-> None]

Goto(r, place) == at' = [at EXCEPT ![r] = place]
FileGoto(r, place) == file' = [file EXCEPT ![r] = place]
Me(r) == seen[r].user

\* Users that were erased and have not verified since.
Gone == {UserOf[t] : t \in erased} \ {UserOf[t] : t \in {v \in Verify \ erased : asked[v] = "verified"}}

----------------------------------------------------------------------------
(* The session, which every handler looks up first.                        *)

FirstStep ==
    [view |-> "ok", consent |-> "consent", progress |-> "progress", initiate |-> "wallet",
     stats |-> "file", profile |-> "file", erase |-> "erase"]

\* initiate-payment compares the wallet of its body with the one of the identity, and
\* needs one of them.
WalletRefused(r, identity) ==
    Kind[r] = "initiate" /\ (\/ Pays[r] = None /\ identity.wallet = None
                             \/ /\ Pays[r] # None /\ identity.wallet # None
                                /\ Pays[r] # identity.wallet)

Comes(r) ==
    /\ at[r] = "idle" /\ asked[Cookie[r]] = "verified"
    /\ Cardinality({q \in Request : at[q] # "idle"}) < MaxRequests

\* requireActiveSession
FindSession(r) ==
    LET identity == Found(ServedBy[r], "token", Cookie[r])
        refused == identity = None \/ r \notin Valid \/ WalletRefused(r, identity)
    IN  /\ Comes(r)
        /\ Lookup(ServedBy[r], "token", Cookie[r])
        /\ seen' = [seen EXCEPT ![r] = identity]
        /\ Goto(r, IF refused THEN "refused" ELSE FirstStep[Kind[r]])
        /\ FileGoto(r, IF ~refused /\ Kind[r] \in {"stats", "profile", "erase"}
                       THEN "read" ELSE "idle")
        /\ UNCHANGED <<expired, asked, erased, forgotten, faults, rows, statsFile, copy>>

\* An exception: the request is answered with an error.
FindSessionFails(r) ==
    /\ Comes(r)
    /\ LookupFault(ServedBy[r], "token", Cookie[r])
    /\ Goto(r, "error")
    /\ UNCHANGED <<expired, asked, erased, forgotten, rows, statsFile, file, copy, seen>>

----------------------------------------------------------------------------
(* Rows of the database.                                                   *)

\* upsertUserConsent, which does not ask whether the user exists.
UpsertUserConsent(u) == rows' = rows \cup {<<"consent", u>>}

\* upsertGameProgress
UpsertGameProgress(u) == UserExists(u, None) /\ rows' = rows \cup {<<"progress", u>>}

\* POST /api/player/privacy
SaveConsent(r) ==
    /\ at[r] = "consent"
    /\ UpsertUserConsent(Me(r))
    /\ Goto(r, "ok")
    /\ UNCHANGED <<sessionVars, statsFile, file, copy, seen>>

\* Fault: the session found before is enough.
SaveProgress_Unchecked(r) ==
    /\ at[r] = "progress"
    /\ rows' = rows \cup {<<"progress", Me(r)>>}
    /\ Goto(r, "ok")
    /\ UNCHANGED <<sessionVars, statsFile, file, copy, seen>>

\* POST /api/game/progress
SaveProgress(r) ==
    /\ at[r] = "progress"
    /\ \/ UpsertGameProgress(Me(r)) /\ Goto(r, "ok")
       \/ ~UserExists(Me(r), None) /\ Goto(r, "error") /\ UNCHANGED rows
    /\ UNCHANGED <<sessionVars, statsFile, file, copy, seen>>

PaymentWallet(r) == IF Pays[r] # None THEN Pays[r] ELSE seen[r].wallet

\* initiate-payment: updateWorldIdWallet ...
UpdateWallet(r) ==
    /\ at[r] = "wallet"
    /\ SetWallet(Me(r), PaymentWallet(r))
    /\ Goto(r, IF First(Purged(verifications), "user", Me(r)) = 0 THEN "error" ELSE "payment")
    /\ UNCHANGED <<cache, expired, asked, erased, forgotten, faults,
                   rows, statsFile, file, copy, seen>>

\* ... and createPaymentRecord, which may also find that the reference is taken
\* (DUPLICATE_REFERENCE) or the tournament unknown (TOURNAMENT_NOT_FOUND).
CreatePayment(r) ==
    /\ at[r] = "payment"
    /\ \/ /\ UserExists(Me(r), PaymentWallet(r))
          /\ rows' = rows \cup {<<"payment", Me(r)>>}
          /\ Goto(r, "ok")
       \/ Goto(r, "error") /\ UNCHANGED rows
    /\ UNCHANGED <<sessionVars, statsFile, file, copy, seen>>

\* persistDb fails in one of these transactions, or in that of a deletion.
PersistFails(r) ==
    /\ faults < MaxFaults /\ faults' = faults + 1
    /\ at[r] \in {"consent", "progress", "wallet", "payment", "erase"}
    /\ Goto(r, "error")
    /\ UNCHANGED <<verifications, cache, expired, asked, erased, forgotten,
                   rows, statsFile, file, copy, seen>>

----------------------------------------------------------------------------
(* data/player-stats.json.                                                 *)

\* Fault: what is read is taken for the statistics whether or not it parses.
ReadStats_Unparsed(r) ==
    /\ file[r] = "read"
    /\ copy' = [copy EXCEPT ![r] = statsFile]
    /\ FileGoto(r, IF Me(r) \in statsFile THEN "done" ELSE "identity")
    /\ UNCHANGED <<sessionVars, rows, statsFile, at, seen>>

\* ensureStore: a file that is being written does not parse.  getPlayerStats and
\* updatePlayerProfile find the entry or have to make one; deletePlayerStats
\* takes it out of its copy and writes only if it was there.
ReadStats(r) ==
    /\ file[r] = "read"
    /\ copy' = [copy EXCEPT ![r] = IF statsFile = Torn THEN {}
                                   ELSE IF Kind[r] = "erase" THEN statsFile \ {Me(r)}
                                   ELSE statsFile]
    /\ FileGoto(r, IF statsFile = Torn THEN "failed"
                   ELSE IF Kind[r] = "erase" /\ Me(r) \notin statsFile THEN "done"
                   ELSE IF Kind[r] = "erase" THEN "truncate"
                   ELSE IF Me(r) \notin statsFile THEN "identity"
                   ELSE IF Kind[r] = "profile" THEN "truncate"
                   ELSE "done")
    /\ UNCHANGED <<sessionVars, rows, statsFile, at, seen>>

\* getPlayerStats: the default entry takes the wallet of the user's verification, if any.
FindIdentity(r) ==
    /\ file[r] = "identity"
    /\ Lookup(ServedBy[r], "user", Me(r))
    /\ copy' = [copy EXCEPT ![r] = @ \cup {Me(r)}]
    /\ FileGoto(r, "truncateNew")
    /\ UNCHANGED <<expired, asked, erased, forgotten, faults, rows, statsFile, at, seen>>

\* saveStore: fs.writeFile truncates the file ...
Truncate(r) ==
    /\ file[r] \in {"truncate", "truncateNew"}
    /\ statsFile' = Torn
    /\ FileGoto(r, IF file[r] = "truncate" THEN "write" ELSE "writeNew")
    /\ UNCHANGED <<sessionVars, rows, at, copy, seen>>

\* ... and then writes the copy.  updatePlayerProfile starts over after the entry
\* has been made.
Write(r) ==
    /\ file[r] \in {"write", "writeNew"}
    /\ statsFile' = copy[r]
    /\ copy' = [copy EXCEPT ![r] = {}]
    /\ FileGoto(r, IF file[r] = "writeNew" /\ Kind[r] = "profile" THEN "read" ELSE "done")
    /\ UNCHANGED <<sessionVars, rows, at, seen>>

\* Their handlers answer when that is done, GET .../stats and PATCH .../profile.
Answer(r, kind) ==
    /\ at[r] = "file" /\ file[r] \in {"done", "failed"} /\ Kind[r] = kind
    /\ Goto(r, IF file[r] = "done" THEN "ok" ELSE "error")
    /\ UNCHANGED <<sessionVars, rows, statsFile, file, copy, seen>>
AnswerStats(r) == Answer(r, "stats")
AnswerProfile(r) == Answer(r, "profile")

----------------------------------------------------------------------------
(* DELETE /api/player/data.                                                *)

\* Fault: the maps are cleared first.
EraseRows_CacheFirst(r) ==
    LET p == ServedBy[r]  u == Me(r) IN
    /\ \/ /\ at[r] = "erase" /\ Goto(r, "forget")
          /\ cache' = [cache EXCEPT ![p] = Cleared(@, u)]
          /\ UNCHANGED <<verifications, erased, forgotten, rows>>
       \/ /\ at[r] = "forget" /\ Goto(r, "erased")
          /\ EraseVerifications(u)
          /\ forgotten' = [forgotten EXCEPT ![p] = @ \cup {t \in erased' : UserOf[t] = u}]
          /\ rows' = {row \in rows : row[2] # u}
          /\ UNCHANGED cache
    /\ UNCHANGED <<expired, asked, faults, statsFile, file, copy, seen>>

\* deleteUserDataset: one transaction over all tables; when it has returned,
\* clearWorldIdCacheForUser.  deletePlayerStats runs at the same time.
EraseRows(r) ==
    LET p == ServedBy[r]  u == Me(r) IN
    /\ \/ /\ at[r] = "erase" /\ Goto(r, "forget")
          /\ EraseVerifications(u)
          /\ rows' = {row \in rows : row[2] # u}
          /\ UNCHANGED <<cache, forgotten>>
       \/ /\ at[r] = "forget" /\ Goto(r, "erased")
          /\ ForgetUser(p, u)
          /\ UNCHANGED <<verifications, erased, rows>>
    /\ UNCHANGED <<expired, asked, faults, statsFile, file, copy, seen>>

\* Promise.all of both; if the statistics could not be read the answer is an error.
AnswerErase(r) ==
    /\ at[r] = "erased" /\ file[r] \in {"done", "failed"}
    /\ Goto(r, IF file[r] = "done" THEN "ok" ELSE "error")
    /\ UNCHANGED <<sessionVars, rows, statsFile, file, copy, seen>>

----------------------------------------------------------------------------
RequestStep(r) ==
    \/ FindSession(r) \/ FindSessionFails(r)
    \/ SaveConsent(r) \/ SaveProgress(r) \/ UpdateWallet(r) \/ CreatePayment(r)
    \/ PersistFails(r)
    \/ ReadStats(r) \/ FindIdentity(r) \/ Truncate(r) \/ Write(r)
    \/ AnswerStats(r) \/ AnswerProfile(r)
    \/ EraseRows(r) \/ AnswerErase(r)

Next ==
    \/ SessionNext /\ UNCHANGED playerVars
    \/ \E r \in Request : RequestStep(r)

Spec == PlayerInit /\ [][Next]_vars

----------------------------------------------------------------------------
(* Properties.                                                             *)

\* The type invariant of the composition.
TypeOK ==
    /\ SessionTypeOK
    /\ rows \subseteq Table \X User
    /\ statsFile = Torn \/ statsFile \subseteq User
    /\ at \in [Request -> {"idle", "consent", "progress", "wallet", "payment", "file",
                           "erase", "forget", "erased", "ok", "refused", "error"}]
    /\ file \in [Request -> {"idle", "read", "identity", "truncate", "truncateNew",
                             "write", "writeNew", "done", "failed"}]
    /\ copy \in [Request -> SUBSET User]
    /\ \A r \in Request : seen[r] = None \/ seen[r] \in Verification

\* No request that was under way when its user was erased, nor one in another process
\* that still knows the session, stores progress or a payment for that user again:
\* these transactions look for the user themselves.
ErasedStayErased ==
    \A row \in rows : row[1] \in {"progress", "payment"} => row[2] \notin Gone

\* docs/privacy-gdpr.md:13: the deletion removes wallet, user id, payments, progress,
\* consents and statistics.  When one has been answered with success and the user has
\* not verified again, nothing about the user is kept.
ErasureIsComplete ==
    \A r \in Request :
        (Kind[r] = "erase" /\ at[r] = "ok" /\ Me(r) \in Gone)
            => /\ \A row \in rows : row[2] # Me(r)
               /\ statsFile # Torn => Me(r) \notin statsFile
=============================================================================
