-------------------------- MODULE SendNotification --------------------------
(***************************************************************************)
(* POST /api/send-notification and the rotation of API keys, in the web    *)
(* processes whose announcement cycles are NotificationQueue.              *)
(*                                                                         *)
(* Each process has, in memory, the nonces it has seen, a counter per API  *)
(* key, and its environment: the keys that callers may present are read    *)
(* when the route is loaded, the one it presents to the portal whenever it *)
(* calls.  A rotation rewrites data/notification-keys.json without a lock  *)
(* and puts new random keys in force in its own process's environment.     *)
(*                                                                         *)
(* A call's last place is the reason that its audit entry carries.  Of the *)
(* body the model keeps the nonce and which checks it passes.              *)
(***************************************************************************)
EXTENDS NotificationQueue

CONSTANTS
    None,
    Listed,         \* entries of NOTIFICATIONS_API_KEYS, as a rotation reads them
    Call, Nonce,
    ApiKey,         \* configuredNotificationKeys
    Expiring,       \* those with an expiresAt
    KeyOf,          \* what each call presents: a key, another string or None
    NonceOf,
    Admitted,       \* calls from an allowed IP, origin and host
    WellFormed,     \* calls that validatePayload passes
    Clean,          \* calls whose texts are not empty after sanitizing
    maxRequests,    \* RATE_LIMIT_MAX_REQUESTS
    maxPosts        \* maxRetries + 1 of fetchWithBackoff

ASSUME SendNotificationAssumption ==
    /\ Expiring \subseteq ApiKey /\ None \notin ApiKey /\ Listed \cap Nat = {}
    /\ NonceOf \in [Call -> Nonce] /\ DOMAIN KeyOf = Call
    /\ Admitted \cup WellFormed \cup Clean \subseteq Call
    /\ {maxRequests, maxPosts} \subseteq Nat \ {0}

VARIABLES
    call,       \* where each call stands, in which process, and its requests to the portal
    expired,    \* keys past their expiresAt
    count,      \* requests in the window of each process and key; 0 when it has ended
    nonces,     \* nonceCache of each process
    sent,       \* how often the portal took a message of a process and nonce
    forgiven,   \* losses that make another delivery of a nonce legitimate
    keysFile,   \* notification-keys.json, or Unreadable
    rotation,   \* where the rotation of each process stands
    env,        \* per process: DEV_PORTAL_API_KEY, NOTIFICATIONS_API_KEY
    minted      \* number of keys generated

callVars == <<call, expired, count, nonces, sent, forgiven>>
keyVars == <<keysFile, rotation, env, minted>>
vars == <<queueVars, callVars, keyVars>>

Source == {"notification", "developer_portal"}
Unreadable == {None}  \* absent, or truncated: no JSON
Resting == [at |-> "idle", source |-> "notification", keys |-> {}, fresh |-> 0, first |-> 0]
Deployed == [s \in Source |-> 0]  \* the keys that the processes are started with

Init ==
    /\ QueueInit
    /\ call = [c \in Call |-> [at |-> "idle", by |-> None, posts |-> 0]]
    /\ expired = {}
    /\ count = [x \in Process \X ApiKey |-> 0]
    /\ nonces = [p \in Process |-> {}]
    /\ sent = [x \in Process \X Nonce |-> 0]
    /\ forgiven = [x \in Process \X Nonce |-> 0]
    /\ keysFile \in {{}, Unreadable}
    /\ rotation = [p \in Process |-> Resting]
    /\ env = [p \in Process |-> Deployed]
    /\ minted = 0

quietQueue == <<phase, refused, seated, notified, cycle, jobVars>>

----------------------------------------------------------------------------
(* Memory that runs out with time.                                         *)

KeyExpires(k) ==
    /\ k \in Expiring \ expired
    /\ Happens
    /\ expired' = expired \cup {k}
    /\ UNCHANGED <<quietQueue, call, count, nonces, sent, forgiven, keyVars>>

WindowEnds(p, k) ==
    /\ count[<<p, k>>] > 0
    /\ Happens
    /\ count' = [count EXCEPT ![<<p, k>>] = 0]
    /\ UNCHANGED <<quietQueue, call, expired, nonces, sent, forgiven, keyVars>>

Busy(p, n) == \E c \in Call : call[c].at = "dispatch" /\ call[c].by = p /\ NonceOf[c] = n

\* NONCE_TTL_MS, far longer than a request with its retries takes.
NonceExpires(p, n) ==
    /\ n \in nonces[p] /\ ~Busy(p, n)
    /\ Happens
    /\ nonces' = [nonces EXCEPT ![p] = @ \ {n}]
    /\ forgiven' = [forgiven EXCEPT ![<<p, n>>] = @ + 1]
    /\ UNCHANGED <<quietQueue, call, expired, count, sent, keyVars>>

----------------------------------------------------------------------------
(* The handler.                                                            *)

AuthStatus(key) ==
    IF ApiKey \subseteq expired THEN "no_active_keys"
    ELSE IF key = None THEN "missing"
    ELSE IF key \notin ApiKey THEN "invalid"
    ELSE IF key \in expired THEN "expired" ELSE "ok"

\* createRateLimiter without Upstash: a counter in the process.
Limit(p, k) ==
    IF count[<<p, k>>] < maxRequests
    THEN count' = [count EXCEPT ![<<p, k>>] = @ + 1]
    ELSE UNCHANGED count

\* Authentication, allowlists and rate limit, up to the await of the body.
Receive(c, p) ==
    LET k == KeyOf[c]
        Refuse(reason) == /\ call' = [call EXCEPT ![c].at = reason, ![c].by = p]
                          /\ UNCHANGED count
    IN  /\ call[c].at = "idle"
        /\ Happens
        /\ IF AuthStatus(k) # "ok" THEN Refuse(AuthStatus(k))
           ELSE IF c \notin Admitted THEN Refuse("not_allowed")
           ELSE /\ Limit(p, k)
                /\ call' = [call EXCEPT ![c].by = p, ![c].at =
                               IF count[<<p, k>>] < maxRequests THEN "body" ELSE "rate_limited"]
        /\ UNCHANGED <<quietQueue, expired, nonces, sent, forgiven, keyVars>>

\* Fault: the nonce is recorded when the message has been sent.
Remembered_Later(p, n) == nonces[p]

\* isNonceValid also records the nonce.
Remembered(p, n) == nonces[p] \cup {n}

\* A body that is cut off or is no JSON makes the handler throw.
BodyUnreadable(c) ==
    /\ call[c].at = "body"
    /\ call' = [call EXCEPT ![c].at = "body_unreadable"]
    /\ UNCHANGED <<queueVars, expired, count, nonces, sent, forgiven, keyVars>>

\* validatePayload, isNonceValid and sanitizeText: a text that is empty once it is
\* sanitized has used its nonce up.
Validate(c) ==
    LET p == call[c].by  n == NonceOf[c]
    IN  /\ call[c].at = "body"
        /\ call' = [call EXCEPT ![c].at =
               IF c \notin WellFormed THEN "validation_failed"
               ELSE IF n \in nonces[p] THEN "replay_detected"
               ELSE IF c \notin Clean THEN "sanitization_failed" ELSE "dispatch"]
        /\ nonces' = IF c \in WellFormed THEN [nonces EXCEPT ![p] = Remembered(p, n)]
                     ELSE nonces
        /\ UNCHANGED <<queueVars, expired, count, sent, forgiven, keyVars>>

\* Fault: one request too many.
Again_Unlimited(c, reason) == call' = [call EXCEPT ![c].posts = @ + 1]

\* fetchWithBackoff: another request after a status of retryOnStatuses, a timeout or a
\* network error, as long as there are any left.
Again(c, reason) ==
    LET posts == call[c].posts + 1
    IN  call' = IF posts < maxPosts THEN [call EXCEPT ![c].posts = posts]
                ELSE [call EXCEPT ![c].at = reason]

Sent(c) == sent' = [sent EXCEPT ![<<call[c].by, NonceOf[c]>>] = @ + 1]

\* Taken, whether or not the answer says so: it may be a status that is not asked again,
\* or have an unreadable body.
MessageTaken(c) ==
    /\ call[c].at = "dispatch" /\ env[call[c].by]["developer_portal"] = 0
    /\ Sent(c)
    /\ \E reason \in {"success", "upstream_status", "upstream_error"} :
           call' = [call EXCEPT ![c].at = reason]
    /\ UNCHANGED <<queueVars, expired, count, nonces, forgiven, keyVars>>

\* Not taken: for good, always so with a key that the portal does not know, or for now.
MessageRefused(c) ==
    /\ call[c].at = "dispatch"
    /\ \/ call' = [call EXCEPT ![c].at = "upstream_status"]
       \/ env[call[c].by]["developer_portal"] = 0 /\ Again(c, "upstream_status")
       \/ Again(c, "upstream_error")
    /\ UNCHANGED <<queueVars, expired, count, nonces, sent, forgiven, keyVars>>

\* Taken, but answered by a status of retryOnStatuses, or not at all.
MessageAnswerLost(c) ==
    /\ call[c].at = "dispatch" /\ env[call[c].by]["developer_portal"] = 0
    /\ Happens
    /\ Sent(c)
    /\ forgiven' = [forgiven EXCEPT ![<<call[c].by, NonceOf[c]>>] = @ + 1]
    /\ \E reason \in {"upstream_status", "upstream_error"} : Again(c, reason)
    /\ UNCHANGED <<quietQueue, expired, count, nonces, keyVars>>

----------------------------------------------------------------------------
(* rotateManagedKeys: of the notification keys, then of the portal's.      *)

StartRotation(p) ==
    /\ rotation[p].at = "idle"
    /\ Happens
    /\ rotation' = [rotation EXCEPT ![p].at = "read"]
    /\ UNCHANGED <<quietQueue, callVars, keysFile, env, minted>>

Entry(id, source) == [id |-> id, source |-> source, revoked |-> FALSE]

\* fallbackFromEnv
Fallback(p) ==
    {Entry(env[p][s], s) : s \in Source} \cup {Entry(i, "notification") : i \in Listed}

\* Fault: the keys that stood before stay in force.
Rotated_KeepOld(keys, source, id) == keys \cup {Entry(id, source)}

\* rotateApiKey
Rotated(keys, source, id) ==
    {IF e.source = source THEN [e EXCEPT !.revoked = TRUE] ELSE e : e \in keys}
    \cup {Entry(id, source)}

\* A file that is missing or does not parse is replaced by the keys of the environment first.
ReadKeys(p) ==
    LET r == rotation[p]
        keys == IF keysFile = Unreadable THEN Fallback(p) ELSE keysFile
    IN  /\ r.at = "read"
        /\ minted' = minted + 1
        /\ rotation' = [rotation EXCEPT ![p] =
               [r EXCEPT !.at = IF keysFile = Unreadable THEN "mend" ELSE "open", !.fresh = minted + 1,
                         !.keys = IF keysFile = Unreadable THEN keys
                                  ELSE Rotated(keys, r.source, minted + 1)]]
        /\ UNCHANGED <<queueVars, callVars, keysFile, env>>

\* fs.writeFile truncates the file, and then writes it.
TruncateKeys(p) ==
    /\ rotation[p].at \in {"mend", "open"}
    /\ keysFile' = Unreadable
    /\ rotation' = [rotation EXCEPT ![p].at = IF @ = "mend" THEN "mending" ELSE "writing"]
    /\ UNCHANGED <<queueVars, callVars, env, minted>>

\* After the second rotation both keys go into the environment.
WriteKeys(p) ==
    LET r == rotation[p]
    IN  /\ r.at \in {"mending", "writing"}
        /\ keysFile' = r.keys
        /\ \/ /\ r.at = "mending"
              /\ rotation' = [rotation EXCEPT ![p] = [r EXCEPT !.at = "open",
                                                         !.keys = Rotated(@, r.source, r.fresh)]]
              /\ UNCHANGED env
           \/ /\ r.at = "writing" /\ r.source = "notification"
              /\ rotation' = [rotation EXCEPT ![p] = [Resting EXCEPT !.at = "read",
                                 !.source = "developer_portal", !.first = r.fresh]]
              /\ UNCHANGED env
           \/ /\ r.at = "writing" /\ r.source = "developer_portal"
              /\ rotation' = [rotation EXCEPT ![p] = Resting]
              /\ env' = [env EXCEPT ![p] = [s \in Source |->
                            IF s = "notification" THEN r.first ELSE r.fresh]]
        /\ UNCHANGED <<queueVars, callVars, minted>>

\* A file operation fails; the keys in force stay.
RotationFails(p) ==
    /\ rotation[p].at # "idle"
    /\ Happens
    /\ rotation' = [rotation EXCEPT ![p] = Resting]
    /\ UNCHANGED <<quietQueue, callVars, keysFile, env, minted>>

----------------------------------------------------------------------------
(* A web process is restarted: what it had in memory is gone, its calls    *)
(* are cut off, its rotation stops where it is.                            *)
Restart(p) ==
    /\ Happens
    /\ ForgetCycle(p)
    /\ call' = [c \in Call |-> IF call[c].by = p /\ call[c].at \in {"body", "dispatch"}
                               THEN [call[c] EXCEPT !.at = "cut_off"] ELSE call[c]]
    /\ sent' \in {sent, [x \in DOMAIN sent |->
                            sent[x] + IF x[1] = p /\ Busy(p, x[2]) THEN 1 ELSE 0]}
    /\ forgiven' = [x \in DOMAIN forgiven |->
                       forgiven[x] + IF x[1] = p /\ x[2] \in nonces[p] THEN 1 ELSE 0]
    /\ nonces' = [nonces EXCEPT ![p] = {}]
    /\ count' = [x \in DOMAIN count |-> IF x[1] = p THEN 0 ELSE count[x]]
    /\ rotation' = [rotation EXCEPT ![p] = Resting]
    /\ env' = [env EXCEPT ![p] = Deployed]
    /\ UNCHANGED <<phase, refused, seated, jobVars, expired, keysFile, minted>>

----------------------------------------------------------------------------
CallStep(c) ==
    \/ \E p \in Process : Receive(c, p)
    \/ BodyUnreadable(c) \/ Validate(c)
    \/ MessageTaken(c) \/ MessageRefused(c) \/ MessageAnswerLost(c)

RotationStep(p) ==
    \/ StartRotation(p) \/ ReadKeys(p) \/ TruncateKeys(p) \/ WriteKeys(p) \/ RotationFails(p)

Next ==
    \/ QueueNext /\ UNCHANGED <<callVars, keyVars>>
    \/ \E c \in Call : CallStep(c)
    \/ \E p \in Process : RotationStep(p) \/ Restart(p)
    \/ \E k \in ApiKey : KeyExpires(k)
    \/ \E p \in Process, k \in ApiKey : WindowEnds(p, k)
    \/ \E p \in Process, n \in Nonce : NonceExpires(p, n)

Spec == Init /\ [][Next]_vars

----------------------------------------------------------------------------
(* Properties.                                                             *)

Places == {"idle", "body", "dispatch", "no_active_keys", "missing", "invalid", "expired",
           "not_allowed", "rate_limited", "validation_failed", "replay_detected",
           "sanitization_failed", "success", "upstream_status", "upstream_error", "cut_off",
           "body_unreadable"}

\* Every variable stays in its domain.
TypeOK ==
    /\ QueueTypeOK
    /\ call \in [Call -> [at : Places, by : Process \cup {None}, posts : 0 .. maxPosts - 1]]
    /\ expired \subseteq Expiring
    /\ count \in [Process \X ApiKey -> 0 .. maxRequests]
    /\ nonces \in [Process -> SUBSET Nonce]
    /\ sent \in [Process \X Nonce -> Nat] /\ forgiven \in [Process \X Nonce -> Nat]
    /\ keysFile = Unreadable \/ \A e \in keysFile :
           e \in [id : (0 .. minted) \cup Listed, source : Source, revoked : BOOLEAN]
    /\ \A p \in Process : rotation[p].at \in {"idle", "read", "mend", "open", "mending", "writing"}
    /\ env \in [Process -> [Source -> 0 .. minted]]

\* A process sends the message of a nonce once, however its calls interleave and repeat:
\* another delivery takes a lost answer, the end of the nonce's life or a restart.
NonceOnce ==
    \A p \in Process, n \in Nonce : sent[<<p, n>>] <= 1 + forgiven[<<p, n>>]

\* However the rotations of several processes overlap, fail half-way or find the file half
\* written, the file never holds two keys of one source in force, apart from those that
\* NOTIFICATIONS_API_KEYS lists: they come back whenever the file cannot be read.
OneKeyInForce ==
    keysFile # Unreadable =>
        \A d, e \in {e \in keysFile : ~e.revoked /\ e.id \notin Listed} :
            d.source = e.source => d = e
=============================================================================
