--------------------------- MODULE PlayerDataProofs ---------------------------
(***************************************************************************)
(* Proofs about PlayerData and the sessions it is composed with, for any   *)
(* processes, persons, users and requests: what the maps of a process and  *)
(* the stored verifications hold, and that what a user's erasure removes   *)
(* stays removed.                                                          *)
(***************************************************************************)
EXTENDS PlayerData, RowsProofs

----------------------------------------------------------------------------
(* The inductive invariant.                                                *)

\* A verification that was made for its token: the person and the user are those of
\* the request (the wallet may have been changed).
Genuine(r) == r \in Verification /\ r.user = UserOf[r.token] /\ r.nullifier = NullifierOf[r.token]

\* The stored verifications: genuine, answered with success, not those of an erased
\* user, each token once, and one unexpired session per person.
Good(db, ex, er, as) ==
    /\ db \in Seq(Verification)
    /\ \A i \in DOMAIN db :
           Genuine(db[i]) /\ as[db[i].token] = "verified" /\ db[i].token \notin er
    /\ \A i, j \in DOMAIN db : db[i].token = db[j].token => i = j
    /\ \A i, j \in DOMAIN db :
           (i # j /\ db[i].token \notin ex /\ db[j].token \notin ex)
               => db[i].nullifier # db[j].nullifier

\* No verification is missing that was answered with success, is live and whose user
\* was not erased.
Complete(db, ex, er, as) ==
    \A v \in Verify : as[v] = "verified" =>
        v \in ex \/ v \in er \/ \E i \in DOMAIN db : db[i].token = v

\* A record that a process may hold in its maps: genuine, inserted by its request even if
\* persistDb failed, and not one whose deletion the process has carried through.
Known(r, as, gone) == Genuine(r) /\ as[r.token] \in {"verified", "failed"} /\ r.token \notin gone

\* The three maps of a process, each with such records under their keys.
Maps(c, as, gone) ==
    /\ DOMAIN c = Map
    /\ \A m \in Map :
           /\ DOMAIN c[m] = Key[m] /\ c[m] = [k \in Key[m] |-> c[m][k]]
           /\ \A k \in Key[m] : c[m][k] # None => Known(c[m][k], as, gone) /\ c[m][k][m] = k

Sessions ==
    /\ expired \subseteq Verify /\ erased \subseteq Verify
    /\ asked \in [Verify -> Place]
    /\ forgotten \in [Process -> SUBSET Verify]
    /\ faults \in 0 .. MaxFaults
    /\ \A v \in erased : asked[v] = "verified"
    /\ \A p \in Process : forgotten[p] \subseteq erased

Database == Good(verifications, expired, erased, asked) /\ Complete(verifications, expired, erased, asked)

Caches == DOMAIN cache = Process /\ \A p \in Process : Maps(cache[p], asked, forgotten[p])

\* What the requests are in the middle of: past its first step a request has found a
\* session, and a payment has a wallet.
Requests ==
    /\ at \in [Request -> {"idle", "consent", "progress", "wallet", "payment", "file",
                           "erase", "forget", "erased", "ok", "refused", "error"}]
    /\ file \in [Request -> {"idle", "read", "identity", "truncate", "truncateNew",
                             "write", "writeNew", "done", "failed"}]
    /\ copy \in [Request -> SUBSET User]
    /\ seen \in [Request -> Verification \cup {None}]
    /\ \A r \in Request :
           /\ (at[r] \notin {"idle", "ok", "refused", "error"} \/ file[r] # "idle")
                  => seen[r] \in Verification
           /\ at[r] \in {"wallet", "payment"} => PaymentWallet(r) \in Wallet

Tables ==
    /\ rows \subseteq Table \X User
    /\ statsFile = Torn \/ statsFile \subseteq User
    /\ ErasedStayErased

IInv == Sessions /\ Database /\ Caches /\ Requests /\ Tables

----------------------------------------------------------------------------
(* Keys and records.                                                       *)

\* The three maps and what each is keyed by.
LEMMA MapIs ==
    /\ Map = {"nullifier", "user", "token"}
    /\ Key["nullifier"] = Nullifier /\ Key["user"] = User /\ Key["token"] = Verify
BY DEF Map, Key

\* A record has a key in every map.
LEMMA Fields == ASSUME NEW r \in Verification, NEW m \in Map PROVE r[m] \in Key[m]
BY MapIs DEF Verification

\* First finds a record that has the key, if there is one.
LEMMA FirstFinds ==
    ASSUME NEW db \in Seq(Verification), NEW m, NEW k
    PROVE  \/ First(db, m, k) = 0 /\ \A i \in DOMAIN db : db[i][m] # k
           \/ First(db, m, k) \in DOMAIN db /\ db[First(db, m, k)][m] = k
<1> DEFINE I == {i \in 1 .. Len(db) : db[i][m] = k}
<1>1. First(db, m, k) = IF I # {} THEN Min(I) ELSE 0
    BY DEF First, SelectInSeq
<1>2. CASE I = {}
    BY <1>1, <1>2
<1>3. CASE I # {}
  <2>0. I \in SUBSET Nat
    OBVIOUS
  <2>1. \E x \in I : \A y \in I : x <= y
    BY <1>3, <2>0, LeastNumber
  <2>2. Min(I) \in I
    BY <2>1 DEF Min
  <2>3. QED
    BY <1>1, <1>3, <2>2
<1>4. QED
    BY <1>2, <1>3

\* A user who exists has a verification.
LEMMA ExistsStored ==
    ASSUME NEW u, NEW w, verifications \in Seq(Verification), UserExists(u, w)
    PROVE  \E i \in DOMAIN verifications : verifications[i].user = u
<1> DEFINE I == {i \in 1 .. Len(verifications) :
                     verifications[i].user = u /\ verifications[i].token \notin expired}
<1>1. I # {}
    BY DEF UserExists, SelectInSeq
<1>2. QED
    BY <1>1

----------------------------------------------------------------------------
(* The maps.                                                               *)

\* Dropping entries leaves maps in order,
LEMMA DropMaps ==
    ASSUME NEW c, NEW as, NEW gone, Maps(c, as, gone), NEW S
    PROVE  Maps(Drop(c, S), as, gone)
BY DEF Maps, Drop

\* and so does dropping the expired ones,
LEMMA PurgedCacheMaps ==
    ASSUME NEW p, NEW as, NEW gone, Maps(cache[p], as, gone)
    PROVE  Maps(PurgedCache(p), as, gone)
<1>1. \A c, m : Maps(c, as, gone) => Maps(PurgedMap(c, m), as, gone)
    BY DropMaps DEF PurgedMap
<1>2. QED
    BY <1>1 DEF PurgedCache

\* entering a record that the process may hold,
LEMMA CachedMaps ==
    ASSUME NEW c, NEW as, NEW gone, Maps(c, as, gone), NEW r, Known(r, as, gone)
    PROVE  Maps(Cached(c, r), as, gone)
<1>1. r \in Verification
    BY DEF Known, Genuine
<1>2. \A m \in Map : r[m] \in Key[m]
    BY <1>1, Fields
<1>3. QED
    BY <1>2 DEF Maps, Cached

\* and clearing what belongs to an erased user.
LEMMA ClearedMaps ==
    ASSUME NEW c, NEW as, NEW gone, Maps(c, as, gone), NEW u, NEW more,
           \A v \in more : UserOf[v] = u
    PROVE  Maps(Cleared(c, u), as, gone \cup more)
<1> DEFINE d == Cleared(c, u)
<1>1. ASSUME NEW m \in Map
      PROVE  DOMAIN d[m] = Key[m] /\ d[m] = [k \in Key[m] |-> d[m][k]]
    BY DEF Cleared
<1>2. ASSUME NEW m \in Map, NEW k \in Key[m], d[m][k] # None
      PROVE  Known(d[m][k], as, gone \cup more) /\ d[m][k][m] = k
  <2>1. d[m][k] = c[m][k] /\ c[m][k] # None /\ c[m][k].user # u
    BY <1>2 DEF Cleared
  <2>2. Known(c[m][k], as, gone) /\ c[m][k][m] = k
    BY <2>1 DEF Maps
  <2>3. c[m][k].token \notin more
    BY <2>1, <2>2 DEF Known, Genuine
  <2>4. QED
    BY <2>1, <2>2, <2>3 DEF Known
<1>3. DOMAIN d = Map
    BY DEF Cleared
<1>4. QED
    BY <1>1, <1>2, <1>3 DEF Maps

\* What is known stays known when requests only go on to be answered.
LEMMA MapsLater ==
    ASSUME NEW c, NEW as, NEW gone, Maps(c, as, gone), NEW later,
           \A v \in Verify : as[v] \in {"verified", "failed"} => later[v] \in {"verified", "failed"}
    PROVE  Maps(c, later, gone)
<1>1. \A r : Known(r, as, gone) => Known(r, later, gone)
    BY DEF Known, Genuine, Verification
<1>2. QED
    BY <1>1 DEF Maps

----------------------------------------------------------------------------
(* The stored verifications.                                               *)

\* Taking rows out leaves the database good.
LEMMA WithoutGood ==
    ASSUME NEW db, NEW ex, NEW er, NEW as, Good(db, ex, er, as), NEW S
    PROVE  Good(Without(db, S), ex, er, as)
<1> DEFINE w == Without(db, S)
<1>1. db \in Seq(Verification)
    BY DEF Good
<1>2. w \in Seq(Verification) /\ \E h : Embeds(h, w, db, Len(db), S)
    BY <1>1, WithoutRows
<1>3. PICK h : Embeds(h, w, db, Len(db), S)
    BY <1>2
<1> HIDE DEF w
<1>4. DOMAIN w = 1 .. Len(w) /\ Len(w) \in Nat /\ DOMAIN db = 1 .. Len(db) /\ Len(db) \in Nat
    BY <1>1, <1>2
<1>5. \A i \in DOMAIN w : h[i] \in DOMAIN db /\ w[i] = db[h[i]]
    BY <1>3, <1>4 DEF Embeds
<1>6. \A i, j \in DOMAIN w : h[i] = h[j] => i = j
  <2>1. \A i, j \in DOMAIN w : i < j => h[i] < h[j]
    BY <1>3, <1>4 DEF Embeds
  <2>2. ASSUME NEW i \in DOMAIN w, NEW j \in DOMAIN w, h[i] = h[j] PROVE i = j
    <3>1. h[i] \in Nat /\ h[j] \in Nat /\ ~(h[i] < h[j]) /\ ~(h[j] < h[i])
        BY <1>4, <1>5, <2>2
    <3>2. ~(i < j) /\ ~(j < i)
        BY <2>1, <3>1
    <3>3. QED
        BY <1>4, <3>2
  <2>3. QED
    BY <2>2
<1>7. \A i \in DOMAIN w : Genuine(w[i]) /\ as[w[i].token] = "verified" /\ w[i].token \notin er
  <2>1. \A i \in DOMAIN db :
            Genuine(db[i]) /\ as[db[i].token] = "verified" /\ db[i].token \notin er
    BY DEF Good
  <2>2. QED
    BY <1>5, <2>1
<1>8. \A i, j \in DOMAIN w : w[i].token = w[j].token => i = j
    BY <1>5, <1>6 DEF Good
<1>9. \A i, j \in DOMAIN w :
          (i # j /\ w[i].token \notin ex /\ w[j].token \notin ex) => w[i].nullifier # w[j].nullifier
    BY <1>5, <1>6 DEF Good
<1>10. Good(w, ex, er, as)
    BY <1>2, <1>7, <1>8, <1>9 DEF Good
<1>11. QED
    BY <1>10 DEF w

\* Rows that are not taken out are still there.
LEMMA WithoutKeeps ==
    ASSUME NEW db \in Seq(Verification), NEW S, NEW i \in DOMAIN db, db[i] \notin S
    PROVE  \E j \in DOMAIN Without(db, S) : Without(db, S)[j] = db[i]
<1>1. PICK h : Embeds(h, Without(db, S), db, Len(db), S)
    BY WithoutRows
<1>2. Without(db, S) \in Seq(Verification)
    BY WithoutRows
<1>3. PICK j \in 1 .. Len(Without(db, S)) : h[j] = i
    BY <1>1 DEF Embeds
<1>4. QED
    BY <1>1, <1>2, <1>3 DEF Embeds

\* And those that are there are none of those that were taken out.
LEMMA WithoutTakes ==
    ASSUME NEW db \in Seq(Verification), NEW S, NEW j \in DOMAIN Without(db, S)
    PROVE  \E i \in DOMAIN db : db[i] \notin S /\ db[i] = Without(db, S)[j]
<1>1. PICK h : Embeds(h, Without(db, S), db, Len(db), S)
    BY WithoutRows
<1>2. Without(db, S) \in Seq(Verification)
    BY WithoutRows
<1>3. j \in 1 .. Len(Without(db, S))
    BY <1>2
<1>4. h[j] \in 1 .. Len(db) /\ db[h[j]] \notin S /\ db[h[j]] = Without(db, S)[j]
    BY <1>1, <1>3 DEF Embeds
<1>5. QED
    BY <1>4

\* Expired verifications can go: nothing that is live does.
LEMMA PurgedDatabase ==
    ASSUME Database
    PROVE  /\ Good(Purged(verifications), expired, erased, asked)
           /\ Complete(Purged(verifications), expired, erased, asked)
           /\ \A i \in DOMAIN Purged(verifications) : Purged(verifications)[i].token \notin expired
<1> DEFINE S == {r \in ToSet(verifications) : r.token \in expired}
           w == Purged(verifications)
<1>1. w = Without(verifications, S) /\ verifications \in Seq(Verification)
    BY DEF Purged, Database, Good
<1>2. \A i \in DOMAIN verifications : verifications[i] \in ToSet(verifications)
    BY <1>1 DEF ToSet
<1>3. Good(w, expired, erased, asked)
    BY <1>1, WithoutGood DEF Database
<1> HIDE DEF w
<1>4. Complete(w, expired, erased, asked)
  <2>1. ASSUME NEW v \in Verify, asked[v] = "verified", v \notin expired, v \notin erased
        PROVE  \E j \in DOMAIN w : w[j].token = v
    <3>1. PICK i \in DOMAIN verifications : verifications[i].token = v
        BY <2>1 DEF Database, Complete
    <3>2. verifications[i] \notin S
        BY <2>1, <3>1
    <3>3. PICK j \in DOMAIN w : w[j] = verifications[i]
        BY <1>1, <3>2, WithoutKeeps
    <3>4. QED
        BY <3>1, <3>3
  <2>2. QED
    BY <2>1 DEF Complete
<1>5. ASSUME NEW j \in DOMAIN w PROVE w[j].token \notin expired
  <2>1. j \in DOMAIN Without(verifications, S)
    BY <1>1
  <2>2. PICK i \in DOMAIN verifications :
            verifications[i] \notin S /\ verifications[i] = Without(verifications, S)[j]
    <3> HIDE DEF S
    <3>1. QED
        BY <1>1, <2>1, WithoutTakes
  <2>3. QED
    BY <1>1, <1>2, <2>2
<1>6. QED
    BY <1>3, <1>4, <1>5 DEF w

----------------------------------------------------------------------------
(* Requests that have not been answered.                                   *)

\* No request is answered with a session in this step, nor put back from there.
Unanswered ==
    /\ asked' \in [Verify -> Place]
    /\ \A v \in Verify : asked'[v] = asked[v] \/ {asked[v], asked'[v]} \cap {"verified", "failed"} = {}

\* No proof is answered in a step that asks nothing,
LEMMA UnansweredSame == ASSUME Sessions, asked' = asked PROVE Unanswered
BY DEF Sessions, Unanswered

\* nor in one that moves a request on before its answer.
LEMMA UnansweredMove ==
    ASSUME Sessions, NEW v \in Verify, NEW place \in Place, Ask(v, place),
           asked[v] \notin {"verified", "failed"}, place \notin {"verified", "failed"}
    PROVE  Unanswered
BY DEF Sessions, Ask, Unanswered

\* The stored verifications stay in order when no verification is answered with success.
LEMMA DatabaseLater ==
    ASSUME NEW db, NEW ex, NEW er, NEW as, NEW later, Good(db, ex, er, as), Complete(db, ex, er, as),
           \A v \in Verify : later[v] = "verified" <=> as[v] = "verified"
    PROVE  Good(db, ex, er, later) /\ Complete(db, ex, er, later)
<1>1. \A i \in DOMAIN db : db[i].token \in Verify
    BY DEF Good, Genuine, Verification
<1>2. \A i \in DOMAIN db : later[db[i].token] = "verified"
    BY <1>1 DEF Good
<1>3. Good(db, ex, er, later)
    BY <1>2 DEF Good
<1>4. QED
    BY <1>3 DEF Complete

\* Maps that a step leaves alone stay in order when answers only come.
LEMMA UnansweredCaches ==
    ASSUME Caches, Unanswered, cache' = cache, forgotten' = forgotten
    PROVE  Caches'
<1>1. \A v \in Verify : asked[v] \in {"verified", "failed"} => asked'[v] \in {"verified", "failed"}
    BY DEF Unanswered
<1>2. QED
    BY <1>1, MapsLater DEF Caches
----------------------------------------------------------------------------
(* Lookups.                                                                *)

\* What a process finds, in its maps or in the database, is known and no erased session
\* that it has forgotten.
LEMMA FoundKnown ==
    ASSUME Sessions, Database, Caches, NEW p \in Process, NEW m \in Map, NEW k \in Key[m],
           Found(p, m, k) # None
    PROVE  Known(Found(p, m, k), asked, forgotten[p])
<1> DEFINE c == PurgedCache(p)
           w == Purged(verifications)
           i == First(w, m, k)
<1>1. Maps(c, asked, forgotten[p])
    BY PurgedCacheMaps DEF Caches
<1>2. Good(w, expired, erased, asked)
    BY PurgedDatabase
<1>3. Found(p, m, k) = IF c[m][k] # None THEN c[m][k] ELSE IF i = 0 THEN None ELSE w[i]
    BY DEF Found
<1> HIDE DEF c, w
<1>4. CASE c[m][k] # None
    BY <1>1, <1>3, <1>4 DEF Maps
<1>5. CASE c[m][k] = None
  <2>1. i # 0 /\ Found(p, m, k) = w[i]
    BY <1>3, <1>5
  <2>2. w \in Seq(Verification)
    BY <1>2 DEF Good
  <2>3. i \in DOMAIN w
    BY <2>1, <2>2, FirstFinds
  <2>4. Genuine(w[i]) /\ asked[w[i].token] = "verified" /\ w[i].token \notin erased
    BY <1>2, <2>3 DEF Good
  <2>5. forgotten[p] \subseteq erased
    BY DEF Sessions
  <2>6. QED
    BY <2>1, <2>4, <2>5 DEF Known
<1>6. QED
    BY <1>4, <1>5

\* The maps after a lookup.
Looked(p, m, k) ==
    cache' = [cache EXCEPT ![p] =
        IF PurgedCache(p)[m][k] # None \/ Found(p, m, k) = None THEN PurgedCache(p)
        ELSE Cached(PurgedCache(p), Found(p, m, k))]

\* A lookup does that to the maps, whether or not its write fails.
LEMMA LookupLooked ==
    ASSUME NEW p, NEW m, NEW k, Lookup(p, m, k) \/ LookupFault(p, m, k)
    PROVE  Looked(p, m, k)
BY DEF Lookup, LookupFault, Looked

\* A lookup enters only what the process may hold.
LEMMA LookedCaches ==
    ASSUME Sessions, Database, Caches, NEW p \in Process, NEW m \in Map, NEW k \in Key[m],
           Looked(p, m, k), forgotten' = forgotten, Unanswered
    PROVE  Caches'
<1> DEFINE c == PurgedCache(p)
           d == IF c[m][k] # None \/ Found(p, m, k) = None THEN c ELSE Cached(c, Found(p, m, k))
<1>1. Maps(c, asked, forgotten[p])
    BY PurgedCacheMaps DEF Caches
<1>2. Maps(d, asked, forgotten[p])
  <2>1. CASE c[m][k] # None \/ Found(p, m, k) = None
    BY <1>1, <2>1
  <2>2. CASE ~(c[m][k] # None \/ Found(p, m, k) = None)
    <3>1. Known(Found(p, m, k), asked, forgotten[p])
        BY <2>2, FoundKnown
    <3>2. Maps(Cached(c, Found(p, m, k)), asked, forgotten[p])
      <4> HIDE DEF c
      <4>1. QED
        BY <1>1, <3>1, CachedMaps
    <3>3. QED
        BY <2>2, <3>2
  <2>3. QED
    BY <2>1, <2>2
<1>3. cache' = [cache EXCEPT ![p] = d]
    BY DEF Looked
<1> HIDE DEF d
<1>4. \A v \in Verify : asked[v] \in {"verified", "failed"} => asked'[v] \in {"verified", "failed"}
    BY DEF Unanswered
<1>5. Maps(d, asked', forgotten[p])
    BY <1>2, <1>4, MapsLater
<1>6. \A q \in Process : Maps(cache[q], asked', forgotten[q])
    BY <1>4, MapsLater DEF Caches
<1>7. QED
    BY <1>3, <1>5, <1>6 DEF Caches


\* A lookup, with the request going on.
LEMMA LookedStep ==
    ASSUME Sessions, Database, Caches, NEW p \in Process, NEW m \in Map, NEW k \in Key[m],
           Looked(p, m, k), Unanswered,
           verifications' = Purged(verifications) \/ verifications' = verifications,
           expired' = expired, erased' = erased, forgotten' = forgotten, faults' \in 0 .. MaxFaults
    PROVE  Sessions' /\ Database' /\ Caches'
<1>1. \A v \in Verify : asked'[v] = "verified" <=> asked[v] = "verified"
    BY DEF Unanswered
<1>2. Sessions'
    BY <1>1 DEF Sessions, Unanswered
<1>3. Database'
    BY <1>1, DatabaseLater, PurgedDatabase DEF Database
<1>4. QED
    BY <1>2, <1>3, LookedCaches

----------------------------------------------------------------------------
(* Insertions.                                                             *)

\* A verification whose nullifier no unexpired one has can be added, by the request
\* that has just been answered with success.
LEMMA AppendDatabase ==
    ASSUME Sessions, Database, NEW v \in Verify, asked[v] = "insert", ~Duplicate(v),
           verifications' = Append(Purged(verifications), NewVerification(v)),
           asked' = [asked EXCEPT ![v] = "verified"], expired' = expired, erased' = erased
    PROVE  Database'
<1> DEFINE w == Purged(verifications)
           new == NewVerification(v)
           db == Append(w, new)
<1>1. /\ Good(w, expired, erased, asked) /\ Complete(w, expired, erased, asked)
      /\ \A i \in DOMAIN w : w[i].token \notin expired
    BY PurgedDatabase
<1>2. Genuine(new) /\ new.token = v /\ new.nullifier = NullifierOf[v]
    BY WorldIdSessionAssumption DEF NewVerification, Genuine, Verification
<1>3. \A i \in DOMAIN w : w[i].nullifier # NullifierOf[v]
  <2>1. w \in Seq(Verification) /\ First(w, "nullifier", NullifierOf[v]) = 0
    BY <1>1 DEF Duplicate, Good
  <2>2. First(w, "nullifier", NullifierOf[v]) \notin DOMAIN w
    BY <2>1
  <2>3. \A i \in DOMAIN w : w[i]["nullifier"] # NullifierOf[v]
    BY <2>1, <2>2, FirstFinds
  <2>4. QED
    BY <2>3
<1>4. asked'[v] = "verified" /\ v \notin erased /\ \A u \in Verify \ {v} : asked'[u] = asked[u]
    BY DEF Sessions
<1> HIDE DEF w, new
<1>5. w \in Seq(Verification) /\ Len(w) \in Nat /\ new \in Verification /\ DOMAIN w = 1 .. Len(w)
    BY <1>1, <1>2 DEF Good, Genuine
<1>6. /\ db \in Seq(Verification) /\ DOMAIN db = 1 .. Len(w) + 1 /\ db[Len(w) + 1] = new
      /\ \A i \in DOMAIN w : db[i] = w[i]
    BY <1>5
<1>7. \A i \in DOMAIN db : i \in DOMAIN w \/ i = Len(w) + 1
    BY <1>5, <1>6
<1> HIDE DEF db
<1>8. \A i \in DOMAIN w : w[i].token \in Verify \ {v}
  <2>1. \A i \in DOMAIN w : w[i].token \in Verify /\ asked[w[i].token] = "verified"
    BY <1>1 DEF Good, Genuine, Verification
  <2>2. QED
    BY <2>1
<1>9. ASSUME NEW i \in DOMAIN db
      PROVE  Genuine(db[i]) /\ asked'[db[i].token] = "verified" /\ db[i].token \notin erased
  <2>1. CASE i \in DOMAIN w
    <3>1. Genuine(w[i]) /\ asked[w[i].token] = "verified" /\ w[i].token \notin erased
        BY <1>1, <2>1 DEF Good
    <3>2. QED
        BY <1>4, <1>6, <1>8, <2>1, <3>1
  <2>2. CASE i = Len(w) + 1
    BY <1>2, <1>4, <1>6, <2>2
  <2>3. QED
    BY <1>7, <2>1, <2>2
<1>10. ASSUME NEW i \in DOMAIN db, NEW j \in DOMAIN db, i # j
       PROVE  db[i].token # db[j].token
              /\ (db[i].token \notin expired /\ db[j].token \notin expired
                      => db[i].nullifier # db[j].nullifier)
  <2>1. CASE i \in DOMAIN w /\ j \in DOMAIN w
    BY <1>1, <1>6, <1>10, <2>1 DEF Good
  <2>2. CASE i \in DOMAIN w /\ j = Len(w) + 1
    BY <1>2, <1>3, <1>6, <1>8, <2>2
  <2>3. CASE i = Len(w) + 1 /\ j \in DOMAIN w
    BY <1>2, <1>3, <1>6, <1>8, <2>3
  <2>4. QED
    BY <1>7, <1>10, <2>1, <2>2, <2>3
<1>11. Good(db, expired, erased, asked')
    BY <1>6, <1>9, <1>10 DEF Good
<1>12. Complete(db, expired, erased, asked')
  <2>1. ASSUME NEW u \in Verify, asked'[u] = "verified", u \notin expired, u \notin erased
        PROVE  \E i \in DOMAIN db : db[i].token = u
    <3>1. CASE u = v
        BY <1>2, <1>5, <1>6, <3>1
    <3>2. CASE u # v
      <4>1. PICK i \in DOMAIN w : w[i].token = u
        BY <1>1, <1>4, <2>1, <3>2 DEF Complete
      <4>2. i \in DOMAIN db /\ db[i].token = u
        BY <1>5, <1>6, <4>1
      <4>3. QED
        BY <4>2
    <3>3. QED
        BY <3>1, <3>2
  <2>2. QED
    BY <2>1 DEF Complete
<1>13. verifications' = db
    BY DEF db, w, new
<1>14. QED
    BY <1>11, <1>12, <1>13 DEF Database

\* The process that inserts a verification, or fails to, holds it in its maps.
LEMMA CacheNewCaches ==
    ASSUME Sessions, Caches, NEW v \in Verify, asked[v] = "insert", CacheNew(v),
           NEW place \in {"verified", "failed"}, asked' = [asked EXCEPT ![v] = place],
           forgotten' = forgotten
    PROVE  Caches'
<1> DEFINE p == VerifiedBy[v]
           new == NewVerification(v)
<1>1. p \in Process
    BY WorldIdSessionAssumption
<1>2. \A u \in Verify : asked[u] \in {"verified", "failed"} => asked'[u] \in {"verified", "failed"}
    BY DEF Sessions
<1>3. asked'[v] \in {"verified", "failed"} /\ v \notin forgotten[p]
    BY <1>1 DEF Sessions
<1>4. Known(new, asked', forgotten[p])
    BY <1>3, WorldIdSessionAssumption DEF NewVerification, Known, Genuine, Verification
<1>5. \A q \in Process : Maps(cache[q], asked', forgotten[q])
    BY <1>2, MapsLater DEF Caches
<1>6. cache' = [cache EXCEPT ![p] = Cached(cache[p], new)]
    BY DEF CacheNew
<1> HIDE DEF p, new
<1>7. Maps(Cached(cache[p], new), asked', forgotten[p])
    BY <1>1, <1>4, <1>5, CachedMaps
<1>8. QED
    BY <1>5, <1>6, <1>7 DEF Caches

----------------------------------------------------------------------------
(* The steps of WorldIdSession.                                            *)

\* What other handlers' rows need to know of such a step: no user becomes erased.
NoneGone ==
    erased' = erased /\ \A v \in Verify : asked[v] = "verified" => asked'[v] = "verified"

\* Where a verification is looked for and entered.
LEMMA KeyOf ==
    ASSUME NEW v \in Verify
    PROVE  /\ VerifiedBy[v] \in Process
           /\ "nullifier" \in Map /\ "user" \in Map /\ "token" \in Map
           /\ NullifierOf[v] \in Key["nullifier"] /\ UserOf[v] \in Key["user"] /\ v \in Key["token"]
BY MapIs, WorldIdSessionAssumption

\* Without an answer nobody is gone who was not.
LEMMA UnansweredNoneGone == ASSUME Unanswered, erased' = erased PROVE NoneGone
BY DEF Unanswered, NoneGone

\* A request is refused, or its proof answered.
LEMMA MoveStep ==
    ASSUME Sessions, Database, Caches, Unanswered,
           UNCHANGED <<verifications, cache, expired, erased, forgotten, faults>>
    PROVE  Sessions' /\ Database' /\ Caches' /\ NoneGone
<1>1. \A v \in Verify : asked'[v] = "verified" <=> asked[v] = "verified"
    BY DEF Unanswered
<1>2. Sessions'
    BY <1>1 DEF Sessions, Unanswered
<1>3. Database'
    BY <1>1, DatabaseLater DEF Database
<1>4. QED
    BY <1>2, <1>3, UnansweredCaches, UnansweredNoneGone

\* Every step of POST /api/verify-world-id keeps the sessions in order.
LEMMA VerifyStepKeeps ==
    ASSUME Sessions, Database, Caches, NEW v \in Verify, VerifyStep(v)
    PROVE  Sessions' /\ Database' /\ Caches' /\ NoneGone
<1>0. MaxFaults \in Nat /\ faults \in 0 .. MaxFaults
    BY WorldIdSessionAssumption DEF Sessions
<1>1. CASE RefuseVerify(v)
  <2>1. Ask(v, "rejected") /\ asked[v] = "idle"
    BY <1>1 DEF RefuseVerify
  <2>2. Unanswered
    BY <2>1, UnansweredMove DEF Place
  <2>3. QED
    BY <1>1, <2>2, MoveStep DEF RefuseVerify
<1>2. CASE FindByNullifier(v)
  <2>1. \E place \in {"conflict", "user", "proof"} : Ask(v, place)
    BY <1>2 DEF FindByNullifier
  <2>2. Unanswered
    BY <1>2, <2>1, UnansweredMove DEF FindByNullifier, Place
  <2>3. Looked(VerifiedBy[v], "nullifier", NullifierOf[v]) /\ verifications' = Purged(verifications)
    BY <1>2, LookupLooked DEF FindByNullifier, Lookup
  <2>4. UNCHANGED <<expired, erased, forgotten, faults>>
    BY <1>2 DEF FindByNullifier
  <2>5. QED
    BY <1>0, <2>2, <2>3, <2>4, KeyOf, LookedStep, UnansweredNoneGone
<1>3. CASE FindByUser(v)
  <2>1. \E place \in {"conflict", "proof"} : Ask(v, place)
    BY <1>3 DEF FindByUser
  <2>2. Unanswered
    BY <1>3, <2>1, UnansweredMove DEF FindByUser, Place
  <2>3. Looked(VerifiedBy[v], "user", UserOf[v]) /\ verifications' = Purged(verifications)
    BY <1>3, LookupLooked DEF FindByUser, Lookup
  <2>4. UNCHANGED <<expired, erased, forgotten, faults>>
    BY <1>3 DEF FindByUser
  <2>5. QED
    BY <1>0, <2>2, <2>3, <2>4, KeyOf, LookedStep, UnansweredNoneGone
<1>4. CASE VerifyLookupFails(v)
  <2>1. Unanswered
    BY <1>4, UnansweredMove DEF VerifyLookupFails, Place
  <2>2. \/ LookupFault(VerifiedBy[v], "nullifier", NullifierOf[v])
        \/ LookupFault(VerifiedBy[v], "user", UserOf[v])
    BY <1>4 DEF VerifyLookupFails
  <2>3. UNCHANGED <<verifications, expired, erased, forgotten>> /\ faults' \in 0 .. MaxFaults
    BY <1>0, <1>4, <2>2 DEF VerifyLookupFails, LookupFault
  <2>4. \/ Looked(VerifiedBy[v], "nullifier", NullifierOf[v])
        \/ Looked(VerifiedBy[v], "user", UserOf[v])
    BY <2>2, LookupLooked
  <2>5. QED
    BY <2>1, <2>3, <2>4, KeyOf, LookedStep, UnansweredNoneGone
<1>5. CASE ProofAnswer(v)
  <2>1. Unanswered
    BY <1>5, UnansweredMove DEF ProofAnswer, Place
  <2>2. QED
    BY <1>5, <2>1, MoveStep DEF ProofAnswer
<1>6. CASE InsertVerification(v)
  <2>1. asked[v] = "insert" /\ UNCHANGED <<expired, erased, forgotten, faults>>
    BY <1>6 DEF InsertVerification
  <2>2. CASE Duplicate(v)
    <3>1. Ask(v, "conflict") /\ UNCHANGED <<verifications, cache>>
        BY <1>6, <2>2 DEF InsertVerification
    <3>2. Unanswered
        BY <2>1, <3>1, UnansweredMove DEF Place
    <3>3. QED
        BY <2>1, <3>1, <3>2, MoveStep
  <2>3. CASE ~Duplicate(v)
    <3>1. /\ CacheNew(v) /\ asked' = [asked EXCEPT ![v] = "verified"]
          /\ verifications' = Append(Purged(verifications), NewVerification(v))
        BY <1>6, <2>3 DEF InsertVerification, Ask
    <3>2. Database'
        BY <2>1, <2>3, <3>1, AppendDatabase
    <3>3. Caches'
        BY <2>1, <3>1, CacheNewCaches
    <3>4. Sessions' /\ NoneGone
        BY <2>1, <3>1 DEF Sessions, NoneGone, Place
    <3>5. QED
        BY <3>2, <3>3, <3>4
  <2>4. QED
    BY <2>2, <2>3
<1>7. CASE InsertFault(v)
  <2>1. /\ asked[v] = "insert" /\ CacheNew(v) /\ asked' = [asked EXCEPT ![v] = "failed"]
        /\ UNCHANGED <<verifications, expired, erased, forgotten>> /\ faults' \in 0 .. MaxFaults
    BY <1>0, <1>7 DEF InsertFault, Ask
  <2>2. \A u \in Verify : asked'[u] = "verified" <=> asked[u] = "verified"
    BY <2>1 DEF Sessions
  <2>3. Sessions' /\ NoneGone
    BY <2>1, <2>2 DEF Sessions, NoneGone, Place
  <2>4. Database'
    BY <2>1, <2>2, DatabaseLater DEF Database
  <2>5. Caches'
    BY <2>1, CacheNewCaches
  <2>6. QED
    BY <2>3, <2>4, <2>5
<1>8. QED
    BY <1>1, <1>2, <1>3, <1>4, <1>5, <1>6, <1>7 DEF VerifyStep

\* So does every step of WorldIdSession.
LEMMA SessionStepKeeps ==
    ASSUME Sessions, Database, Caches, SessionNext
    PROVE  Sessions' /\ Database' /\ Caches' /\ NoneGone
<1>1. ASSUME NEW v \in Verify, Expires(v)
      PROVE  Sessions' /\ Database' /\ Caches' /\ NoneGone
  <2>1. /\ expired' = expired \cup {v}
        /\ UNCHANGED <<verifications, cache, asked, erased, forgotten, faults>>
    BY <1>1 DEF Expires
  <2>2. Database'
    BY <2>1 DEF Database, Good, Complete
  <2>3. QED
    BY <2>1, <2>2 DEF Sessions, Caches, NoneGone
<1>2. CASE CleanupExpired
  <2>1. /\ verifications' = Purged(verifications)
        /\ UNCHANGED <<cache, expired, asked, erased, forgotten, faults>>
    BY <1>2 DEF CleanupExpired
  <2>2. Database'
    BY <2>1, PurgedDatabase DEF Database
  <2>3. QED
    BY <2>1, <2>2 DEF Sessions, Caches, NoneGone
<1>3. QED
    BY <1>1, <1>2, VerifyStepKeeps DEF SessionNext

----------------------------------------------------------------------------
(* What the other handlers do to the sessions.                             *)

\* updateWorldIdWallet changes a wallet in the stored verifications and nothing else.
LEMMA SetWalletDatabase ==
    ASSUME Database, NEW u, NEW w \in Wallet, SetWallet(u, w),
           UNCHANGED <<expired, erased, asked>>
    PROVE  Database'
<1> DEFINE db == Purged(verifications)
           i == First(db, "user", u)
           new == [db EXCEPT ![i].wallet = w]
<1>1. verifications' = IF i = 0 THEN verifications ELSE new
    BY DEF SetWallet
<1>2. Good(db, expired, erased, asked) /\ Complete(db, expired, erased, asked)
    BY PurgedDatabase
<1> HIDE DEF db
<1>3. db \in Seq(Verification)
    BY <1>2 DEF Good
<1>4. CASE i = 0
    BY <1>1, <1>4 DEF Database
<1>5. CASE i # 0
  <2>1. i \in DOMAIN db
    BY <1>3, <1>5, FirstFinds
  <2> HIDE DEF i
  <2>2. \A j \in DOMAIN db : db[j] \in Verification
    BY <1>3
  <2>3. DOMAIN new = DOMAIN db /\ \A j \in DOMAIN db :
            /\ new[j] \in Verification
            /\ new[j].token = db[j].token /\ new[j].user = db[j].user
            /\ new[j].nullifier = db[j].nullifier
    BY <2>1, <2>2 DEF Verification
  <2>4. new \in Seq(Verification)
    <3>1. DOMAIN db = 1 .. Len(db) /\ Len(db) \in Nat
        BY <1>3
    <3>2. new = [j \in 1 .. Len(db) |-> new[j]]
        BY <2>3, <3>1
    <3>3. [j \in 1 .. Len(db) |-> new[j]] \in Seq(Verification)
        BY <2>3, <3>1
    <3>4. QED
        BY <3>2, <3>3
  <2> HIDE DEF new
  <2>5. Good(new, expired, erased, asked)
    BY <1>2, <2>3, <2>4 DEF Good, Genuine
  <2>6. Complete(new, expired, erased, asked)
    BY <1>2, <2>3 DEF Complete
  <2>7. QED
    BY <1>1, <1>5, <2>5, <2>6 DEF Database
<1>6. QED
    BY <1>4, <1>5

\* The erasure of u takes all his verifications, and nobody else's.
LEMMA EraseDatabase ==
    ASSUME Sessions, Database, NEW u, EraseVerifications(u), UNCHANGED <<expired, asked>>
    PROVE  Database'
<1> DEFINE S == {r \in ToSet(verifications) : r.user = u}
           db == Without(verifications, S)
           er == erased \cup {v \in Verify : UserOf[v] = u /\ asked[v] = "verified"}
<1>1. verifications' = db /\ erased' = er /\ verifications \in Seq(Verification)
    BY DEF EraseVerifications, Database, Good
<1>2. \A i \in DOMAIN verifications : verifications[i] \in ToSet(verifications)
    BY <1>1 DEF ToSet
<1>3. Good(db, expired, erased, asked)
  <2> HIDE DEF S
  <2>1. QED
    BY WithoutGood DEF Database
<1>4. ASSUME NEW j \in DOMAIN db PROVE db[j].user # u
  <2>1. PICK i \in DOMAIN verifications : verifications[i] \notin S /\ verifications[i] = db[j]
    <3> HIDE DEF S
    <3>1. QED
        BY <1>1, WithoutTakes
  <2>2. QED
    BY <1>2, <2>1
<1>5. ASSUME NEW i \in DOMAIN verifications, verifications[i].user # u
      PROVE  \E j \in DOMAIN db : db[j] = verifications[i]
  <2>1. verifications[i] \notin S
    BY <1>5
  <2> HIDE DEF S
  <2>2. QED
    BY <1>1, <2>1, WithoutKeeps
<1> HIDE DEF db
<1>6. \A j \in DOMAIN db : db[j].token \notin er
    BY <1>3, <1>4 DEF Good, Genuine
<1>7. Good(db, expired, er, asked)
  <2> HIDE DEF er
  <2>1. QED
    BY <1>3, <1>6 DEF Good
<1>8. Complete(db, expired, er, asked)
  <2>1. ASSUME NEW v \in Verify, asked[v] = "verified", v \notin expired, v \notin er
        PROVE  \E j \in DOMAIN db : db[j].token = v
    <3>1. PICK i \in DOMAIN verifications : verifications[i].token = v
        BY <2>1 DEF Database, Complete
    <3>2. verifications[i].user = UserOf[v] /\ UserOf[v] # u
        BY <2>1, <3>1 DEF Database, Good, Genuine
    <3>3. PICK j \in DOMAIN db : db[j] = verifications[i]
        BY <1>5, <3>2
    <3>4. QED
        BY <3>1, <3>3
  <2>2. QED
    BY <2>1 DEF Complete
<1>9. QED
    BY <1>1, <1>7, <1>8 DEF Database

\* Clearing the maps of a process at the end of an erasure leaves them in order.
LEMMA ForgetCaches ==
    ASSUME Sessions, Caches, NEW p \in Process, NEW u, ForgetUser(p, u), UNCHANGED asked
    PROVE  Caches'
<1> DEFINE more == {t \in erased : UserOf[t] = u}
<1>1. /\ cache' = [cache EXCEPT ![p] = Cleared(cache[p], u)]
      /\ forgotten' = [forgotten EXCEPT ![p] = forgotten[p] \cup more]
    BY DEF ForgetUser
<1>2. Maps(Cleared(cache[p], u), asked, forgotten[p] \cup more)
  <2>1. \A v \in more : UserOf[v] = u
    OBVIOUS
  <2> HIDE DEF more
  <2>2. QED
    BY <2>1, ClearedMaps DEF Caches
<1> HIDE DEF more
<1>3. QED
    BY <1>1, <1>2 DEF Caches, Sessions

----------------------------------------------------------------------------
(* Who is gone.                                                            *)

\* When neither an erasure nor a loss of success happens, nobody is gone who was not.
LEMMA NoMoreGone == ASSUME NoneGone PROVE Gone' \subseteq Gone
BY DEF NoneGone, Gone

\* Tables that a step leaves alone stay in order as long as nobody goes.
LEMMA TablesSame ==
    ASSUME Tables, Gone' \subseteq Gone, UNCHANGED <<rows, statsFile>>
    PROVE  Tables'
BY DEF Tables, ErasedStayErased

\* A user who exists is not gone.
LEMMA ExistsNotGone ==
    ASSUME Database, NEW u, NEW w, UserExists(u, w)
    PROVE  u \notin Gone
<1>1. verifications \in Seq(Verification)
    BY DEF Database, Good
<1>2. PICK i \in DOMAIN verifications : verifications[i].user = u
    BY <1>1, ExistsStored
<1> DEFINE v == verifications[i].token
<1>3. v \in Verify /\ UserOf[v] = u /\ asked[v] = "verified" /\ v \notin erased
    BY <1>2 DEF Database, Good, Genuine, Verification
<1> HIDE DEF v
<1>4. QED
    BY <1>3 DEF Gone

\* An erasure makes only its own user one who is gone.
LEMMA EraseGone ==
    ASSUME NEW u, EraseVerifications(u), UNCHANGED asked
    PROVE  Gone' \subseteq Gone \cup {u}
<1>1. ASSUME NEW x \in Gone', x # u PROVE x \in Gone
  <2>1. erased' = erased \cup {v \in Verify : UserOf[v] = u /\ asked[v] = "verified"}
    BY DEF EraseVerifications
  <2>2. PICK t \in erased' : x = UserOf[t]
    BY DEF Gone
  <2>3. t \in erased
    BY <1>1, <2>1, <2>2
  <2>4. \A v \in Verify : (v \notin erased /\ asked[v] = "verified") => UserOf[v] # x
    BY <1>1, <2>1 DEF Gone
  <2>5. QED
    BY <2>2, <2>3, <2>4 DEF Gone
<1>2. QED
    BY <1>1

----------------------------------------------------------------------------
(* The steps of a request.                                                 *)

\* A step that leaves the sessions alone keeps them in order.
LEMMA SameSessions ==
    ASSUME Sessions, Database, Caches, UNCHANGED sessionVars
    PROVE  Sessions' /\ Database' /\ Caches' /\ Gone' \subseteq Gone
BY DEF sessionVars, Sessions, Database, Caches, Gone

\* Where a request goes when it has found its session.
LEMMA FirstStepIs ==
    ASSUME NEW k \in Kinds
    PROVE  /\ FirstStep[k] \in {"ok", "consent", "progress", "wallet", "file", "erase"}
           /\ FirstStep[k] = "wallet" => k = "initiate"
BY DEF Kinds, FirstStep

\* A request finds its session, and with it a wallet if it is about a payment.
LEMMA FindSessionRequests ==
    ASSUME Sessions, Database, Caches, Requests, NEW r \in Request, FindSession(r)
    PROVE  Requests'
<1> DEFINE p == ServedBy[r]
           k == Cookie[r]
           identity == Found(p, "token", k)
           refused == identity = None \/ r \notin Valid \/ WalletRefused(r, identity)
           place == IF refused THEN "refused" ELSE FirstStep[Kind[r]]
           work == IF ~refused /\ Kind[r] \in {"stats", "profile", "erase"} THEN "read" ELSE "idle"
<1>1. /\ seen' = [seen EXCEPT ![r] = identity]
      /\ at' = [at EXCEPT ![r] = place]
      /\ file' = [file EXCEPT ![r] = work]
      /\ copy' = copy
    BY DEF FindSession, Goto, FileGoto
<1>2. p \in Process /\ "token" \in Map /\ k \in Key["token"]
    BY MapIs, PlayerDataAssumption
<1>3. identity = None \/ identity \in Verification
  <2> HIDE DEF p, k
  <2>1. QED
    BY <1>2, FoundKnown DEF Known, Genuine
<1> HIDE DEF identity, p, k
<1>4. Kind[r] \in Kinds /\ Pays[r] \in Wallet \cup {None}
    BY PlayerDataAssumption
<1>5. place = "refused" \/ (~refused /\ place = FirstStep[Kind[r]])
    OBVIOUS
<1>6. work = "idle" \/ (~refused /\ work = "read")
    OBVIOUS
<1>7. ~refused => identity \in Verification
    BY <1>3
<1>8. place = "wallet" => (IF Pays[r] # None THEN Pays[r] ELSE identity.wallet) \in Wallet
  <2>1. SUFFICES ASSUME place = "wallet"
                 PROVE  (IF Pays[r] # None THEN Pays[r] ELSE identity.wallet) \in Wallet
    OBVIOUS
  <2>2. ~refused /\ Kind[r] = "initiate"
    BY <1>4, <1>5, <2>1, FirstStepIs
  <2>3. ~(Pays[r] = None /\ identity.wallet = None) /\ identity \in Verification
    BY <1>7, <2>2 DEF WalletRefused
  <2>4. identity.wallet \in Wallet \cup {None}
    BY <2>3 DEF Verification
  <2>5. QED
    BY <1>4, <2>3, <2>4
<1>9. place \in {"refused", "ok", "consent", "progress", "wallet", "file", "erase"}
    BY <1>4, <1>5, FirstStepIs
<1>10. (place \notin {"ok", "refused"} \/ work # "idle") => identity \in Verification
    BY <1>5, <1>6, <1>7
<1>11. work \in {"idle", "read"}
    OBVIOUS
<1> HIDE DEF place, work, refused
<1>12. /\ at' \in [Request -> {"idle", "consent", "progress", "wallet", "payment", "file",
                           "erase", "forget", "erased", "ok", "refused", "error"}]
       /\ file' \in [Request -> {"idle", "read", "identity", "truncate", "truncateNew",
                             "write", "writeNew", "done", "failed"}]
       /\ copy' \in [Request -> SUBSET User]
       /\ seen' \in [Request -> Verification \cup {None}]
    BY <1>1, <1>3, <1>9, <1>11 DEF Requests
<1>13. ASSUME NEW q \in Request
       PROVE  /\ (at'[q] \notin {"idle", "ok", "refused", "error"} \/ file'[q] # "idle")
                     => seen'[q] \in Verification
              /\ at'[q] \in {"wallet", "payment"} => PaymentWallet(q)' \in Wallet
  <2>1. CASE q = r
    <3>1. at'[q] = place /\ file'[q] = work /\ seen'[q] = identity
        BY <1>1, <2>1 DEF Requests
    <3>2. PaymentWallet(q)' = IF Pays[r] # None THEN Pays[r] ELSE identity.wallet
        BY <2>1, <3>1 DEF PaymentWallet
    <3>3. QED
        BY <1>8, <1>9, <1>10, <3>1, <3>2
  <2>2. CASE q # r
    <3>1. at'[q] = at[q] /\ file'[q] = file[q] /\ seen'[q] = seen[q]
        BY <1>1, <2>2 DEF Requests
    <3>2. PaymentWallet(q)' = PaymentWallet(q)
        BY <3>1 DEF PaymentWallet
    <3>3. QED
        BY <3>1, <3>2 DEF Requests
  <2>3. QED
    BY <2>1, <2>2
<1>14. QED
    BY <1>12, <1>13 DEF Requests

\* Afterwards it keeps what it has found: the other steps of a request, which go on to
\* `place' and `work' with the copy `mine' of the statistics.
Onward(r, place, work, mine) ==
    /\ seen' = seen
    /\ at' = [at EXCEPT ![r] = place] \/ (at' = at /\ place = at[r])
    /\ file' = [file EXCEPT ![r] = work] \/ (file' = file /\ work = file[r])
    /\ copy' = [copy EXCEPT ![r] = mine] \/ copy' = copy
    /\ place \in {"idle", "consent", "progress", "wallet", "payment", "file", "erase",
                  "forget", "erased", "ok", "refused", "error"}
    /\ work \in {"idle", "read", "identity", "truncate", "truncateNew",
                 "write", "writeNew", "done", "failed"}
    /\ mine \in SUBSET User
    /\ (place \notin {"idle", "ok", "refused", "error"} \/ work # "idle") => seen[r] \in Verification
    /\ place \in {"wallet", "payment"} => PaymentWallet(r) \in Wallet

\* A request that moves on in that way stays in order.
LEMMA OnwardRequests ==
    ASSUME Requests, NEW r \in Request, NEW place, NEW work, NEW mine,
           Onward(r, place, work, mine)
    PROVE  Requests'
<1>1. /\ at' \in [Request -> {"idle", "consent", "progress", "wallet", "payment", "file",
                           "erase", "forget", "erased", "ok", "refused", "error"}]
      /\ at'[r] = place /\ \A q \in Request \ {r} : at'[q] = at[q]
    BY DEF Requests, Onward
<1>2. /\ file' \in [Request -> {"idle", "read", "identity", "truncate", "truncateNew",
                             "write", "writeNew", "done", "failed"}]
      /\ file'[r] = work /\ \A q \in Request \ {r} : file'[q] = file[q]
    BY DEF Requests, Onward
<1>3. copy' \in [Request -> SUBSET User]
    BY DEF Requests, Onward
<1>4. \A q \in Request : PaymentWallet(q)' = PaymentWallet(q)
    BY DEF PaymentWallet, Onward
<1>5. ASSUME NEW q \in Request
      PROVE  /\ (at'[q] \notin {"idle", "ok", "refused", "error"} \/ file'[q] # "idle")
                    => seen'[q] \in Verification
             /\ at'[q] \in {"wallet", "payment"} => PaymentWallet(q)' \in Wallet
  <2>1. CASE q = r
    BY <1>1, <1>2, <1>4, <2>1 DEF Onward
  <2>2. CASE q # r
    BY <1>1, <1>2, <1>4, <2>2 DEF Requests, Onward
  <2>3. QED
    BY <2>1, <2>2
<1>6. QED
    BY <1>1, <1>2, <1>3, <1>5 DEF Requests, Onward

\* A step of a request on its own variables, its rows or the statistics.
LEMMA RequestOnly ==
    ASSUME IInv, UNCHANGED sessionVars, Requests', Tables'
    PROVE  IInv'
BY SameSessions DEF IInv

\* What the steps of a request need to know of it.
LEMMA StepTypes ==
    ASSUME Requests, NEW r \in Request
    PROVE  /\ at[r] \in {"idle", "consent", "progress", "wallet", "payment", "file", "erase",
                         "forget", "erased", "ok", "refused", "error"}
           /\ file[r] \in {"idle", "read", "identity", "truncate", "truncateNew",
                           "write", "writeNew", "done", "failed"}
           /\ copy[r] \in SUBSET User
           /\ at[r] \notin {"idle", "ok", "refused", "error"} => seen[r] \in Verification
           /\ file[r] # "idle" => seen[r] \in Verification
           /\ seen[r] \in Verification => Me(r) \in User
           /\ at[r] \in {"wallet", "payment"} => PaymentWallet(r) \in Wallet
BY DEF Requests, Me, Verification

\* Consent, progress and payment are written for a user who exists.
LEMMA RowsStep ==
    ASSUME IInv, NEW r \in Request,
           SaveConsent(r) \/ SaveProgress(r) \/ CreatePayment(r)
    PROVE  IInv'
<1>1. /\ at[r] \in {"consent", "progress", "payment"}
      /\ at' = [at EXCEPT ![r] = "ok"] \/ at' = [at EXCEPT ![r] = "error"]
      /\ UNCHANGED <<sessionVars, statsFile, file, copy, seen>>
    BY DEF SaveConsent, SaveProgress, CreatePayment, Goto
<1>2. seen[r] \in Verification /\ Me(r) \in User
    BY <1>1, StepTypes DEF IInv
<1>3. Requests'
  <2>1. \E place \in {"ok", "error"} : Onward(r, place, file[r], copy[r])
    BY <1>1, <1>2, StepTypes DEF IInv, Onward
  <2>2. QED
    BY <2>1, OnwardRequests DEF IInv
<1>4. \/ rows' = rows \cup {<<"consent", Me(r)>>}
      \/ \E t \in {"progress", "payment"} : rows' = rows \cup {<<t, Me(r)>>} /\ Me(r) \notin Gone
      \/ rows' = rows
  <2>1. CASE SaveConsent(r)
    BY <2>1 DEF SaveConsent, UpsertUserConsent
  <2>2. CASE SaveProgress(r)
    BY <2>2, ExistsNotGone DEF SaveProgress, UpsertGameProgress, IInv
  <2>3. CASE CreatePayment(r)
    BY <2>3, ExistsNotGone DEF CreatePayment, IInv
  <2>4. QED
    BY <2>1, <2>2, <2>3
<1>5. Gone' = Gone
    BY <1>1 DEF sessionVars, Gone
<1>6. rows' \subseteq Table \X User
    BY <1>2, <1>4 DEF IInv, Tables, Table
<1>7. ErasedStayErased'
    BY <1>4, <1>5 DEF IInv, Tables, ErasedStayErased
<1>8. Tables'
    BY <1>1, <1>6, <1>7 DEF IInv, Tables
<1>9. QED
    BY <1>1, <1>3, <1>8, RequestOnly

\* The steps of the statistics file and the answers touch no session and no row.
LEMMA StatsStep ==
    ASSUME IInv, NEW r \in Request,
           ReadStats(r) \/ Truncate(r) \/ Write(r) \/ AnswerStats(r) \/ AnswerProfile(r)
               \/ AnswerErase(r)
    PROVE  IInv'
<1>1. UNCHANGED <<sessionVars, rows, seen>> /\ Gone' = Gone
    BY DEF ReadStats, Truncate, Write, AnswerStats, AnswerProfile, AnswerErase, Answer,
           sessionVars, Gone
<1>2. (at[r] \notin {"idle", "ok", "refused", "error"} \/ file[r] # "idle")
          => seen[r] \in Verification /\ Me(r) \in User
    BY StepTypes DEF IInv
<1>3. Requests'
  <2>1. CASE ReadStats(r)
    <3> DEFINE mine == IF statsFile = Torn THEN {}
                       ELSE IF Kind[r] = "erase" THEN statsFile \ {Me(r)}
                       ELSE statsFile
               work == IF statsFile = Torn THEN "failed"
                       ELSE IF Kind[r] = "erase" /\ Me(r) \notin statsFile THEN "done"
                       ELSE IF Kind[r] = "erase" THEN "truncate"
                       ELSE IF Me(r) \notin statsFile THEN "identity"
                       ELSE IF Kind[r] = "profile" THEN "truncate"
                       ELSE "done"
    <3>1. /\ copy' = [copy EXCEPT ![r] = mine] /\ file' = [file EXCEPT ![r] = work]
          /\ at' = at /\ file[r] = "read"
        BY <2>1 DEF ReadStats, FileGoto
    <3>2. mine \in SUBSET User
      <4>1. statsFile = Torn \/ statsFile \in SUBSET User
        BY DEF IInv, Tables
      <4>2. QED
        BY <4>1
    <3>3. work \in {"failed", "truncate", "done", "identity"}
        OBVIOUS
    <3> HIDE DEF mine, work
    <3>4. QED
      <4>1. Onward(r, at[r], work, mine)
        BY <1>1, <1>2, <3>1, <3>2, <3>3, StepTypes DEF IInv, Onward
      <4>2. QED
        BY <4>1, OnwardRequests DEF IInv
  <2>2. CASE Truncate(r)
    <3>1. /\ file' = [file EXCEPT ![r] = "write"] \/ file' = [file EXCEPT ![r] = "writeNew"]
          /\ at' = at /\ copy' = copy /\ file[r] # "idle"
        BY <2>2 DEF Truncate, FileGoto
    <3>2. \E work \in {"write", "writeNew"} : Onward(r, at[r], work, copy[r])
        BY <1>1, <1>2, <3>1, StepTypes DEF IInv, Onward
    <3>3. QED
        BY <3>2, OnwardRequests DEF IInv
  <2>3. CASE Write(r)
    <3>1. /\ file' = [file EXCEPT ![r] = "read"] \/ file' = [file EXCEPT ![r] = "done"]
          /\ at' = at /\ copy' = [copy EXCEPT ![r] = {}] /\ file[r] # "idle"
        BY <2>3 DEF Write, FileGoto
    <3>2. \E work \in {"read", "done"} : Onward(r, at[r], work, {})
        BY <1>1, <1>2, <3>1, StepTypes DEF IInv, Onward
    <3>3. QED
        BY <3>2, OnwardRequests DEF IInv
  <2>4. CASE AnswerStats(r) \/ AnswerProfile(r) \/ AnswerErase(r)
    <3>1. /\ at' = [at EXCEPT ![r] = "ok"] \/ at' = [at EXCEPT ![r] = "error"]
          /\ file' = file /\ copy' = copy
        BY <2>4 DEF AnswerStats, AnswerProfile, AnswerErase, Answer, Goto
    <3>2. \E place \in {"ok", "error"} : Onward(r, place, file[r], copy[r])
        BY <1>1, <1>2, <3>1, StepTypes DEF IInv, Onward
    <3>3. QED
        BY <3>2, OnwardRequests DEF IInv
  <2>5. QED
    BY <2>1, <2>2, <2>3, <2>4
<1>4. statsFile' = statsFile \/ statsFile' = Torn \/ statsFile' = copy[r]
    BY DEF ReadStats, Truncate, Write, AnswerStats, AnswerProfile, AnswerErase, Answer
<1>5. copy[r] \in SUBSET User
    BY StepTypes DEF IInv
<1>6. Tables'
    BY <1>1, <1>4, <1>5 DEF IInv, Tables, ErasedStayErased, Torn
<1>7. QED
    BY <1>1, <1>3, <1>6, RequestOnly

\* The steps of a request that look a verification up.
LEMMA LookupStep ==
    ASSUME IInv, NEW r \in Request, FindSession(r) \/ FindSessionFails(r) \/ FindIdentity(r)
    PROVE  IInv'
<1>0. /\ ServedBy[r] \in Process /\ "token" \in Map /\ Cookie[r] \in Key["token"] /\ "user" \in Map
      /\ faults \in 0 .. MaxFaults /\ MaxFaults \in Nat
    BY MapIs, PlayerDataAssumption, WorldIdSessionAssumption DEF IInv, Sessions
<1>1. UNCHANGED <<expired, asked, erased, forgotten, rows, statsFile>>
    BY DEF FindSession, FindSessionFails, FindIdentity
<1>2. Unanswered
    BY <1>1, UnansweredSame DEF IInv
<1>3. Tables'
    BY <1>1, TablesSame DEF IInv, Gone
<1>4. CASE FindSession(r)
  <2>1. Lookup(ServedBy[r], "token", Cookie[r]) /\ faults' = faults
    BY <1>4 DEF FindSession
  <2>2. Looked(ServedBy[r], "token", Cookie[r]) /\ verifications' = Purged(verifications)
    BY <2>1, LookupLooked DEF Lookup
  <2>3. Sessions' /\ Database' /\ Caches'
    BY <1>0, <1>1, <1>2, <2>1, <2>2, LookedStep DEF IInv
  <2>4. Requests'
    BY <1>4, FindSessionRequests DEF IInv
  <2>5. QED
    BY <1>3, <2>3, <2>4 DEF IInv
<1>5. CASE FindSessionFails(r)
  <2>1. LookupFault(ServedBy[r], "token", Cookie[r])
    BY <1>5 DEF FindSessionFails
  <2>2. /\ Looked(ServedBy[r], "token", Cookie[r]) /\ verifications' = verifications
        /\ faults' \in 0 .. MaxFaults
    <3>1. Looked(ServedBy[r], "token", Cookie[r])
        BY <2>1, LookupLooked
    <3>2. faults < MaxFaults /\ faults' = faults + 1 /\ verifications' = verifications
        BY <2>1 DEF LookupFault
    <3>3. QED
        BY <1>0, <3>1, <3>2
  <2>3. Sessions' /\ Database' /\ Caches'
    BY <1>0, <1>1, <1>2, <2>2, LookedStep DEF IInv
  <2>4. at' = [at EXCEPT ![r] = "error"] /\ UNCHANGED <<file, copy, seen>>
    BY <1>5 DEF FindSessionFails, Goto
  <2>5. Requests'
    <3>1. Onward(r, "error", file[r], copy[r])
        BY <2>4, StepTypes DEF IInv, Onward
    <3>2. QED
        BY <3>1, OnwardRequests DEF IInv
  <2>6. QED
    BY <1>3, <2>3, <2>5 DEF IInv
<1>6. CASE FindIdentity(r)
  <2>1. Lookup(ServedBy[r], "user", Me(r)) /\ faults' = faults /\ file[r] = "identity"
    BY <1>6 DEF FindIdentity
  <2>2. seen[r] \in Verification /\ Me(r) \in User /\ copy[r] \in SUBSET User
    BY <2>1, StepTypes DEF IInv
  <2>3. Me(r) \in Key["user"]
    BY <2>2, MapIs
  <2>4. Looked(ServedBy[r], "user", Me(r)) /\ verifications' = Purged(verifications)
    BY <2>1, LookupLooked DEF Lookup
  <2>5. Sessions' /\ Database' /\ Caches'
    BY <1>0, <1>1, <1>2, <2>1, <2>3, <2>4, LookedStep DEF IInv
  <2>6. /\ file' = [file EXCEPT ![r] = "truncateNew"] /\ UNCHANGED <<at, seen>>
        /\ copy' = [copy EXCEPT ![r] = copy[r] \cup {Me(r)}]
    BY <1>6 DEF FindIdentity, FileGoto
  <2>7. copy[r] \cup {Me(r)} \in SUBSET User
    BY <2>2
  <2>8. Requests'
    <3>1. Onward(r, at[r], "truncateNew", copy[r] \cup {Me(r)})
        BY <2>2, <2>6, <2>7, StepTypes DEF IInv, Onward
    <3>2. QED
        BY <3>1, OnwardRequests DEF IInv
  <2>9. QED
    BY <1>3, <2>5, <2>8 DEF IInv
<1>7. QED
    BY <1>4, <1>5, <1>6

\* The wallet of a payment goes into the stored verifications,
LEMMA WalletStep == ASSUME IInv, NEW r \in Request, UpdateWallet(r) PROVE IInv'
<1>1. /\ at[r] = "wallet" /\ SetWallet(Me(r), PaymentWallet(r))
      /\ at' = [at EXCEPT ![r] = "error"] \/ at' = [at EXCEPT ![r] = "payment"]
      /\ UNCHANGED <<cache, expired, asked, erased, forgotten, faults,
                     rows, statsFile, file, copy, seen>>
    BY DEF UpdateWallet, Goto
<1>2. PaymentWallet(r) \in Wallet /\ seen[r] \in Verification
    BY <1>1, StepTypes DEF IInv
<1>3. Database'
    BY <1>1, <1>2, SetWalletDatabase DEF IInv
<1>4. Sessions' /\ Caches' /\ Gone' = Gone
    BY <1>1 DEF IInv, Sessions, Caches, Gone
<1>5. Requests'
  <2>1. \E place \in {"payment", "error"} : Onward(r, place, file[r], copy[r])
    BY <1>1, <1>2, StepTypes DEF IInv, Onward
  <2>2. QED
    BY <2>1, OnwardRequests DEF IInv
<1>6. Tables'
    BY <1>1, <1>4, TablesSame DEF IInv
<1>7. QED
    BY <1>3, <1>4, <1>5, <1>6 DEF IInv

\* a write that fails leaves everything to the request,
LEMMA FailStep == ASSUME IInv, NEW r \in Request, PersistFails(r) PROVE IInv'
<1>1. /\ at' = [at EXCEPT ![r] = "error"] /\ faults < MaxFaults /\ faults' = faults + 1
      /\ UNCHANGED <<verifications, cache, expired, asked, erased, forgotten,
                     rows, statsFile, file, copy, seen>>
    BY DEF PersistFails, Goto
<1>2. Sessions' /\ Database' /\ Caches' /\ Gone' = Gone
  <2>1. faults' \in 0 .. MaxFaults
    BY <1>1, WorldIdSessionAssumption DEF IInv, Sessions
  <2>2. QED
    BY <1>1, <2>1 DEF IInv, Sessions, Database, Caches, Gone
<1>3. Requests'
  <2>1. Onward(r, "error", file[r], copy[r])
    BY <1>1, StepTypes DEF IInv, Onward
  <2>2. QED
    BY <2>1, OnwardRequests DEF IInv
<1>4. Tables'
    BY <1>1, <1>2, TablesSame DEF IInv
<1>5. QED
    BY <1>2, <1>3, <1>4 DEF IInv

\* and an erasure takes the rows away together with the verifications.
LEMMA EraseStep == ASSUME IInv, NEW r \in Request, EraseRows(r) PROVE IInv'
<1> DEFINE u == Me(r)
<1>0. UNCHANGED <<expired, asked, faults, statsFile, file, copy, seen>> /\ ServedBy[r] \in Process
    BY PlayerDataAssumption DEF EraseRows
<1>1. CASE at[r] = "erase"
  <2>1. /\ EraseVerifications(u) /\ rows' = {row \in rows : row[2] # u}
        /\ at' = [at EXCEPT ![r] = "forget"] /\ UNCHANGED <<cache, forgotten>>
    BY <1>1 DEF EraseRows, Goto
  <2>2. Database'
    BY <1>0, <2>1, EraseDatabase DEF IInv
  <2>3. Sessions' /\ Caches'
    BY <1>0, <2>1 DEF IInv, Sessions, Caches, EraseVerifications
  <2>4. Requests'
    <3>1. Onward(r, "forget", file[r], copy[r])
        BY <1>0, <1>1, <2>1, StepTypes DEF IInv, Onward
    <3>2. QED
        BY <3>1, OnwardRequests DEF IInv
  <2>5. Gone' \subseteq Gone \cup {u}
    BY <1>0, <2>1, EraseGone
  <2>6. Tables'
    BY <1>0, <2>1, <2>5 DEF IInv, Tables, ErasedStayErased
  <2>7. QED
    BY <2>2, <2>3, <2>4, <2>6 DEF IInv
<1>2. CASE at[r] = "forget"
  <2>1. /\ ForgetUser(ServedBy[r], u) /\ at' = [at EXCEPT ![r] = "erased"]
        /\ UNCHANGED <<verifications, erased, rows>>
    BY <1>2 DEF EraseRows, Goto
  <2>2. Caches'
    BY <1>0, <2>1, ForgetCaches DEF IInv
  <2>3. Sessions' /\ Database' /\ Gone' = Gone
    BY <1>0, <2>1 DEF IInv, Sessions, Database, Gone, ForgetUser
  <2>4. Requests'
    <3>1. Onward(r, "erased", file[r], copy[r])
        BY <1>0, <1>2, <2>1, StepTypes DEF IInv, Onward
    <3>2. QED
        BY <3>1, OnwardRequests DEF IInv
  <2>5. Tables'
    BY <1>0, <2>1, <2>3, TablesSame DEF IInv
  <2>6. QED
    BY <2>2, <2>3, <2>4, <2>5 DEF IInv
<1>3. QED
    BY <1>1, <1>2 DEF EraseRows

----------------------------------------------------------------------------
(* The invariant and the theorems.                                         *)

\* The invariant holds at first.
LEMMA InitIInv == PlayerInit => IInv
<1> SUFFICES ASSUME PlayerInit PROVE IInv
    OBVIOUS
<1> USE DEF PlayerInit, Init
<1>1. Sessions
    BY WorldIdSessionAssumption DEF Sessions, Place
<1>2. Database
    BY DEF Database, Good, Complete
<1>3. Caches
    BY DEF Caches, Maps, EmptyCache
<1>4. Requests
    BY DEF Requests
<1>5. Tables
    BY DEF Tables, ErasedStayErased
<1>6. QED
    BY <1>1, <1>2, <1>3, <1>4, <1>5 DEF IInv

\* Every step keeps the invariant.
LEMMA NextIInv == IInv /\ [Next]_vars => IInv'
<1> SUFFICES ASSUME IInv, [Next]_vars PROVE IInv'
    OBVIOUS
<1>1. CASE SessionNext /\ UNCHANGED playerVars
  <2>1. Sessions' /\ Database' /\ Caches' /\ NoneGone
    BY <1>1, SessionStepKeeps DEF IInv
  <2>2. UNCHANGED <<rows, statsFile, at, file, copy, seen>>
    BY <1>1 DEF playerVars
  <2>3. Tables'
    BY <2>1, <2>2, NoMoreGone, TablesSame DEF IInv
  <2>4. Requests'
    BY <2>2 DEF IInv, Requests, PaymentWallet
  <2>5. QED
    BY <2>1, <2>3, <2>4 DEF IInv
<1>2. ASSUME NEW r \in Request, RequestStep(r) PROVE IInv'
    BY <1>2, RowsStep, StatsStep, LookupStep, WalletStep, FailStep, EraseStep DEF RequestStep
<1>3. CASE UNCHANGED vars
  <2>1. UNCHANGED sessionVars /\ UNCHANGED <<rows, statsFile, at, file, copy, seen>>
    BY <1>3 DEF vars, playerVars
  <2>2. Gone' = Gone
    BY <2>1 DEF sessionVars, Gone
  <2>3. Tables'
    BY <2>1, <2>2, TablesSame DEF IInv
  <2>4. Requests'
    BY <2>1 DEF IInv, Requests, PaymentWallet
  <2>5. QED
    BY <2>1, <2>3, <2>4, RequestOnly
<1>4. QED
    BY <1>1, <1>2, <1>3 DEF Next

\* IInv is an invariant: of the sessions, their copies in memory, what requests have
\* found, and the tables, whatever overlaps.
THEOREM Invariance == Spec => []IInv
<1>1. QED
    BY InitIInv, NextIInv, PTL DEF Spec

\* The variables have their types.
THEOREM TypeCorrect == Spec => []TypeOK
<1>1. IInv => TypeOK
  <2> SUFFICES ASSUME IInv PROVE TypeOK
    OBVIOUS
  <2>1. /\ verifications \in Seq(Verification)
        /\ \A i, j \in DOMAIN verifications : verifications[i].token = verifications[j].token => i = j
    BY DEF IInv, Database, Good
  <2>2. ASSUME NEW p \in Process, NEW m \in Map, NEW k \in Key[m], cache[p][m][k] # None
        PROVE  cache[p][m][k] \in Verification /\ cache[p][m][k][m] = k
    <3>1. Maps(cache[p], asked, forgotten[p])
        BY DEF IInv, Caches
    <3>2. Known(cache[p][m][k], asked, forgotten[p]) /\ cache[p][m][k][m] = k
        BY <2>2, <3>1 DEF Maps
    <3>3. QED
        BY <3>2 DEF Known, Genuine
  <2>3. SessionTypeOK
    BY <2>1, <2>2 DEF IInv, Sessions, SessionTypeOK
  <2>4. QED
    BY <2>3 DEF IInv, Requests, Tables, TypeOK
<1>2. QED
    BY <1>1, Invariance, PTL

\* insertWorldIdVerification: a person has one live session, however many requests
\* present the same nullifier in whatever processes.
THEOREM OneSession == Spec => []OneSessionPerPerson
<1>1. IInv => OneSessionPerPerson
    BY DEF IInv, Database, Good, OneSessionPerPerson
<1>2. QED
    BY <1>1, Invariance, PTL

\* Whatever a process holds in its maps is known.
LEMMA EntriesKnown ==
    ASSUME Caches, NEW p \in Process, NEW r \in Entries(cache[p])
    PROVE  Known(r, asked, forgotten[p])
<1>1. r # None /\ r \in UNION {{cache[p][m][k] : k \in Key[m]} : m \in Map}
    BY DEF Entries
<1>2. PICK m \in Map : r \in {cache[p][m][k] : k \in Key[m]}
    BY <1>1
<1>3. PICK k \in Key[m] : r = cache[p][m][k]
    BY <1>2
<1>4. Maps(cache[p], asked, forgotten[p])
    BY DEF Caches
<1>5. QED
    BY <1>1, <1>3, <1>4 DEF Maps

\* What a process serves from its maps is stored, unless it has expired, its user was
\* erased, or its request was answered with an error.
THEOREM ServedAreStored == Spec => []ServedIsStored
<1>1. IInv => ServedIsStored
  <2> SUFFICES ASSUME IInv, NEW p \in Process, NEW r \in Entries(cache[p])
               PROVE  \/ r.token \in expired \cup erased
                      \/ asked[r.token] = "failed"
                      \/ First(verifications, "token", r.token) # 0
    BY DEF ServedIsStored
  <2>1. Known(r, asked, forgotten[p])
    BY EntriesKnown DEF IInv
  <2>2. CASE asked[r.token] = "verified" /\ r.token \notin expired \cup erased
    <3>1. verifications \in Seq(Verification) /\ r.token \in Verify
        BY <2>1 DEF IInv, Database, Good, Known, Genuine, Verification
    <3>2. PICK i \in DOMAIN verifications : verifications[i]["token"] = r.token
        BY <2>2, <3>1 DEF IInv, Database, Complete
    <3>3. First(verifications, "token", r.token) \in DOMAIN verifications
        BY <3>1, <3>2, FirstFinds
    <3>4. QED
        BY <3>1, <3>3
  <2>3. QED
    BY <2>1, <2>2 DEF Known
<1>2. QED
    BY <1>1, Invariance, PTL

\* Once a process has carried a user's deletion through it serves none of the deleted
\* sessions, whatever lookups were under way.
THEOREM ErasedAreNotServed == Spec => []ErasedNotServed
<1>1. IInv => ErasedNotServed
  <2> SUFFICES ASSUME IInv, NEW p \in Process, NEW r \in Entries(cache[p])
               PROVE  r.token \notin forgotten[p]
    BY DEF ErasedNotServed
  <2>1. Known(r, asked, forgotten[p])
    BY EntriesKnown DEF IInv
  <2>2. QED
    BY <2>1 DEF Known
<1>2. QED
    BY <1>1, Invariance, PTL

\* No request stores progress or a payment of a user who was erased and has not
\* verified since.
THEOREM ErasedStay == Spec => []ErasedStayErased
<1>1. IInv => ErasedStayErased
    BY DEF IInv, Tables
<1>2. QED
    BY <1>1, Invariance, PTL
=============================================================================
