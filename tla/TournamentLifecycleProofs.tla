---------------------- MODULE TournamentLifecycleProofs ----------------------
(***************************************************************************)
(* Proofs about TournamentLifecycle, for any requests, players, scores,    *)
(* seeds and distribution: whichever copies of the tournament's record     *)
(* overwrite one another, none holds more than the buy-ins that were paid; *)
(* nobody has two results; and no distribution records more than its       *)
(* percentages of the buy-ins, negative and fractional ones included.      *)
(***************************************************************************)
EXTENDS TournamentLifecycle, RowsProofs, TLAPS

Record == [pool : Nat, finished : BOOLEAN]

\* A record, the stored one or a request's copy, that c buy-ins cover.
Covered(rec, c) == rec \in Record /\ rec.pool <= BuyIn * c

\* Where a request has a copy of the record, to write it back or to show its prizes.
Holding == {"finalize", "assigning", "increment", "entries", "storing", "sent"}

\* The request r works with a covered record; it has one where it needs it, and is about
\* to read the pool only of a tournament that there is.
Sane(r, rec, c) ==
    /\ DOMAIN r = {"at", "copy", "todo", "board"}
    /\ r.copy = None \/ Covered(r.copy, c)
    /\ r.at \in Holding => Covered(r.copy, c)
    /\ r.at = "pool" => Covered(rec, c)

PoolInv ==
    /\ credits \in Nat
    /\ record = None \/ Covered(record, credits)
    /\ DOMAIN req = Actor
    /\ \A a \in Actor : Sane(req[a], record, credits)

\* What some buy-ins cover, more of them cover.
LEMMA MoreCover ==
    ASSUME NEW c \in Nat, NEW d \in Nat, c <= d, NEW rec, Covered(rec, c)
    PROVE  Covered(rec, d)
<1>1. BuyIn \in Nat /\ rec.pool \in Nat
    BY TournamentLifecycleAssumption DEF Covered, Record
<1>2. BuyIn * c <= BuyIn * d
    BY <1>1
<1>3. BuyIn * c \in Nat /\ BuyIn * d \in Nat
    BY <1>1
<1>4. QED
    BY <1>1, <1>2, <1>3 DEF Covered

\* The first record of a tournament has no pool.
LEMMA NewCovered == ASSUME NEW c \in Nat PROVE Covered(New, c)
<1>0. BuyIn \in Nat
    BY TournamentLifecycleAssumption
<1>1. BuyIn * c \in Nat
    BY <1>0
<1>2. New \in Record /\ New.pool = 0
    BY DEF New, Record
<1>3. QED
    BY <1>1, <1>2 DEF Covered

\* One more buy-in in the pool, and one more paid.
LEMMA CreditCovered ==
    ASSUME NEW c \in Nat, NEW rec, Covered(rec, c)
    PROVE  Covered([rec EXCEPT !.pool = rec.pool + BuyIn], c + 1)
<1> DEFINE new == [rec EXCEPT !.pool = rec.pool + BuyIn]
<1>1. BuyIn \in Nat /\ rec \in Record /\ rec.pool \in Nat /\ rec.pool <= BuyIn * c
    BY TournamentLifecycleAssumption DEF Covered, Record
<1>2. BuyIn * (c + 1) = BuyIn * c + BuyIn /\ BuyIn * c \in Nat
    BY <1>1
<1>3. rec.pool + BuyIn \in Nat /\ rec.pool + BuyIn <= BuyIn * (c + 1)
    BY <1>1, <1>2
<1>4. new \in Record /\ new.pool = rec.pool + BuyIn
    BY <1>1, <1>3 DEF Record
<1>5. QED
    BY <1>3, <1>4 DEF Covered

\* A finished tournament has the pool that it had.
LEMMA FinishCovered ==
    ASSUME NEW c \in Nat, NEW rec, Covered(rec, c)
    PROVE  Covered([rec EXCEPT !.finished = TRUE], c)
BY DEF Covered, Record

\* A request that has ended, wherever, works with no record.
LEMMA EndedSane ==
    ASSUME NEW rec, NEW c \in Nat, NEW place, place \notin Holding,
           place = "pool" => Covered(rec, c)
    PROVE  Sane([Fresh EXCEPT !.at = place], rec, c)
BY DEF Sane, Fresh

\* A request that goes on with the same copy.
LEMMA OnwardSane ==
    ASSUME NEW rec, NEW c \in Nat, NEW r, Sane(r, rec, c), NEW place, place # "pool",
           place \in Holding => Covered(r.copy, c),
           NEW todo, NEW board
    PROVE  /\ Sane([r EXCEPT !.at = place], rec, c)
           /\ Sane([r EXCEPT !.at = place, !.board = board], rec, c)
           /\ Sane([r EXCEPT !.at = place, !.todo = todo], rec, c)
           /\ Sane([r EXCEPT !.at = place, !.board = board, !.todo = todo], rec, c)
           /\ Sane([r EXCEPT !.board = board], rec, c)
           /\ Sane([r EXCEPT !.todo = todo], rec, c)
BY DEF Sane

\* A request that takes a covered record along.
LEMMA CopySane ==
    ASSUME NEW rec, NEW c \in Nat, NEW r, Sane(r, rec, c), NEW place, place # "pool",
           NEW copy, Covered(copy, c)
    PROVE  Sane([r EXCEPT !.at = place, !.copy = copy], rec, c)
BY DEF Sane

\* The initial state satisfies PoolInv.
LEMMA InitPoolInv == Init => PoolInv
BY DEF Init, PoolInv, Sane, Fresh, Holding

\* A step of request a, which may store a covered record and count buy-ins.
LEMMA RequestStep ==
    ASSUME PoolInv, NEW a \in Actor, NEW r, req' = [req EXCEPT ![a] = r],
           credits' \in Nat, credits <= credits',
           record' = record \/ Covered(record', credits'), Sane(r, record', credits')
    PROVE  PoolInv'
<1>1. DOMAIN req' = Actor /\ req'[a] = r /\ \A b \in Actor \ {a} : req'[b] = req[b]
    BY DEF PoolInv
<1>2. \A rec : Covered(rec, credits) => Covered(rec, credits')
    BY MoreCover DEF PoolInv
<1>3. record' = None \/ Covered(record', credits')
    BY <1>2 DEF PoolInv
<1>4. Covered(record, credits) => Covered(record', credits')
    BY <1>2
<1>5. ASSUME NEW b \in Actor \ {a}
      PROVE  Sane(req'[b], record', credits')
    <2>1. Sane(req[b], record, credits)
        BY DEF PoolInv
    <2>2. Sane(req[b], record', credits')
        BY <2>1, <1>2, <1>4 DEF Sane
    <2>3. QED
        BY <1>1, <2>2
<1>6. QED
    BY <1>1, <1>3, <1>5 DEF PoolInv

\* The same when neither the record nor the count changes.
LEMMA CalmStep ==
    ASSUME PoolInv, NEW a \in Actor, NEW r, req' = [req EXCEPT ![a] = r],
           record' = record, credits' = credits, Sane(r, record, credits)
    PROVE  PoolInv'
<1>1. credits' \in Nat /\ credits <= credits'
    BY DEF PoolInv
<1>2. Sane(r, record', credits')
    OBVIOUS
<1>3. record' = record \/ Covered(record', credits')
    OBVIOUS
<1>4. QED
    BY <1>1, <1>2, <1>3, RequestStep

\* A step of the world around the requests.
LEMMA WorldStep ==
    ASSUME PoolInv, UNCHANGED req, credits' \in Nat, credits <= credits',
           record' = record \/ Covered(record', credits')
    PROVE  PoolInv'
<1>1. \A rec : Covered(rec, credits) => Covered(rec, credits')
    BY MoreCover DEF PoolInv
<1>2. record' = None \/ Covered(record', credits')
    BY <1>1 DEF PoolInv
<1>3. Covered(record, credits) => Covered(record', credits')
    BY <1>1
<1>4. ASSUME NEW b \in Actor
      PROVE  Sane(req'[b], record', credits')
    <2>1. Sane(req[b], record, credits)
        BY DEF PoolInv
    <2>2. QED
        BY <2>1, <1>1, <1>3 DEF Sane
<1>5. QED
    BY <1>2, <1>4 DEF PoolInv

\* What a handler goes on to do with a tournament leaves it sane.
LEMMA ProceedStep ==
    ASSUME PoolInv, NEW a \in Actor, NEW rec, Covered(rec, credits), Proceed(a, rec),
           UNCHANGED credits, record' = record \/ Covered(record', credits'),
           Covered(record', credits)
    PROVE  PoolInv'
<1>1. credits \in Nat /\ credits' = credits /\ Sane(req[a], record, credits)
    BY DEF PoolInv
<1>2. Sane(req[a], record', credits)
    BY <1>1 DEF Sane
<1> DEFINE ending(place) == [Fresh EXCEPT !.at = place]
           onward == [req[a] EXCEPT !.at = "entries", !.copy = rec]
<1>3. Sane(ending("idle"), record', credits) /\ Sane(ending("pool"), record', credits)
    BY <1>1, EndedSane DEF Holding
<1>4. Sane(onward, record', credits)
    BY <1>1, <1>2, CopySane
<1>5. \/ req' = [req EXCEPT ![a] = ending("idle")]
      \/ req' = [req EXCEPT ![a] = ending("pool")]
      \/ req' = [req EXCEPT ![a] = onward]
    BY DEF Proceed, End
<1> HIDE DEF ending, onward
<1>6. credits <= credits'
    BY <1>1
<1>7. QED
    BY <1>1, <1>3, <1>4, <1>5, <1>6, RequestStep

\* The steps that neither write the record nor take a copy of it: the request goes on
\* with the copy it has, or ends.
Mild(a) ==
    \/ Begin(a) \/ SeedList(a) \/ SeedResult(a) \/ AssignPrizes(a) \/ WriteResult(a)
    \/ ListEntries(a) \/ EntriesStored(a) \/ Tick(a) \/ CloseStream(a)
    \/ DistributeOnChain(a) \/ RecordPayouts(a) \/ PollAgain(a)

\* What each of them makes of the request.
LEMMA MildSane ==
    ASSUME PoolInv, NEW a \in Actor, Mild(a)
    PROVE  /\ UNCHANGED <<record, credits>>
           /\ \E r : req' = [req EXCEPT ![a] = r] /\ Sane(r, record, credits)
<1> DEFINE q == req[a]
           Good == \E r : req' = [req EXCEPT ![a] = r] /\ Sane(r, record, credits)
<1>1. credits \in Nat /\ Sane(q, record, credits)
    BY DEF PoolInv
<1>2. ASSUME NEW place \in {"idle", "seed", "find", "seedRecord", "chain", "payout", "paid",
                            "unrecorded", "done", "failed"}
      PROVE  /\ Sane([Fresh EXCEPT !.at = place], record, credits)
             /\ Sane([q EXCEPT !.at = place], record, credits)
             /\ \A b : Sane([q EXCEPT !.at = place, !.board = b], record, credits)
             /\ \A t : Sane([Fresh EXCEPT !.at = place, !.todo = t], record, credits)
    <2>1. place \notin Holding /\ place # "pool"
        BY DEF Holding
    <2>2. Sane([Fresh EXCEPT !.at = place], record, credits)
        BY <1>1, <2>1, EndedSane
    <2>3. \A t : Sane([Fresh EXCEPT !.at = place, !.todo = t], record, credits)
        BY <2>1 DEF Sane, Fresh
    <2>4. /\ Sane([q EXCEPT !.at = place], record, credits)
          /\ \A b : Sane([q EXCEPT !.at = place, !.board = b], record, credits)
        BY <1>1, <2>1, OnwardSane
    <2>5. QED
        BY <2>2, <2>3, <2>4
<1>3. ASSUME NEW place \in {"idle", "seed", "find", "seedRecord", "chain", "payout", "paid",
                            "unrecorded", "done", "failed"},
             Goto(a, place) \/ End(a, place)
      PROVE  Good
    BY <1>2, <1>3 DEF Goto, End
<1>4. CASE Begin(a) \/ SeedList(a) \/ CloseStream(a) \/ DistributeOnChain(a)
           \/ RecordPayouts(a) \/ PollAgain(a)
    <2>1. UNCHANGED <<record, credits>>
        BY <1>4 DEF Begin, SeedList, CloseStream, DistributeOnChain, RecordPayouts, PollAgain,
                    store, counts
    <2>2. \E place \in {"idle", "seed", "find", "seedRecord", "chain", "payout", "paid",
                        "unrecorded", "done", "failed"} :
              Goto(a, place) \/ End(a, place)
        BY <1>4 DEF Begin, SeedList, CloseStream, DistributeOnChain, RecordPayouts, PollAgain
    <2>3. QED
        BY <1>3, <2>1, <2>2
<1>5. CASE SeedResult(a)
    <2>1. UNCHANGED <<record, credits>>
        BY <1>5 DEF SeedResult, counts
    <2>2. Goto(a, "find") \/ \E b : req' = [req EXCEPT ![a] = [q EXCEPT !.board = b]]
        BY <1>5 DEF SeedResult
    <2>3. \A b : Sane([q EXCEPT !.board = b], record, credits)
        BY <1>1 DEF Sane
    <2>4. QED
        BY <1>3, <2>1, <2>2, <2>3
<1>6. CASE AssignPrizes(a)
    <2>1. UNCHANGED <<record, credits>> /\ q.at = "finalize"
        BY <1>6 DEF AssignPrizes, At, store, counts
    <2>2. \E t : \/ req' = [req EXCEPT ![a] = [q EXCEPT !.at = "assigning", !.todo = t]]
                 \/ req' = [req EXCEPT ![a] = [Fresh EXCEPT !.at = "failed", !.todo = t]]
        BY <1>6 DEF AssignPrizes
    <2>3. \A t : Sane([q EXCEPT !.at = "assigning", !.todo = t], record, credits)
        BY <1>1, <2>1 DEF Sane, Holding
    <2>4. \A t : Sane([Fresh EXCEPT !.at = "failed", !.todo = t], record, credits)
        BY <1>2
    <2>5. QED
        BY <2>1, <2>2, <2>3, <2>4
<1>7. CASE WriteResult(a)
    <2>1. UNCHANGED <<record, credits>>
        BY <1>7 DEF WriteResult, counts
    <2>2. \E t : \/ req' = [req EXCEPT ![a] = [q EXCEPT !.todo = t]]
                 \/ req' = [req EXCEPT ![a] = [Fresh EXCEPT !.at = "failed", !.todo = t]]
        BY <1>7 DEF WriteResult
    <2>3. \A t : Sane([q EXCEPT !.todo = t], record, credits)
        BY <1>1 DEF Sane
    <2>4. \A t : Sane([Fresh EXCEPT !.at = "failed", !.todo = t], record, credits)
        BY <1>2
    <2>5. QED
        BY <2>1, <2>2, <2>3, <2>4
<1>8. CASE ListEntries(a)
    <2>1. UNCHANGED <<record, credits>>
        BY <1>8 DEF ListEntries, store, counts
    <2>2. Covered(q.copy, credits)
        BY <1>1, <1>8 DEF ListEntries, At, Sane, Holding
    <2>3. CASE End(a, "failed")
        BY <1>3, <2>1, <2>3
    <2>4. CASE Goto(a, "sent")
        BY <1>1, <2>1, <2>2, <2>4, OnwardSane DEF Goto
    <2>5. CASE ~End(a, "failed") /\ ~Goto(a, "sent")
        <3> DEFINE b == Leaderboard(q.copy.pool)
        <3>1. req' = [req EXCEPT ![a] =
                          [q EXCEPT !.at = "storing", !.board = b, !.todo = ToSet(b)]]
            BY <1>8, <2>5 DEF ListEntries
        <3> HIDE DEF b
        <3>2. Sane([q EXCEPT !.at = "storing", !.board = b, !.todo = ToSet(b)], record, credits)
            BY <1>1, <2>2, OnwardSane
        <3>3. QED
            BY <2>1, <3>1, <3>2
    <2>6. QED
        BY <2>3, <2>4, <2>5
<1>9. CASE EntriesStored(a)
    <2>1. UNCHANGED <<record, credits>>
        BY <1>9 DEF EntriesStored, store, counts
    <2>2. \/ \E place \in {"done", "failed"} : End(a, place)
          \/ \E b : req' = [req EXCEPT ![a] = [q EXCEPT !.at = "sent", !.board = b]]
          \/ \E b : req' = [req EXCEPT ![a] = [q EXCEPT !.at = "chain", !.board = b]]
        BY <1>9 DEF EntriesStored
    <2>3. Covered(q.copy, credits)
        BY <1>1, <1>9 DEF EntriesStored, At, Sane, Holding
    <2>4. \A b : Sane([q EXCEPT !.at = "sent", !.board = b], record, credits)
        BY <1>1, <2>3, OnwardSane
    <2>5. QED
        BY <1>2, <1>3, <2>1, <2>2, <2>4
<1>10. CASE Tick(a)
    <2>1. UNCHANGED <<record, credits>> /\ Goto(a, "entries")
        BY <1>10 DEF Tick, store, counts
    <2>2. Covered(q.copy, credits)
        BY <1>1, <1>10 DEF Tick, At, Sane, Holding
    <2>3. Sane([q EXCEPT !.at = "entries"], record, credits)
        BY <1>1, <2>2, OnwardSane
    <2>4. QED
        BY <2>1, <2>3 DEF Goto
<1>11. QED
    BY <1>4, <1>5, <1>6, <1>7, <1>8, <1>9, <1>10 DEF Mild

\* The handlers' steps on the record: seeding, finding it, finishing, and an increment.
LEMMA RecordStep ==
    ASSUME PoolInv, NEW a \in Actor,
           SeedRecord(a) \/ FindTournament(a) \/ FinishTournament(a) \/ ReadPool(a) \/ WritePool(a)
    PROVE  PoolInv'
<1> DEFINE q == req[a]
<1>1. credits \in Nat /\ Sane(q, record, credits) /\ (record = None \/ Covered(record, credits))
    BY DEF PoolInv
<1>2. CASE SeedRecord(a)
    <2>1. record' = New /\ credits' = credits
          /\ req' = [req EXCEPT ![a] = [q EXCEPT !.at = "seedResults", !.board = Seeds]]
        BY <1>2 DEF SeedRecord, counts
    <2>2. Covered(New, credits)
        BY <1>1, NewCovered
    <2>3. Sane([q EXCEPT !.at = "seedResults", !.board = Seeds], New, credits)
        BY <1>1, <2>2 DEF Sane, Holding
    <2>4. Covered(record', credits') /\ credits' \in Nat /\ credits <= credits'
        BY <1>1, <2>1, <2>2
    <2>5. Sane([q EXCEPT !.at = "seedResults", !.board = Seeds], record', credits')
        BY <2>1, <2>3
    <2>6. QED
        BY <2>1, <2>4, <2>5, RequestStep
<1>3. CASE FindTournament(a)
    <2>1. record' = record /\ credits' = credits
        BY <1>3 DEF FindTournament, store, counts
    <2>2. CASE record = None
        <3> DEFINE r(place) == [Fresh EXCEPT !.at = place]
        <3>1. \E place \in {"idle", "done"} : req' = [req EXCEPT ![a] = r(place)]
            BY <1>3, <2>2 DEF FindTournament, End
        <3>2. \A place \in {"idle", "done"} : Sane(r(place), record, credits)
            BY <1>1, EndedSane DEF Holding
        <3> HIDE DEF r
        <3>3. QED
            BY <1>1, <2>1, <3>1, <3>2, CalmStep
    <2>3. CASE record # None /\ over /\ ~record.finished
        <3> DEFINE r == [q EXCEPT !.at = "finalize", !.copy = record]
        <3>1. req' = [req EXCEPT ![a] = r]
            BY <1>3, <2>3 DEF FindTournament
        <3>2. Sane(r, record, credits)
            BY <1>1, <2>3, CopySane
        <3> HIDE DEF r
        <3>3. QED
            BY <1>1, <2>1, <3>1, <3>2, CalmStep
    <2>4. CASE record # None /\ ~(over /\ ~record.finished)
        <3>1. Proceed(a, record)
            BY <1>3, <2>4 DEF FindTournament
        <3>2. QED
            BY <1>1, <2>1, <2>4, <3>1, ProceedStep
    <2>5. QED
        BY <2>2, <2>3, <2>4
<1>4. CASE FinishTournament(a)
    <2> DEFINE new == [q.copy EXCEPT !.finished = TRUE]
    <2>1. q.at = "assigning" /\ record' = new /\ Proceed(a, record') /\ credits' = credits
        BY <1>4 DEF FinishTournament, Assigned, At, counts
    <2>2. Covered(q.copy, credits)
        BY <1>1, <2>1 DEF Sane, Holding
    <2>3. Covered(new, credits)
        BY <1>1, <2>2, FinishCovered
    <2>4. Proceed(a, new)
        BY <2>1
    <2> HIDE DEF new
    <2>5. QED
        BY <1>1, <2>1, <2>3, <2>4, ProceedStep
<1>5. CASE ReadPool(a)
    <2> DEFINE r == [q EXCEPT !.at = "increment", !.copy = record]
    <2>1. q.at = "pool" /\ req' = [req EXCEPT ![a] = r] /\ record' = record /\ credits' = credits
        BY <1>5 DEF ReadPool, At, store, counts
    <2>2. Covered(record, credits)
        BY <1>1, <2>1 DEF Sane
    <2>3. Sane(r, record, credits)
        BY <1>1, <2>2, CopySane
    <2> HIDE DEF r
    <2>4. QED
        BY <1>1, <2>1, <2>3, CalmStep
<1>6. CASE WritePool(a)
    <2> DEFINE new == [q.copy EXCEPT !.pool = q.copy.pool + BuyIn]
               r == [Fresh EXCEPT !.at = "done"]
    <2>1. /\ q.at = "increment" /\ record' = new /\ credits' = credits + 1
          /\ req' = [req EXCEPT ![a] = r]
        BY <1>6 DEF WritePool, At, End
    <2>2. Covered(q.copy, credits)
        BY <1>1, <2>1 DEF Sane, Holding
    <2>3. Covered(new, credits + 1)
        BY <1>1, <2>2, CreditCovered
    <2>4. credits + 1 \in Nat /\ credits <= credits + 1
        BY <1>1
    <2> HIDE DEF new
    <2>5. Sane(r, new, credits + 1)
        BY <2>4, EndedSane DEF Holding
    <2> HIDE DEF r
    <2>6. QED
        BY <2>1, <2>3, <2>4, <2>5, RequestStep
<1>7. QED
    BY <1>2, <1>3, <1>4, <1>5, <1>6

\* A buy-in that comes with a score is paid for.
LEMMA ScoreStep ==
    ASSUME PoolInv, NEW u, NEW s, SubmitScore(u, s)
    PROVE  PoolInv'
<1> DEFINE new == [record EXCEPT !.pool = record.pool + BuyIn]
<1>1. record # None /\ record' = new /\ credits' = credits + 1 /\ UNCHANGED req
    BY DEF SubmitScore
<1>2. credits \in Nat /\ Covered(record, credits)
    BY <1>1 DEF PoolInv
<1>3. Covered(new, credits + 1) /\ credits + 1 \in Nat /\ credits <= credits + 1
    BY <1>2, CreditCovered
<1> HIDE DEF new
<1>4. QED
    BY <1>1, <1>3, WorldStep

\* Every step keeps PoolInv.
LEMMA NextPoolInv == PoolInv /\ [Next]_vars => PoolInv'
<1> SUFFICES ASSUME PoolInv, [Next]_vars PROVE PoolInv'
    OBVIOUS
<1>0. credits \in Nat
    BY DEF PoolInv
<1>1. CASE UNCHANGED <<record, req, credits>>
    BY <1>0, <1>1, WorldStep
<1>2. ASSUME TimePasses \/ Mined \/ \E u \in Player : EraseUser(u)
      PROVE  UNCHANGED <<record, req, credits>>
    BY <1>2 DEF TimePasses, Mined, EraseUser, store, counts
<1>3. CASE CreateTournament
    <2>1. record' = New /\ UNCHANGED <<req, credits>>
        BY <1>3 DEF CreateTournament, counts
    <2>2. QED
        BY <1>0, <2>1, NewCovered, WorldStep
<1>4. ASSUME NEW e \in Entered, SubmitScore(e[1], e[2])
      PROVE  PoolInv'
    BY <1>4, ScoreStep
<1>5. ASSUME NEW a \in Actor, ActorStep(a)
      PROVE  PoolInv'
    <2>1. CASE Mild(a)
        <3>1. PICK r : req' = [req EXCEPT ![a] = r] /\ Sane(r, record, credits)
            BY <2>1, MildSane
        <3>2. record' = record /\ credits' = credits
            BY <2>1, MildSane
        <3>3. QED
            BY <3>1, <3>2, CalmStep
    <2>2. CASE SeedRecord(a) \/ FindTournament(a) \/ FinishTournament(a) \/ ReadPool(a)
               \/ WritePool(a)
        BY <2>2, RecordStep
    <2>3. QED
        BY <1>5, <2>1, <2>2 DEF ActorStep, Mild
<1>6. CASE UNCHANGED vars
    BY <1>1, <1>6 DEF vars, store, counts
<1>7. QED
    BY <1>1, <1>2, <1>3, <1>4, <1>5, <1>6, Zenon DEF Next

\* However seeding, finalization and incrementTournamentPool overwrite one another's
\* records, the prize pool never exceeds the buy-ins that were paid into it.
THEOREM PoolHolds == Spec => []PoolNeverInvented
<1>1. PoolInv => PoolNeverInvented
    BY DEF PoolInv, Covered, PoolNeverInvented
<1>2. QED
    BY <1>1, InitPoolInv, NextPoolInv, PTL DEF Spec

----------------------------------------------------------------------------
(* Tables.                                                                 *)

\* Nobody has two rows.
Unique(rows) == \A i, j \in DOMAIN rows : rows[i].user = rows[j].user => i = j

\* A result that is entered replaces the one of its user, or is added.
LEMMA UpsertedRows ==
    ASSUME NEW rows \in Seq(Result), Unique(rows), NEW e \in Result
    PROVE  Upserted(rows, e) \in Seq(Result) /\ Unique(Upserted(rows, e))
<1> DEFINE n == Len(rows)
           I == {i \in 1 .. n : rows[i].user = e.user}
<1>0. n \in Nat /\ DOMAIN rows = 1 .. n
    OBVIOUS
<1>1. CASE I = {}
    <2>1. Upserted(rows, e) = Append(rows, e)
        BY <1>1 DEF Upserted, SelectInSeq
    <2>2. /\ Append(rows, e) \in Seq(Result) /\ DOMAIN Append(rows, e) = 1 .. n + 1
          /\ Append(rows, e)[n + 1] = e
          /\ \A i \in 1 .. n : Append(rows, e)[i] = rows[i]
        BY <1>0
    <2>3. \A i \in 1 .. n + 1 : i = n + 1 \/ (i \in 1 .. n /\ rows[i].user # e.user)
        BY <1>0, <1>1
    <2> HIDE DEF n
    <2>4. Unique(Append(rows, e))
        BY <1>0, <2>2, <2>3 DEF Unique
    <2>5. QED
        BY <2>1, <2>2, <2>4
<1>2. CASE I # {}
    <2>1. I \in SUBSET Nat
        OBVIOUS
    <2>2. \E x \in I : \A y \in I : x <= y
        BY <1>2, <2>1, LeastNumber
    <2>3. Min(I) \in I
        BY <2>2 DEF Min
    <2>4. PICK i \in I : i = Min(I)
        BY <2>3
    <2>5. i \in 1 .. n /\ rows[i].user = e.user /\ i # 0
        BY <2>4
    <2>6. Upserted(rows, e) = [rows EXCEPT ![i] = e]
        BY <1>2, <2>4, <2>5 DEF Upserted, SelectInSeq
    <2>7. QED
        BY <1>0, <2>5, <2>6 DEF Unique
<1>3. QED
    BY <1>1, <1>2

\* Rows that are left when others are taken out.
LEMMA WithoutUnique ==
    ASSUME NEW rows \in Seq(Result), Unique(rows), NEW S
    PROVE  Without(rows, S) \in Seq(Result) /\ Unique(Without(rows, S))
<1> DEFINE w == Without(rows, S)
<1>1. w \in Seq(Result) /\ \E h : Embeds(h, w, rows, Len(rows), S)
    BY WithoutRows
<1>2. PICK h : Embeds(h, w, rows, Len(rows), S)
    BY <1>1
<1> HIDE DEF w
<1>3. /\ DOMAIN w = 1 .. Len(w) /\ Len(w) \in Nat /\ DOMAIN rows = 1 .. Len(rows)
      /\ Len(rows) \in Nat
    BY <1>1
<1>4. /\ h \in [1 .. Len(w) -> 1 .. Len(rows)]
      /\ \A i \in 1 .. Len(w) : w[i] = rows[h[i]]
      /\ \A i, j \in 1 .. Len(w) : i < j => h[i] < h[j]
    BY <1>2 DEF Embeds
<1>5. \A i, j \in 1 .. Len(w) : h[i] = h[j] => i = j
    <2> SUFFICES ASSUME NEW i \in 1 .. Len(w), NEW j \in 1 .. Len(w), h[i] = h[j]
                 PROVE  i = j
        OBVIOUS
    <2>1. h[i] \in Nat /\ h[j] \in Nat /\ i \in Nat /\ j \in Nat
        BY <1>3, <1>4
    <2>2. ~(i < j) /\ ~(j < i)
        BY <1>4, <2>1
    <2>3. QED
        BY <2>1, <2>2
<1>6. Unique(w)
    BY <1>3, <1>4, <1>5 DEF Unique
<1>7. QED
    BY <1>1, <1>6 DEF w

----------------------------------------------------------------------------
(* Amounts.                                                                *)

\* The positive percentages are natural numbers, one of each prize.
LEMMA GainsNat ==
    /\ Dist \in Seq(Int) /\ Len(Dist) \in Nat /\ DOMAIN Dist = 1 .. Len(Dist)
    /\ Gains \in Seq(Nat) /\ Len(Gains) = Len(Dist) /\ Sum(Gains) \in Nat
<1>0. Dist \in Seq(Int)
    BY TournamentLifecycleAssumption DEF Dist
<1>1. Dist \in Seq(Int) /\ Len(Dist) \in Nat /\ DOMAIN Dist = 1 .. Len(Dist)
    BY <1>0
<1>2. \A k \in 1 .. Len(Dist) : Dist[k] \in Int
    BY <1>1
<1>3. \A k \in 1 .. Len(Dist) : (IF Dist[k] > 0 THEN Dist[k] ELSE 0) \in Nat
    BY <1>2
<1>4. Gains \in Seq(Nat) /\ Len(Gains) = Len(Dist)
    BY <1>1, <1>3 DEF Gains
<1>5. QED
    BY <1>1, <1>4, SumNat

\* An amount that c buy-ins pay.
Backed(x, c) == 100 * Unit * x <= BuyIn * c * Sum(Gains)

\* Products of numbers in order are in order.
LEMMA Products ==
    ASSUME NEW p \in Nat, NEW x \in Int, NEW y \in Int, x <= y
    PROVE  p * x <= p * y /\ p * x \in Int /\ p * y \in Int
OBVIOUS

\* More buy-ins pay a smaller amount.
LEMMA BackedMore ==
    ASSUME NEW x \in Int, NEW y \in Int, x <= y, NEW c \in Nat, NEW d \in Nat, c <= d,
           Backed(y, c)
    PROVE  Backed(x, d)
<1> DEFINE w == 100 * Unit
           g == Sum(Gains)
<1>1. w \in Nat /\ g \in Nat /\ BuyIn \in Nat
    BY TournamentLifecycleAssumption, GainsNat
<1>2. w * y <= BuyIn * c * g
    BY DEF Backed
<1> HIDE DEF w, g
<1>3. w * x <= w * y /\ w * x \in Int /\ w * y \in Int
    BY <1>1, Products
<1>4. BuyIn * c <= BuyIn * d /\ BuyIn * c \in Int /\ BuyIn * d \in Int
    BY <1>1, Products
<1>5. /\ g * (BuyIn * c) <= g * (BuyIn * d)
      /\ g * (BuyIn * c) \in Int /\ g * (BuyIn * d) \in Int
    BY <1>1, <1>4, Products
<1>6. BuyIn * c * g = g * (BuyIn * c) /\ BuyIn * d * g = g * (BuyIn * d)
    BY <1>1
<1>7. w * x <= BuyIn * d * g
    BY <1>2, <1>3, <1>5, <1>6
<1>8. QED
    BY <1>7 DEF Backed, w, g

\* Rows of winners whose prizes c buy-ins pay.
Affordable(rows, c) == rows \in Seq(Payout) /\ Backed(Sum(Amounts(rows)), c)

\* The amounts of winners.
LEMMA AmountsNat ==
    ASSUME NEW rows \in Seq(Payout)
    PROVE  /\ Amounts(rows) \in Seq(Nat) /\ Amounts(rows) \in Seq(Int)
           /\ Len(Amounts(rows)) = Len(rows) /\ Sum(Amounts(rows)) \in Int
<1>1. \A i \in 1 .. Len(rows) : rows[i].prize \in Nat
    <2>1. \A i \in 1 .. Len(rows) : rows[i] \in Payout
        OBVIOUS
    <2>2. \A r \in Payout : r.prize \in Nat
        BY DEF Payout
    <2>3. QED
        BY <2>1, <2>2
<1>2. Amounts(rows) \in Seq(Nat) /\ Len(Amounts(rows)) = Len(rows)
    BY <1>1 DEF Amounts
<1>3. Amounts(rows) \in Seq(Int)
    BY <1>2
<1>4. QED
    BY <1>2, <1>3, SumInt

\* Of what some buy-ins pay, more of them pay what is left.
LEMMA StaysAffordable ==
    ASSUME NEW c \in Nat, NEW d \in Nat, c <= d, NEW rows, Affordable(rows, c), NEW S
    PROVE  Affordable(Without(rows, S), d)
<1> DEFINE w == Without(rows, S)
           a == Amounts(w)
           b == Amounts(rows)
<1>1. rows \in Seq(Payout) /\ w \in Seq(Payout) /\ \E h : Embeds(h, w, rows, Len(rows), S)
    BY WithoutRows DEF Affordable
<1>2. PICK h : Embeds(h, w, rows, Len(rows), S)
    BY <1>1
<1> HIDE DEF w
<1>3. /\ DOMAIN w = 1 .. Len(w) /\ Len(w) \in Nat /\ DOMAIN rows = 1 .. Len(rows)
      /\ Len(rows) \in Nat
    BY <1>1
<1>4. /\ h \in [1 .. Len(w) -> 1 .. Len(rows)]
      /\ \A i \in 1 .. Len(w) : w[i] = rows[h[i]]
      /\ \A i, j \in 1 .. Len(w) : i < j => h[i] < h[j]
    BY <1>2 DEF Embeds
<1>5. /\ b \in Seq(Nat) /\ Len(b) = Len(rows) /\ Sum(b) \in Int
      /\ a \in Seq(Nat) /\ a \in Seq(Int) /\ Len(a) = Len(w) /\ Sum(a) \in Int
    BY <1>1, AmountsNat
<1>6. \A i \in 1 .. Len(w) : a[i] = b[h[i]] /\ a[i] \in Nat
    BY <1>3, <1>4, <1>5 DEF Amounts
<1>7. Backed(Sum(b), c)
    BY DEF Affordable
<1> HIDE DEF a, b
<1>8. h \in [1 .. Len(a) -> 1 .. Len(b)] /\ \A i \in 1 .. Len(a) : a[i] <= b[h[i]]
    <2>1. h \in [1 .. Len(a) -> 1 .. Len(b)]
        BY <1>4, <1>5
    <2>2. \A x \in Nat : \A y : x = y => x <= y
        OBVIOUS
    <2>3. \A i \in 1 .. Len(a) : a[i] = b[h[i]] /\ a[i] \in Nat
        BY <1>5, <1>6
    <2>4. QED
        BY <2>1, <2>2, <2>3
<1>9. Sum(a) <= Sum(b)
    BY <1>4, <1>5, <1>8, SumSelected
<1>10. Backed(Sum(a), d)
    BY <1>5, <1>7, <1>9, BackedMore
<1>11. QED
    BY <1>1, <1>10 DEF Affordable, a, w

\* The same when none is taken out.
LEMMA MoreAffordable ==
    ASSUME NEW c \in Nat, NEW d \in Nat, c <= d, NEW rows, Affordable(rows, c)
    PROVE  Affordable(rows, d)
<1>1. rows \in Seq(Payout) /\ Sum(Amounts(rows)) \in Int /\ Sum(Amounts(rows)) <= Sum(Amounts(rows))
    BY AmountsNat DEF Affordable
<1>2. QED
    BY <1>1, BackedMore DEF Affordable

\* Division drops a fraction.
LEMMA Quotient ==
    ASSUME NEW x \in Int, NEW u \in Nat \ {0}
    PROVE  x \div u \in Int /\ u * (x \div u) <= x
OBVIOUS

\* A prize is a number, and a positive one is at most its share of the pool.
LEMMA PrizeShare ==
    ASSUME NEW pool \in Nat, NEW share \in Int
    PROVE  /\ Prize(pool, share) \in Int
           /\ Prize(pool, share) > 0 => share > 0 /\ 100 * Unit * Prize(pool, share) <= pool * share
<1> DEFINE q == share \div Unit
           n == pool * q
           p == Prize(pool, share)
<1>1. Unit \in Nat \ {0} /\ Unit \in Nat
    BY TournamentLifecycleAssumption
<1>2. q \in Int /\ Unit * q <= share /\ Unit * q \in Int
    BY <1>1, Quotient
<1> HIDE DEF q
<1>3. n \in Int
    BY <1>2
<1>4. p = IF n >= 0 THEN n \div 100 ELSE -((-n) \div 100)
    BY DEF Prize, q
<1> HIDE DEF n, p
<1>5. \A x \in Nat : x \div 100 \in Nat /\ 100 * (x \div 100) <= x
    OBVIOUS
<1>6. p \in Int
    BY <1>3, <1>4, <1>5
<1>7. ASSUME p > 0
      PROVE  share > 0 /\ 100 * Unit * p <= pool * share
    <2>1. n >= 0 /\ 100 * p <= n
        BY <1>3, <1>4, <1>5, <1>7
    <2>2. n > 0 /\ 100 * p \in Int
        BY <1>3, <1>6, <1>7, <2>1
    <2>3. q > 0
        BY <1>2, <2>2 DEF n
    <2>4. Unit * q > 0
        BY <1>1, <1>2, <2>3
    <2>5. Unit * (100 * p) <= Unit * n
        BY <1>1, <1>3, <2>1, <2>2, Products
    <2>6. pool * (Unit * q) <= pool * share /\ pool * (Unit * q) \in Int /\ pool * share \in Int
        BY <1>2, Products
    <2>7. Unit * n = pool * (Unit * q) /\ 100 * Unit * p = Unit * (100 * p)
        BY <1>1, <1>2, <1>6 DEF n
    <2>8. 100 * Unit * p <= pool * share
        <3>1. \A u, v, x, y \in Int : u = v /\ v <= x /\ x = y => u <= y
            OBVIOUS
        <3>2. Unit * (100 * p) \in Int /\ Unit * n \in Int /\ 100 * Unit * p \in Int
            BY <1>1, <1>3, <2>2, <2>7, Products
        <3>3. 100 * Unit * p <= pool * (Unit * q)
            BY <2>5, <2>6, <2>7, <3>1, <3>2
        <3>4. \A u, v, x \in Int : u <= v /\ v <= x => u <= x
            OBVIOUS
        <3>5. QED
            BY <2>6, <3>2, <3>3, <3>4
    <2>9. QED
        BY <1>2, <2>4, <2>8
<1>8. QED
    BY <1>6, <1>7 DEF p

\* The first rows of the leaderboard have their shares of the pool.
Shared(b, pool) == \A k \in DOMAIN b : k <= Len(Dist) => b[k].prize = Prize(pool, Dist[k])

\* What there is to win from a pool.
Prizes(pool) ==
    [k \in 1 .. Len(Dist) |-> IF Prize(pool, Dist[k]) > 0 THEN Prize(pool, Dist[k]) ELSE 0]

\* All of it together is no more than the positive percentages of the pool.
LEMMA SharesWithinPool ==
    ASSUME NEW pool \in Nat
    PROVE  /\ Prizes(pool) \in Seq(Nat) /\ Len(Prizes(pool)) = Len(Dist)
           /\ 100 * Unit * Sum(Prizes(pool)) <= pool * Sum(Gains)
<1> DEFINE w == 100 * Unit
           shares == Prizes(pool)
<1>1. /\ Dist \in Seq(Int) /\ Len(Dist) \in Nat /\ DOMAIN Dist = 1 .. Len(Dist)
      /\ Gains \in Seq(Nat) /\ Len(Gains) = Len(Dist)
    BY GainsNat
<1>2. w \in Nat
    BY TournamentLifecycleAssumption
<1>3. ASSUME NEW k \in 1 .. Len(Dist)
      PROVE  shares[k] \in Nat /\ w * shares[k] <= pool * Gains[k]
    <2>1. Dist[k] \in Int /\ Gains[k] = IF Dist[k] > 0 THEN Dist[k] ELSE 0
        BY <1>1 DEF Gains
    <2>2. /\ Prize(pool, Dist[k]) \in Int
          /\ Prize(pool, Dist[k]) > 0 => /\ Dist[k] > 0
                                         /\ w * Prize(pool, Dist[k]) <= pool * Dist[k]
        BY <2>1, PrizeShare
    <2>3. shares[k] = IF Prize(pool, Dist[k]) > 0 THEN Prize(pool, Dist[k]) ELSE 0
        BY DEF Prizes
    <2> HIDE DEF w, shares
    <2>4. CASE Prize(pool, Dist[k]) > 0
        BY <2>1, <2>2, <2>3, <2>4
    <2>5. CASE ~(Prize(pool, Dist[k]) > 0)
        <3>1. shares[k] = 0 /\ Gains[k] \in Nat
            BY <2>1, <2>3, <2>5
        <3>2. w * 0 = 0 /\ pool * Gains[k] >= 0
            BY <1>2, <3>1
        <3>3. QED
            BY <3>1, <3>2
    <2>6. QED
        BY <2>4, <2>5
<1>4. shares \in Seq(Nat) /\ Len(shares) = Len(Dist)
    BY <1>1, <1>3 DEF Prizes
<1>5. shares \in Seq(Int) /\ Gains \in Seq(Int) /\ w \in Int /\ pool \in Int
    BY <1>1, <1>2, <1>4
<1> HIDE DEF w, shares
<1>6. w * Sum(shares) <= pool * Sum(Gains)
    BY <1>1, <1>3, <1>4, <1>5, SumScaled
<1>7. QED
    BY <1>4, <1>6 DEF shares, w

\* The winners of such a leaderboard can be paid by the buy-ins that cover the pool.
LEMMA WinnersAffordable ==
    ASSUME NEW c \in Nat, NEW rec, Covered(rec, c), NEW b \in Seq(Result), Shared(b, rec.pool)
    PROVE  Affordable(Winners(b), c)
<1> DEFINE m == IF Len(b) < Len(Dist) THEN Len(b) ELSE Len(Dist)
           first == SubSeq(b, 1, m)
           S == Unrewarded(b)
           w == Without(first, S)
           a == Amounts(w)
           shares == Prizes(rec.pool)
<1>1. rec.pool \in Nat /\ rec.pool <= BuyIn * c
    BY DEF Covered, Record
<1>2. Dist \in Seq(Int) /\ Len(Dist) \in Nat /\ Len(b) \in Nat /\ DOMAIN b = 1 .. Len(b)
    BY GainsNat
<1>3. m \in Nat /\ m <= Len(b) /\ m <= Len(Dist)
    BY <1>2
<1>4. first \in Seq(Result) /\ Len(first) = m /\ \A i \in 1 .. m : first[i] = b[i]
    <2> HIDE DEF m
    <2>1. QED
        BY <1>2, <1>3
<1> HIDE DEF first, m
<1>5. w \in Seq(Result) /\ \E h : Embeds(h, w, first, Len(first), S)
    BY <1>4, WithoutRows
<1>6. PICK h : Embeds(h, w, first, m, S)
    BY <1>4, <1>5
<1>7. \A e \in ToSet(b) : e \notin S => e.prize # None /\ ~(e.prize <= 0)
    BY DEF Unrewarded
<1> HIDE DEF w, S
<1>8. /\ h \in [1 .. Len(w) -> 1 .. m] /\ Len(w) \in Nat /\ DOMAIN w = 1 .. Len(w)
      /\ \A i \in 1 .. Len(w) : w[i] = first[h[i]] /\ first[h[i]] \notin S
      /\ \A i, j \in 1 .. Len(w) : i < j => h[i] < h[j]
    BY <1>5, <1>6 DEF Embeds
<1>9. ASSUME NEW i \in 1 .. Len(w)
      PROVE  h[i] \in 1 .. Len(Dist) /\ w[i] \in Payout /\ w[i].prize = shares[h[i]]
    <2>1. h[i] \in 1 .. m
        BY <1>8
    <2>2. h[i] \in 1 .. Len(Dist) /\ h[i] \in 1 .. Len(b) /\ h[i] <= Len(Dist)
        BY <1>2, <1>3, <2>1
    <2>3. w[i] = b[h[i]] /\ b[h[i]] \notin S /\ b[h[i]] \in Result
        BY <1>4, <1>8, <2>1, <2>2
    <2>4. w[i].prize = Prize(rec.pool, Dist[h[i]]) /\ Dist[h[i]] \in Int
        BY <1>2, <2>2, <2>3 DEF Shared
    <2>5. w[i].prize \in Int
        BY <1>1, <2>4, PrizeShare
    <2>6. b[h[i]] \in ToSet(b)
        BY <1>2, <2>2 DEF ToSet
    <2>7. ~(w[i].prize <= 0)
        BY <1>7, <2>3, <2>6
    <2>8. w[i].prize > 0 /\ w[i].prize \in Nat \ {0}
        BY <2>5, <2>7
    <2>9. w[i].prize = shares[h[i]]
        BY <2>2, <2>4, <2>8 DEF Prizes
    <2>10. w[i] \in Payout
        BY <2>3, <2>8 DEF Payout, Result
    <2>11. QED
        BY <2>2, <2>9, <2>10
<1>10. w \in Seq(Payout)
    BY <1>5, <1>8, <1>9
<1>11. a \in Seq(Int) /\ Len(a) = Len(w) /\ Sum(a) \in Int
    BY <1>10, AmountsNat
<1>12. /\ shares \in Seq(Nat) /\ Len(shares) = Len(Dist)
       /\ 100 * Unit * Sum(shares) <= rec.pool * Sum(Gains)
    BY <1>1, SharesWithinPool
<1>13. \A i \in 1 .. Len(w) : a[i] = shares[h[i]] /\ a[i] \in Int
    BY <1>8, <1>9, <1>10 DEF Amounts, Payout
<1> HIDE DEF a, shares
<1>14. h \in [1 .. Len(a) -> 1 .. Len(shares)] /\ \A i \in 1 .. Len(a) : a[i] <= shares[h[i]]
    BY <1>8, <1>9, <1>11, <1>12, <1>13
<1>15. Sum(a) <= Sum(shares)
    BY <1>8, <1>11, <1>12, <1>14, SumSelected
<1>16. Sum(shares) \in Int
    BY <1>12, SumNat
<1>17. Backed(Sum(shares), c)
    <2> DEFINE g == Sum(Gains)
               x == 100 * Unit * Sum(shares)
    <2>1. g \in Nat /\ BuyIn * c \in Int /\ x \in Int
        BY <1>16, TournamentLifecycleAssumption, GainsNat
    <2>2. x <= rec.pool * g
        BY <1>12
    <2> HIDE DEF g, x
    <2>3. g * rec.pool <= g * (BuyIn * c) /\ g * rec.pool \in Int /\ g * (BuyIn * c) \in Int
        BY <1>1, <2>1, Products
    <2>4. rec.pool * g = g * rec.pool /\ BuyIn * c * g = g * (BuyIn * c)
        BY <1>1, <2>1
    <2>5. x <= BuyIn * c * g
        BY <2>1, <2>2, <2>3, <2>4
    <2>6. QED
        BY <2>5 DEF Backed, g, x
<1>18. Backed(Sum(a), c)
    BY <1>11, <1>15, <1>16, <1>17, BackedMore
<1>19. Winners(b) = w
    BY DEF Winners, w, first, m, S
<1>20. QED
    BY <1>10, <1>18, <1>19 DEF Affordable, a

----------------------------------------------------------------------------
(* The leaderboard.                                                        *)

\* It has all rows, by score, with the shares for the first.
LEMMA LeaderboardRows ==
    ASSUME results \in Seq(Result), NEW pool \in Nat
    PROVE  Leaderboard(pool) \in Seq(Result) /\ Shared(Leaderboard(pool), pool)
<1> DEFINE n == Len(results)
           D == 1 .. n
           R == {x \in D \X D : Ahead(x[1], x[2])}
           Place(k) == CHOOSE i \in D : Cardinality({j \in D : Ahead(j, i)}) = k - 1
           Row(k) == [results[Place(k)] EXCEPT !.prize =
                         IF k <= Len(Dist) THEN Prize(pool, Dist[k]) ELSE results[Place(k)].prize]
<1>1. n \in Nat /\ DOMAIN results = D /\ \A i \in D : results[i] \in Result
    OBVIOUS
<1>2. \A i \in D : results[i].score \in Nat
    BY <1>1 DEF Result
<1>3. StrictOrder(R, n)
    <2>1. \A i, j \in D : <<i, j>> \in R <=> Ahead(i, j)
        OBVIOUS
    <2>2. \A i \in D : ~Ahead(i, i)
        BY <1>2 DEF Ahead
    <2>3. \A i, j, k \in D : Ahead(i, j) /\ Ahead(j, k) => Ahead(i, k)
        BY <1>2 DEF Ahead
    <2>4. \A i, j \in D : i # j => Ahead(i, j) \/ Ahead(j, i)
        BY <1>2 DEF Ahead
    <2> HIDE DEF R
    <2>5. QED
        BY <2>1, <2>2, <2>3, <2>4 DEF StrictOrder
<1>4. \A i \in D : Before(R, n, i) = {j \in D : Ahead(j, i)}
    BY DEF Before
<1> HIDE DEF R
<1>5. \A k \in D : \E i \in D : Cardinality({j \in D : Ahead(j, i)}) = k - 1
    <2>1. \A k \in D : \E i \in D : Cardinality(Before(R, n, i)) = k - 1
        <3> HIDE DEF n
        <3>1. QED
            BY <1>1, <1>3, Ranked
    <2>2. QED
        BY <1>4, <2>1
<1>6. \A k \in D : Place(k) \in D
    BY <1>5
<1>7. \A k \in Nat : k <= Len(Dist) /\ k > 0 => Prize(pool, Dist[k]) \in Int
    <2>1. Dist \in Seq(Int) /\ \A k \in Nat : k <= Len(Dist) /\ k > 0 => Dist[k] \in Int
        BY GainsNat
    <2>2. QED
        BY <2>1, PrizeShare
<1>8. Leaderboard(pool) = [k \in D |-> Row(k)]
    BY <1>1 DEF Leaderboard
<1> HIDE DEF Place
<1>9. ASSUME NEW k \in D
      PROVE  Row(k) \in Result /\ (k <= Len(Dist) => Row(k).prize = Prize(pool, Dist[k]))
    <2>1. k \in Nat /\ k > 0 /\ results[Place(k)] \in Result
        BY <1>1, <1>6
    <2>2. results[Place(k)].prize \in Int \cup {None}
        BY <2>1 DEF Result
    <2>3. QED
        BY <1>7, <2>1, <2>2 DEF Result
<1> HIDE DEF Row
<1>10. Leaderboard(pool) \in Seq(Result)
    BY <1>1, <1>8, <1>9
<1>11. QED
    BY <1>8, <1>9, <1>10 DEF Shared

----------------------------------------------------------------------------
(* The invariant of the tables and of what the requests carry.             *)

Places ==
    {"idle", "seed", "seedRecord", "seedResults", "find", "finalize", "assigning", "entries",
     "storing", "sent", "chain", "payout", "paid", "unrecorded", "pool", "increment", "done",
     "failed"}

\* The results that a request has yet to write, its leaderboard, which shares the pool of
\* its copy, and the winners it pays.
Working(r, c) ==
    /\ r.at \in Places
    /\ r.todo \in SUBSET Result
    /\ r.board \in IF r.at = "seedResults" THEN Seq(User \X Nat) ELSE Seq(Result)
    /\ r.at = "storing" => Shared(r.board, r.copy.pool)
    /\ r.at \in {"chain", "payout"} => Affordable(r.board, c)

Flags ==
    /\ configured \in BOOLEAN /\ over \in BOOLEAN /\ seeded \in BOOLEAN
    /\ chain \in {"open", "paid"} /\ verified \subseteq Player
    /\ scores \in 0 .. MaxScores

Tables ==
    /\ results \in Seq(Result) /\ Unique(results)
    /\ payouts \in Seq(Seq(Payout))
    /\ \A i \in DOMAIN payouts : Affordable(payouts[i], credits)

DataInv == Flags /\ Tables /\ \A a \in Actor : Working(req[a], credits)

\* A request that has ended.
LEMMA EndedWorking ==
    ASSUME NEW c, NEW place \in Places \ {"storing", "chain", "payout", "seedResults"},
           NEW t \in SUBSET Result
    PROVE  /\ Working([Fresh EXCEPT !.at = place], c)
           /\ Working([Fresh EXCEPT !.at = place, !.todo = t], c)
BY DEF Working, Fresh, Places

\* More buy-ins do not disturb a request.
LEMMA StaysWorking ==
    ASSUME NEW c \in Nat, NEW d \in Nat, c <= d, NEW r, Working(r, c)
    PROVE  Working(r, d)
BY MoreAffordable DEF Working

\* A request that goes on, with the results and the leaderboard that it has.
LEMMA OnwardWorking ==
    ASSUME NEW c, NEW r, DOMAIN r = {"at", "copy", "todo", "board"}, Working(r, c),
           r.at # "seedResults",
           NEW place \in Places \ {"storing", "chain", "payout", "seedResults"}, NEW copy
    PROVE  /\ Working([r EXCEPT !.at = place], c)
           /\ Working([r EXCEPT !.at = place, !.copy = copy], c)
BY DEF Working

\* Rows of winners are rows of results.
LEMMA PayoutsAreResults == ASSUME NEW rows \in Seq(Payout) PROVE rows \in Seq(Result)
<1>1. \A r \in Payout : r \in Result
    <2>1. Nat \ {0} \subseteq Int \cup {None}
        OBVIOUS
    <2>2. QED
        BY <2>1 DEF Payout, Result
<1>2. \A i \in 1 .. Len(rows) : rows[i] \in Payout
    OBVIOUS
<1>3. QED
    BY <1>1, <1>2

\* The initial state satisfies DataInv.
LEMMA InitDataInv == Init => DataInv
<1> SUFFICES ASSUME Init PROVE DataInv
    OBVIOUS
<1>1. <<>> \in Seq(Result) /\ <<>> \in Seq(Seq(Payout)) /\ DOMAIN <<>> = {}
    OBVIOUS
<1>2. Flags
    <2>1. MaxScores \in Nat
        BY TournamentLifecycleAssumption
    <2>2. 0 \in 0 .. MaxScores
        BY <2>1
    <2>3. QED
        BY <2>2 DEF Init, Flags
<1>3. Tables
    BY <1>1 DEF Init, Tables, Unique
<1>4. \A a \in Actor : Working(req[a], credits)
    BY <1>1 DEF Init, Fresh, Working, Places
<1>5. QED
    BY <1>2, <1>3, <1>4 DEF DataInv

\* The distribution of a tournament stays what it is.
LEMMA SameDist == ASSUME configured' = configured PROVE Dist' = Dist /\ Gains' = Gains
<1>1. Dist' = Dist
    BY DEF Dist
<1>2. QED
    BY <1>1 DEF Gains

\* So new tables and requests may be judged by the distribution of before.
LEMMA SameTables ==
    ASSUME configured' = configured, results' \in Seq(Result), Unique(results'),
           payouts' \in Seq(Seq(Payout)),
           \A i \in DOMAIN payouts' : Affordable(payouts'[i], credits')
    PROVE  Tables'
<1>1. Gains' = Gains
    BY SameDist
<1>2. QED
    BY <1>1 DEF Tables, Affordable, Backed

LEMMA SameWorking ==
    ASSUME configured' = configured, \A a \in Actor : Working(req'[a], credits')
    PROVE  (\A a \in Actor : Working(req[a], credits))'
<1>1. Gains' = Gains /\ Dist' = Dist
    BY SameDist
<1>2. QED
    BY <1>1 DEF Working, Shared, Affordable, Backed

\* Tables that gain a result, a batch of payouts or nothing.
LEMMA TableStep ==
    ASSUME Tables, configured' = configured,
           credits \in Nat, credits' \in Nat, credits <= credits',
           \/ results' = results
           \/ \E e \in Result : results' = Upserted(results, e),
           \/ payouts' = payouts
           \/ \E b : Affordable(b, credits) /\ payouts' = Append(payouts, b)
    PROVE  Tables'
<1>1. results' \in Seq(Result) /\ Unique(results')
    BY UpsertedRows DEF Tables
<1>2. /\ payouts \in Seq(Seq(Payout))
      /\ \A i \in DOMAIN payouts : Affordable(payouts[i], credits')
    BY MoreAffordable DEF Tables
<1>3. payouts' \in Seq(Seq(Payout)) /\ \A i \in DOMAIN payouts' : Affordable(payouts'[i], credits')
    <2>1. CASE payouts' = payouts
        BY <1>2, <2>1
    <2>2. ASSUME NEW b, Affordable(b, credits), payouts' = Append(payouts, b)
          PROVE  /\ payouts' \in Seq(Seq(Payout))
                 /\ \A i \in DOMAIN payouts' : Affordable(payouts'[i], credits')
        <3>1. b \in Seq(Payout) /\ Affordable(b, credits')
            BY <2>2, MoreAffordable DEF Affordable
        <3>2. /\ payouts' \in Seq(Seq(Payout)) /\ DOMAIN payouts' = 1 .. Len(payouts) + 1
              /\ Len(payouts) \in Nat /\ DOMAIN payouts = 1 .. Len(payouts)
              /\ payouts'[Len(payouts) + 1] = b
              /\ \A i \in DOMAIN payouts : payouts'[i] = payouts[i]
            BY <1>2, <2>2, <3>1
        <3>3. \A i \in DOMAIN payouts' : i \in DOMAIN payouts \/ i = Len(payouts) + 1
            BY <3>2
        <3>4. QED
            BY <1>2, <3>1, <3>2, <3>3
    <2>3. QED
        BY <2>1, <2>2
<1>4. QED
    BY <1>1, <1>3, SameTables

\* What a request does to the tables and the flags.
LEMMA ActorTables ==
    ASSUME PoolInv, DataInv, NEW a \in Actor, ActorStep(a)
    PROVE  /\ Flags' /\ Tables' /\ credits' \in Nat /\ credits <= credits'
           /\ configured' = configured
<1> DEFINE q == req[a]
           Plain == Begin(a) \/ SeedList(a) \/ SeedRecord(a) \/ FindTournament(a)
                    \/ AssignPrizes(a) \/ FinishTournament(a) \/ ReadPool(a) \/ WritePool(a)
                    \/ ListEntries(a) \/ EntriesStored(a) \/ Tick(a) \/ CloseStream(a)
                    \/ DistributeOnChain(a) \/ PollAgain(a)
<1>1. /\ credits \in Nat /\ Tables /\ Flags /\ Working(q, credits)
      /\ credits + 1 \in Nat /\ credits <= credits /\ credits <= credits + 1
    BY DEF PoolInv, DataInv
<1>2. credits' \in Nat /\ credits <= credits'
    <2>1. credits' = credits \/ credits' = credits + 1
        BY Zenon DEF ActorStep, Begin, SeedList, SeedRecord, SeedResult, FindTournament, AssignPrizes,
               WriteResult, FinishTournament, ReadPool, WritePool, ListEntries, EntriesStored,
               Tick, CloseStream, DistributeOnChain, RecordPayouts, PollAgain, counts
    <2>2. QED
        BY <1>1, <2>1
<1>3. Flags' /\ configured' = configured
    <2>1. UNCHANGED <<configured, over, chain, verified, scores>>
        BY Zenon DEF ActorStep, Begin, SeedList, SeedRecord, SeedResult, FindTournament, AssignPrizes,
               WriteResult, FinishTournament, ReadPool, WritePool, ListEntries, EntriesStored,
               Tick, CloseStream, DistributeOnChain, RecordPayouts, PollAgain, counts
    <2>2. seeded' = seeded \/ seeded' = TRUE
        BY Zenon DEF ActorStep, Begin, SeedList, SeedRecord, SeedResult, FindTournament, AssignPrizes,
               WriteResult, FinishTournament, ReadPool, WritePool, ListEntries, EntriesStored,
               Tick, CloseStream, DistributeOnChain, RecordPayouts, PollAgain
    <2>3. QED
        BY <1>1, <2>1, <2>2 DEF Flags
<1>4. CASE Plain
    <2>1. UNCHANGED <<results, payouts>>
        BY <1>4, Zenon DEF Begin, SeedList, SeedRecord, FindTournament, AssignPrizes,
               FinishTournament, ReadPool, WritePool, ListEntries, EntriesStored,
               Tick, CloseStream, DistributeOnChain, PollAgain, store
    <2>2. QED
        BY <1>1, <1>2, <1>3, <2>1, TableStep
<1>5. CASE SeedResult(a)
    <2>1. q.at = "seedResults" /\ q.board \in Seq(User \X Nat)
        BY <1>1, <1>5 DEF SeedResult, At, Working
    <2>2. payouts' = payouts
        BY <1>5 DEF SeedResult
    <2>3. CASE q.board = <<>>
        BY <1>1, <1>2, <1>3, <1>5, <2>2, <2>3, TableStep DEF SeedResult
    <2>4. CASE q.board # <<>>
        <3> DEFINE h == Head(q.board)
                   e == [user |-> h[1], score |-> h[2], prize |-> None]
        <3>1. h \in User \X Nat
            BY <2>1, <2>4
        <3>2. e \in Result
            BY <3>1 DEF Result
        <3>3. results' = Upserted(results, e)
            BY <1>5, <2>4 DEF SeedResult
        <3> HIDE DEF e
        <3>4. QED
            BY <1>1, <1>2, <1>3, <2>2, <3>2, <3>3, TableStep
    <2>5. QED
        BY <2>3, <2>4
<1>6. CASE WriteResult(a)
    <2>1. payouts' = payouts
        BY <1>6 DEF WriteResult
    <2>2. results' = results \/ \E e \in Result : results' = Upserted(results, e)
        BY <1>1, <1>6 DEF WriteResult, Working
    <2>3. QED
        BY <1>1, <1>2, <1>3, <2>1, <2>2, TableStep
<1>7. CASE RecordPayouts(a)
    <2>1. \/ results' = results /\ payouts' = Append(payouts, q.board) /\ q.at = "payout"
          \/ UNCHANGED <<results, payouts>>
        BY <1>7 DEF RecordPayouts, At
    <2>2. q.at = "payout" => Affordable(q.board, credits)
        BY <1>1 DEF Working
    <2>3. QED
        BY <1>1, <1>2, <1>3, <2>1, <2>2, TableStep
<1>8. QED
    BY <1>2, <1>3, <1>4, <1>5, <1>6, <1>7 DEF ActorStep

\* What each step makes of its request.
LEMMA ActorWorking ==
    ASSUME PoolInv, DataInv, NEW a \in Actor, ActorStep(a)
    PROVE  \E r : req' = [req EXCEPT ![a] = r] /\ Working(r, credits)
<1> DEFINE q == req[a]
           Good == \E r : req' = [req EXCEPT ![a] = r] /\ Working(r, credits)
           Calm == Places \ {"storing", "chain", "payout", "seedResults"}
<1>1. /\ DOMAIN q = {"at", "copy", "todo", "board"} /\ Working(q, credits)
      /\ Sane(q, record, credits) /\ credits \in Nat
    BY DEF PoolInv, DataInv, Sane
<1>2. {} \in SUBSET Result /\ q.todo \in SUBSET Result
    BY <1>1 DEF Working
<1>3. ASSUME NEW place \in Calm, Goto(a, place), q.at # "seedResults"
      PROVE  Good
    BY <1>1, <1>3, OnwardWorking DEF Goto
<1>4. ASSUME NEW place \in Calm, End(a, place)
      PROVE  Good
    BY <1>2, <1>4, EndedWorking DEF End
<1>5. ASSUME NEW place \in Calm, NEW copy, q.at # "seedResults",
             req' = [req EXCEPT ![a] = [q EXCEPT !.at = place, !.copy = copy]]
      PROVE  Good
    BY <1>1, <1>5, OnwardWorking
<1>6. {"idle", "seed", "seedRecord", "find", "finalize", "assigning", "entries", "sent", "paid",
       "unrecorded", "pool", "increment", "done", "failed"} \subseteq Calm
    BY DEF Places
<1> HIDE DEF Calm
<1>7. CASE Begin(a) \/ SeedList(a) \/ Tick(a) \/ PollAgain(a)
    <2>1. \E place \in {"seed", "find", "seedRecord", "entries", "idle"} : Goto(a, place)
        BY <1>7 DEF Begin, SeedList, Tick, PollAgain
    <2>2. q.at # "seedResults"
        BY <1>7 DEF Begin, SeedList, Tick, PollAgain, At
    <2>3. QED
        BY <1>3, <1>6, <2>1, <2>2
<1>8. CASE CloseStream(a) \/ WritePool(a) \/ RecordPayouts(a)
    <2>1. End(a, "done") \/ End(a, "paid") \/ End(a, "unrecorded")
        BY <1>8 DEF CloseStream, WritePool, RecordPayouts
    <2>2. QED
        BY <1>4, <1>6, <2>1
<1>9. ASSUME NEW rec, Proceed(a, rec), q.at # "seedResults"
      PROVE  Good
    <2>1. \/ End(a, "idle") \/ End(a, "pool")
          \/ req' = [req EXCEPT ![a] = [q EXCEPT !.at = "entries", !.copy = rec]]
        BY <1>9 DEF Proceed
    <2>2. QED
        BY <1>4, <1>5, <1>6, <1>9, <2>1
<1>10. CASE FindTournament(a)
    <2>1. q.at # "seedResults"
        BY <1>10 DEF FindTournament, At
    <2>2. \/ End(a, "idle") \/ End(a, "done")
          \/ req' = [req EXCEPT ![a] = [q EXCEPT !.at = "finalize", !.copy = record]]
          \/ Proceed(a, record)
        BY <1>10 DEF FindTournament
    <2>3. QED
        BY <1>4, <1>5, <1>6, <1>9, <2>1, <2>2
<1>11. CASE FinishTournament(a)
    <2>1. q.at # "seedResults" /\ Proceed(a, record')
        BY <1>11 DEF FinishTournament, Assigned, At
    <2>2. QED
        BY <1>9, <2>1
<1>12. CASE ReadPool(a)
    <2>1. /\ q.at # "seedResults"
          /\ req' = [req EXCEPT ![a] = [q EXCEPT !.at = "increment", !.copy = record]]
        BY <1>12 DEF ReadPool, At
    <2>2. QED
        BY <1>5, <1>6, <2>1
<1>13. CASE SeedRecord(a)
    <2> DEFINE r == [q EXCEPT !.at = "seedResults", !.board = Seeds]
    <2>1. req' = [req EXCEPT ![a] = r]
        BY <1>13 DEF SeedRecord
    <2>2. Seeds \in Seq(User \X Nat)
        BY TournamentLifecycleAssumption
    <2>3. /\ r.at = "seedResults" /\ r.board = Seeds /\ r.todo = q.todo
          /\ "seedResults" \in Places
        BY <1>1 DEF Places
    <2> HIDE DEF r
    <2>4. Working(r, credits)
        BY <1>2, <2>2, <2>3 DEF Working
    <2>5. QED
        BY <2>1, <2>4
<1>14. CASE SeedResult(a)
    <2>1. q.at = "seedResults" /\ q.board \in Seq(User \X Nat)
        BY <1>1, <1>14 DEF SeedResult, At, Working
    <2>2. CASE q.board = <<>>
        <3> DEFINE r == [q EXCEPT !.at = "find"]
        <3>1. req' = [req EXCEPT ![a] = r]
            BY <1>14, <2>2 DEF SeedResult, Goto
        <3>2. /\ r.at = "find" /\ r.board = <<>> /\ r.todo = q.todo /\ "find" \in Places
            BY <1>1, <2>2 DEF Places
        <3> HIDE DEF r
        <3>3. Working(r, credits)
            BY <1>2, <3>2 DEF Working
        <3>4. QED
            BY <3>1, <3>3
    <2>3. CASE q.board # <<>>
        <3> DEFINE r == [q EXCEPT !.board = Tail(q.board)]
        <3>1. req' = [req EXCEPT ![a] = r]
            BY <1>14, <2>3 DEF SeedResult
        <3>2. r.at = "seedResults" /\ r.board = Tail(q.board) /\ r.todo = q.todo
            BY <1>1, <2>1
        <3>3. Tail(q.board) \in Seq(User \X Nat) /\ "seedResults" \in Places
            BY <2>1, <2>3 DEF Places
        <3> HIDE DEF r
        <3>4. Working(r, credits)
            BY <1>2, <3>2, <3>3 DEF Working
        <3>5. QED
            BY <3>1, <3>4
    <2>4. QED
        BY <2>2, <2>3
<1>15. CASE AssignPrizes(a)
    <2> DEFINE prize(i) == IF i <= Len(Dist) THEN Prize(q.copy.pool, Dist[i]) ELSE results[i].prize
               t == {[results[i] EXCEPT !.prize = prize(i)] :
                         i \in {j \in DOMAIN results :
                                    ~Throws(j) /\ prize(j) # results[j].prize}}
               r == [q EXCEPT !.at = "assigning", !.todo = t]
               f == [Fresh EXCEPT !.at = "failed", !.todo = t]
    <2>1. (req' = [req EXCEPT ![a] = r] \/ req' = [req EXCEPT ![a] = f]) /\ q.at = "finalize"
        BY <1>15 DEF AssignPrizes, At
    <2>2. q.copy.pool \in Nat
        BY <1>1, <2>1 DEF Sane, Holding, Covered, Record
    <2>3. /\ results \in Seq(Result) /\ \A i \in DOMAIN results : results[i] \in Result
          /\ \A i \in DOMAIN results : i \in Nat /\ i > 0
        BY DEF DataInv, Tables
    <2>4. \A k \in Nat : k <= Len(Dist) /\ k > 0 => Prize(q.copy.pool, Dist[k]) \in Int
        <3>1. Dist \in Seq(Int) /\ \A k \in Nat : k <= Len(Dist) /\ k > 0 => Dist[k] \in Int
            BY GainsNat
        <3>2. QED
            BY <2>2, <3>1, PrizeShare
    <2>5. \A i \in DOMAIN results : prize(i) \in Int \cup {None}
        <3>1. \A i \in DOMAIN results : results[i].prize \in Int \cup {None}
            BY <2>3 DEF Result
        <3>2. QED
            BY <2>3, <2>4, <3>1
    <2> HIDE DEF prize
    <2>6. \A i \in DOMAIN results : [results[i] EXCEPT !.prize = prize(i)] \in Result
        BY <2>3, <2>5 DEF Result
    <2>7. t \in SUBSET Result
        BY <2>6
    <2> HIDE DEF t
    <2>8. Working(f, credits)
        BY <2>7, EndedWorking DEF Places
    <2>9. r.at = "assigning" /\ r.todo = t /\ r.board = q.board /\ "assigning" \in Places
        BY <1>1 DEF Places
    <2> HIDE DEF r, f
    <2>10. Working(r, credits)
        BY <1>1, <2>1, <2>7, <2>9 DEF Working
    <2>11. QED
        BY <2>1, <2>8, <2>10
<1>16. CASE WriteResult(a)
    <2>1. PICK e \in q.todo :
              \/ req' = [req EXCEPT ![a] = [q EXCEPT !.todo = q.todo \ {e}]]
              \/ req' = [req EXCEPT ![a] =
                            [Fresh EXCEPT !.at = "failed", !.todo = q.todo \ {e}]]
        BY <1>16 DEF WriteResult
    <2>2. q.todo \ {e} \in SUBSET Result
        BY <1>2
    <2>3. Working([q EXCEPT !.todo = q.todo \ {e}], credits)
        BY <1>1, <2>2 DEF Working
    <2>4. Working([Fresh EXCEPT !.at = "failed", !.todo = q.todo \ {e}], credits)
        BY <2>2, EndedWorking DEF Places
    <2>5. QED
        BY <2>1, <2>3, <2>4
<1>17. CASE ListEntries(a)
    <2>0. q.at = "entries"
        BY <1>17 DEF ListEntries, At
    <2>1. CASE End(a, "failed") \/ Goto(a, "sent")
        BY <1>3, <1>4, <1>6, <2>0, <2>1
    <2>2. CASE ~End(a, "failed") /\ ~Goto(a, "sent")
        <3> DEFINE b == Leaderboard(q.copy.pool)
                   r == [q EXCEPT !.at = "storing", !.board = b, !.todo = ToSet(b)]
        <3>1. req' = [req EXCEPT ![a] = r] /\ q.at = "entries"
            BY <1>17, <2>2 DEF ListEntries, At
        <3>2. q.copy.pool \in Nat
            BY <1>1, <3>1 DEF Sane, Holding, Covered, Record
        <3>3. b \in Seq(Result) /\ Shared(b, q.copy.pool)
            BY <3>2, LeaderboardRows DEF DataInv, Tables
        <3> HIDE DEF b
        <3>4. ToSet(b) \in SUBSET Result
            BY <3>3 DEF ToSet
        <3>5. /\ r.at = "storing" /\ r.board = b /\ r.todo = ToSet(b) /\ r.copy = q.copy
              /\ "storing" \in Places
            BY <1>1 DEF Places
        <3> HIDE DEF r
        <3>6. Working(r, credits)
            BY <3>3, <3>4, <3>5 DEF Working
        <3>7. QED
            BY <3>1, <3>6
    <2>3. QED
        BY <2>1, <2>2
<1>18. CASE EntriesStored(a)
    <2> DEFINE r == [q EXCEPT !.at = "sent", !.board = <<>>]
               w == Winners(q.board)
               s == [q EXCEPT !.at = "chain", !.board = w]
    <2>1. \/ End(a, "done") \/ End(a, "failed")
          \/ req' = [req EXCEPT ![a] = r] \/ req' = [req EXCEPT ![a] = s]
        BY <1>18 DEF EntriesStored
    <2>2. q.at = "storing"
        BY <1>18 DEF EntriesStored, At
    <2>3. q.board \in Seq(Result) /\ Shared(q.board, q.copy.pool) /\ Covered(q.copy, credits)
        BY <1>1, <2>2 DEF Working, Sane, Holding
    <2>4. Affordable(w, credits) /\ w \in Seq(Result)
        BY <1>1, <2>3, WinnersAffordable, PayoutsAreResults DEF Affordable
    <2> HIDE DEF w
    <2>5. /\ r.at = "sent" /\ r.board = <<>> /\ r.todo = q.todo
          /\ s.at = "chain" /\ s.board = w /\ s.todo = q.todo
          /\ "sent" \in Places /\ "chain" \in Places
        BY <1>1 DEF Places
    <2> HIDE DEF r, s
    <2>6. Working(r, credits) /\ Working(s, credits)
        BY <1>2, <2>4, <2>5 DEF Working
    <2>7. QED
        BY <1>4, <1>6, <2>1, <2>6
<1>19. CASE DistributeOnChain(a)
    <2>1. CASE End(a, "failed")
        BY <1>4, <1>6, <2>1
    <2>2. CASE ~End(a, "failed")
        <3> DEFINE r == [q EXCEPT !.at = "payout"]
        <3>1. req' = [req EXCEPT ![a] = r] /\ q.at = "chain"
            BY <1>19, <2>2 DEF DistributeOnChain, Goto, At
        <3>2. /\ r.at = "payout" /\ r.board = q.board /\ r.todo = q.todo
              /\ "payout" \in Places
            BY <1>1 DEF Places
        <3> HIDE DEF r
        <3>3. Working(r, credits)
            BY <1>1, <3>1, <3>2 DEF Working
        <3>4. QED
            BY <3>1, <3>3
    <2>3. QED
        BY <2>1, <2>2
<1>20. QED
    BY <1>7, <1>8, <1>10, <1>11, <1>12, <1>13, <1>14, <1>15, <1>16, <1>17, <1>18, <1>19
       DEF ActorStep

\* The requests when one of them does something, or none.
LEMMA WorkingStep ==
    ASSUME PoolInv, \A b \in Actor : Working(req[b], credits),
           credits' \in Nat, credits <= credits',
           \/ req' = req
           \/ \E a \in Actor : \E r : req' = [req EXCEPT ![a] = r] /\ Working(r, credits)
    PROVE  \A b \in Actor : Working(req'[b], credits')
<1>1. DOMAIN req = Actor /\ credits \in Nat
    BY DEF PoolInv
<1>2. \A b \in Actor : Working(req'[b], credits)
    BY <1>1
<1>3. QED
    BY <1>1, <1>2, StaysWorking

\* A score that is entered.
LEMMA ScoreTables ==
    ASSUME PoolInv, DataInv, NEW x \in Entered, SubmitScore(x[1], x[2])
    PROVE  /\ Flags' /\ Tables' /\ credits' \in Nat /\ credits <= credits'
           /\ UNCHANGED <<configured, req>>
<1> DEFINE e == [user |-> x[1], score |-> x[2], prize |-> None]
<1>1. credits \in Nat /\ Tables /\ Flags
    BY DEF PoolInv, DataInv
<1>2. /\ UNCHANGED <<configured, over, payouts, chain, verified, seeded, req>>
      /\ scores < MaxScores /\ scores' = scores + 1 /\ credits' = credits + 1
      /\ results' = Upserted(results, e)
    BY DEF SubmitScore
<1>3. e \in Result
    <2>1. x \in Player \X Nat
        BY TournamentLifecycleAssumption
    <2>2. x[1] \in User /\ x[2] \in Nat
        BY <2>1 DEF User
    <2>3. QED
        BY <2>2 DEF Result
<1> HIDE DEF e
<1>4. credits' \in Nat /\ credits <= credits'
    BY <1>1, <1>2
<1>5. Tables'
    BY <1>1, <1>2, <1>3, <1>4, TableStep
<1>6. MaxScores \in Nat
    BY TournamentLifecycleAssumption
<1>7. scores' \in 0 .. MaxScores
    BY <1>1, <1>2, <1>6 DEF Flags
<1>8. QED
    BY <1>1, <1>2, <1>4, <1>5, <1>7 DEF Flags

\* A player that is erased.
LEMMA EraseTables ==
    ASSUME PoolInv, DataInv, NEW u \in Player, EraseUser(u)
    PROVE  Flags' /\ Tables' /\ UNCHANGED <<configured, credits, req>>
<1>1. credits \in Nat /\ Tables /\ Flags
    BY DEF PoolInv, DataInv
<1>2. /\ UNCHANGED <<configured, over, chain, seeded, scores, credits, req>>
      /\ verified' = verified \ {u}
      /\ results' = Without(results, Of(results, u))
      /\ payouts' = [i \in DOMAIN payouts |-> Without(payouts[i], Of(payouts[i], u))]
    BY DEF EraseUser, counts
<1>3. Flags'
    BY <1>1, <1>2 DEF Flags
<1>4. results' \in Seq(Result) /\ Unique(results')
    BY <1>1, <1>2, WithoutUnique DEF Tables
<1>5. /\ payouts \in Seq(Seq(Payout))
      /\ \A i \in DOMAIN payouts : Affordable(payouts[i], credits)
    BY <1>1 DEF Tables
<1>6. \A i \in DOMAIN payouts : Affordable(payouts'[i], credits)
    BY <1>1, <1>2, <1>5, StaysAffordable
<1>7. DOMAIN payouts' = DOMAIN payouts /\ \A i \in DOMAIN payouts : payouts'[i] \in Seq(Payout)
    BY <1>2, <1>6 DEF Affordable
<1>8. payouts' \in Seq(Seq(Payout))
    <2>1. DOMAIN payouts = 1 .. Len(payouts) /\ Len(payouts) \in Nat
        BY <1>5
    <2>2. payouts' \in [1 .. Len(payouts) -> Seq(Payout)]
        BY <1>2, <1>7, <2>1
    <2>3. QED
        BY <2>1, <2>2
<1>9. \A i \in DOMAIN payouts' : Affordable(payouts'[i], credits')
    BY <1>2, <1>6, <1>7
<1>10. Tables'
    BY <1>2, <1>4, <1>8, <1>9, SameTables
<1>11. QED
    BY <1>2, <1>3, <1>10

\* DataInv is preserved.
LEMMA NextDataInv == PoolInv /\ DataInv /\ [Next]_vars => DataInv'
<1> SUFFICES ASSUME PoolInv, DataInv, [Next]_vars PROVE DataInv'
    OBVIOUS
<1>1. /\ credits \in Nat /\ credits <= credits /\ Flags /\ Tables
      /\ \A a \in Actor : Working(req[a], credits)
    BY DEF PoolInv, DataInv
<1>2. CASE TimePasses \/ CreateTournament \/ Mined \/ UNCHANGED vars
    <2>1. UNCHANGED <<results, payouts, verified, seeded, req, scores, credits>>
        BY <1>2, Zenon DEF TimePasses, CreateTournament, Mined, vars, store, counts
    <2>2. /\ configured' = configured
          /\ over' = over \/ over' = TRUE
          /\ chain' = chain \/ chain' = "paid"
        BY <1>2, Zenon DEF TimePasses, CreateTournament, Mined, vars, store, counts
    <2>3. Flags'
        BY <1>1, <2>1, <2>2 DEF Flags
    <2>4. Tables'
        BY <1>1, <2>1, <2>2, SameTables DEF Tables
    <2>5. (\A a \in Actor : Working(req[a], credits))'
        BY <1>1, <2>1, <2>2, SameWorking
    <2>6. QED
        BY <2>3, <2>4, <2>5 DEF DataInv
<1>3. ASSUME NEW e \in Entered, SubmitScore(e[1], e[2])
      PROVE  DataInv'
    <2>1. /\ Flags' /\ Tables' /\ credits' \in Nat /\ credits <= credits'
          /\ UNCHANGED <<configured, req>>
        BY <1>3, ScoreTables
    <2>2. \A b \in Actor : Working(req'[b], credits')
        BY <1>1, <2>1, WorkingStep
    <2>3. QED
        BY <2>1, <2>2, SameWorking DEF DataInv
<1>4. ASSUME NEW u \in Player, EraseUser(u)
      PROVE  DataInv'
    <2>1. Flags' /\ Tables' /\ UNCHANGED <<configured, credits, req>>
        BY <1>4, EraseTables
    <2>2. \A b \in Actor : Working(req'[b], credits')
        BY <1>1, <2>1
    <2>3. QED
        BY <2>1, <2>2, SameWorking DEF DataInv
<1>5. ASSUME NEW a \in Actor, ActorStep(a)
      PROVE  DataInv'
    <2>1. /\ Flags' /\ Tables' /\ credits' \in Nat /\ credits <= credits'
          /\ configured' = configured
        BY <1>5, ActorTables
    <2>2. \E r : req' = [req EXCEPT ![a] = r] /\ Working(r, credits)
        BY <1>5, ActorWorking
    <2>3. \A b \in Actor : Working(req'[b], credits')
        BY <1>1, <2>1, <2>2, WorkingStep
    <2>4. QED
        BY <2>1, <2>3, SameWorking DEF DataInv
<1>6. QED
    BY <1>2, <1>3, <1>4, <1>5, Zenon DEF Next

\* In every state the pool is covered, the tables are in order, and every request works
\* with what the buy-ins pay.
THEOREM Invariance == Spec => [](PoolInv /\ DataInv)
<1>1. Init => PoolInv /\ DataInv
    BY InitPoolInv, InitDataInv
<1>2. PoolInv /\ DataInv /\ [Next]_vars => (PoolInv /\ DataInv)'
    BY NextPoolInv, NextDataInv
<1>3. QED
    BY <1>1, <1>2, PTL DEF Spec

\* Every variable keeps its type: what requests carry from one database call to the next
\* are records and results, whichever handler they belong to.
THEOREM TypeCorrect == Spec => []TypeOK
<1>1. PoolInv /\ DataInv => TypeOK
    <2> SUFFICES ASSUME PoolInv, DataInv PROVE TypeOK
        OBVIOUS
    <2>1. Flags /\ Tables /\ credits \in Nat /\ (record = None \/ record \in Record)
        BY DEF PoolInv, DataInv, Covered
    <2>2. ASSUME NEW a \in Actor
          PROVE  /\ req[a].at \in Places
                 /\ req[a].copy = None \/ req[a].copy \in Record
                 /\ req[a].todo \subseteq Result
                 /\ req[a].board \in IF req[a].at = "seedResults" THEN Seq(User \X Nat)
                                     ELSE IF req[a].at \in {"chain", "payout"} THEN Seq(Payout)
                                     ELSE Seq(Result)
        BY <2>2 DEF PoolInv, DataInv, Sane, Covered, Working, Affordable
    <2>3. QED
        BY <2>1, <2>2, Zenon DEF TypeOK, At, Flags, Tables, Record, Places
<1>2. QED
    BY <1>1, Invariance, PTL

\* Nobody is listed twice, whichever of seeding, finalization, leaderboards and score
\* entries write the same user's result at the same time.
THEOREM OneRowEach == Spec => []OneResultPerUser
<1>1. PoolInv /\ DataInv => OneResultPerUser
    BY DEF DataInv, Tables, Unique, OneResultPerUser
<1>2. QED
    BY <1>1, Invariance, PTL

\* What a distribution records as paid is within the positive percentages of the buy-ins,
\* whatever numbers the distribution holds, whatever the leaderboard it was made from, and
\* whoever has been erased since.
THEOREM PayoutsHold == Spec => []PayoutWithinShares
<1>1. PoolInv /\ DataInv => PayoutWithinShares
    BY DEF DataInv, Tables, Affordable, Backed, PayoutWithinShares
<1>2. QED
    BY <1>1, Invariance, PTL
=============================================================================
