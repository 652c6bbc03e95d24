------------------------ MODULE TournamentLifecycle ------------------------
(***************************************************************************)
(* One tournament from its creation to the payout of its prizes: lib/      *)
(* server/tournamentData.ts, the routes under /api/tournaments and the     *)
(* leaderboard streams that call it, and distribute/route.ts.              *)
(*                                                                         *)
(* Reading changes things here: every handler first seeds the configured   *)
(* tournaments, finalizes the tournament it was asked for when its end has *)
(* passed, and stores a leaderboard when it shows one.  Each of these      *)
(* reads in one database call and writes, whole records, in later ones, so *)
(* handlers overwrite one another's work.  A database call is one step     *)
(* (DbLock, DbFile).                                                       *)
(*                                                                         *)
(* Amounts and scores are small numbers.                                   *)
(***************************************************************************)
EXTENDS Integers, Sequences, FiniteSets, SequencesExt, Rows

CONSTANTS
    Actor, Kind,    \* requests, and the handler of each
    Player,
    Entered,        \* <<user, score>>: scores that players enter
    Seeds,          \* <<<user, score>>, ...>>: the entries that seeding makes up
    BuyIn,          \* buy_in_amount
    ConfiguredDist, \* prize_distribution of a configured tournament, and of a created one,
    CreatedDist,    \*     in parts of a percent;
    Unit,           \*     how many of them are one percent
    None,
    MaxScores,      \* bound: scores entered
    MaxErased,      \* bound: players erased
    MaxRequests     \* bound: requests made, other than the poller's

Kinds == {"poll", "view", "stream", "credit", "distribute"}
User == Player \cup {Seeds[i][1] : i \in DOMAIN Seeds}

\* POST /api/tournaments/create takes any numbers that add up to 100, negative and
\* fractional ones too; those of config/tournaments.json are natural.
ASSUME TournamentLifecycleAssumption ==
    /\ Kind \in [Actor -> Kinds] /\ Entered \subseteq Player \X Nat
    /\ BuyIn \in Nat \ {0} /\ MaxScores \in Nat /\ MaxErased \in Nat /\ MaxRequests \in Nat
    /\ Unit \in Nat \ {0} /\ {ConfiguredDist, CreatedDist} \subseteq Seq(Int)
    /\ Sum(ConfiguredDist) = 100 * Unit /\ Sum(CreatedDist) = 100 * Unit
    /\ \A k \in DOMAIN ConfiguredDist : ConfiguredDist[k] >= 0 /\ ConfiguredDist[k] % Unit = 0
    /\ None \notin Int
    /\ Seeds \in Seq(User \X Nat) /\ \A i \in DOMAIN Seeds : Seeds[i][1] \notin Player

VARIABLES
    configured, \* whether it is one of config/tournaments.json
    over,       \* whether end_time has passed
    record,     \* its row of tournaments: [pool, finished], or None
    results,    \* its rows of tournament_results, in the order of the table
    payouts,    \* its rows of tournament_payouts, one batch per distribution
    chain,      \* the contract: "open", or "paid" when a distribution was mined
    verified,   \* players with a live verification
    seeded,     \* the process's flag `seeded'
    req,        \* each request: where it stands, the record it works on, the results
                \* it has yet to write (Promise.all: in any order), its leaderboard
    scores,     \* scores entered so far
    credits     \* buy-ins that have been added to the pool

store == <<record, results, payouts>>
counts == <<scores, credits>>
vars == <<configured, over, store, chain, verified, seeded, req, counts>>

Result == [user : User, score : Nat, prize : Int \cup {None}]   \* None: no prize yet
New == [pool |-> 0, finished |-> FALSE]
Payout == [user : User, score : Nat, prize : Nat \ {0}]           \* of a winner
Fresh == [at |-> "idle", copy |-> None, todo |-> {}, board |-> <<>>]

Dist == IF configured THEN ConfiguredDist ELSE CreatedDist

Init ==
    /\ configured \in BOOLEAN
    /\ over = FALSE
    /\ record = None /\ results = <<>> /\ payouts = <<>>
    /\ chain = "open"
    /\ verified = Player
    /\ seeded = FALSE
    /\ req = [a \in Actor |-> Fresh]
    /\ scores = 0 /\ credits = 0

At(a) == req[a].at
Goto(a, place) == req' = [req EXCEPT ![a].at = place]
End(a, place) == req' = [req EXCEPT ![a] = [Fresh EXCEPT !.at = place]]

\* calculatePrizeAmount, of a whole percentage: BigInt division drops the fraction.
Prize(pool, share) ==
    LET n == pool * (share \div Unit)
    IN  IF n >= 0 THEN n \div 100 ELSE -((-n) \div 100)

\* Of the first n prizes one is of a fractional percentage, which BigInt refuses.
Throws(n) == \E k \in DOMAIN Dist : k <= n /\ Dist[k] % Unit # 0

\* Fault: a result is added without looking for the one the user has.
Upserted_Pushed(res, e) == Append(res, e)

\* upsertTournamentResult: merged into the user's row if there is one.
Upserted(res, e) ==
    LET i == SelectInSeq(res, LAMBDA r : r.user = e.user)
    IN  IF i = 0 THEN Append(res, e) ELSE [res EXCEPT ![i] = e]

----------------------------------------------------------------------------
(* The world around the handlers.                                          *)

TimePasses ==
    /\ ~over /\ over' = TRUE
    /\ UNCHANGED <<configured, store, chain, verified, seeded, req, counts>>

\* POST /api/tournaments/create, once its checks have passed; they do not look at the
\* clock.
CreateTournament ==
    /\ ~configured /\ record = None
    /\ record' = New
    /\ UNCHANGED <<configured, over, results, payouts, chain, verified, seeded, req, counts>>

\* Fault: the pool grows even when the user is refused.
SubmitScore_PoolFirst(u, s) ==
    /\ scores < MaxScores /\ scores' = scores + 1 /\ record # None
    /\ record' = [record EXCEPT !.pool = @ + BuyIn]
    /\ IF u \in verified
       THEN /\ results' = Upserted(results, [user |-> u, score |-> s, prize |-> None])
            /\ credits' = credits + 1
       ELSE UNCHANGED <<results, credits>>
    /\ UNCHANGED <<configured, over, payouts, chain, verified, seeded, req>>

\* updateTournamentPoolAndLeaderboardEntry: the one operation that enters a player's
\* score, with a buy-in for the pool, in one transaction.  (No route calls it yet.)
SubmitScore(u, s) ==
    /\ scores < MaxScores /\ scores' = scores + 1
    /\ record # None /\ u \in verified
    /\ record' = [record EXCEPT !.pool = @ + BuyIn]
    /\ results' = Upserted(results, [user |-> u, score |-> s, prize |-> None])
    /\ credits' = credits + 1
    /\ UNCHANGED <<configured, over, payouts, chain, verified, seeded, req>>

Of(rows, u) == {r \in ToSet(rows) : r.user = u}

\* deleteUserDataset
EraseUser(u) ==
    /\ u \in verified /\ Cardinality(Player \ verified) < MaxErased
    /\ verified' = verified \ {u}
    /\ results' = Without(results, Of(results, u))
    /\ payouts' = [i \in DOMAIN payouts |-> Without(payouts[i], Of(payouts[i], u))]
    /\ UNCHANGED <<configured, over, record, chain, seeded, req, counts>>

\* A submitted distribution is mined; a second one reverts.
Mined ==
    /\ chain = "open" /\ \E a \in Actor : At(a) \in {"payout", "paid", "unrecorded"}
    /\ chain' = "paid"
    /\ UNCHANGED <<configured, over, store, verified, seeded, req, counts>>

----------------------------------------------------------------------------
(* seedTournaments and getTournament, which every handler calls first.     *)

Others == {a \in Actor : Kind[a] # "poll"}

Begin(a) ==
    /\ At(a) = "idle"
    /\ Kind[a] = "poll" \/ Cardinality({b \in Others : At(b) # "idle"}) < MaxRequests
    /\ Goto(a, IF seeded THEN "find" ELSE "seed")
    /\ UNCHANGED <<configured, over, store, chain, verified, seeded, counts>>

\* Whether it is missing is looked up once, before anything is written.
SeedList(a) ==
    /\ At(a) = "seed"
    /\ IF configured /\ record = None THEN Goto(a, "seedRecord") /\ UNCHANGED seeded
       ELSE Goto(a, "find") /\ seeded' = TRUE
    /\ UNCHANGED <<configured, over, store, chain, verified, counts>>

\* The configured record replaces whatever another request has made of it since.
SeedRecord(a) ==
    /\ At(a) = "seedRecord"
    /\ record' = New
    /\ req' = [req EXCEPT ![a].at = "seedResults", ![a].board = Seeds]
    /\ UNCHANGED <<configured, over, results, payouts, chain, verified, seeded, counts>>

\* The made-up entries, one after the other and without user validation.
SeedResult(a) ==
    /\ At(a) = "seedResults"
    /\ IF req[a].board = <<>> THEN Goto(a, "find") /\ seeded' = TRUE /\ UNCHANGED results
       ELSE /\ results' = Upserted(results, [user |-> Head(req[a].board)[1],
                  score |-> Head(req[a].board)[2], prize |-> None])
            /\ req' = [req EXCEPT ![a].board = Tail(@)]
            /\ UNCHANGED seeded
    /\ UNCHANGED <<configured, over, record, payouts, chain, verified, counts>>

\* What a handler does with the tournament.
Proceed(a, tournament) ==
    CASE Kind[a] = "poll" -> End(a, "idle")
      [] Kind[a] = "credit" -> End(a, "pool")
      [] OTHER -> req' = [req EXCEPT ![a].at = "entries", ![a].copy = tournament]

\* findTournamentRecord, and finalizeTournament if the end has passed.
FindTournament(a) ==
    /\ At(a) = "find"
    /\ IF record = None THEN End(a, IF Kind[a] = "poll" THEN "idle" ELSE "done")
       ELSE IF over /\ ~record.finished
       THEN req' = [req EXCEPT ![a].at = "finalize", ![a].copy = record]
       ELSE Proceed(a, record)
    /\ UNCHANGED <<configured, over, store, chain, verified, seeded, counts>>

\* Prizes go by the order of the rows, and only those that change are written.  A prize
\* that cannot be computed ends the request, with the writes of the rows before under way.
AssignPrizes(a) ==
    LET prize(i) == IF i <= Len(Dist) THEN Prize(req[a].copy.pool, Dist[i])
                    ELSE results[i].prize
        changed == {i \in DOMAIN results : ~Throws(i) /\ prize(i) # results[i].prize}
        todo == {[results[i] EXCEPT !.prize = prize(i)] : i \in changed}
    IN  /\ At(a) = "finalize"
        /\ req' = [req EXCEPT ![a] =
               IF Throws(Len(results)) THEN [Fresh EXCEPT !.at = "failed", !.todo = todo]
               ELSE [@ EXCEPT !.at = "assigning", !.todo = todo]]
        /\ UNCHANGED <<configured, over, store, chain, verified, seeded, counts>>

\* One of these writes.  Without a verification of its user it is refused, and with it
\* the whole request; the other writes go on.
WriteResult(a) ==
    /\ \E e \in req[a].todo :
           IF At(a) = "storing" \/ e.user \in verified
           THEN /\ results' = Upserted(results, e)
                /\ req' = [req EXCEPT ![a].todo = @ \ {e}]
           ELSE /\ req' = [req EXCEPT ![a] =
                              [Fresh EXCEPT !.at = "failed", !.todo = req[a].todo \ {e}]]
                /\ UNCHANGED results
    /\ UNCHANGED <<configured, over, record, payouts, chain, verified, seeded, counts>>

Assigned(a) == At(a) = "assigning" /\ req[a].todo = {}

\* Fault: the handler takes the tournament for finished without storing that.
FinishTournament_Unrecorded(a) ==
    /\ Assigned(a)
    /\ Proceed(a, [req[a].copy EXCEPT !.finished = TRUE])
    /\ UNCHANGED <<configured, over, store, chain, verified, seeded, counts>>

\* The record found before goes back, as finished.
FinishTournament(a) ==
    /\ Assigned(a)
    /\ record' = [req[a].copy EXCEPT !.finished = TRUE]
    /\ Proceed(a, record')
    /\ UNCHANGED <<configured, over, results, payouts, chain, verified, seeded, counts>>

----------------------------------------------------------------------------
(* incrementTournamentPool, of a confirmed payment.                        *)

ReadPool(a) ==
    /\ At(a) = "pool"
    /\ req' = [req EXCEPT ![a].at = "increment", ![a].copy = record]
    /\ UNCHANGED <<configured, over, store, chain, verified, seeded, counts>>

WritePool(a) ==
    /\ At(a) = "increment"
    /\ record' = [req[a].copy EXCEPT !.pool = @ + BuyIn]
    /\ credits' = credits + 1
    /\ End(a, "done")
    /\ UNCHANGED <<configured, over, results, payouts, chain, verified, seeded, scores>>

----------------------------------------------------------------------------
(* getLeaderboardEntries.                                                  *)

Ahead(i, j) ==
    \/ results[i].score > results[j].score
    \/ results[i].score = results[j].score /\ i < j

\* Rows by score; the first get the prizes, the others show what their row has.
Leaderboard(pool) ==
    [k \in DOMAIN results |->
        LET i == CHOOSE i \in DOMAIN results :
                     Cardinality({j \in DOMAIN results : Ahead(j, i)}) = k - 1
        IN  [results[i] EXCEPT !.prize = IF k <= Len(Dist) THEN Prize(pool, Dist[k]) ELSE @]]

\* distribute/route.ts goes on only when the tournament is finished; a prize that cannot be
\* computed ends a request, and is an error event of a stream.
ListEntries(a) ==
    /\ At(a) = "entries"
    /\ IF Kind[a] = "distribute" /\ ~req[a].copy.finished /\ ~over
       THEN End(a, "failed")
       ELSE IF Throws(Len(results))
       THEN IF Kind[a] = "stream" THEN Goto(a, "sent") ELSE End(a, "failed")
       ELSE LET b == Leaderboard(req[a].copy.pool)
            IN  req' = [req EXCEPT ![a].at = "storing", ![a].board = b, ![a].todo = ToSet(b)]
    /\ UNCHANGED <<configured, over, store, chain, verified, seeded, counts>>

\* Fault: everybody who comes first is taken for a winner, with or without a prize.
Unrewarded_Nobody(b) == {}

Unrewarded(b) == {e \in ToSet(b) : e.prize = None \/ e.prize <= 0}

\* Fault: whoever has a prize on the leaderboard is a winner.
Winners_All(b) == Without(b, Unrewarded(b))

Winners(b) == Without(SubSeq(b, 1, IF Len(b) < Len(Dist) THEN Len(b) ELSE Len(Dist)),
                      Unrewarded(b))

\* Once it is stored the leaderboard is the answer, or what a distribution is made from.
EntriesStored(a) ==
    /\ At(a) = "storing" /\ req[a].todo = {}
    /\ CASE Kind[a] = "view" -> End(a, "done")
         [] Kind[a] = "stream" -> req' = [req EXCEPT ![a].at = "sent", ![a].board = <<>>]
         [] OTHER -> IF Winners(req[a].board) = <<>> THEN End(a, "failed")
                     ELSE req' = [req EXCEPT ![a].at = "chain", ![a].board = Winners(@)]
    /\ UNCHANGED <<configured, over, store, chain, verified, seeded, counts>>

----------------------------------------------------------------------------
(* The streams of createSseResponse: another payload at every interval,    *)
(* from the tournament as it was when the stream was opened.               *)

Tick(a) ==
    /\ At(a) = "sent"
    /\ Goto(a, "entries")
    /\ UNCHANGED <<configured, over, store, chain, verified, seeded, counts>>

CloseStream(a) ==
    /\ At(a) = "sent"
    /\ End(a, "done")
    /\ UNCHANGED <<configured, over, store, chain, verified, seeded, counts>>

----------------------------------------------------------------------------
(* POST .../distribute, after the leaderboard.                             *)

\* distributePrizesOnChain returns when the transaction is submitted; what has been
\* paid already does not get that far.
DistributeOnChain(a) ==
    /\ At(a) = "chain"
    /\ \/ chain = "open" /\ Goto(a, "payout")
       \/ End(a, "failed")
    /\ UNCHANGED <<configured, over, store, chain, verified, seeded, counts>>

\* recordTournamentPayouts, which may also fail: it does whenever the table is missing from
\* the document that loadDb returns.  The chain is not told.
RecordPayouts(a) ==
    /\ At(a) = "payout"
    /\ \/ payouts' = Append(payouts, req[a].board) /\ End(a, "paid")
       \/ End(a, "unrecorded") /\ UNCHANGED payouts
    /\ UNCHANGED <<configured, over, record, results, chain, verified, seeded, counts>>

\* A request of the poller that has failed is followed by another one.
PollAgain(a) ==
    /\ Kind[a] = "poll" /\ At(a) = "failed" /\ req[a].todo = {}
    /\ Goto(a, "idle")
    /\ UNCHANGED <<configured, over, store, chain, verified, seeded, counts>>

----------------------------------------------------------------------------
ActorStep(a) ==
    \/ Begin(a) \/ SeedList(a) \/ SeedRecord(a) \/ SeedResult(a)
    \/ FindTournament(a) \/ AssignPrizes(a) \/ WriteResult(a) \/ FinishTournament(a)
    \/ ReadPool(a) \/ WritePool(a)
    \/ ListEntries(a) \/ EntriesStored(a) \/ Tick(a) \/ CloseStream(a)
    \/ DistributeOnChain(a) \/ RecordPayouts(a) \/ PollAgain(a)

Next ==
    \/ TimePasses \/ CreateTournament \/ Mined
    \/ \E e \in Entered : SubmitScore(e[1], e[2])
    \/ \E u \in Player : EraseUser(u)
    \/ \E a \in Actor : ActorStep(a)

Spec == Init /\ [][Next]_vars

\* The notification job lists the tournaments every minute; of other requests nothing
\* is promised, not even that they are carried through.
FairSpec == Spec /\ \A a \in Actor \ Others : WF_vars(ActorStep(a))

----------------------------------------------------------------------------
(* Properties.                                                             *)

\* The type invariant.
TypeOK ==
    /\ configured \in BOOLEAN /\ over \in BOOLEAN
    /\ record = None \/ record \in [pool : Nat, finished : BOOLEAN]
    /\ results \in Seq(Result) /\ payouts \in Seq(Seq(Payout))
    /\ chain \in {"open", "paid"} /\ verified \subseteq Player /\ seeded \in BOOLEAN
    /\ \A a \in Actor :
           /\ At(a) \in {"idle", "seed", "seedRecord", "seedResults", "find", "finalize",
                         "assigning", "entries", "storing", "sent", "chain", "payout", "paid",
                         "unrecorded", "pool", "increment", "done", "failed"}
           /\ req[a].copy = None \/ req[a].copy \in [pool : Nat, finished : BOOLEAN]
           /\ req[a].todo \subseteq Result
           /\ req[a].board \in IF At(a) = "seedResults" THEN Seq(User \X Nat)
                               ELSE IF At(a) \in {"chain", "payout"} THEN Seq(Payout)
                               ELSE Seq(Result)
    /\ scores \in 0 .. MaxScores /\ credits \in Nat

\* However seeding, finalization and increments overwrite one another's records, the
\* prize pool never exceeds the buy-ins that were paid into it.
PoolNeverInvented == record # None => record.pool <= BuyIn * credits

\* Nobody is listed twice, whichever of seeding, finalization, leaderboards and score
\* entries write the same user's result at the same time.
OneResultPerUser ==
    \A i, j \in DOMAIN results : results[i].user = results[j].user => i = j

Amounts(rows) == [i \in DOMAIN rows |-> rows[i].prize]

Gains == [k \in DOMAIN Dist |-> IF Dist[k] > 0 THEN Dist[k] ELSE 0]

\* What one distribution records as paid is within the positive percentages of the
\* buy-ins (within the buy-ins, when no percentage is negative), although prizes in the
\* rows go by another order and another pool than those on the leaderboard.
PayoutWithinShares ==
    \A i \in DOMAIN payouts :
        100 * Unit * Sum(Amounts(payouts[i])) <= BuyIn * credits * Sum(Gains)

Finished == record # None /\ record.finished
Blocked == \E i \in DOMAIN results : results[i].user \notin verified

Unpayable == Throws(Len(results))

\* A tournament whose end has passed is finalized for good sooner or later, although
\* increments under way put back the record of before: unless a row belongs to a user
\* without a live verification, as every seeded row does, or to a fractional percentage.
EndedIsFinalized ==
    (over /\ record # None) ~> [](Finished \/ Blocked \/ Unpayable)
=============================================================================
