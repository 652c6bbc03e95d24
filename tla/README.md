# A formal model of miniappworld

miniappworld is a Next.js mini app in which players pay a buy-in, play and win
tournament prizes. This directory holds TLA+ modules translated from its code, the
TLC configurations that check them on small instances, and TLAPS proofs, for any values of
the constants, of every safety property that the passing runs check. `PROJECT.json`
links every definition to its lines.

    tlc -workers 2 -config MCDbLock.cfg MCDbLock      # one run
    tlapm DbLockProofs.tla                            # one module's proofs

## 1. The system

| Part | State | Operations | What it talks to |
|---|---|---|---|
| Database (`src/lib/database.ts`) | `data/database.json`, `.journal`, `.tmp`, `.lock`; in-memory row locks and World ID cache of every process | `withDbTransaction`, `withDbSnapshot`, recovery, watchdog | every route and worker |
| Payment flow (`api/initiate-payment`, `api/confirm-payment`, `queues/`) | payments, status history, BullMQ queue | initiate, confirm, process job, retry | database, Developer Portal, Redis, tournament record |
| Tournaments (`server/tournamentData.ts`, `api/tournaments/*`) | tournaments, participants, results, payouts | create, join, finalize, leaderboard, distribute | database, contract |
| World ID sessions (`api/verify-world-id`, `sessionValidation.ts`) | verifications, caches | verify, look up, expire, delete | database |
| Notifications (`notificationService.ts`, queue, worker, `send-notification`) | queue, nonce and rate counters, notified flags in memory | enqueue, send, retry, rotate keys | portal, Redis, key file |
| Player statistics, game progress, privacy | a JSON file; tables of the database | record, read, export, delete | database |
| Leaderboard streams (`server/sse.ts`) | one interval per client | produce, abort | database |
| Rate limiting, `fetchWithBackoff`, token amounts | counters; none | limit, retry, scale | Redis, HTTP |
| `contracts/TournamentManager.sol` | tournaments, scores, winners, token balance | create, join, submit, finalize, distribute | ERC-20 tokens |
| Pages, metrics, scripts, vendored OpenZeppelin | - | - | - |

Two kinds of process run the server code: the web server, whose requests interleave
at every `await`, and the queue workers (`scripts/workers.ts`), which share the
database with it through one lockfile and one JSON file. Behaviour that is hard:

* **interleaving**: requests against requests and against jobs, at every `await`;
* **processes**: the lockfile is the only thing that keeps two of them apart, and it
  may be removed by anyone once it is ten seconds old (`LOCK_MAX_AGE_MS`,
  `database.ts:142`);
* **crashes**: between backup, write, rename and unlink; within a job;
* **retries**: of transactions, of persisting, of jobs, each of which starts again
  from its beginning with earlier effects in place;
* **read-modify-write** of the tournament record across two transactions;
* **deletion** of a user under requests and jobs that go on.

What makes each part correct is listed with its run in section 3, and every point
where it could go wrong, at its line, under `hazards` in `PROJECT.json`.

### How the source is read

As committed, the repository carries residue of merges and does not compile. Names
that are used but not declared are read as their evident counterpart:
`sessionToken` as the `session_token` cookie, `identity`/`sessionIdentity` as the
identity found for the session, `lowerBuyIn` as `normalizedBuyIn`, and
`sendNotification` as the imported service of that name. `loadDb` (787-804) leaves out
`tournament_payouts`, which its own `satisfies DatabaseShape` demands: as written
`deleteUserDataset` (1688) and `recordTournamentPayouts` (1508) would throw a
TypeError, and the model reads `loadDb` as returning every table; that a distribution
which the chain has paid is then not recorded is an outcome of `RecordPayouts` all the same.
`normalizeTournamentRecord` (1751) is marked async and used synchronously; it is read
as synchronous. In the profile and progress routes `sessionResult` is what
`requireActiveSession` returned; in `tournaments/route.ts` and
`tournaments/[tournamentId]/route.ts` a `const` that is declared twice is read as its
first declaration, and what follows a `return` is not read. `[id]/join/route.ts` re-exports
`[tournamentId]/join`, and is the same handler.

## 2. The modules

    DbLock            locks of database.ts              <- MCDbLock, DbLockProofs
    AtomicStore       what the database promises
    DbFile            files of database.ts,
                      implements AtomicStore            <- MCDbFile, DbFileProofs
    PaymentFlow       payments, jobs, seats, the pot    <- MCPaymentFlow, PaymentFlowProofs
    TournamentLifecycle  one tournament: seeding,       <- MCTournamentLifecycle,
                      scores, prizes, payouts              TournamentLifecycleProofs
    WorldIdSession    verifications and their caches
    PlayerData        a player's data and its erasure,
                      EXTENDS WorldIdSession            <- MCPlayerData, PlayerDataProofs
    NotificationQueue announcements, their jobs         <- MCNotificationQueue
    SendNotification  the route and the API keys,       <- MCSendNotification,
                      EXTENDS NotificationQueue            SendNotificationProofs
    TournamentManager the contract                      <- MCTournamentManager,
                                                           TournamentManagerProofs
    Rows              filtering tables, adding amounts  <- RowsProofs

The server modules are layers. `DbLock` shows when transactions exclude one
another; `DbFile` assumes they do and shows that one transaction is atomic on disk;
the modules above them take a transaction or a snapshot as one step. `PlayerData` and
`SendNotification` are compositions: the handlers of one run beside the sessions they
look up and lose, those of the other in web processes whose restart also drops the
announcement cycle under way. Definitions whose name
has an underscore (`Load_Cached`) are faulty variants of the definition that follows
them: each shows that a property notices that fault. No specification uses one.

### DbLock

One action per system call of `acquireLock`, `withDbLock` and `withDbTransaction`.
`pc[t]` says where transaction `t` stands: `rows` (waiting for row locks), `open`
(`open(.., 'wx')`), `stat`, `unlinkOld` (it has seen an expired lockfile and is about
to unlink it), `load`, `write`, `release`, `giveUp`. `lockFile` holds the creator of
the file, `lockOld` that it is older than `LOCK_MAX_AGE_MS`. The database is the set
of transactions whose effects it holds, and `Persist` writes what `Load` has read
plus the transaction's own effect: the whole document, as `persistDb` does. A member
of `Snapshot` is a `withDbSnapshot`: no row locks, no write. `WatchdogTick` and
`WatchdogUnlink` are the interval of every process, its `stat` and its `unlink`.

System calls fail here as well. An open that fails with `EACCES` is treated like one that
finds the file (`OpenBusy`), any other error ends the call at once (`OpenFails`); a stat may
fail; an unlink that fails is logged and the file stays (`UnlinkLock`, `stuck`). Failed
unlinks and crashes (`crashes`) together are at most `MaxFaults`. What is thrown inside the
lock goes to the caller, unless its code is one that `withDbTransaction` takes for
contention: then the lock is released (`ReleaseRefused`) and the loop starts over.

Time is abstract: a deadline may have passed whenever the code compares it, a row
lock may grow old at any time (`rowExpired` records it), and the lockfile grows old
only if its creator died or is in `Overdue` (`expired` records it). `usurped` records
that a lockfile was removed while its creator was alive and inside.

### AtomicStore and DbFile

`AtomicStore` is the promise: `Commit` adds a transaction's effects at once; the
document becomes unreadable only when the very first, empty one is being written or
in an accident; an accident may undo commits. `DbFile` has one action per file
operation of `ensureDbFile`, `recoverFromJournalIfNeeded`, `loadDb` and `persistDb`,
two per `writeFile` (`TmpBegin`, `TmpEnd`), and a `..Fault` action for each that may
fail. A file is absent, torn (something `deserializeDb` rejects) or a document. A write
that fails leaves a truncated file.

Nothing in the code calls fsync, neither on a file nor on the directory. `unsynced` names the
files whose data only the page cache holds, and `past` the older pairs of database and
journal that the disk may still hold: every creation, truncation, rename and unlink adds to
it (`NotYetDurable`), until the kernel has written everything back (`Sync`, external). A
`PowerCut` leaves any of these pairs, with unsynced data perhaps torn: it may undo a rename
that was acknowledged, or bring back a journal that was unlinked. The pairs are those that
the files have been through, in their order, which is what a journaling file system leaves;
one that reorders changes of a directory is not modelled. `settled` is history: the
acknowledged writes that a `Sync` has put on disk.

The refinement maps `store` to `Stored`, the document the next call will load: the
database if it parses, else the journal. `Rename` is the commit, and `versions` remembers
what has been committed: an accident may take the store back to one of them, not to a
mixture. `accidents` is the number of power cuts plus `misreads`: recovery takes *any* error
of reading the database for damage (`MisreadDb`) and overwrites it with a journal it has not
parsed, so an error that lasts a moment may undo the last write, or, if a crash cut the
backup short, destroy a database that was intact. The model has both, and the
properties say exactly what remains true.

### PaymentFlow

A payment `r` has a `status` and a `history`; `job[r]`, `tries[r]`, `stalls[r]` are its
BullMQ job, whose id is the reference. `seats[r]` counts the participant rows made with `r`.
`pot` is the tournament record (`pool` in buy-ins, `finished`), read and written by separate
transactions (`GetTournament`, `FinalizeTournament`, `ReadPot`, `WritePot`), whose
copies live in `copy[a]` of each actor meanwhile. `at[a]` is where a request, a job
or a join stands.

The confirm route compares the stored payment with a transaction that is not the Developer
Portal's: for WLD, USDC and MEMECOIN, the only tokens that `initiate-payment` stores,
`buildSimulatedTransaction` (51-72) makes it out of the stored payment and of the client's
own message. So whether a request's transaction matches (`Mismatched`) is up to the client,
and nothing in the model depends on what the portal would have said. The branch that asks
the portal (346-375) is out of reach and left out. `README.md:182` and
`docs/verification-checklist.md:26` of the repository promise that the backend checks
payments against the portal: the code does not, and no property here claims it. A seat is
tied to a payment that was stored and asked for, not to one that was made.

`ReadPayment`, `RejectPayment` and `Enqueue` are the confirm route;
`FindPayment` to `Notify` are `processPayment`; `ThrowJob` is what BullMQ does with a
job that throws, `WorkerCrash` with one whose worker died. `BeginJoin` and
`DecideJoin` are the join route, whose checks `JoinOutcome` takes in the order of the
code. `EraseUser` is `deleteUserDataset`, after which the user may verify again
(`VerifyAgain`), with the same wallet or another (`known`): the old sessions stay dead, but a
job under way may then seat the user for a payment that has been deleted, or be refused for
the wallet. `finalizeTournament` may refuse a result whose user is not there at any time
(`RequestFails`, `JobRefused`).

No join request ever succeeds: the route demands `upcoming` (`[tournamentId]/join/route.ts:97`)
and then calls a validation that demands `active` (`tournamentData.ts:258`), although
`e2eApiFlow.test.ts:191` expects success. Seats come from jobs alone.

Abstracted: audit entries and notifications are not state here, so a request is
answered right after its pot write; `ReadPayment` and `JoinOutcome` merge consecutive
snapshots of one handler, and that of the transaction, which has no effect; a missing
configuration ends a request like any error; an erased user stands for one whose
verification is gone, expiry itself is not modelled; a reference stands for one transaction;
a stalled job whose worker is still alive, and the eviction of old jobs
(`removeOnComplete: 1000`), are left out.

### TournamentLifecycle

One tournament, from `create/route.ts` or from the list in `config/tournaments.json`
(`configured`) to its recorded payouts. An actor is a request: the poller of the
notification job, a view of the leaderboard, a leaderboard stream, a `distribute`
request, or the pool increment of a confirmed payment. `req[a]` holds where it
stands and what it took with it: the record it read (`copy`), the rows it has yet to
write (`todo`, a `Promise.all`, so in any order), the leaderboard it will show or pay.

Every handler begins with `seedTournaments` (`SeedList`, `SeedRecord`, `SeedResult`) and
`getTournament`, which finalizes when the end has passed (`FindTournament`,
`AssignPrizes`, `WriteResult`, `FinishTournament`); a leaderboard is stored before it is
shown (`ListEntries`, `WriteResult`, `EntriesStored`). Each of them writes whole records
that it read in an earlier database call. Prizes in the rows go by the order of the
rows (`AssignPrizes`), those on a leaderboard by score (`Leaderboard`). `WriteResult` of
finalization asks for a live verification of the user, that of a leaderboard does not
(`skipUserValidation`). `Tick` is the interval of a stream, whose payload is computed
from the tournament as it was when the stream was opened.

Prize shares (`Dist`) are counted in parts of a percent, `Unit` of them to one. Those of a
tournament that `create/route.ts` made (`CreatedDist`) are what it accepts: any numbers that
add up to 100 (96-112), negative and fractional ones too. A negative share gives a negative
prize; a fractional one makes `BigInt` throw (`Throws`), which ends a finalization after the
rows before have been sent to be written, and a leaderboard before it is stored. Those of
`config/tournaments.json` (`ConfiguredDist`) are whole percentages.

What the model follows the code in, and a reader may not expect: seeded users are never
verified, so with seeded rows finalization throws `USER_NOT_FOUND`, and with it
`listTournaments` for everybody, until a leaderboard write happens to have set all
prizes (`Blocked`; the configured tournaments ended in August 2024). A leaderboard under
way brings back an erased result and reverts a newer score. Two distributions submitted
before the first is mined both record their payouts; a `recordTournamentPayouts` that fails
(`unrecorded`), or is never reached, leaves winners paid and no record.
`updateTournamentPoolAndLeaderboardEntry` (`SubmitScore`) is the only operation that enters
scores and has no caller yet; it is in the model because everything else presupposes it.

### WorldIdSession and PlayerData

A verification is the session: `POST /api/verify-world-id` looks up the nullifier, then
the user, asks the World ID cloud (`ProofAnswer`, external), and inserts, each in its own
transaction. `cache[p]` holds the three maps of a process; lookups consult the maps, then
the database, purge what has expired and fill the maps *inside* the operation, so that
a `persistDb` that fails leaves the maps ahead of the file (`InsertFault`,
`LookupFault`). `expired` is the set of tokens whose time has passed, which may happen
to any verification at any moment. `erased` and `forgotten` are history: the tokens whose
user was deleted, and those whose deletion a process has carried through.

`PlayerData` puts the routes beside it that work for a session: consents, export, game
progress, initiation of a payment, statistics, profile, and erasure. A request finds its
session (`FindSession`), remembers the identity (`seen`), and goes on by the steps of its
handler. `statsFile` is `data/player-stats.json`: `ReadStats`, `Truncate`, `Write` without
a lock, `Torn` between the last two; `deletePlayerStats` runs at the same time as
`deleteUserDataset` (`Promise.all`), so a deletion is two threads, `at[r]` and `file[r]`.
`ensureStore`'s branch for a missing file is merged with the initial state, since both
hold no entry; `initiate-payment` may be refused for its reference or its tournament at any
time (`CreatePayment`), and what it does for a reference that exists is `PaymentFlow`'s.

What the code leaves open, and no property claims: a process serves a session that
another one has erased, up to its expiry (seven days); two requests may bind one user to
two nullifiers (the insertion looks for the nullifier only); while a verification lives,
verifying again always gives 409; a wallet that changed in the database stays in the maps.

### NotificationQueue and SendNotification

`ProcessTournament`, `GetWallets`, `EnqueueChunk` are the cycle that every web process
runs each minute; `notified[p]` the sets `startNotified` and `endNotified` in its memory.
A job's id is the tournament, the announcement and the chunk's start, and the queue does
not add a job whose id it has (`Queued`), which is all that keeps two processes, or one
that was restarted, from announcing twice. A cycle begins with `listTournaments`, which
finalizes every tournament that has ended and rejects, for all of them, as long as one cannot
be (`refused`, `ListingTurns`): then it processes nothing. `StartJob` to `QueueForgets` are
the worker, its retries (`maxRetries` requests in an attempt, `attempts` attempts), BullMQ's
stalls, and `removeOnComplete`. A participant is a position in the list of wallets.

`Receive`, `Validate`, `MessageTaken`, `MessageRefused`, `MessageAnswerLost` are the route;
its replies are the places where a call ends (`BodyUnreadable`: a body that is no JSON). The
nonce is looked up and recorded at once, before the texts are sanitized, so a call refused by
`sanitizeText` has used its nonce up. `StartRotation` to `RotationFails` are
`rotateManagedKeys`, the unlocked key file and the environment that the keys go to. A file
that is missing or does not parse (`Unreadable`) is first replaced by the keys of the
environment (`Fallback`): the single key of each source, taken as set when a process starts,
and every entry of `NOTIFICATIONS_API_KEYS` (`Listed`). `reached`/`excuse` and
`sent`/`forgiven` are history: how often the portal took something, and what makes another
time legitimate (an answer lost, a worker or process that died, a job or nonce forgotten).

Also in the code and in the model: the rotation puts a random key in the place of
`DEV_PORTAL_API_KEY` (`notificationKeyRotationJob.ts:19`), so that after it the portal
refuses what the process sends; the route takes its own keys from the environment when
it is loaded and never from the key file; an answer whose body cannot be read is reported
as an error though the message was delivered; a failed job that the queue keeps swallows
later announcements of its id.

### TournamentManager

One action per external function, whose guard is the conjunction of its requires; a
transaction that reverts does nothing. `RankPlayers` does what the two loops of
`_rankPlayers` do, swap by swap: `Compared` is one exchange of the inner loop, and
`Placed`, the whole of it, is like `RankPlayers` a recursive function of its counter.
`Config` is the set of arguments with which tournaments may be asked for, valid and invalid
ones. `Scale` is 10 in place of `BPS_DENOMINATOR`. Tokens move exactly the amount asked for,
and signature recovery is the parameter `signer`, of which the contract requires that it is
the player.

`Rows` holds what these models do with tables and amounts: `filter` and `reduce`, as
recursive functions, of which `RowsProofs` says what they compute.

## 3. The runs

| Run | Instance | Shows |
|---|---|---|
| `db_lock` | 2 processes, 3 transactions, postgres dialect, one overdue, 1 crash or failed unlink | five safety properties, `EveryCallEnds`, `LockFileGoesAway` |
| `db_lock_doc` | sqlite dialect, nobody slow, 1 crash | `GlobalMutualExclusion` is **violated** |
| `db_file` | 3 calls, 3 failing operations, 2 crashes, 2 power cuts | refinement of `AtomicStore` and five invariants |
| `payments` | 2 payments of one player, 3 requests, 2 jobs, 1 fault | five safety properties |
| `payments_fair` | 1 payment, 2 requests of 2 sessions, a join, 1 fault, the tournament ends | `AcceptedIsSeated` |
| `payments_pot` | 1 payment, no fault | `PotCountsPaymentsOnce` is **violated** |
| `sessions` | 2 processes, 2 verifications of one person, 3 of 6 requests, 1 failing `persistDb` | five safety properties of sessions and erasure |
| `erasure` | 1 process, an erasure and a profile update, no failure | `ErasureIsComplete` is **violated** |
| `lifecycle` | poller and one of four requests, 2 players, 1 seed, 2 scores, 1 erasure, a configured or a created tournament | four safety properties and `EndedIsFinalized` |
| `notifications` | 2 processes, 2 calls of one nonce, 2 keys, 1 listed key, 3 events | three safety properties |
| `announcements` | 2 processes, up to 3 participants in chunks of 2, 3 events | `AnnouncedOnce` and `EndAnnounced` |
| `contract` | 2 tournaments of one token, 3 players with funds for two entries | five invariants and one action property |

**db_lock.** `MutualExclusion`: while no lockfile has been usurped at most one
transaction of all processes is inside. `CommittedSurvive`: what was reported as
written stays in the database. `UsurpedOnlyAfterExpiry`: no lock is taken from a live
owner before some lock is too old. `RowExclusion`: waiting, retrying and aborting
neither leave a row lock behind nor free another's, as long as no watchdog has dropped a
key by its age. Two processes and three transactions are enough for two of one process to
contend for rows and all three for the file; the third is needed to hold the lock that the
second takes away from the first. `Attempts` is 2 (`RETRY_ATTEMPTS` is 5): one retry and one
exhaustion. `MaxRounds` bounds the attempts of `withDbTransaction` before its
deadline, a bound that the code's `TRANSACTION_TIMEOUT_MS` imposes in time; it is 2 for one
call here.

`EveryCallEnds` and `LockFileGoesAway`: nobody waits for ever, and a dead process's lockfile
is removed. One fault is a crash or an unlink that fails, a caller's own or that of an
expired file. The safety properties are proved for any number of both; that every call ends
after a crash and a failed unlink is not checked. Without a bound on failed unlinks `LockFileGoesAway` would be false: a
lockfile that can never be unlinked stays, and every later call gives up.

**db_lock_doc.** `docs/data-layer-review.md:18` says writes assume a global mutual
exclusion. After one crash, with nobody slow, two waiting calls find the same expired
lockfile; the first unlinks it and creates its own; the second unlinks that one.

**db_file.** Three calls see every file state a predecessor may leave. Three faults
let an old journal survive two cleanups and then be needed; with two power cuts the second
may undo what recovery did after the first. `AcknowledgedSurvive` excepts an unlink of the
journal that failed and a power cut: `persistDb` answers before anything is on disk, so a
cut may take back what was acknowledged. `SettledSurvive` says what remains true with power
cuts: a write that had reached the disk is not lost by recovery or by a journal that comes
back. `RejectedStayOut` has no exception but an unreadable database;
`UnreadableOnlyWhenEmpty` says that without accident only an empty database can be lost.
Calls are interchangeable, which symmetry uses; the run has safety properties and a
refinement without fairness only. The system may stop when all calls have been made, so
deadlock is not checked.

**payments.** The second request about the first payment presents a transaction that
does not match: it marks the payment failed at any moment, also after it was
confirmed. `SeatIsVouched` ties a seat all the same to a confirmation that a worker wrote and
that the paying session asked for with a matching transaction, whatever the other requests
do; `OneSeatPerUser` holds with two jobs at once, `ErasedStaysErased` with a deletion
anywhere, until the user verifies again; `CompletedJobSeats` through retries and stalls. The
clock stands still in this run; it runs in `payments_fair`.

**payments_fair.** An accepted confirmation is followed by a seat, a job that used
up its attempts, or the user's erasure.

**payments_pot.** `docs/workers.md:31` describes confirmation as idempotent, yet the request
(`confirm-payment/route.ts:625`) and the job (`paymentWorker.ts:50`) each add the buy-in.

**sessions.** The two verifications name the same nullifier and user in different
processes, which is the race. `OneSessionPerPerson`: the second insertion notices although
both lookups found nothing. `ServedIsStored`: the maps run ahead of the file only as
described in section 2. `ErasedNotServed`: after the maps were cleared nothing that
overlapped the deletion puts the session back, because lookups run under the lock and the
clearing comes last. `ErasedStayErased`: progress and payments of an erased user are not
created again, by requests of either process. Three requests are the erasure and two
that overlap it.

**erasure.** `docs/privacy-gdpr.md:13` lists what a deletion removes, statistics and
consents among it. A profile update that has read the statistics file before
`deletePlayerStats` writes it back with the user in it, after the deletion was answered
with success. A consent being stored survives in the same way (`upsertUserConsent` does
not ask whether the user exists).

**lifecycle.** `PoolNeverInvented`: stale copies lose buy-ins and never add any.
`OneResultPerUser`: `upsertTournamentResult` merges, whoever writes. `PayoutWithinShares`:
one distribution's payouts are within the positive shares of the buy-ins (with no negative
share, within the buy-ins), although it pays by a leaderboard of an older pool and order.
`EndedIsFinalized`: an increment under way may put back the unfinished record, and the poller
finalizes again; it fails only while a row belongs to a user without a live verification, or
to a share that is no whole percentage (`Unpayable`). One request beside the poller is what
two overlapping writers take; the proofs of the safety properties hold for any number of
them. The shares are 60 and 40 of a configured tournament, and 150, -62.5 and 12.5 of a
created one: its first row alone gets more than the pool, and is bounded by its share; from
the second row on nothing can be computed, and the tournament is not finalized. Two scores
let one row overwrite another or change the order. Rows get negative prizes where a share is
negative and whole, which `docs/db/payments-tournaments-database.md:33` rules out; no
property claims the contrary.

**announcements.** `AnnouncedOnce` and `EndAnnounced` bound the announcements from both
sides: never twice without an excuse, and nobody with a seat, of whose chunk the queue has no
job yet, is left out unless the attempts ran out or `listTournaments` rejects for ever. A
participant seated after the job of their chunk was queued is never told, by any process: the
id of a later job is the same. Chunks of two make that possible in this run, and no property
claims otherwise.

**notifications.** `NonceOnce` is the same for callers of the route, and `OneKeyInForce` holds
for overlapping rotations of both processes, which may lose keys but not keep an old one in
force. The entries of `NOTIFICATIONS_API_KEYS` are exempted: a rotation that finds the file
unreadable writes them back, all in force. The cycles stand still in this run.

The bounds of both stand for 50 wallets in a chunk, 5 jobs at a time, 5 attempts of 3
requests, 10 calls a minute and 4 requests to the portal; with 2, 1, 2, 1, 1 and 2 each limit
is reached. `MaxEvents` counts what is not the cycle, the worker or a request under way: status
changes, seats, calls, expiries, rotations, restarts and faults; three give a call, its
duplicate and a restart, two rotations and a fault, or the end of the tournament, a late seat
and a restart.

In the runs of these three modules requests are finitely many, and the system may stop
when they have been made, so deadlock is not checked.

**contract.** `PoolMatchesPlayers`, `WinnersRanked` (the exchange sort, with ties),
`Solvent` (one balance, several tournaments), `PaidWithinPool` (rounding, fewer
players than prizes), `FinalizedIsFinal`. Two tournaments are what sharing takes; the
splits are three prizes, one prize, and one whose shares exceed the denominator.

### Fairness

`DbLock`: weak fairness of every transaction's step (the event loop runs every
continuation, and every delay ends), of the watchdog (`setInterval`), and of time
passing for a lockfile that may grow old. The calls of a process that died take no
further steps; the process is started again, and its watchdog with it.
`PaymentFlow`: weak fairness of each request and each job, as BullMQ hands a waiting
job to some worker; none of the portal, the clock, new requests or erasures.
`TournamentLifecycle`: of the poller alone, because `runTournamentNotificationCycle` lists
all tournaments every minute (`setInterval`); other requests may stop anywhere, as one
does whose process dies. `NotificationQueue`: of each process's cycle, and of the worker
taking up and carrying out some job; refusals and deaths are not fair, and `MaxEvents` bounds
how often they interfere. That `listTournaments` comes to answer is not fairness of the code,
and is a hypothesis of `EndAnnounced`. `SendNotification` and `PlayerData` have no liveness.

## 4. The proofs

All theorems are about the specifications with arbitrary constants, under the named
assumptions of their modules (`DbLockAssumption` and so on), which say what sort of thing
each constant is. What they say beyond that is in the code: `ConfiguredDist` and `CreatedDist`
in `TournamentLifecycle` are any sequences of integers in parts of a percent (`Unit`) that
add up to 100 percent, as `create/route.ts:96-112` demands, negative and fractional shares
included in the second; `IsFiniteSet(Id)` in `TournamentManager`, that tournaments are
created one at a time. The safety invariants, action properties and refinements that the
passing runs check are all theorems; most of them are not
inductive, and what follows says what had to be added.

**DbLockProofs.** `IInv` adds to the type invariant: `Owned` (as long as nothing was
usurped, a transaction inside is the lockfile's creator), `Fresh` (what a
transaction is about to write back is based on the database as it is), `Aged` (nobody is
about to unlink a lockfile unless some lock has expired), and `NothingHeld` (a call
before or after its row locks holds none). `MutualExclusion` is not inductive
without `Owned`, nor `CommittedSurvive` without `Fresh`. Theorems: `TypeCorrect`,
`Exclusion`, `NoLostUpdate`, `UsurpedLate`, `RowsApart`.

**DbFileProofs.** `Places` ties what a call holds in memory to the files it has it from;
`Good` says what a pair of database and journal has to be, whether it is the one of now or one
of `past` that a power cut may bring back: what can be loaded of it is a version that was
committed and holds what is settled (`Past` is preserved because only `Sync` makes anything
settled, and it empties `past`). `Kept` says that whatever may be loaded holds what was
acknowledged unless an unlink has failed or the power has, `Untouched` that no version has
the effect of a call that was refused or has not come to its rename, `Intact` that a torn
database is empty or the victim of an accident. `Empty`, that nothing can be lost before the
database exists, holds only together with `Pages`: the page cache has data of existing files
only, or a power cut could make a file appear.
`Refinement` goes step by step: `StoreStep` says of every step of `DbFile` that it
leaves what would be loaded (`Stutters`), adds the current call to it (`Commits`), loses it
while the database is first created (`LosesFirst`), is an accident that undoes or destroys
it (`Suffers`), or loses it later, when there has been one (`LosesLate`); each of these is a
step of `AtomicStore` or a stutter.
Theorems: `TypeCorrect`, `AcknowledgedStay`, `SettledStay`, `RejectedNeverStored`,
`UnreadableNeedsAccident`, `Refinement`.

**PaymentFlowProofs.** `IInv` adds: `JobsRun` (a job is somewhere inside
`processPayment` exactly while it is active), `Budget` (how often it can still be
tried), `OnlyVouched` (a job exists only for a payment that a request of its own session, with
a matching transaction, has vouched for), `OnlyConfirmed` (whatever is past `ConfirmPayment`
has a confirmation in its history), `HistoryIsChain` (a history is unbroken and ends in the
payment's status), `SeatedFirst` (a job at its notification has a seated
payer). The lemma
`JoinSeatsNobody` records that the join route adds no seat; without it
`OneSeatPerUser` would fail, since that route checks and adds in separate steps.
Theorems: `TypeCorrect`, `HistoryTells`, `SeatsAreVouched`, `SeatsAreSingle`,
`ErasureHolds`, `CompletionSeats`.

**TournamentLifecycleProofs.** Two invariants, one on the other. `PoolInv`: every copy of
the record that a request holds is covered by the buy-ins as well (`Sane`), since any of
them may be written back. `DataInv`: the results have one row a user, and what each
request has yet to write or to pay is in order (`Working`): a leaderboard being stored
shares the pool of the request's own copy (`Shared`), which `PoolInv` covers, and the
winners of a distribution are `Affordable` for the buy-ins so far, which only grow.
That the prizes a distribution pays fit the positive shares of its pool is arithmetic: a
player is at one rank (`Ranked`), so no share is given twice (`SumSelected`), a prize that is
paid is positive and so is its share (`PrizeShare`), and rounding loses (`SumScaled`). A
tournament is configured or created once and for all, so its shares stay (`SameDist`).
Theorems: `PoolHolds`, `TypeCorrect`, `OneRowEach`, `PayoutsHold`.

**PlayerDataProofs.** `Database` says of the stored verifications that they are genuine,
answered, of nobody erased and one a person, and that none is missing that is live
(`Good`, `Complete`); `Caches` that a map holds under its key only a record which a request
inserted and whose deletion this process has not carried through (`Known`): neither
`ServedIsStored` nor `ErasedNotServed` survives a step alone, because a lookup copies from
the database what the property of the database has to answer for. `Requests`: a handler
past its first step has an identity. `ErasedStayErased` needs `Complete`, since it is by
finding no verification that the writing handlers know of an erasure. The sessions' steps
are proved once (`SessionStepKeeps`) and used from every handler that looks one up.
Theorems: `TypeCorrect`, `OneSession`, `ServedAreStored`, `ErasedAreNotServed`, `ErasedStay`.

**SendNotificationProofs.** `QueueInv` says that a job's wallets
lie in the chunk its id names (`InChunk`) and that the deliveries to a participant
are at most the job's excuses, plus one when the job is done (`Delivered`). With
`JobOfChunk`, that a participant is in one chunk only, however many participants there
were when it was cut, `AnnouncementsHold` follows, for the announcements beside the route and
the rotations (a step of `QueueSpec` is one of theirs). `NonceInv`: a call that is dispatching
has its nonce recorded (`Held`) and is alone in that (`Alone`), and deliveries are at
most the excuses, plus one once the nonce is spent (`Accounted`); `NonceOnce` says nothing
of a call under way and is not inductive without the first two. `KeyInv`: not only the
file but each rotation's copy holds one key of a source in force beside the listed ones, and no
key there or in an environment has an id that has neither been minted nor listed.
`QueueTypes` and `CallBounds` add to the types that a job which may still be carried has attempts left
(`Trying`) and that no loop posts more often than its limit. Theorems:
`AnnouncementsHold`, `NoncesHold`, `KeysHold`, `TypeCorrect`.

**TournamentManagerProofs.** Three layers. `IInv`: the entries' types, that a
tournament which does not exist is empty, and `PoolMatchesPlayers`. `ResultInv`: who exists
has passed the requires (`Checked`), and a finalized tournament's winners are the first of its
players (`Decided`). `RankPlayersOrders` proves the exchange sort: `ComparedStep` and
`PlacedStep` are the invariants of the inner and outer loop (`Permuted`: still the same
players; `Best`: the place being filled has the best of those compared; `Ordered`: the
places filled are in order). `MoneyInv`: nothing is paid before the distribution, no
tournament pays more than its pool, and the balance of a token *is* the sum of what is owed
by its tournaments, which is what makes `Solvent` inductive when tournaments share a
token; each transfer changes one summand (`SumChanged`). Theorems: `TypeCorrect`,
`PoolIsBuyIns`, `WinnersAreBest`, `PaysFromPool`, `SolventAlways`, `FinalityHolds`.

**RowsProofs.** `Without` filters a table and `Sum` adds amounts; both, and the loops of
`_rankPlayers`, are recursive functions on numbers. The library's induction theorem takes a
predicate and cannot be used; `Induction` states it of a *set* that has 0 and is closed
under successor, from the least number principle, and `Recursion` says of a function on
`0 .. n` defined from its predecessor that it exists and satisfies its equation. From these:
the rows that are left are a subsequence of the table (`WithoutRows`), sums are monotone
under selection without repetition, scaling and change of one summand, and, as the pigeonhole
principle for ranks, that a strict order gives each row a rank of its own (`Ranked`).

Only model-checked: the liveness properties (`EveryCallEnds`, `LockFileGoesAway`,
`AcceptedIsSeated`, `EndedIsFinalized`, `EndAnnounced`), since liveness under fairness and
`ENABLED` are out of the prover's reach; and the three violations, which are
counterexamples and need no proof.

## 5. What is not modelled, and the plan

| Left out | Why |
|---|---|
| Audit log (`database.ts:515-705`): rotation, retention, forwarding | written and never read; every error is swallowed |
| Token amounts, input validation | no state; amounts are binary floating point, which TLA+'s integers do not show. Validation is the sets `Valid`, `WellFormed`, `Clean`, `Admitted` |
| `TournamentPool.sol` | nothing under `src/src` uses it |
| Pages, hooks, client services | rendering, and calls to the modelled routes; posts of progress that overtake one another (`game/page.tsx:87`) overwrite by design |
| The branch of `confirm-payment` that asks the Developer Portal (346-375) | no token that is stored reaches it |
| File systems that reorder changes of a directory | the disk keeps a prefix of them in `DbFile` |
| Metrics, environment, errors | no state that other parts read |
| Migrations, seeds, scripts | run by hand |
| Upstash rate limiter | an external service; the counter in memory is modelled |
| `revokeApiKey`, `resolveNotificationApiKey` | no caller |
| `notifyUpcomingTournaments.ts` | a stub whose lists are empty |
| The dead-letter file, delays of retries | never read; time is abstract |
| A stream whose client leaves before the first payload (`sse.ts:30-45`) | its interval is never cleared: a leak that nothing else depends on |
| A cycle that is still running when the next one of the same process begins | the cycles of two processes overlap in the same way |
| Erasure of a participant between two announcements | positions in the list of wallets would shift; in `NotificationQueue` the list only grows |

BullMQ is assumed to accept the job ids, which contain colons. `README.md:125` of the
repository says that send-notification takes its keys from
`data/notification-keys.json`; the route reads the environment only, and
`fallbackFromEnv` splits `NOTIFICATIONS_API_KEYS` at commas where the route parses JSON. No
property is about the first; in the second the model has whatever entries a rotation reads
there as `Listed`, and `OneKeyInForce` exempts them.

What would come next is the composition of `TournamentLifecycle` with the jobs of
`PaymentFlow`, for which the pool increment is a request of its own now.

There are twelve runs. Each module that has a state of its own has one; `payments_fair` is
apart from `payments`, since liveness takes a smaller instance and a clock that runs;
`announcements` from `notifications`, since the route and the rotations need no cycle beside
them; three show a disagreement with a document.
