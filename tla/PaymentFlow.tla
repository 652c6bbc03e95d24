----------------------------- MODULE PaymentFlow -----------------------------
(***************************************************************************)
(* A tournament buy-in, from the payment record to the seat:               *)
(*                                                                         *)
(*  - POST /api/initiate-payment creates the record;                       *)
(*  - POST /api/confirm-payment reads it, compares it with the            *)
(*    transaction, and either marks the payment failed or puts a job       *)
(*    on the BullMQ queue `payments' and adds the buy-in to the pot;       *)
(*  - the payment worker marks the payment confirmed, adds the buy-in to   *)
(*    the pot and seats the payer;                                         *)
(*  - POST /api/tournaments/../join checks a confirmed payment;            *)
(*  - DELETE /api/player/data erases a user, who may verify again.         *)
(*                                                                         *)
(* The transaction is not the Developer Portal's: for WLD, USDC and        *)
(* MEMECOIN, the only tokens a payment is stored with, confirm-payment     *)
(* builds the portal's answer itself, out of the stored payment and of     *)
(* what the client sent.  Nothing here depends on what the portal would    *)
(* have said.                                                              *)
(*                                                                         *)
(* Every step is one database transaction or snapshot or one queue         *)
(* operation: between two of them other requests and other workers run.    *)
(* That transactions are atomic is DbLock's and DbFile's subject.          *)
(*                                                                         *)
(* One tournament.  A reference is initiated by one session (it is a       *)
(* client-side UUID) and stands for one transaction.  The pot counts       *)
(* buy-ins.  The results that finalizeTournament also writes are not here: *)
(* it may refuse one of them (USER_NOT_FOUND) whenever it runs.            *)
(***************************************************************************)
EXTENDS Naturals, Sequences, FiniteSets

CONSTANTS
    User, Session, UserOf,  \* world_id_verifications: the user of each session
    Ref, Payer,             \* payments and the session that initiates each
    Call, CallRef, CallBy,  \* confirm-payment requests: reference and session
    Mismatched,             \* requests whose transaction does not match the payment
    Joiner,                 \* sessions that POST to the join route
    MaxPlayers,             \* max_players
    Attempts,               \* QUEUE_MAX_RETRIES, counted from 1
    MaxStalls,              \* BullMQ's maxStalledCount
    LastPhase,              \* bound: how far the clock goes
    MaxFaults               \* bound: failed database or queue operations, and crashes

ASSUME PaymentFlowAssumption ==
    /\ UserOf \in [Session -> User]
    /\ Payer \in [Ref -> Session]
    /\ CallRef \in [Call -> Ref] /\ CallBy \in [Call -> Session]
    /\ Mismatched \subseteq Call /\ Joiner \subseteq Session
    /\ Call \cap Ref = {} /\ Call \cap Joiner = {} /\ Ref \cap Joiner = {}
    /\ MaxPlayers \in Nat /\ Attempts \in Nat \ {0}
    /\ MaxStalls \in Nat /\ MaxFaults \in Nat
    /\ LastPhase \in {"upcoming", "active", "over"}

VARIABLES
    status,     \* of each payment record, or "none"
    history,    \* payment_status_history of each payment: [old, new]
    seats,      \* tournament_participants: how many rows refer to each payment
    known,      \* whether world_id_verifications holds the user, with the payments' wallet
    erased,     \* users whose data has been deleted, and with it their sessions
    pot,        \* the stored tournament: prize_pool in buy-ins, status finished
    phase,      \* the clock against start_time and end_time
    job,        \* the BullMQ job payment:<reference>
    tries,      \* attempts of the job that have failed
    stalls,     \* times it was found stalled
    at,         \* where each request and each job stands
    copy,       \* the tournament record each of them last read
    joinSaw,    \* the tournament status each join request got
    faults

paymentVars == <<status, history>>
queueVars   == <<job, tries, stalls>>
tournament  == <<pot, phase, seats>>
users       == <<known, erased>>
vars == <<paymentVars, users, tournament, queueVars, at, copy, joinSaw, faults>>

Actor   == Call \cup Ref \cup Joiner   \* a job is named by its payment
Payee(r) == UserOf[Payer[r]]           \* payments.user_id
Seated(u) == \E r \in Ref : Payee(r) = u /\ seats[r] > 0

Status == {"pending", "confirmed", "failed"}
Entry  == [old : Status \cup {"none"}, new : Status]  \* of payment_status_history
Pot    == [pool : Nat, finished : BOOLEAN]
Answer == {"ok", "already", "rejected", "error"}
JoinAnswer == {"started", "full", "seated", "unpaid", "inactive", "joined", "gone"}
Place  == {"idle", "reject", "enqueue", "find", "update", "tournament",
           "finalize", "readPot", "writePot", "exists", "seat", "notify", "decide"}

NewPot == [pool |-> 0, finished |-> FALSE]

Init ==
    /\ status = [r \in Ref |-> "none"]
    /\ history = [r \in Ref |-> <<>>]
    /\ seats = [r \in Ref |-> 0]
    /\ known = [u \in User |-> "present"]
    /\ erased = {}
    /\ pot = NewPot
    /\ phase = "upcoming"
    /\ job = [r \in Ref |-> "none"]
    /\ tries = [r \in Ref |-> 0]
    /\ stalls = [r \in Ref |-> 0]
    /\ at = [a \in Actor |-> "idle"]
    /\ copy = [a \in Actor |-> NewPot]
    /\ joinSaw = [s \in Joiner |-> "upcoming"]
    /\ faults = 0

Goto(a, place) == at' = [at EXCEPT ![a] = place]
Forget(a) == copy' = [copy EXCEPT ![a] = NewPot]

----------------------------------------------------------------------------
(* Payment records.                                                        *)

\* createPaymentRecord: the reference is new, and the user is there with the wallet.  (The
\* route's own lookup of the reference decides only the answer; its lookup of the session,
\* which is gone once the user's data has been deleted, is taken as part of the step.)
InitiatePayment(r) ==
    /\ status[r] = "none"
    /\ known[Payee(r)] = "present" /\ Payee(r) \notin erased
    /\ status' = [status EXCEPT ![r] = "pending"]
    /\ history' = [history EXCEPT ![r] = <<[old |-> "none", new |-> "pending"]>>]
    /\ UNCHANGED <<users, tournament, queueVars, at, copy, joinSaw, faults>>

\* updatePaymentStatus overwrites whatever status it finds; without a record it
\* does nothing.
UpdatePaymentStatus(r, new) ==
    IF status[r] = "none" THEN UNCHANGED paymentVars
    ELSE /\ status' = [status EXCEPT ![r] = new]
         /\ history' = [history EXCEPT ![r] = Append(@, [old |-> status[r], new |-> new])]

\* deleteUserDataset
EraseUser(u) ==
    LET Theirs == {r \in Ref : Payee(r) = u}
    IN  /\ known[u] # "absent"
        /\ known' = [known EXCEPT ![u] = "absent"]
        /\ erased' = erased \cup {u}
        /\ status' = [r \in Ref |-> IF r \in Theirs THEN "none" ELSE status[r]]
        /\ history' = [r \in Ref |-> IF r \in Theirs THEN <<>> ELSE history[r]]
        /\ seats' = [r \in Ref |-> IF r \in Theirs THEN 0 ELSE seats[r]]
        /\ UNCHANGED <<pot, phase, queueVars, at, copy, joinSaw, faults>>

\* insertWorldIdVerification: the user verifies again, with the wallet of the payments
\* or with another.  The sessions are new ones: the ones of Session stay dead.
VerifyAgain(u) ==
    /\ known[u] = "absent"
    /\ \E state \in {"present", "moved"} : known' = [known EXCEPT ![u] = state]
    /\ UNCHANGED <<paymentVars, erased, tournament, queueVars, at, copy, joinSaw, faults>>

----------------------------------------------------------------------------
(* The tournament record, shared by requests and jobs.                     *)

\* resolveTournamentStatus
TournamentStatus(record) == IF record.finished \/ phase = "over" THEN "finished" ELSE phase

TimePasses ==
    /\ phase # LastPhase
    /\ phase' = IF phase = "upcoming" THEN "active" ELSE "over"
    /\ UNCHANGED <<paymentVars, users, pot, seats, queueVars, at, copy, joinSaw, faults>>

\* getTournament reads the record; one that has just ended has to be finalized.
GetTournament(a) ==
    LET NotFinalized == TournamentStatus(pot) = "finished" /\ ~pot.finished
    IN  /\ at[a] = "tournament"
        /\ copy' = [copy EXCEPT ![a] = IF NotFinalized THEN pot ELSE NewPot]
        /\ Goto(a, IF NotFinalized THEN "finalize"
                   ELSE IF a \in Joiner THEN "decide" ELSE "readPot")
        /\ joinSaw' = IF a \in Joiner
                      THEN [joinSaw EXCEPT ![a] = TournamentStatus(pot)] ELSE joinSaw
        /\ UNCHANGED <<paymentVars, users, tournament, queueVars, faults>>

\* finalizeTournament writes the whole record it has read, marked finished.
FinalizeTournament(a) ==
    /\ at[a] = "finalize"
    /\ pot' = [copy[a] EXCEPT !.finished = TRUE]
    /\ Forget(a)
    /\ Goto(a, IF a \in Joiner THEN "decide" ELSE "readPot")
    /\ UNCHANGED <<paymentVars, users, phase, seats, queueVars, joinSaw, faults>>

\* incrementTournamentPool reads the record ...
ReadPot(a) ==
    /\ at[a] = "readPot"
    /\ copy' = [copy EXCEPT ![a] = pot]
    /\ Goto(a, "writePot")
    /\ UNCHANGED <<paymentVars, users, tournament, queueVars, joinSaw, faults>>

\* ... and writes the whole of it back in a transaction of its own.  A request is
\* then answered; a job goes on.
WritePot(a) ==
    /\ at[a] = "writePot"
    /\ pot' = [copy[a] EXCEPT !.pool = @ + 1]
    /\ Forget(a)
    /\ Goto(a, IF a \in Call THEN "ok" ELSE "exists")
    /\ UNCHANGED <<paymentVars, users, phase, seats, queueVars, joinSaw, faults>>

----------------------------------------------------------------------------
(* POST /api/confirm-payment.                                              *)

\* Fault: the transaction is not compared with the stored payment.
ReadPayment_AnyTransaction(c) ==
    LET r == CallRef[c]
    IN  /\ at[c] = "idle"
        /\ Goto(c, IF UserOf[CallBy[c]] \in erased \/ status[r] = "none" THEN "error"
                   ELSE IF status[r] = "confirmed" THEN "already"
                   ELSE IF CallBy[c] # Payer[r] THEN "reject"
                   ELSE "enqueue")
        /\ UNCHANGED <<paymentVars, users, tournament, queueVars, copy, joinSaw, faults>>

\* The session, the stored payment and the transaction that stands in for the portal's
\* (buildSimulatedTransaction) decide: unknown, already confirmed, another session's or
\* not matching, or accepted.
ReadPayment(c) ==
    LET r == CallRef[c]
    IN  /\ at[c] = "idle"
        /\ Goto(c, IF UserOf[CallBy[c]] \in erased \/ status[r] = "none" THEN "error"
                   ELSE IF status[r] = "confirmed" THEN "already"
                   ELSE IF CallBy[c] # Payer[r] \/ c \in Mismatched THEN "reject"
                   ELSE "enqueue")
        /\ UNCHANGED <<paymentVars, users, tournament, queueVars, copy, joinSaw, faults>>

\* The payment is marked failed, whatever has become of it since it was read.
RejectPayment(c) ==
    /\ at[c] = "reject"
    /\ UpdatePaymentStatus(CallRef[c], "failed")
    /\ Goto(c, "rejected")
    /\ UNCHANGED <<users, tournament, queueVars, copy, joinSaw, faults>>

\* enqueuePaymentProcessing: a job that the queue still keeps, finished or not, is
\* not added again.
Enqueue(c) ==
    LET r == CallRef[c]
    IN  /\ at[c] = "enqueue"
        /\ job' = [job EXCEPT ![r] = IF @ = "none" THEN "waiting" ELSE @]
        /\ Goto(c, "tournament")
        /\ UNCHANGED <<paymentVars, users, tournament, tries, stalls, copy, joinSaw, faults>>

\* A database or queue error, or a crash, ends the request with a 5xx.  So does
\* finalizeTournament when a result of the tournament is of a user who is not there.
RequestFails(a) ==
    /\ at[a] \in Place \ {"idle"}
    /\ \/ faults < MaxFaults /\ faults' = faults + 1
       \/ at[a] = "finalize" /\ UNCHANGED faults
    /\ Forget(a)
    /\ Goto(a, "error")
    /\ UNCHANGED <<paymentVars, users, tournament, queueVars, joinSaw>>

----------------------------------------------------------------------------
(* The payment worker.                                                     *)

StartJob(r) ==
    /\ job[r] = "waiting"
    /\ job' = [job EXCEPT ![r] = "active"]
    /\ Goto(r, "find")
    /\ UNCHANGED <<paymentVars, users, tournament, tries, stalls, copy, joinSaw, faults>>

\* Fault: a payment that is already confirmed is taken for one already processed.
FindPayment_SkipConfirmed(r) ==
    /\ at[r] = "find"
    /\ status[r] # "none"
    /\ Goto(r, IF status[r] = "confirmed" THEN "notify" ELSE "update")
    /\ UNCHANGED <<paymentVars, users, tournament, queueVars, copy, joinSaw, faults>>

\* processPayment: a payment already confirmed is not written again.
FindPayment(r) ==
    /\ at[r] = "find"
    /\ status[r] # "none"
    /\ Goto(r, IF status[r] = "confirmed" THEN "tournament" ELSE "update")
    /\ UNCHANGED <<paymentVars, users, tournament, queueVars, copy, joinSaw, faults>>

ConfirmPayment(r) ==
    /\ at[r] = "update"
    /\ UpdatePaymentStatus(r, "confirmed")
    /\ Goto(r, "tournament")
    /\ UNCHANGED <<users, tournament, queueVars, copy, joinSaw, faults>>

\* participantExists
ParticipantExists(r) ==
    /\ at[r] = "exists"
    /\ Goto(r, IF Seated(Payee(r)) THEN "notify" ELSE "seat")
    /\ UNCHANGED <<paymentVars, users, tournament, queueVars, copy, joinSaw, faults>>

\* Fault: participantExists is the only look at who is seated.
SeatPlayer_NoRecheck(r) ==
    /\ at[r] = "seat"
    /\ known[Payee(r)] = "present"
    /\ seats' = [seats EXCEPT ![r] = @ + 1]
    /\ Goto(r, "notify")
    /\ UNCHANGED <<paymentVars, users, pot, phase, queueVars, copy, joinSaw, faults>>

\* Fault: the user is not looked up before the participant is added.
SeatPlayer_AnyUser(r) ==
    /\ at[r] = "seat"
    /\ seats' = IF Seated(Payee(r)) THEN seats ELSE [seats EXCEPT ![r] = @ + 1]
    /\ Goto(r, "notify")
    /\ UNCHANGED <<paymentVars, users, pot, phase, queueVars, copy, joinSaw, faults>>

\* addTournamentParticipant: the user must exist, with the wallet of the payment, and is
\* seated once.
SeatPlayer(r) ==
    /\ at[r] = "seat"
    /\ known[Payee(r)] = "present"
    /\ seats' = IF Seated(Payee(r)) THEN seats ELSE [seats EXCEPT ![r] = @ + 1]
    /\ Goto(r, "notify")
    /\ UNCHANGED <<paymentVars, users, pot, phase, queueVars, copy, joinSaw, faults>>

\* enqueueNotification, and the job is complete.
Notify(r) ==
    /\ at[r] = "notify"
    /\ job' = [job EXCEPT ![r] = "completed"]
    /\ Goto(r, "idle")
    /\ UNCHANGED <<paymentVars, users, tournament, tries, stalls, copy, joinSaw, faults>>

\* Fault: a job is tried again however often it has failed.
ThrowJob_Unlimited(r) ==
    /\ job' = [job EXCEPT ![r] = "waiting"]
    /\ tries' = [tries EXCEPT ![r] = @ + 1]
    /\ Forget(r)
    /\ Goto(r, "idle")

\* A job that throws is tried again, from its beginning, up to `attempts' times.
ThrowJob(r) ==
    /\ job' = [job EXCEPT ![r] = IF tries[r] + 1 < Attempts THEN "waiting" ELSE "failed"]
    /\ tries' = [tries EXCEPT ![r] = @ + 1]
    /\ Forget(r)
    /\ Goto(r, "idle")

\* The payment or the user is no longer there, the user has another wallet now, or
\* finalizeTournament refuses a result whose user is not there.
JobRefused(r) ==
    /\ \/ at[r] = "find" /\ status[r] = "none"
       \/ at[r] = "seat" /\ known[Payee(r)] # "present"
       \/ at[r] = "finalize"
    /\ ThrowJob(r)
    /\ UNCHANGED <<paymentVars, users, tournament, stalls, joinSaw, faults>>

\* A database or queue operation of the job fails.
JobFails(r) ==
    /\ job[r] = "active"
    /\ faults < MaxFaults
    /\ faults' = faults + 1
    /\ ThrowJob(r)
    /\ UNCHANGED <<paymentVars, users, tournament, stalls, joinSaw>>

\* The worker process dies; BullMQ finds the job stalled and hands it out again, up to
\* maxStalledCount times (external).
WorkerCrash(r) ==
    /\ job[r] = "active"
    /\ faults < MaxFaults
    /\ faults' = faults + 1
    /\ stalls' = [stalls EXCEPT ![r] = @ + 1]
    /\ job' = [job EXCEPT ![r] = IF stalls[r] < MaxStalls THEN "waiting" ELSE "failed"]
    /\ Forget(r)
    /\ Goto(r, "idle")
    /\ UNCHANGED <<paymentVars, users, tournament, tries, joinSaw>>

----------------------------------------------------------------------------
(* POST /api/tournaments/../join.                                          *)

BeginJoin(s) ==
    /\ at[s] = "idle"
    /\ Goto(s, "tournament")
    /\ UNCHANGED <<paymentVars, users, tournament, queueVars, copy, joinSaw, faults>>

\* currentPlayers, the number of rows (there is never more than one of a payment).
Players == Cardinality({r \in Ref : seats[r] > 0})

\* The checks of the route, in their order, for a request that presents reference r.
JoinOutcome(s, r) ==
    IF UserOf[s] \in erased            THEN "gone"
    ELSE IF joinSaw[s] # "upcoming"    THEN "started"
    ELSE IF Players >= MaxPlayers      THEN "full"
    ELSE IF Seated(UserOf[s])          THEN "seated"
    ELSE IF status[r] # "confirmed"    THEN "unpaid"
    ELSE IF joinSaw[s] # "active"      THEN "inactive"  \* validateTokenForTournament
    ELSE "joined"

DecideJoin(s, r) ==
    /\ at[s] = "decide"
    /\ Payer[r] = s
    /\ seats' = IF JoinOutcome(s, r) = "joined"
                THEN [seats EXCEPT ![r] = @ + 1] ELSE seats
    /\ Goto(s, JoinOutcome(s, r))
    /\ UNCHANGED <<paymentVars, users, pot, phase, queueVars, copy, joinSaw, faults>>

----------------------------------------------------------------------------

CallStep(c) == ReadPayment(c) \/ RejectPayment(c) \/ Enqueue(c)

JobStep(r) ==
    \/ StartJob(r) \/ FindPayment(r) \/ ConfirmPayment(r) \/ ParticipantExists(r)
    \/ SeatPlayer(r) \/ Notify(r) \/ JobRefused(r)

TournamentStep(a) == GetTournament(a) \/ FinalizeTournament(a) \/ ReadPot(a) \/ WritePot(a)

Next ==
    \/ \E r \in Ref : InitiatePayment(r)
    \/ \E r \in Ref : JobStep(r) \/ JobFails(r) \/ WorkerCrash(r)
    \/ \E c \in Call : CallStep(c)
    \/ \E a \in Call \cup Joiner : RequestFails(a)
    \/ \E a \in Actor : TournamentStep(a)
    \/ \E s \in Joiner : BeginJoin(s) \/ \E r \in Ref : DecideJoin(s, r)
    \/ \E u \in User : EraseUser(u) \/ VerifyAgain(u)
    \/ TimePasses

Spec == Init /\ [][Next]_vars

\* Requests, workers and the retries of BullMQ go on; nothing else has to happen.
FairSpec ==
    /\ Spec
    /\ \A c \in Call : WF_vars(CallStep(c) \/ TournamentStep(c))
    /\ \A r \in Ref : WF_vars(JobStep(r) \/ TournamentStep(r))

----------------------------------------------------------------------------
(* Properties.                                                             *)

\* Every variable stays in its domain; a job is tried at most `attempts' times.
TypeOK ==
    /\ status \in [Ref -> Status \cup {"none"}]
    /\ history \in [Ref -> Seq(Entry)]
    /\ seats \in [Ref -> Nat]
    /\ known \in [User -> {"present", "absent", "moved"}]
    /\ erased \subseteq User
    /\ pot \in Pot
    /\ phase \in {"upcoming", "active", "over"}
    /\ job \in [Ref -> {"none", "waiting", "active", "completed", "failed"}]
    /\ tries \in [Ref -> 0..Attempts]
    /\ stalls \in [Ref -> 0..(MaxStalls + 1)]
    /\ at \in [Actor -> Place \cup Answer \cup JoinAnswer]
    /\ copy \in [Actor -> Pot]
    /\ joinSaw \in [Joiner -> {"upcoming", "active", "finished"}]
    /\ faults \in 0..MaxFaults

WasConfirmed(r) == \E i \in DOMAIN history[r] : history[r][i].new = "confirmed"

\* A request of the payment's own session, with a transaction that matches, has been made.
Vouched(r) ==
    \E c \in Call :
        /\ CallRef[c] = r /\ CallBy[c] = Payer[r] /\ c \notin Mismatched
        /\ at[c] \notin {"idle", "already", "reject", "rejected"}

\* A seat goes back to its payment: the session that initiated it has asked for the
\* confirmation with a transaction that matches, and a worker has confirmed it, whatever
\* other requests about the payment were made; unless the user's data has been deleted.
SeatIsVouched ==
    \A r \in Ref : seats[r] > 0 => Payee(r) \in erased \/ (WasConfirmed(r) /\ Vouched(r))

\* Two payments of one player, handled by two workers at once, give one seat.
OneSeatPerUser ==
    \A r, q \in Ref :
        /\ seats[r] <= 1
        /\ seats[r] > 0 /\ seats[q] > 0 /\ Payee(r) = Payee(q) => r = q

\* Nothing of an erased user comes back before the user verifies again: a request or a
\* job that was under way when the data was deleted re-creates neither a payment nor a
\* seat.
ErasedStaysErased ==
    \A u \in User : known[u] = "absent" =>
        ~Seated(u) /\ \A r \in Ref : Payee(r) = u => status[r] = "none"

\* A completed job has done its work: the payer is seated.
CompletedJobSeats ==
    \A r \in Ref : job[r] = "completed" => Seated(Payee(r)) \/ Payee(r) \in erased

\* An accepted confirmation is followed by a seat, unless the job has used up its
\* attempts or the user has been erased.
AcceptedIsSeated ==
    \A c \in Call : LET r == CallRef[c] IN
        at[c] = "ok" ~> Seated(Payee(r)) \/ job[r] = "failed" \/ Payee(r) \in erased

\* The reading of docs/workers.md: confirming a payment is idempotent, and puts its
\* buy-in into the pot once.
PotCountsPaymentsOnce == pot.pool <= Cardinality({r \in Ref : job[r] # "none"})
=============================================================================
