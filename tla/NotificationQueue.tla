------------------------- MODULE NotificationQueue -------------------------
(***************************************************************************)
(* The announcements of one tournament's start and end: the cycle that     *)
(* every web process runs each minute, the queue `notifications' and the   *)
(* worker that carries its jobs to the Developer Portal.                   *)
(*                                                                         *)
(* A cycle announces to the participants of the moment, in chunks of       *)
(* MaxWallets, each a job whose id names the tournament, the announcement  *)
(* and the chunk's first position; the queue ignores a job whose id it     *)
(* has.  What has been announced is remembered in the process's memory.    *)
(*                                                                         *)
(* A participant is its position in the list of distinct wallets, which    *)
(* only grows here.  The processes may start at any time of the tournament.*)
(* The queue is Redis and BullMQ, modelled from its use.                   *)
(***************************************************************************)
EXTENDS Naturals, FiniteSets

CONSTANTS
    Process,        \* web processes
    Registered,     \* how many participants there may be to begin with
    MaxSeats,       \* bound: participants
    MaxWallets,     \* MAX_WALLETS_PER_REQUEST
    Concurrency,    \* NOTIFICATION_WORKER_CONCURRENCY: jobs under way at a time
    attempts,       \* of a job
    maxRetries,     \* requests of one attempt
    MaxStalls,      \* BullMQ: how often a stalled job is handed out again
    MaxEvents       \* bound: status changes, seats, calls, rotations and faults

ASSUME NotificationQueueAssumption ==
    /\ {MaxWallets, Concurrency, attempts, maxRetries} \subseteq Nat \ {0}
    /\ {MaxSeats, MaxStalls, MaxEvents} \subseteq Nat /\ Registered \subseteq 0 .. MaxSeats

VARIABLES
    phase,      \* status of the tournament
    refused,    \* whether listTournaments rejects
    seated,     \* number of participants with a valid wallet
    notified,   \* per process: startNotified, endNotified
    cycle,      \* where the cycle of each process stands
    job,        \* the queue, by job id
    reached,    \* how often the portal took an announcement to a participant
    excuse,     \* of each job: losses that make another delivery legitimate
    events

jobVars == <<job, reached, excuse>>
queueVars == <<phase, refused, seated, notified, cycle, jobVars, events>>

Announcement == {"start", "end"}
Seat == 1 .. MaxSeats
JobId == Announcement \X {i \in 0 .. MaxSeats : i < MaxSeats /\ i % MaxWallets = 0}
Idle == [at |-> "idle", ann |-> "start", n |-> 0, next |-> 0]
NoJob == [at |-> "none", wallets |-> {}, made |-> 0, stalls |-> 0, requests |-> 0]

QueueInit ==
    /\ phase \in {"upcoming", "active", "finished"} /\ refused \in BOOLEAN
    /\ seated \in Registered
    /\ notified = [p \in Process |-> {}]
    /\ cycle = [p \in Process |-> Idle]
    /\ job = [k \in JobId |-> NoJob]
    /\ reached = [x \in Announcement \X Seat |-> 0]
    /\ excuse = [k \in JobId |-> 0]
    /\ events = 0

Happens == events < MaxEvents /\ events' = events + 1

TimePasses ==
    /\ phase # "finished"
    /\ Happens
    /\ phase' = IF phase = "upcoming" THEN "active" ELSE "finished"
    /\ UNCHANGED <<refused, seated, notified, cycle, jobVars>>

\* listTournaments finalizes all the tournaments whose end has passed, and rejects as long
\* as one of them cannot be (Blocked and Unpayable of TournamentLifecycle).
ListingTurns ==
    /\ refused' = ~refused
    /\ Happens
    /\ UNCHANGED <<phase, seated, notified, cycle, jobVars>>

\* A payment job seats its payer whatever the status (PaymentFlow).
SeatParticipant ==
    /\ seated < MaxSeats
    /\ seated' = seated + 1
    /\ Happens
    /\ UNCHANGED <<phase, refused, notified, cycle, jobVars>>

----------------------------------------------------------------------------
(* runTournamentNotificationCycle of process p.                            *)

\* listTournaments has answered; what is announced goes by the status of now.  A cycle
\* that it rejects processes nothing.
ProcessTournament(p) ==
    /\ cycle[p].at = "idle" /\ ~refused
    /\ \E a \in Announcement \ notified[p] :
           /\ phase = IF a = "start" THEN "active" ELSE "finished"
           /\ cycle' = [cycle EXCEPT ![p] = [Idle EXCEPT !.at = "wallets", !.ann = a]]
    /\ UNCHANGED <<phase, refused, seated, notified, jobVars, events>>

\* The flag is set when notifyParticipants returns, also when there was nobody to notify.
Remember(p) ==
    /\ cycle' = [cycle EXCEPT ![p] = Idle]
    /\ notified' = [notified EXCEPT ![p] = @ \cup {cycle[p].ann}]

GetWallets(p) ==
    /\ cycle[p].at = "wallets"
    /\ IF seated = 0
       THEN Remember(p)
       ELSE /\ cycle' = [cycle EXCEPT ![p] = [@ EXCEPT !.at = "enqueue", !.n = seated]]
            /\ UNCHANGED notified
    /\ UNCHANGED <<phase, refused, seated, jobVars, events>>

\* Positions of the chunk that starts after i of n wallets.
Chunk(i, n) == {w \in (i + 1) .. n : w <= i + MaxWallets}

\* Fault: a finished job gives way to another one of its id.
Queued_Again(k, wallets) ==
    IF job[k].at \in {"waiting", "active"} THEN job
    ELSE [job EXCEPT ![k] = [NoJob EXCEPT !.at = "waiting", !.wallets = wallets]]

\* A job that is still known by its id is not added again.
Queued(k, wallets) ==
    IF job[k].at # "none" THEN job
    ELSE [job EXCEPT ![k] = [NoJob EXCEPT !.at = "waiting", !.wallets = wallets]]

EnqueueChunk(p) ==
    LET c == cycle[p]
    IN  /\ c.at = "enqueue"
        /\ job' = Queued(<<c.ann, c.next>>, Chunk(c.next, c.n))
        /\ IF c.next + MaxWallets < c.n
           THEN /\ cycle' = [cycle EXCEPT ![p].next = @ + MaxWallets]
                /\ UNCHANGED notified
           ELSE Remember(p)
        /\ UNCHANGED <<phase, refused, seated, reached, excuse, events>>

\* The database or the queue fails: the cycle rejects, and the flag stays as it is.
CycleFails(p) ==
    /\ cycle[p].at \in {"wallets", "enqueue"}
    /\ Happens
    /\ cycle' = [cycle EXCEPT ![p] = Idle]
    /\ UNCHANGED <<phase, refused, seated, notified, jobVars>>

\* What a restart of the process loses.
ForgetCycle(p) ==
    /\ notified' = [notified EXCEPT ![p] = {}]
    /\ cycle' = [cycle EXCEPT ![p] = Idle]

RestartCycle(p) ==
    /\ Happens
    /\ ForgetCycle(p)
    /\ UNCHANGED <<phase, refused, seated, jobVars>>

----------------------------------------------------------------------------
(* The worker.                                                             *)

StartJob(k) ==
    /\ job[k].at = "waiting"
    /\ Cardinality({i \in JobId : job[i].at = "active"}) < Concurrency
    /\ job' = [job EXCEPT ![k].at = "active", ![k].requests = 0]
    /\ UNCHANGED <<phase, refused, seated, notified, cycle, reached, excuse, events>>

\* The portal has taken the request of job k.
Deliver(k) ==
    reached' = [x \in DOMAIN reached |->
                   reached[x] + IF x[1] = k[1] /\ x[2] \in job[k].wallets THEN 1 ELSE 0]

Excused(k) == excuse' = [excuse EXCEPT ![k] = @ + 1]

\* Fault: the worker does not throw when sendNotification reports a failure.
Unanswered_Swallowed(k) == job' = [job EXCEPT ![k].at = "done"]

\* performDeveloperRequest asks again up to maxRetries times; then the request goes to
\* the dead-letter log, the job throws, and BullMQ tries it again `attempts' times.
Unanswered(k) ==
    LET j == job[k]
    IN  job' = [job EXCEPT ![k] =
            IF j.requests + 1 < maxRetries THEN [j EXCEPT !.requests = j.requests + 1]
            ELSE [j EXCEPT !.made = j.made + 1, !.requests = 0,
                           !.at = IF j.made + 1 < attempts THEN "waiting" ELSE "failed"]]

PortalAccepts(k) ==
    /\ job[k].at = "active"
    /\ Deliver(k)
    /\ job' = [job EXCEPT ![k].at = "done"]
    /\ UNCHANGED <<phase, refused, seated, notified, cycle, excuse, events>>

PortalRefuses(k) ==
    /\ job[k].at = "active"
    /\ Happens
    /\ Unanswered(k)
    /\ UNCHANGED <<phase, refused, seated, notified, cycle, reached, excuse>>

AnswerLost(k) ==
    /\ job[k].at = "active"
    /\ Happens
    /\ Deliver(k) /\ Excused(k) /\ Unanswered(k)
    /\ UNCHANGED <<phase, refused, seated, notified, cycle>>

\* The worker process dies, perhaps with a request at the portal.
WorkerDies(k) ==
    /\ job[k].at = "active"
    /\ Happens
    /\ job' = [job EXCEPT ![k].stalls = @ + 1,
                          ![k].at = IF job[k].stalls < MaxStalls THEN "waiting" ELSE "failed"]
    /\ \/ Deliver(k) /\ Excused(k)
       \/ UNCHANGED <<reached, excuse>>
    /\ UNCHANGED <<phase, refused, seated, notified, cycle>>

\* removeOnComplete and removeOnFail: only so many finished jobs are kept.
QueueForgets(k) ==
    /\ job[k].at \in {"done", "failed"}
    /\ Happens
    /\ job' = [job EXCEPT ![k] = NoJob]
    /\ Excused(k)
    /\ UNCHANGED <<phase, refused, seated, notified, cycle, reached>>

CycleStep(p) == ProcessTournament(p) \/ GetWallets(p) \/ EnqueueChunk(p)
WorkerStep(k) == StartJob(k) \/ PortalAccepts(k)

QueueNext ==
    \/ TimePasses \/ ListingTurns \/ SeatParticipant
    \/ \E p \in Process : CycleStep(p) \/ CycleFails(p)
    \/ \E k \in JobId : WorkerStep(k) \/ PortalRefuses(k) \/ AnswerLost(k)
                         \/ WorkerDies(k) \/ QueueForgets(k)

\* The cycles of every minute and the worker go on.
QueueSpec ==
    /\ QueueInit
    /\ [][QueueNext \/ \E p \in Process : RestartCycle(p)]_queueVars
    /\ \A p \in Process : WF_queueVars(CycleStep(p))
    /\ WF_queueVars(\E k \in JobId : WorkerStep(k))

----------------------------------------------------------------------------
(* Properties.                                                             *)

\* The type invariant of the announcements.
QueueTypeOK ==
    /\ phase \in {"upcoming", "active", "finished"} /\ refused \in BOOLEAN
    /\ seated \in 0 .. MaxSeats
    /\ notified \in [Process -> SUBSET Announcement]
    /\ cycle \in [Process -> [at : {"idle", "wallets", "enqueue"}, ann : Announcement,
                              n : 0 .. MaxSeats, next : 0 .. MaxSeats]]
    /\ job \in [JobId -> [at : {"none", "waiting", "active", "done", "failed"},
                          wallets : SUBSET Seat, made : 0 .. attempts,
                          stalls : 0 .. MaxStalls + 1, requests : 0 .. maxRetries - 1]]
    /\ reached \in [Announcement \X Seat -> Nat] /\ excuse \in [JobId -> Nat]
    /\ events \in 0 .. MaxEvents

JobOf(a, w) == <<a, ((w - 1) \div MaxWallets) * MaxWallets>>

\* However many processes announce the same phase, after restarts and retries too, the
\* portal gets an announcement for a participant once: another delivery takes a lost
\* answer, a worker that died, or a queue that has forgotten the job.
AnnouncedOnce ==
    \A a \in Announcement, w \in Seat : reached[<<a, w>>] <= 1 + excuse[JobOf(a, w)]

Told(w) ==
    \/ reached[<<"end", w>>] > 0
    \/ \E k \in JobId : k[1] = "end" /\ w \in job[k].wallets /\ job[k].at = "failed"

Unnoticed(w) ==
    /\ phase = "finished" /\ \A p \in Process : "end" \notin notified[p] /\ cycle[p].ann # "end"
    /\ job[JobOf("end", w)].at = "none"

\* Whoever has a seat before the end of the tournament is noticed, and before the queue has
\* a job of their chunk, is told so, or is in a job that ran out of attempts: failing
\* cycles, restarts and refusals lose nobody.  It takes a listTournaments that does not
\* reject for ever.
EndAnnounced ==
    <>[]~refused => \A w \in Seat : (Unnoticed(w) /\ w <= seated) ~> Told(w)
=============================================================================
