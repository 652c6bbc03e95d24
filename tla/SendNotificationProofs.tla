----------------------- MODULE SendNotificationProofs -----------------------
(***************************************************************************)
(* Proofs about SendNotification, for any number of processes, calls,      *)
(* nonces, keys, rotations and restarts: an announcement reaches a         *)
(* participant once, a nonce buys one delivery, and the key file holds one *)
(* key of a source in force, apart from those that a variable lists.       *)
(*                                                                         *)
(* The announcements come first: the job ids keep a participant to one     *)
(* chunk, and the queue keeps a chunk to one delivery.                     *)
(***************************************************************************)
EXTENDS SendNotification, TLAPS

----------------------------------------------------------------------------
(* Chunks.                                                                 *)

\* The first position of the chunk of w is a multiple of m below w, and the only one
\* within m of it.
LEMMA ChunkStart ==
    ASSUME NEW m \in Nat \ {0}, NEW w \in Nat \ {0}
    PROVE  LET i == ((w - 1) \div m) * m
           IN  /\ i \in Nat /\ i % m = 0 /\ i < w /\ w <= i + m
               /\ \A k \in Nat : k % m = 0 /\ k < w /\ w <= k + m => k = i
<1> DEFINE q == (w - 1) \div m
           i == q * m
<1>1. q \in Nat /\ i <= w - 1 /\ w - 1 < i + m
    OBVIOUS
<1>2. i \in Nat /\ i % m = 0
    BY <1>1
<1>3. ASSUME NEW k \in Nat, k % m = 0, k < w, w <= k + m
      PROVE  k = i
    <2> DEFINE p == k \div m
    <2>1. p \in Nat /\ k = p * m
        BY <1>3
    <2>2. ASSUME NEW a \in Nat, NEW b \in Nat, a < b, a * m <= w - 1, w - 1 < a * m + m,
                 b * m <= w - 1
          PROVE  FALSE
        <3>1. a + 1 <= b
            BY <2>2
        <3>2. (a + 1) * m <= b * m
            BY <3>1
        <3>3. (a + 1) * m = a * m + m
            OBVIOUS
        <3>4. QED
            BY <2>2, <3>2, <3>3
    <2>3. p * m <= w - 1 /\ w - 1 < p * m + m
        BY <1>3, <2>1
    <2>4. ~(p < q) /\ ~(q < p)
        BY <1>1, <2>1, <2>2, <2>3
    <2>5. QED
        BY <1>1, <2>1, <2>4
<1>4. QED
    BY <1>1, <1>2, <1>3

\* Whoever is in a chunk has the chunk's job.
LEMMA JobOfChunk ==
    ASSUME NEW a \in Announcement, NEW w \in Seat
    PROVE  /\ JobOf(a, w) \in JobId
           /\ \A k \in JobId : k[1] = a /\ k[2] < w /\ w <= k[2] + MaxWallets
                                   => k = JobOf(a, w)
<1> DEFINE i == ((w - 1) \div MaxWallets) * MaxWallets
<1>1. MaxWallets \in Nat \ {0} /\ MaxSeats \in Nat
    BY NotificationQueueAssumption
<1>2. w \in Nat \ {0} /\ w <= MaxSeats
    BY <1>1 DEF Seat
<1>3. /\ i \in Nat /\ i % MaxWallets = 0 /\ i < w
      /\ \A k \in Nat : k % MaxWallets = 0 /\ k < w /\ w <= k + MaxWallets => k = i
    BY <1>1, <1>2, ChunkStart
<1> HIDE DEF i
<1>4. <<a, i>> \in JobId
    BY <1>1, <1>2, <1>3 DEF JobId
<1>5. ASSUME NEW k \in JobId, k[1] = a, k[2] < w, w <= k[2] + MaxWallets
      PROVE  k = <<a, i>>
    <2>1. k = <<k[1], k[2]>> /\ k[2] \in Nat /\ k[2] % MaxWallets = 0
        BY DEF JobId
    <2>2. k[2] = i
        BY <1>3, <1>5, <2>1
    <2>3. QED
        BY <1>5, <2>1, <2>2
<1>6. JobOf(a, w) = <<a, i>>
    BY DEF JobOf, i
<1>7. QED
    BY <1>4, <1>5, <1>6

----------------------------------------------------------------------------
(* The queue.                                                              *)

JobType ==
    [at : {"none", "waiting", "active", "done", "failed"}, wallets : SUBSET Nat,
     made : Nat, stalls : Nat, requests : Nat]

\* Counting up the tries, stalls or requests of a job, and moving it, keep its type.
LEMMA JobTypes ==
    ASSUME NEW j \in JobType, NEW place \in {"waiting", "failed"}, NEW n \in Nat
    PROVE  /\ [j EXCEPT !.requests = n] \in JobType
           /\ [j EXCEPT !.requests = n].wallets = j.wallets
           /\ [j EXCEPT !.made = n, !.requests = 0, !.at = place] \in JobType
           /\ [j EXCEPT !.made = n, !.requests = 0, !.at = place].wallets = j.wallets
           /\ [j EXCEPT !.stalls = n, !.at = place] \in JobType
           /\ [j EXCEPT !.stalls = n, !.at = place].wallets = j.wallets
BY DEF JobType

\* A job's wallets are in the chunk that its id names.
InChunk(k, wallets) == \A w \in wallets : k[2] < w /\ w <= k[2] + MaxWallets

\* An announcement has been taken for a participant no more often than there was an
\* excuse for it, except once when the job is done.
Done(k) == IF job[k].at = "done" THEN 1 ELSE 0
Delivered ==
    \A a \in Announcement, w \in Seat :
        reached[<<a, w>>] <= excuse[JobOf(a, w)] + Done(JobOf(a, w))

QueueInv ==
    /\ seated \in Nat
    /\ cycle \in [Process -> [at : {"idle", "wallets", "enqueue"}, ann : Announcement,
                              n : Nat, next : Nat]]
    /\ job \in [JobId -> JobType]
    /\ \A k \in JobId : InChunk(k, job[k].wallets)
    /\ reached \in [Announcement \X Seat -> Nat]
    /\ excuse \in [JobId -> Nat]
    /\ Delivered

\* Nothing has been announced to begin with.
LEMMA InitQueueInv == QueueInit => QueueInv
<1> SUFFICES ASSUME QueueInit PROVE QueueInv
    OBVIOUS
<1>1. NoJob \in JobType /\ NoJob.wallets = {} /\ NoJob.at = "none"
    BY DEF NoJob, JobType
<1>2. seated \in Nat
    BY NotificationQueueAssumption DEF QueueInit
<1>3. Idle \in [at : {"idle", "wallets", "enqueue"}, ann : Announcement, n : Nat, next : Nat]
    BY DEF Idle, Announcement
<1>4. /\ cycle = [p \in Process |-> Idle] /\ job = [k \in JobId |-> NoJob]
      /\ reached = [x \in Announcement \X Seat |-> 0] /\ excuse = [k \in JobId |-> 0]
    BY DEF QueueInit
<1>5. \A k \in JobId : InChunk(k, job[k].wallets)
    BY <1>1, <1>4 DEF InChunk
<1>6. ASSUME NEW a \in Announcement, NEW w \in Seat
      PROVE  reached[<<a, w>>] <= excuse[JobOf(a, w)] + Done(JobOf(a, w))
    BY <1>1, <1>4, JobOfChunk DEF Done
<1>7. QED
    BY <1>1, <1>2, <1>3, <1>4, <1>5, <1>6 DEF QueueInv, Delivered

\* A step that changes job k to j, with or without an excuse, and delivers it or not.  A
\* delivery needs an excuse or ends the job; a job that is no longer done, or that was
\* done before, needs one too.
LEMMA JobStep ==
    ASSUME QueueInv, NEW k \in JobId, NEW j \in JobType, InChunk(k, j.wallets),
           job' = [job EXCEPT ![k] = j],
           NEW taken \in BOOLEAN, NEW lost \in BOOLEAN,
           taken => reached' = [x \in DOMAIN reached |-> reached[x]
                        + IF x[1] = k[1] /\ x[2] \in job[k].wallets THEN 1 ELSE 0],
           ~taken => reached' = reached,
           excuse' = IF lost THEN [excuse EXCEPT ![k] = @ + 1] ELSE excuse,
           taken /\ ~lost => j.at = "done" /\ job[k].at # "done",
           taken => job[k].at # "done",
           job[k].at = "done" => j.at = "done" \/ lost,
           UNCHANGED <<seated, cycle>>
    PROVE  QueueInv'
<1>1. job' \in [JobId -> JobType] /\ job'[k] = j /\ \A i \in JobId \ {k} : job'[i] = job[i]
    BY DEF QueueInv
<1>2. \A i \in JobId : InChunk(i, job'[i].wallets)
    BY <1>1 DEF QueueInv
<1>3. /\ reached \in [Announcement \X Seat -> Nat] /\ excuse \in [JobId -> Nat]
      /\ DOMAIN reached = Announcement \X Seat
    BY DEF QueueInv
<1>4. /\ excuse' \in [JobId -> Nat]
      /\ excuse'[k] = excuse[k] + IF lost THEN 1 ELSE 0
      /\ \A i \in JobId \ {k} : excuse'[i] = excuse[i]
    BY <1>3
<1>5. /\ reached' \in [Announcement \X Seat -> Nat]
      /\ \A a \in Announcement, w \in Seat :
            reached'[<<a, w>>] = reached[<<a, w>>]
                + IF taken /\ a = k[1] /\ w \in job[k].wallets THEN 1 ELSE 0
    BY <1>3
<1>6. ASSUME NEW a \in Announcement, NEW w \in Seat
      PROVE  reached'[<<a, w>>] <= excuse'[JobOf(a, w)] + Done(JobOf(a, w))'
    <2>1. PICK i \in JobId : i = JobOf(a, w)
        BY JobOfChunk
    <2>2. a = k[1] /\ w \in job[k].wallets => i = k
        BY <2>1, JobOfChunk DEF QueueInv, InChunk
    <2>3. /\ reached[<<a, w>>] <= excuse[i] + Done(i)
          /\ reached[<<a, w>>] \in Nat /\ excuse[i] \in Nat
          /\ reached'[<<a, w>>] \in Nat /\ excuse'[i] \in Nat
        BY <1>3, <1>4, <1>5, <2>1 DEF QueueInv, Delivered
    <2>4. /\ Done(i) = (IF job[i].at = "done" THEN 1 ELSE 0)
          /\ Done(i)' = (IF job'[i].at = "done" THEN 1 ELSE 0)
        BY DEF Done
    <2>5. CASE i # k
        <3>1. reached'[<<a, w>>] = reached[<<a, w>>]
            BY <1>5, <2>2, <2>3, <2>5
        <3>2. excuse'[i] = excuse[i] /\ Done(i)' = Done(i)
            BY <1>1, <1>4, <2>4, <2>5
        <3>3. QED
            BY <2>1, <2>3, <3>1, <3>2
    <2>6. CASE i = k
        <3>1. /\ ~taken => reached'[<<a, w>>] = reached[<<a, w>>]
              /\ taken => reached'[<<a, w>>] <= reached[<<a, w>>] + 1
            BY <1>5, <2>3
        <3>2. /\ lost => excuse'[i] = excuse[i] + 1
              /\ ~lost => excuse'[i] = excuse[i]
            BY <1>4, <2>6, <2>3
        <3>3. /\ Done(i) = (IF job[k].at = "done" THEN 1 ELSE 0)
              /\ Done(i)' = (IF j.at = "done" THEN 1 ELSE 0)
            BY <1>1, <2>4, <2>6
        <3>4. reached'[<<a, w>>] <= excuse'[i] + Done(i)'
            BY <2>3, <3>1, <3>2, <3>3
        <3>5. QED
            BY <2>1, <3>4
    <2>7. QED
        BY <2>5, <2>6
<1>7. QED
    BY <1>1, <1>2, <1>4, <1>5, <1>6 DEF QueueInv, Delivered

\* A step that leaves the queue alone and its cycles in their domain.
LEMMA CalmStep ==
    ASSUME QueueInv, UNCHANGED jobVars, seated' \in Nat,
           cycle' \in [Process -> [at : {"idle", "wallets", "enqueue"}, ann : Announcement,
                                   n : Nat, next : Nat]]
    PROVE  QueueInv'
BY DEF QueueInv, jobVars, Delivered, Done

\* Adding a job changes nothing if its id is known.
LEMMA EnqueueStep ==
    ASSUME QueueInv, NEW p \in Process, EnqueueChunk(p)
    PROVE  QueueInv'
<1> DEFINE c == cycle[p]
           k == <<c.ann, c.next>>
           wallets == Chunk(c.next, c.n)
           fresh == [NoJob EXCEPT !.at = "waiting", !.wallets = wallets]
           CycleType == [at : {"idle", "wallets", "enqueue"}, ann : Announcement,
                         n : Nat, next : Nat]
<1>1. c \in CycleType /\ c.next \in Nat /\ c.n \in Nat /\ c.ann \in Announcement
    BY DEF QueueInv
<1>2. MaxWallets \in Nat
    BY NotificationQueueAssumption
<1>3. cycle' \in [Process -> CycleType]
    <2>1. Idle \in CycleType
        BY DEF Idle, Announcement
    <2>2. [c EXCEPT !.next = c.next + MaxWallets] \in CycleType
        BY <1>1, <1>2
    <2>3. \/ cycle' = [cycle EXCEPT ![p] = Idle]
          \/ cycle' = [cycle EXCEPT ![p] = [c EXCEPT !.next = c.next + MaxWallets]]
        BY DEF EnqueueChunk, Remember
    <2>4. QED
        BY <2>1, <2>2, <2>3 DEF QueueInv
<1>4. fresh \in JobType /\ fresh.wallets = wallets /\ fresh.at = "waiting"
    <2>1. wallets \in SUBSET Nat
        BY <1>1 DEF Chunk
    <2> HIDE DEF wallets
    <2>2. QED
        BY <2>1 DEF NoJob, JobType
<1>5. InChunk(k, wallets)
    BY <1>1, <1>2 DEF InChunk, Chunk
<1>6. UNCHANGED <<seated, reached, excuse>> /\ (job' = job \/ job' = [job EXCEPT ![k] = fresh])
    BY DEF EnqueueChunk, Queued
<1>7. CASE job' = job
    BY <1>3, <1>6, <1>7, CalmStep DEF jobVars, QueueInv
<1>8. CASE k \in JobId /\ job' = [job EXCEPT ![k] = fresh] /\ job' # job
    <2>1. job[k].at = "none"
        BY <1>8 DEF EnqueueChunk, Queued
    <2>2. job' \in [JobId -> JobType] /\ job'[k] = fresh /\ \A i \in JobId \ {k} : job'[i] = job[i]
        BY <1>4, <1>8 DEF QueueInv
    <2>3. \A i \in JobId : InChunk(i, job'[i].wallets)
        BY <1>4, <1>5, <2>2 DEF QueueInv
    <2>4. ASSUME NEW a \in Announcement, NEW w \in Seat
          PROVE  reached'[<<a, w>>] <= excuse'[JobOf(a, w)] + Done(JobOf(a, w))'
        <3>1. JobOf(a, w) \in JobId /\ job'[JobOf(a, w)].at = "done" <=> job[JobOf(a, w)].at = "done"
            BY <1>4, <2>1, <2>2, JobOfChunk
        <3>2. Done(JobOf(a, w))' = Done(JobOf(a, w))
            BY <3>1, JobOfChunk, <1>4, <2>1, <2>2 DEF Done, JobOf
        <3>3. QED
            BY <1>6, <3>2 DEF QueueInv, Delivered, JobOf
    <2>5. QED
        BY <1>3, <1>6, <2>2, <2>3, <2>4 DEF QueueInv, Delivered
<1>9. CASE k \notin JobId
    <2>1. job' = job
        BY <1>6, <1>9 DEF QueueInv
    <2>2. QED
        BY <1>7, <2>1
<1>10. QED
    BY <1>6, <1>7, <1>8, <1>9

\* A cycle notices the phase, finds the wallets or fails.
LEMMA CycleInv ==
    ASSUME QueueInv, NEW p \in Process,
           ProcessTournament(p) \/ GetWallets(p) \/ CycleFails(p)
    PROVE  QueueInv'
<1> DEFINE CycleType == [at : {"idle", "wallets", "enqueue"}, ann : Announcement,
                         n : Nat, next : Nat]
<1>1. UNCHANGED <<seated, jobVars>>
    BY DEF ProcessTournament, GetWallets, CycleFails
<1>2. Idle \in CycleType /\ cycle[p] \in CycleType /\ seated \in Nat
    BY DEF Idle, Announcement, QueueInv
<1>3. \A a \in Announcement : [Idle EXCEPT !.at = "wallets", !.ann = a] \in CycleType
    BY DEF Idle
<1>4. [cycle[p] EXCEPT !.at = "enqueue", !.n = seated] \in CycleType
    BY <1>2
<1>5. \E c \in CycleType : cycle' = [cycle EXCEPT ![p] = c]
    <2>1. CASE ProcessTournament(p)
        BY <1>3, <2>1 DEF ProcessTournament
    <2>2. CASE GetWallets(p)
        BY <1>2, <1>4, <2>2 DEF GetWallets, Remember
    <2>3. CASE CycleFails(p)
        BY <1>2, <2>3 DEF CycleFails
    <2>4. QED
        BY <2>1, <2>2, <2>3
<1>6. cycle' \in [Process -> CycleType]
    BY <1>5 DEF QueueInv
<1>7. QED
    BY <1>1, <1>2, <1>6, CalmStep

\* The worker and the portal.
LEMMA WorkerInv ==
    ASSUME QueueInv, NEW k \in JobId,
           \/ WorkerStep(k) \/ PortalRefuses(k) \/ AnswerLost(k) \/ WorkerDies(k)
           \/ QueueForgets(k)
    PROVE  QueueInv'
<1> DEFINE j == job[k]
<1>1. /\ j \in JobType /\ InChunk(k, j.wallets) /\ job \in [JobId -> JobType]
      /\ j.made + 1 \in Nat /\ j.stalls + 1 \in Nat /\ j.requests + 1 \in Nat
    BY DEF QueueInv, JobType
<1>2. CASE StartJob(k)
    <2> DEFINE n == [j EXCEPT !.at = "active", !.requests = 0]
    <2>1. n \in JobType /\ n.wallets = j.wallets
        BY <1>1 DEF JobType
    <2>2. job' = [job EXCEPT ![k] = n] /\ j.at = "waiting"
          /\ UNCHANGED <<seated, cycle, reached, excuse>>
        BY <1>1, <1>2 DEF StartJob
    <2> HIDE DEF n
    <2>3. QED
        BY <1>1, <2>1, <2>2, JobStep
<1>3. CASE PortalAccepts(k)
    <2> DEFINE n == [j EXCEPT !.at = "done"]
    <2>1. n \in JobType /\ n.wallets = j.wallets /\ n.at = "done"
        BY <1>1 DEF JobType
    <2>2. job' = [job EXCEPT ![k] = n] /\ j.at = "active" /\ UNCHANGED <<seated, cycle, excuse>>
        BY <1>1, <1>3 DEF PortalAccepts
    <2>3. Deliver(k)
        BY <1>3 DEF PortalAccepts
    <2> HIDE DEF n
    <2>4. QED
        BY <1>1, <2>1, <2>2, <2>3, JobStep DEF Deliver
<1>4. ASSUME Unanswered(k), j.at = "active"
      PROVE  \E n \in JobType : /\ job' = [job EXCEPT ![k] = n]
                                /\ n.wallets = j.wallets
    <2>1. CASE j.requests + 1 < maxRetries
        <3>1. job' = [job EXCEPT ![k] = [j EXCEPT !.requests = j.requests + 1]]
            BY <1>4, <2>1 DEF Unanswered
        <3>2. QED
            BY <1>1, <3>1, JobTypes
    <2>2. CASE ~(j.requests + 1 < maxRetries)
        <3>1. PICK place \in {"waiting", "failed"}, n \in Nat : job' = [job EXCEPT ![k] =
                  [j EXCEPT !.made = n, !.requests = 0, !.at = place]]
            BY <1>1, <1>4, <2>2 DEF Unanswered
        <3>2. /\ [j EXCEPT !.made = n, !.requests = 0, !.at = place] \in JobType
              /\ [j EXCEPT !.made = n, !.requests = 0, !.at = place].wallets = j.wallets
            <4> HIDE DEF j
            <4>1. QED
                BY <1>1 DEF JobType
        <3>3. QED
            BY <3>1, <3>2
    <2>3. QED
        BY <2>1, <2>2
<1>5. CASE PortalRefuses(k)
    <2>1. j.at = "active" /\ Unanswered(k) /\ UNCHANGED <<seated, cycle, reached, excuse>>
        BY <1>5 DEF PortalRefuses
    <2>2. PICK n \in JobType : job' = [job EXCEPT ![k] = n] /\ n.wallets = j.wallets
        BY <1>4, <2>1
    <2>3. QED
        BY <1>1, <2>1, <2>2, JobStep
<1>6. CASE AnswerLost(k)
    <2>1. j.at = "active" /\ Unanswered(k) /\ Deliver(k) /\ UNCHANGED <<seated, cycle>>
          /\ excuse' = [excuse EXCEPT ![k] = @ + 1]
        BY <1>6 DEF AnswerLost, Excused
    <2>2. PICK n \in JobType : job' = [job EXCEPT ![k] = n] /\ n.wallets = j.wallets
        BY <1>4, <2>1
    <2>3. QED
        BY <1>1, <2>1, <2>2, JobStep DEF Deliver
<1>7. CASE WorkerDies(k)
    <2>1. PICK place \in {"waiting", "failed"} :
              job' = [job EXCEPT ![k] = [j EXCEPT !.stalls = j.stalls + 1, !.at = place]]
        BY <1>7 DEF WorkerDies
    <2>2. PICK n \in JobType : n.wallets = j.wallets /\ job' = [job EXCEPT ![k] = n]
                              /\ j.at = "active" /\ UNCHANGED <<seated, cycle>>
        BY <1>1, <1>7, <2>1, JobTypes DEF WorkerDies
    <2>3. CASE Deliver(k) /\ Excused(k)
        BY <1>1, <2>2, <2>3, JobStep DEF Deliver, Excused
    <2>4. CASE UNCHANGED <<reached, excuse>>
        BY <1>1, <2>2, <2>4, JobStep
    <2>5. QED
        BY <1>7, <2>3, <2>4 DEF WorkerDies
<1>8. CASE QueueForgets(k)
    <2>1. NoJob \in JobType /\ NoJob.wallets = {} /\ InChunk(k, NoJob.wallets)
        BY DEF NoJob, JobType, InChunk
    <2>2. job' = [job EXCEPT ![k] = NoJob] /\ excuse' = [excuse EXCEPT ![k] = @ + 1]
          /\ UNCHANGED <<seated, cycle, reached>>
        BY <1>8 DEF QueueForgets, Excused
    <2>3. QED
        BY <1>1, <2>1, <2>2, JobStep
<1>9. QED
    BY <1>2, <1>3, <1>5, <1>6, <1>7, <1>8 DEF WorkerStep

\* Every step of the announcements keeps QueueInv.
LEMMA NextQueueInv ==
    ASSUME QueueInv, QueueNext
    PROVE  QueueInv'
<1>1. CASE TimePasses \/ ListingTurns \/ SeatParticipant
    BY <1>1, CalmStep DEF TimePasses, ListingTurns, SeatParticipant, QueueInv
<1>2. ASSUME NEW p \in Process, CycleStep(p) \/ CycleFails(p)
      PROVE  QueueInv'
    BY <1>2, EnqueueStep, CycleInv DEF CycleStep
<1>3. ASSUME NEW k \in JobId, \/ WorkerStep(k) \/ PortalRefuses(k) \/ AnswerLost(k)
                              \/ WorkerDies(k) \/ QueueForgets(k)
      PROVE  QueueInv'
    BY <1>3, WorkerInv
<1>4. QED
    BY <1>1, <1>2, <1>3 DEF QueueNext

\* The property follows from the account.
LEMMA QueueInvOnce == QueueInv => AnnouncedOnce
<1> SUFFICES ASSUME QueueInv, NEW a \in Announcement, NEW w \in Seat
             PROVE  reached[<<a, w>>] <= 1 + excuse[JobOf(a, w)]
    BY DEF AnnouncedOnce
<1>1. /\ reached[<<a, w>>] <= excuse[JobOf(a, w)] + Done(JobOf(a, w))
      /\ reached[<<a, w>>] \in Nat /\ excuse[JobOf(a, w)] \in Nat
    BY JobOfChunk DEF QueueInv, Delivered
<1>2. Done(JobOf(a, w)) \in {0, 1}
    BY DEF Done
<1>3. QED
    BY <1>1, <1>2

----------------------------------------------------------------------------
(* Announcements.                                                          *)

\* The steps outside NotificationQueue leave it alone, but for a restart, which drops the
\* cycle of its process.
LEMMA NextKeepsQueue == QueueInv /\ [Next]_vars => QueueInv'
<1> SUFFICES ASSUME QueueInv, [Next]_vars PROVE QueueInv'
    OBVIOUS
<1>1. CASE UNCHANGED <<jobVars, seated, cycle>>
    BY <1>1, CalmStep DEF QueueInv
<1>2. CASE QueueNext
    BY <1>2, NextQueueInv
<1>3. ASSUME NEW c \in Call, CallStep(c)
      PROVE  UNCHANGED <<jobVars, seated, cycle>>
    BY <1>3 DEF CallStep, Receive, BodyUnreadable, Validate, MessageTaken, MessageRefused, MessageAnswerLost,
                queueVars, quietQueue
<1>4. ASSUME NEW p \in Process, RotationStep(p)
      PROVE  UNCHANGED <<jobVars, seated, cycle>>
    BY <1>4 DEF RotationStep, StartRotation, ReadKeys, TruncateKeys, WriteKeys, RotationFails,
                queueVars, quietQueue
<1>5. ASSUME NEW p \in Process, Restart(p)
      PROVE  QueueInv'
    <2>1. cycle' = [cycle EXCEPT ![p] = Idle] /\ UNCHANGED <<seated, jobVars>>
        BY <1>5 DEF Restart, ForgetCycle
    <2>2. Idle \in [at : {"idle", "wallets", "enqueue"}, ann : Announcement, n : Nat, next : Nat]
        BY DEF Idle, Announcement
    <2>3. cycle' \in [Process -> [at : {"idle", "wallets", "enqueue"}, ann : Announcement,
                                  n : Nat, next : Nat]]
        BY <2>1, <2>2 DEF QueueInv
    <2>4. QED
        BY <2>1, <2>3, CalmStep DEF QueueInv
<1>6. ASSUME NEW k \in ApiKey, KeyExpires(k)
      PROVE  UNCHANGED <<jobVars, seated, cycle>>
    BY <1>6 DEF KeyExpires, quietQueue
<1>7. ASSUME NEW p \in Process, NEW k \in ApiKey, WindowEnds(p, k)
      PROVE  UNCHANGED <<jobVars, seated, cycle>>
    BY <1>7 DEF WindowEnds, quietQueue
<1>8. ASSUME NEW p \in Process, NEW n \in Nonce, NonceExpires(p, n)
      PROVE  UNCHANGED <<jobVars, seated, cycle>>
    BY <1>8 DEF NonceExpires, quietQueue
<1>9. CASE UNCHANGED vars
    BY <1>1, <1>9 DEF vars, queueVars
<1>10. QED
    BY <1>1, <1>2, <1>3, <1>4, <1>5, <1>6, <1>7, <1>8, <1>9, Zenon DEF Next

\* However many processes announce the start or the end of a tournament, and whatever
\* restarts and fails, the portal takes it for a participant once, but for the excuses
\* that are counted.
THEOREM AnnouncementsHold == Spec => []AnnouncedOnce
<1>1. Init => QueueInv
    BY InitQueueInv DEF Init
<1>2. QED
    BY <1>1, NextKeepsQueue, QueueInvOnce, PTL DEF Spec

----------------------------------------------------------------------------
(* Nonces.                                                                 *)

\* The domains of the variables that a call uses.
CallTypes ==
    /\ call \in [Call -> [at : Places, by : Process \cup {None}, posts : Nat]]
    /\ \A c \in Call : call[c].at \in {"body", "dispatch"} => call[c].by \in Process
    /\ nonces \in [Process -> SUBSET Nonce]
    /\ sent \in [Process \X Nonce -> Nat]
    /\ forgiven \in [Process \X Nonce -> Nat]

\* A call that is dispatching has its nonce recorded ...
Held == \A c \in Call : call[c].at = "dispatch" => NonceOf[c] \in nonces[call[c].by]

\* ... and is the only one of its process that dispatches with it.
Alone ==
    \A c, d \in Call :
        (/\ call[c].at = "dispatch" /\ call[d].at = "dispatch"
         /\ call[c].by = call[d].by /\ NonceOf[c] = NonceOf[d]) => c = d

\* A message has been taken no more often than there was an excuse for it, except once
\* for a nonce that is recorded and whose call is over.
Spent(p, n) == IF n \in nonces[p] /\ ~Busy(p, n) THEN 1 ELSE 0
Accounted ==
    \A p \in Process, n \in Nonce : sent[<<p, n>>] <= forgiven[<<p, n>>] + Spent(p, n)

NonceInv == CallTypes /\ Held /\ Alone /\ Accounted

\* The initial state satisfies NonceInv.
LEMMA InitNonceInv == Init => NonceInv
BY DEF Init, NonceInv, CallTypes, Held, Alone, Accounted, Spent, Busy, Places

\* NonceInv says nothing of the variables outside callVars.
LEMMA QuietCalls ==
    ASSUME NonceInv, UNCHANGED callVars
    PROVE  NonceInv'
BY DEF NonceInv, callVars, CallTypes, Held, Alone, Accounted, Spent, Busy

\* A call that neither was nor comes to be dispatching.
LEMMA AsideStep ==
    ASSUME NonceInv, NEW c \in Call, NEW place \in Places \ {"dispatch"},
           NEW p \in Process, call[c].at # "dispatch",
           call' = [call EXCEPT ![c].at = place, ![c].by = p],
           UNCHANGED <<nonces, sent, forgiven>>
    PROVE  NonceInv'
<1>1. CallTypes'
    BY DEF NonceInv, CallTypes
<1>2. \A d \in Call : /\ call'[d].at = "dispatch" <=> call[d].at = "dispatch"
                      /\ call[d].at = "dispatch" => call'[d] = call[d]
    BY DEF NonceInv, CallTypes
<1>3. \A q \in Process, n \in Nonce : Busy(q, n)' = Busy(q, n)
    BY <1>2 DEF Busy
<1>4. Held'
    <2>1. ASSUME NEW d \in Call, call'[d].at = "dispatch"
          PROVE  NonceOf[d] \in nonces'[call'[d].by]
        <3>1. call[d].at = "dispatch" /\ call'[d] = call[d] /\ nonces' = nonces
            BY <1>2, <2>1
        <3>2. NonceOf[d] \in nonces[call[d].by]
            BY <3>1 DEF NonceInv, Held
        <3>3. QED
            BY <3>1, <3>2
    <2>2. QED
        BY <2>1 DEF Held
<1>5. Alone'
    <2>1. ASSUME NEW d \in Call, NEW e \in Call,
                 call'[d].at = "dispatch", call'[e].at = "dispatch",
                 call'[d].by = call'[e].by, NonceOf[d] = NonceOf[e]
          PROVE  d = e
        <3>1. call'[d] = call[d] /\ call'[e] = call[e]
            BY <1>2, <2>1
        <3>2. QED
            BY <2>1, <3>1 DEF NonceInv, Alone
    <2>2. QED
        BY <2>1 DEF Alone
<1>6. Accounted'
    BY <1>3 DEF NonceInv, Accounted, Spent
<1>7. QED
    BY <1>1, <1>4, <1>5, <1>6 DEF NonceInv

\* A call arrives.
LEMMA ReceiveStep ==
    ASSUME NonceInv, NEW c \in Call, NEW p \in Process, Receive(c, p)
    PROVE  NonceInv'
<1>1. PICK place \in Places \ {"dispatch"} :
          call' = [call EXCEPT ![c].at = place, ![c].by = p]
    <2>1. AuthStatus(KeyOf[c]) \in Places \ {"dispatch"} \/ AuthStatus(KeyOf[c]) = "ok"
        BY DEF AuthStatus, Places
    <2>2. {"not_allowed", "body", "rate_limited"} \subseteq Places \ {"dispatch"}
        BY DEF Places
    <2>3. CASE AuthStatus(KeyOf[c]) # "ok"
        BY <2>1, <2>3, Zenon DEF Receive
    <2>4. CASE AuthStatus(KeyOf[c]) = "ok" /\ c \notin Admitted
        BY <2>2, <2>4 DEF Receive
    <2>5. CASE AuthStatus(KeyOf[c]) = "ok" /\ c \in Admitted
        <3> DEFINE place == IF count[<<p, KeyOf[c]>>] < maxRequests THEN "body"
                            ELSE "rate_limited"
        <3>1. call' = [call EXCEPT ![c].at = place, ![c].by = p]
            BY <2>5 DEF Receive, NonceInv, CallTypes
        <3>2. place \in Places \ {"dispatch"}
            BY <2>2
        <3>3. QED
            BY <3>1, <3>2
    <2>6. QED
        BY <2>3, <2>4, <2>5
<1>2. call[c].at # "dispatch" /\ UNCHANGED <<nonces, sent, forgiven>>
    BY DEF Receive
<1>3. QED
    BY <1>1, <1>2, AsideStep

\* A body that cannot be read has no nonce.
LEMMA UnreadableStep ==
    ASSUME NonceInv, NEW c \in Call, BodyUnreadable(c)
    PROVE  NonceInv'
<1>1. call[c].at = "body" /\ call[c].by \in Process /\ "body_unreadable" \in Places \ {"dispatch"}
    BY DEF BodyUnreadable, Places, NonceInv, CallTypes
<1>2. call' = [call EXCEPT ![c].at = "body_unreadable", ![c].by = call[c].by]
    BY DEF BodyUnreadable, NonceInv, CallTypes
<1>3. UNCHANGED <<nonces, sent, forgiven>>
    BY DEF BodyUnreadable
<1>4. QED
    BY <1>1, <1>2, <1>3, AsideStep

\* The nonce of a call is looked up and recorded at once.
LEMMA ValidateStep ==
    ASSUME NonceInv, NEW c \in Call, Validate(c)
    PROVE  NonceInv'
<1> DEFINE p == call[c].by
           n == NonceOf[c]
<1>1. p \in Process /\ n \in Nonce /\ call[c].at = "body"
    BY SendNotificationAssumption DEF Validate, NonceInv, CallTypes
<1>2. PICK place \in Places :
          /\ call' = [call EXCEPT ![c].at = place]
          /\ place = "dispatch" => n \notin nonces[p]
          /\ place = "dispatch" => n \in nonces'[p]
          /\ \/ nonces' = nonces
             \/ nonces' = [nonces EXCEPT ![p] = nonces[p] \cup {n}]
    <2>1. CASE c \notin WellFormed
        BY <2>1 DEF Validate, Places
    <2>2. CASE c \in WellFormed
        BY <2>2, <1>1 DEF Validate, Places, Remembered, NonceInv, CallTypes
    <2>3. QED
        BY <2>1, <2>2
<1>3. UNCHANGED <<sent, forgiven>>
    BY DEF Validate
<1>4. CallTypes'
    BY <1>1, <1>2, <1>3 DEF NonceInv, CallTypes
<1>5. \A q \in Process : nonces[q] \subseteq nonces'[q]
    BY <1>1, <1>2 DEF NonceInv, CallTypes
<1>6. \A d \in Call \ {c} : call'[d] = call[d]
    BY <1>2 DEF NonceInv, CallTypes
<1>7. call'[c].by = p /\ call'[c].at = place
    BY <1>2 DEF NonceInv, CallTypes
<1>8. Held'
    BY <1>1, <1>2, <1>5, <1>6, <1>7 DEF NonceInv, Held, CallTypes
<1>9. \A d \in Call \ {c} : (place = "dispatch" /\ call[d].at = "dispatch" /\ call[d].by = p)
                                => NonceOf[d] # n
    BY <1>2 DEF NonceInv, Held
<1>10. Alone'
    BY <1>6, <1>7, <1>9 DEF NonceInv, Alone
<1>11. ASSUME NEW q \in Process, NEW m \in Nonce
       PROVE  Spent(q, m) <= Spent(q, m)'
    <2>1. CASE place = "dispatch" /\ q = p /\ m = n
        BY <1>2, <2>1 DEF Spent
    <2>2. CASE ~(place = "dispatch" /\ q = p /\ m = n)
        <3>1. Busy(q, m)' => Busy(q, m)
            BY <1>6, <1>7, <2>2 DEF Busy
        <3>2. QED
            BY <1>5, <3>1 DEF Spent
    <2>3. QED
        BY <2>1, <2>2
<1>12. ASSUME NEW q \in Process, NEW m \in Nonce
       PROVE  sent'[<<q, m>>] <= forgiven'[<<q, m>>] + Spent(q, m)'
    <2>1. /\ sent[<<q, m>>] \in Nat /\ forgiven[<<q, m>>] \in Nat
          /\ sent[<<q, m>>] <= forgiven[<<q, m>>] + Spent(q, m)
        BY DEF NonceInv, CallTypes, Accounted
    <2>2. Spent(q, m) \in Nat /\ Spent(q, m)' \in Nat /\ Spent(q, m) <= Spent(q, m)'
        BY <1>11 DEF Spent
    <2>3. QED
        BY <1>3, <2>1, <2>2
<1>13. QED
    BY <1>4, <1>8, <1>10, <1>12 DEF NonceInv, Accounted

\* What a request to the portal does to a call that is dispatching: another request, or
\* the end.
Posted(c) ==
    \E r \in [at : Places \ {"body"}, by : {call[c].by}, posts : Nat] :
        call' = [call EXCEPT ![c] = r]

\* Again is one of these.
LEMMA AgainPosts ==
    ASSUME CallTypes, NEW c \in Call, call[c].at = "dispatch",
           NEW reason \in {"upstream_status", "upstream_error"}, Again(c, reason)
    PROVE  Posted(c)
<1> DEFINE r == call[c]
           s == IF r.posts + 1 < maxPosts THEN [r EXCEPT !.posts = r.posts + 1]
                ELSE [r EXCEPT !.at = reason]
<1>1. r \in [at : Places, by : {r.by}, posts : Nat] /\ r.at = "dispatch"
    BY DEF CallTypes
<1>2. s \in [at : Places \ {"body"}, by : {r.by}, posts : Nat]
    BY <1>1 DEF Places
<1>3. CASE r.posts + 1 < maxPosts
    <2>1. call' = [call EXCEPT ![c] = [r EXCEPT !.posts = r.posts + 1]]
        BY <1>1, <1>3 DEF Again, CallTypes
    <2>2. QED
        BY <1>2, <1>3, <2>1, Zenon DEF Posted
<1>4. CASE ~(r.posts + 1 < maxPosts)
    <2>1. call' = [call EXCEPT ![c] = [r EXCEPT !.at = reason]]
        BY <1>1, <1>4 DEF Again, CallTypes
    <2>2. QED
        BY <1>2, <1>4, <2>1, Zenon DEF Posted
<1>5. QED
    BY <1>3, <1>4

\* Whatever the portal does, the rest of the invariant than the account stands, and a
\* call that has ended leaves its nonce spent.
LEMMA PostedStep ==
    ASSUME NonceInv, NEW c \in Call, call[c].at = "dispatch", Posted(c), UNCHANGED nonces,
           NEW p \in Process, p = call[c].by, NEW n \in Nonce, n = NonceOf[c],
           sent' \in [Process \X Nonce -> Nat], forgiven' \in [Process \X Nonce -> Nat]
    PROVE  /\ CallTypes' /\ Held' /\ Alone'
           /\ \A q \in Process, m \in Nonce : Spent(q, m) <= Spent(q, m)'
           /\ call'[c].at # "dispatch"
                  => Spent(p, n) = 0 /\ Spent(p, n)' = 1
<1>1. PICK r \in [at : Places \ {"body"}, by : {p}, posts : Nat] :
          call' = [call EXCEPT ![c] = r]
    BY DEF Posted
<1>2. p \in Process /\ n \in nonces[p]
    BY DEF NonceInv, CallTypes, Held
<1>3. call'[c] = r /\ r.by = p /\ \A d \in Call \ {c} : call'[d] = call[d]
    BY <1>1 DEF NonceInv, CallTypes
<1>4. CallTypes'
    BY <1>1, <1>2 DEF NonceInv, CallTypes
<1>5. Held' /\ Alone'
    BY <1>2, <1>3 DEF NonceInv, Held, Alone
<1>6. \A q \in Process, m \in Nonce : Busy(q, m)' => Busy(q, m)
    BY <1>3 DEF Busy
<1>7. \A q \in Process, m \in Nonce : Spent(q, m) <= Spent(q, m)'
    BY <1>6 DEF Spent
<1>8. ASSUME call'[c].at # "dispatch"
      PROVE  Spent(p, n) = 0 /\ Spent(p, n)' = 1
    <2>1. Busy(p, n)
        BY DEF Busy
    <2>2. ~Busy(p, n)'
        BY <1>3, <1>8 DEF Busy, NonceInv, Alone
    <2>3. nonces'[p] = nonces[p]
        OBVIOUS
    <2>4. n \in nonces[p] /\ Spent(p, n) = 0
        BY <2>1, <1>2 DEF Spent
    <2>5. Spent(p, n)' = 1
        BY <2>2, <2>3, <1>2, <1>3 DEF Spent
    <2>6. QED
        BY <2>4, <2>5
<1>9. QED
    BY <1>3, <1>4, <1>5, <1>7, <1>8

\* The portal takes the message, refuses it, or takes it without our learning of it.
LEMMA PortalStep ==
    ASSUME NonceInv, NEW c \in Call,
           MessageTaken(c) \/ MessageRefused(c) \/ MessageAnswerLost(c)
    PROVE  NonceInv'
<1>0. PICK p \in Process, n \in Nonce : p = call[c].by /\ n = NonceOf[c]
    BY SendNotificationAssumption
    DEF NonceInv, CallTypes, MessageTaken, MessageRefused, MessageAnswerLost
<1>1. call[c].at = "dispatch" /\ p = call[c].by /\ n = NonceOf[c] /\ UNCHANGED nonces
    BY <1>0 DEF MessageTaken, MessageRefused, MessageAnswerLost
<1>2. /\ sent \in [Process \X Nonce -> Nat] /\ forgiven \in [Process \X Nonce -> Nat]
      /\ <<p, n>> \in Process \X Nonce
    BY <1>1 DEF NonceInv, CallTypes
<1>3. ASSUME NEW q \in Process, NEW m \in Nonce
      PROVE  /\ sent[<<q, m>>] <= forgiven[<<q, m>>] + Spent(q, m)
             /\ sent[<<q, m>>] \in Nat /\ forgiven[<<q, m>>] \in Nat /\ Spent(q, m) \in Nat
             /\ Spent(q, m)' \in Nat
    BY <1>2 DEF NonceInv, Accounted, Spent
<1>4. CASE MessageTaken(c)
    <2>1. /\ sent' = [sent EXCEPT ![<<p, n>>] = @ + 1] /\ forgiven' = forgiven
          /\ \E reason \in {"success", "upstream_status", "upstream_error"} :
                 call' = [call EXCEPT ![c].at = reason]
        BY <1>1, <1>4 DEF MessageTaken, Sent
    <2>2. Posted(c) /\ call'[c].at # "dispatch"
        <3>1. PICK reason \in {"success", "upstream_status", "upstream_error"} :
                  call' = [call EXCEPT ![c].at = reason]
            BY <2>1
        <3>2. call[c] \in [at : Places, by : {p}, posts : Nat]
            BY <1>1 DEF NonceInv, CallTypes
        <3>3. [call[c] EXCEPT !.at = reason]
                  \in [at : Places \ {"body"}, by : {p}, posts : Nat]
            BY <3>2 DEF Places
        <3>4. Posted(c)
            BY <3>1, <3>3, Zenon DEF Posted
        <3>5. call'[c].at = reason
            BY <3>1 DEF NonceInv, CallTypes
        <3>6. QED
            BY <3>4, <3>5
    <2>3. sent' \in [Process \X Nonce -> Nat] /\ forgiven' \in [Process \X Nonce -> Nat]
        BY <1>2, <2>1
    <2>4. /\ CallTypes' /\ Held' /\ Alone'
          /\ \A q \in Process, m \in Nonce : Spent(q, m) <= Spent(q, m)'
          /\ Spent(p, n) = 0 /\ Spent(p, n)' = 1
        BY <1>1, <2>2, <2>3, PostedStep
    <2>5. ASSUME NEW q \in Process, NEW m \in Nonce
          PROVE  sent'[<<q, m>>] <= forgiven'[<<q, m>>] + Spent(q, m)'
        <3>1. CASE q = p /\ m = n
            <4>1. sent'[<<p, n>>] = sent[<<p, n>>] + 1 /\ forgiven'[<<p, n>>] = forgiven[<<p, n>>]
                BY <1>2, <2>1
            <4>2. sent[<<p, n>>] <= forgiven[<<p, n>>]
                BY <1>3, <2>4
            <4>3. QED
                BY <3>1, <4>1, <4>2, <2>4, <1>3
        <3>2. CASE <<q, m>> # <<p, n>>
            <4>1. sent'[<<q, m>>] = sent[<<q, m>>] /\ forgiven'[<<q, m>>] = forgiven[<<q, m>>]
                BY <1>2, <2>1, <3>2
            <4>2. QED
                BY <4>1, <1>3, <2>4
        <3>3. QED
            BY <3>1, <3>2
    <2>6. QED
        BY <2>4, <2>5 DEF NonceInv, Accounted
<1>5. CASE MessageRefused(c)
    <2>1. UNCHANGED <<sent, forgiven>>
        BY <1>5 DEF MessageRefused
    <2>2. Posted(c)
        <3>1. CASE call' = [call EXCEPT ![c].at = "upstream_status"]
            <4>1. call[c] \in [at : Places, by : {p}, posts : Nat]
                BY <1>1 DEF NonceInv, CallTypes
            <4>2. [call[c] EXCEPT !.at = "upstream_status"]
                      \in [at : Places \ {"body"}, by : {p}, posts : Nat]
                BY <4>1 DEF Places
            <4>3. QED
                BY <3>1, <4>2, Zenon DEF Posted
        <3>2. CASE Again(c, "upstream_status") \/ Again(c, "upstream_error")
            BY <3>2, <1>1, AgainPosts DEF NonceInv
        <3>3. QED
            BY <1>5, <3>1, <3>2 DEF MessageRefused
    <2>3. /\ CallTypes' /\ Held' /\ Alone'
          /\ \A q \in Process, m \in Nonce : Spent(q, m) <= Spent(q, m)'
        BY <1>1, <1>2, <2>1, <2>2, PostedStep
    <2>4. ASSUME NEW q \in Process, NEW m \in Nonce
          PROVE  sent'[<<q, m>>] <= forgiven'[<<q, m>>] + Spent(q, m)'
        <3>1. sent'[<<q, m>>] = sent[<<q, m>>] /\ forgiven'[<<q, m>>] = forgiven[<<q, m>>]
            BY <2>1
        <3>2. QED
            BY <3>1, <1>3, <2>3
    <2>5. QED
        BY <2>3, <2>4 DEF NonceInv, Accounted
<1>6. CASE MessageAnswerLost(c)
    <2>1. /\ sent' = [sent EXCEPT ![<<p, n>>] = @ + 1]
          /\ forgiven' = [forgiven EXCEPT ![<<p, n>>] = @ + 1]
        BY <1>1, <1>6 DEF MessageAnswerLost, Sent
    <2>2. sent' \in [Process \X Nonce -> Nat] /\ forgiven' \in [Process \X Nonce -> Nat]
        BY <1>2, <2>1
    <2>3. Posted(c)
        BY <1>6, <1>1, AgainPosts DEF MessageAnswerLost, NonceInv
    <2>4. /\ CallTypes' /\ Held' /\ Alone'
          /\ \A q \in Process, m \in Nonce : Spent(q, m) <= Spent(q, m)'
        BY <1>1, <2>2, <2>3, PostedStep
    <2>5. ASSUME NEW q \in Process, NEW m \in Nonce
          PROVE  sent'[<<q, m>>] <= forgiven'[<<q, m>>] + Spent(q, m)'
        <3>1. \/ /\ sent'[<<q, m>>] = sent[<<q, m>>]
                 /\ forgiven'[<<q, m>>] = forgiven[<<q, m>>]
              \/ /\ sent'[<<q, m>>] = sent[<<q, m>>] + 1
                 /\ forgiven'[<<q, m>>] = forgiven[<<q, m>>] + 1
            BY <1>2, <2>1
        <3>2. QED
            BY <3>1, <1>3, <2>4
    <2>6. QED
        BY <2>4, <2>5 DEF NonceInv, Accounted
<1>7. QED
    BY <1>4, <1>5, <1>6

\* A nonce that expires has no call under way.
LEMMA ExpiryStep ==
    ASSUME NonceInv, NEW p \in Process, NEW n \in Nonce, NonceExpires(p, n)
    PROVE  NonceInv'
<1>1. /\ n \in nonces[p] /\ ~Busy(p, n) /\ UNCHANGED <<call, sent>>
      /\ nonces' = [nonces EXCEPT ![p] = @ \ {n}]
      /\ forgiven' = [forgiven EXCEPT ![<<p, n>>] = @ + 1]
    BY DEF NonceExpires
<1>2. CallTypes' /\ Alone'
    BY <1>1 DEF NonceInv, CallTypes, Alone
<1>3. Held'
    BY <1>1 DEF NonceInv, CallTypes, Held, Busy
<1>4. ASSUME NEW q \in Process, NEW m \in Nonce
      PROVE  sent'[<<q, m>>] <= forgiven'[<<q, m>>] + Spent(q, m)'
    <2>1. /\ sent[<<q, m>>] <= forgiven[<<q, m>>] + Spent(q, m)
          /\ sent[<<q, m>>] \in Nat /\ forgiven[<<q, m>>] \in Nat
          /\ Spent(q, m) \in {0, 1} /\ Spent(q, m)' \in {0, 1}
        BY DEF NonceInv, CallTypes, Accounted, Spent
    <2>2. CASE q = p /\ m = n
        <3>1. forgiven'[<<q, m>>] = forgiven[<<q, m>>] + 1
            BY <1>1, <2>2 DEF NonceInv, CallTypes
        <3>2. QED
            BY <1>1, <2>1, <3>1
    <2>3. CASE <<q, m>> # <<p, n>>
        <3>1. forgiven'[<<q, m>>] = forgiven[<<q, m>>]
            BY <1>1, <2>3 DEF NonceInv, CallTypes
        <3>2. (m \in nonces'[q]) = (m \in nonces[q])
            BY <1>1, <2>3 DEF NonceInv, CallTypes
        <3>3. Busy(q, m)' = Busy(q, m)
            BY <1>1 DEF Busy
        <3>4. Spent(q, m)' = Spent(q, m)
            BY <3>2, <3>3 DEF Spent
        <3>5. QED
            BY <1>1, <2>1, <3>1, <3>4
    <2>4. QED
        BY <2>2, <2>3
<1>5. QED
    BY <1>2, <1>3, <1>4 DEF NonceInv, Accounted

\* A restart forgets every nonce of the process, and is an excuse for each.
LEMMA RestartStep ==
    ASSUME NonceInv, NEW p \in Process, Restart(p)
    PROVE  NonceInv'
<1>1. /\ call' = [c \in Call |-> IF call[c].by = p /\ call[c].at \in {"body", "dispatch"}
                                 THEN [call[c] EXCEPT !.at = "cut_off"] ELSE call[c]]
      /\ nonces' = [nonces EXCEPT ![p] = {}]
    BY DEF Restart
<1>2. /\ sent \in [Process \X Nonce -> Nat] /\ forgiven \in [Process \X Nonce -> Nat]
      /\ DOMAIN sent = Process \X Nonce /\ DOMAIN forgiven = Process \X Nonce
    BY DEF NonceInv, CallTypes
<1>3. /\ sent' \in [Process \X Nonce -> Nat] /\ forgiven' \in [Process \X Nonce -> Nat]
      /\ \A q \in Process, m \in Nonce :
            /\ \/ sent'[<<q, m>>] = sent[<<q, m>>]
               \/ sent'[<<q, m>>] = sent[<<q, m>>] + IF q = p /\ Busy(p, m) THEN 1 ELSE 0
            /\ forgiven'[<<q, m>>]
                   = forgiven[<<q, m>>] + IF q = p /\ m \in nonces[p] THEN 1 ELSE 0
    <2>1. forgiven' = [x \in Process \X Nonce |->
                           forgiven[x] + IF x[1] = p /\ x[2] \in nonces[p] THEN 1 ELSE 0]
        BY <1>2 DEF Restart
    <2>2. \/ sent' = sent
          \/ sent' = [x \in Process \X Nonce |->
                          sent[x] + IF x[1] = p /\ Busy(p, x[2]) THEN 1 ELSE 0]
        BY <1>2 DEF Restart
    <2>3. QED
        BY <1>2, <2>1, <2>2
<1>4. \A c \in Call : /\ call[c].at = "cut_off" \/ call[c].at # "cut_off"
                      /\ call'[c].at = "dispatch" => call'[c] = call[c] /\ call[c].by # p
    BY <1>1 DEF NonceInv, CallTypes
<1>5. CallTypes'
    <2>1. call' \in [Call -> [at : Places, by : Process \cup {None}, posts : Nat]]
        BY <1>1 DEF NonceInv, CallTypes, Places
    <2>2. \A c \in Call : call'[c].at \in {"body", "dispatch"} => call'[c].by \in Process
        BY <1>1 DEF NonceInv, CallTypes
    <2>3. nonces' \in [Process -> SUBSET Nonce]
        BY <1>1 DEF NonceInv, CallTypes
    <2>4. QED
        BY <2>1, <2>2, <2>3, <1>3 DEF CallTypes
<1>6. Held'
    BY <1>1, <1>4 DEF NonceInv, CallTypes, Held
<1>7. Alone'
    BY <1>4 DEF NonceInv, Alone
<1>8. ASSUME NEW q \in Process, NEW m \in Nonce
      PROVE  sent'[<<q, m>>] <= forgiven'[<<q, m>>] + Spent(q, m)'
    <2>1. /\ sent[<<q, m>>] <= forgiven[<<q, m>>] + Spent(q, m)
          /\ sent[<<q, m>>] \in Nat /\ forgiven[<<q, m>>] \in Nat
          /\ Spent(q, m) \in {0, 1} /\ Spent(q, m)' \in {0, 1}
        BY DEF NonceInv, CallTypes, Accounted, Spent
    <2>2. CASE q = p
        <3>1. Busy(p, m) => m \in nonces[p]
            BY DEF Busy, NonceInv, Held
        <3>2. Busy(p, m) => Spent(p, m) = 0
            BY DEF Spent
        <3>3. m \notin nonces[p] => Spent(p, m) = 0
            BY DEF Spent
        <3>4. QED
            BY <1>3, <2>1, <2>2, <3>1, <3>2, <3>3
    <2>3. CASE q # p
        <3>1. sent'[<<q, m>>] = sent[<<q, m>>] /\ forgiven'[<<q, m>>] = forgiven[<<q, m>>]
            BY <1>2, <1>3, <2>3
        <3>2. nonces'[q] = nonces[q]
            BY <1>1, <2>3 DEF NonceInv, CallTypes
        <3>3. Busy(q, m)' => Busy(q, m)
            BY <1>4 DEF Busy
        <3>4. Spent(q, m) <= Spent(q, m)'
            BY <3>2, <3>3 DEF Spent
        <3>5. QED
            BY <2>1, <3>1, <3>4
    <2>4. QED
        BY <2>2, <2>3
<1>9. QED
    BY <1>5, <1>6, <1>7, <1>8 DEF NonceInv, Accounted

\* Every step keeps NonceInv.
LEMMA NextNonceInv == NonceInv /\ [Next]_vars => NonceInv'
<1> SUFFICES ASSUME NonceInv, [Next]_vars PROVE NonceInv'
    OBVIOUS
<1>1. CASE UNCHANGED callVars
    BY <1>1, QuietCalls
<1>2. ASSUME NEW c \in Call, CallStep(c)
      PROVE  NonceInv'
    BY <1>2, ReceiveStep, UnreadableStep, ValidateStep, PortalStep DEF CallStep
<1>3. ASSUME NEW p \in Process, RotationStep(p)
      PROVE  UNCHANGED callVars
    BY <1>3, Zenon DEF RotationStep, StartRotation, ReadKeys, TruncateKeys, WriteKeys, RotationFails
<1>4. ASSUME NEW p \in Process, Restart(p)
      PROVE  NonceInv'
    BY <1>4, RestartStep
<1>5. ASSUME NEW k \in ApiKey, KeyExpires(k)
      PROVE  UNCHANGED <<call, nonces, sent, forgiven>>
    BY <1>5 DEF KeyExpires
<1>6. ASSUME NEW p \in Process, NEW k \in ApiKey, WindowEnds(p, k)
      PROVE  UNCHANGED <<call, nonces, sent, forgiven>>
    BY <1>6 DEF WindowEnds
<1>7. ASSUME NEW p \in Process, NEW n \in Nonce, NonceExpires(p, n)
      PROVE  NonceInv'
    BY <1>7, ExpiryStep
<1>8. CASE UNCHANGED <<call, nonces, sent, forgiven>>
    BY <1>8 DEF NonceInv, CallTypes, Held, Alone, Accounted, Spent, Busy
<1>9. CASE UNCHANGED vars
    BY <1>1, <1>9 DEF vars
<1>10. QED
    BY <1>1, <1>2, <1>3, <1>4, <1>5, <1>6, <1>7, <1>8, <1>9, Zenon DEF Next

\* A process sends the message of a nonce once, whatever the calls of POST
\* /api/send-notification do at the same time, but for the excuses that are counted.
THEOREM NoncesHold == Spec => []NonceOnce
<1>1. ASSUME NonceInv, NEW p \in Process, NEW n \in Nonce
      PROVE  sent[<<p, n>>] <= 1 + forgiven[<<p, n>>]
    <2>1. /\ sent[<<p, n>>] \in Nat /\ forgiven[<<p, n>>] \in Nat
          /\ sent[<<p, n>>] <= forgiven[<<p, n>>] + Spent(p, n)
        BY <1>1 DEF NonceInv, CallTypes, Accounted
    <2>2. Spent(p, n) \in {0, 1}
        BY DEF Spent
    <2>3. QED
        BY <2>1, <2>2
<1>2. NonceInv => NonceOnce
    BY <1>1 DEF NonceOnce
<1>3. QED
    BY <1>2, InitNonceInv, NextNonceInv, PTL DEF Spec

----------------------------------------------------------------------------
(* Keys.                                                                   *)

\* Entries of the keys that have been generated when there are m of them.
KeyEntry(m) == [id : (0 .. m) \cup Listed, source : Source, revoked : BOOLEAN]

\* A key that a rotation has put in force, or a single one of the environment.
InForce(e) == ~e.revoked /\ e.id \notin Listed

\* A set of entries that may be written to the file.
Sound(keys, m) ==
    /\ keys \subseteq KeyEntry(m)
    /\ \A d, e \in keys : d.source = e.source /\ InForce(d) /\ InForce(e) => d = e

RotationType(m) ==
    [at : {"idle", "read", "mend", "open", "mending", "writing"}, source : Source,
     keys : SUBSET KeyEntry(m), fresh : 0 .. m, first : 0 .. m]

\* The file, and what each rotation is about to write to it, have one key of a source in
\* force.
KeyInv ==
    /\ keysFile = Unreadable \/ Sound(keysFile, minted)
    /\ minted \in Nat
    /\ env \in [Process -> [Source -> 0 .. minted]]
    /\ rotation \in [Process -> RotationType(minted)]
    /\ \A p \in Process : Sound(rotation[p].keys, minted)

\* What is sound stays so when more keys are generated.
LEMMA StaysSound ==
    ASSUME NEW m \in Nat, NEW n \in Nat, m <= n
    PROVE  /\ 0 .. m \subseteq 0 .. n
           /\ KeyEntry(m) \subseteq KeyEntry(n)
           /\ RotationType(m) \subseteq RotationType(n)
           /\ \A keys : Sound(keys, m) => Sound(keys, n)
<1>1. 0 .. m \subseteq 0 .. n
    OBVIOUS
<1>2. KeyEntry(m) \subseteq KeyEntry(n)
    BY <1>1 DEF KeyEntry
<1>3. RotationType(m) \subseteq RotationType(n)
    <2>1. SUBSET KeyEntry(m) \subseteq SUBSET KeyEntry(n)
        BY <1>2
    <2>2. QED
        BY <1>1, <2>1 DEF RotationType
<1>4. \A keys : Sound(keys, m) => Sound(keys, n)
    BY <1>2, Zenon DEF Sound
<1>5. QED
    BY <1>1, <1>2, <1>3, <1>4

\* No key is in force twice where there is none.
LEMMA RestingSound ==
    ASSUME NEW m \in Nat
    PROVE  Resting \in RotationType(m) /\ Sound(Resting.keys, m) /\ Sound({}, m)
BY DEF Resting, RotationType, Sound, Source

\* The keys of the environment are one per source, and the listed ones.
LEMMA FallbackSound ==
    ASSUME KeyInv, NEW p \in Process
    PROVE  Sound(Fallback(p), minted)
<1>1. \A s \in Source : env[p][s] \in 0 .. minted
    BY DEF KeyInv
<1>2. \A x : x \in Fallback(p) <=>
          \/ \E s \in Source : x = [id |-> env[p][s], source |-> s, revoked |-> FALSE]
          \/ \E i \in Listed : x = [id |-> i, source |-> "notification", revoked |-> FALSE]
    BY DEF Fallback, Entry
<1>3. ASSUME NEW x \in Fallback(p)
      PROVE  /\ x \in KeyEntry(minted)
             /\ InForce(x) => x = [id |-> env[p][x.source], source |-> x.source, revoked |-> FALSE]
    <2>1. CASE \E s \in Source : x = [id |-> env[p][s], source |-> s, revoked |-> FALSE]
        <3>1. PICK s \in Source : x = [id |-> env[p][s], source |-> s, revoked |-> FALSE]
            BY <2>1
        <3>2. x.source = s
            BY <3>1
        <3>3. x \in KeyEntry(minted)
            BY <1>1, <3>1 DEF KeyEntry
        <3>4. QED
            BY <3>1, <3>2, <3>3
    <2>2. CASE \E i \in Listed : x = [id |-> i, source |-> "notification", revoked |-> FALSE]
        <3>1. PICK i \in Listed : x = [id |-> i, source |-> "notification", revoked |-> FALSE]
            BY <2>2
        <3>2. x.id = i /\ ~InForce(x)
            BY <3>1 DEF InForce
        <3>3. x \in KeyEntry(minted)
            BY <3>1 DEF KeyEntry, Source
        <3>4. QED
            BY <3>2, <3>3
    <2>3. QED
        BY <1>2, <2>1, <2>2
<1>4. QED
    BY <1>3 DEF Sound

\* A rotation revokes all keys of its source and adds one.
LEMMA RotatedSound ==
    ASSUME NEW m \in Nat, NEW keys, Sound(keys, m), NEW source \in Source, NEW id \in 0 .. m
    PROVE  Sound(Rotated(keys, source, id), m)
<1> DEFINE Old(e) == IF e.source = source THEN [e EXCEPT !.revoked = TRUE] ELSE e
           fresh == Entry(id, source)
<1>1. fresh \in KeyEntry(m) /\ fresh.source = source
    BY DEF Entry, KeyEntry
<1>2. ASSUME NEW e \in keys
      PROVE  /\ Old(e) \in KeyEntry(m)
             /\ Old(e).source = e.source
             /\ e.source = source => Old(e).revoked
             /\ e.source # source => Old(e) = e
    BY <1>2 DEF Sound, KeyEntry
<1>3. \A x : x \in Rotated(keys, source, id) <=> (x = fresh \/ \E e \in keys : x = Old(e))
    BY DEF Rotated
<1> HIDE DEF Old, fresh
<1>4. ASSUME NEW x \in Rotated(keys, source, id)
      PROVE  x \in KeyEntry(m) /\ (x.revoked \/ x = fresh \/ (x \in keys /\ x.source # source))
    <2>1. CASE x = fresh
        BY <1>1, <2>1
    <2>2. CASE \E e \in keys : x = Old(e)
        <3>1. PICK e \in keys : x = Old(e)
            BY <2>2
        <3>2. QED
            BY <1>2, <3>1
    <2>3. QED
        BY <1>3, <2>1, <2>2
<1>5. ASSUME NEW x \in Rotated(keys, source, id), NEW y \in Rotated(keys, source, id),
             x.source = y.source, InForce(x), InForce(y)
      PROVE  x = y
    <2>1. ~x.revoked /\ ~y.revoked
        BY <1>5 DEF InForce
    <2>2. QED
        BY <1>1, <1>4, <1>5, <2>1 DEF Sound
<1>6. QED
    BY <1>4, <1>5 DEF Sound

\* The initial state satisfies KeyInv.
LEMMA InitKeyInv == Init => KeyInv
<1> SUFFICES ASSUME Init PROVE KeyInv
    OBVIOUS
<1>1. /\ keysFile \in {{}, Unreadable} /\ minted = 0
      /\ rotation = [p \in Process |-> Resting] /\ env = [p \in Process |-> Deployed]
    BY DEF Init
<1>2. Deployed \in [Source -> 0 .. 0]
    BY DEF Deployed
<1>3. Resting \in RotationType(0) /\ Sound(Resting.keys, 0) /\ Sound({}, 0)
    BY RestingSound
<1>4. QED
    BY <1>1, <1>2, <1>3 DEF KeyInv

\* A step that puts sound keys where the rotation or the file had others.
LEMMA PutKeys ==
    ASSUME KeyInv, minted' \in Nat, minted <= minted',
           NEW p \in Process, NEW r \in RotationType(minted'), Sound(r.keys, minted'),
           rotation' = [rotation EXCEPT ![p] = r],
           keysFile' = Unreadable \/ Sound(keysFile', minted'),
           env' \in [Process -> [Source -> 0 .. minted']]
    PROVE  KeyInv'
<1>1. /\ RotationType(minted) \subseteq RotationType(minted')
      /\ \A keys : Sound(keys, minted) => Sound(keys, minted')
    BY StaysSound DEF KeyInv
<1>2. /\ rotation \in [Process -> RotationType(minted)]
      /\ \A q \in Process : Sound(rotation[q].keys, minted)
    BY DEF KeyInv
<1>3. rotation' \in [Process -> RotationType(minted')]
    BY <1>1, <1>2
<1>4. \A q \in Process : Sound(rotation'[q].keys, minted')
    BY <1>1, <1>2
<1>5. QED
    BY <1>3, <1>4 DEF KeyInv

\* The same when no key is generated.
LEMMA PutKnownKeys ==
    ASSUME KeyInv, UNCHANGED minted,
           NEW p \in Process, NEW r \in RotationType(minted), Sound(r.keys, minted),
           rotation' = [rotation EXCEPT ![p] = r],
           keysFile' = Unreadable \/ Sound(keysFile', minted),
           env' \in [Process -> [Source -> 0 .. minted]]
    PROVE  KeyInv'
<1>1. minted' = minted /\ minted \in Nat /\ minted <= minted
    BY DEF KeyInv
<1>2. QED
    BY <1>1, PutKeys

\* A rotation reads the file, truncates it and writes it, or gives up.
LEMMA RotationKeyInv ==
    ASSUME KeyInv, NEW p \in Process, RotationStep(p)
    PROVE  KeyInv'
<1> DEFINE r == rotation[p]
<1>1. r \in RotationType(minted) /\ Sound(r.keys, minted) /\ minted \in Nat
      /\ env \in [Process -> [Source -> 0 .. minted]]
      /\ (keysFile = Unreadable \/ Sound(keysFile, minted))
    BY DEF KeyInv
<1>2. r.source \in Source /\ r.fresh \in 0 .. minted /\ r.first \in 0 .. minted
    BY <1>1 DEF RotationType
<1>3. ASSUME NEW place \in {"read", "mending", "writing"}
      PROVE  [r EXCEPT !.at = place] \in RotationType(minted) /\ [r EXCEPT !.at = place].keys = r.keys
    BY <1>1 DEF RotationType
<1>4. CASE StartRotation(p)
    <2>1. rotation' = [rotation EXCEPT ![p] = [r EXCEPT !.at = "read"]]
          /\ UNCHANGED <<keysFile, env, minted>>
        BY <1>4 DEF StartRotation
    <2>2. QED
        BY <1>1, <1>3, <2>1, PutKnownKeys
<1>5. CASE ReadKeys(p)
    <2> DEFINE keys == IF keysFile = Unreadable THEN Fallback(p) ELSE keysFile
               next == IF keysFile = Unreadable THEN keys ELSE Rotated(keys, r.source, minted + 1)
               place == IF keysFile = Unreadable THEN "mend" ELSE "open"
    <2>0. minted + 1 \in Nat /\ minted <= minted + 1 /\ minted + 1 \in 0 .. minted + 1
        BY <1>1
    <2>1. Sound(keys, minted + 1)
        <3>1. Sound(keys, minted)
            BY <1>1, FallbackSound
        <3> HIDE DEF keys
        <3>2. QED
            BY <1>1, <2>0, <3>1, StaysSound
    <2>2. Sound(next, minted + 1)
        BY <2>0, <1>2, <2>1, RotatedSound
    <2>3. /\ rotation' = [rotation EXCEPT ![p] =
                 [r EXCEPT !.at = place, !.fresh = minted + 1, !.keys = next]]
          /\ minted' = minted + 1 /\ UNCHANGED <<keysFile, env>>
        BY <1>5 DEF ReadKeys
    <2>4. place \in {"mend", "open"}
        OBVIOUS
    <2> HIDE DEF next, keys, place
    <2>5. r \in RotationType(minted + 1)
        BY <1>1, <2>0, StaysSound
    <2>6. [r EXCEPT !.at = place, !.fresh = minted + 1, !.keys = next] \in RotationType(minted + 1)
          /\ [r EXCEPT !.at = place, !.fresh = minted + 1, !.keys = next].keys = next
        BY <2>0, <2>2, <2>4, <2>5 DEF RotationType, Sound
    <2>7. /\ env' \in [Process -> [Source -> 0 .. minted + 1]]
          /\ keysFile' = Unreadable \/ Sound(keysFile', minted + 1)
        BY <1>1, <2>0, <2>3, StaysSound
    <2>8. QED
        BY <2>0, <2>2, <2>3, <2>6, <2>7, PutKeys
<1>6. CASE TruncateKeys(p)
    <2>1. PICK place \in {"mending", "writing"} :
              rotation' = [rotation EXCEPT ![p] = [r EXCEPT !.at = place]]
        BY <1>6 DEF TruncateKeys
    <2>2. keysFile' = Unreadable /\ UNCHANGED <<env, minted>>
        BY <1>6 DEF TruncateKeys
    <2>3. QED
        BY <1>1, <1>3, <2>1, <2>2, PutKnownKeys
<1>7. CASE WriteKeys(p)
    <2>1. keysFile' = r.keys /\ UNCHANGED minted
        BY <1>7 DEF WriteKeys
    <2>2. CASE r.at = "mending"
        <3> DEFINE next == Rotated(r.keys, r.source, r.fresh)
        <3>1. Sound(next, minted)
            BY <1>1, <1>2, RotatedSound
        <3>2. rotation' = [rotation EXCEPT ![p] = [r EXCEPT !.at = "open", !.keys = next]]
              /\ UNCHANGED env
            BY <1>7, <2>2 DEF WriteKeys
        <3> HIDE DEF next
        <3>3. [r EXCEPT !.at = "open", !.keys = next] \in RotationType(minted)
              /\ [r EXCEPT !.at = "open", !.keys = next].keys = next
            BY <1>1, <3>1 DEF RotationType, Sound
        <3>4. QED
            BY <1>1, <2>1, <3>1, <3>2, <3>3, PutKnownKeys
    <2>3. CASE r.at = "writing" /\ r.source = "notification"
        <3> DEFINE second == [Resting EXCEPT !.at = "read", !.source = "developer_portal",
                                             !.first = r.fresh]
        <3>1. rotation' = [rotation EXCEPT ![p] = second] /\ UNCHANGED env
            BY <1>7, <2>3 DEF WriteKeys
        <3>2. second \in RotationType(minted) /\ second.keys = Resting.keys
            BY <1>1, <1>2, RestingSound DEF Resting, RotationType, Source
        <3> HIDE DEF second
        <3>3. Sound(second.keys, minted)
            BY <1>1, <3>2, RestingSound
        <3>4. QED
            BY <1>1, <2>1, <3>1, <3>2, <3>3, PutKnownKeys
    <2>4. CASE r.at = "writing" /\ r.source = "developer_portal"
        <3> DEFINE keys == [s \in Source |-> IF s = "notification" THEN r.first ELSE r.fresh]
        <3>1. rotation' = [rotation EXCEPT ![p] = Resting] /\ env' = [env EXCEPT ![p] = keys]
            BY <1>7, <2>4 DEF WriteKeys
        <3>2. keys \in [Source -> 0 .. minted]
            BY <1>2
        <3> HIDE DEF keys
        <3>3. env' \in [Process -> [Source -> 0 .. minted]]
            BY <1>1, <3>1, <3>2
        <3>4. QED
            BY <1>1, <2>1, <3>1, <3>3, PutKnownKeys, RestingSound
    <2>5. QED
        BY <1>7, <2>2, <2>3, <2>4 DEF WriteKeys
<1>8. CASE RotationFails(p)
    <2>1. rotation' = [rotation EXCEPT ![p] = Resting] /\ UNCHANGED <<keysFile, env, minted>>
        BY <1>8 DEF RotationFails
    <2>2. QED
        BY <1>1, <2>1, PutKnownKeys, RestingSound
<1>9. QED
    BY <1>4, <1>5, <1>6, <1>7, <1>8 DEF RotationStep

\* Every step keeps KeyInv; a restart resets the environment and drops the rotation.
LEMMA NextKeyInv == KeyInv /\ [Next]_vars => KeyInv'
<1> SUFFICES ASSUME KeyInv, [Next]_vars PROVE KeyInv'
    OBVIOUS
<1>1. CASE UNCHANGED keyVars
    BY <1>1 DEF keyVars, KeyInv
<1>2. ASSUME NEW p \in Process, RotationStep(p)
      PROVE  KeyInv'
    BY <1>2, RotationKeyInv
<1>3. ASSUME NEW p \in Process, Restart(p)
      PROVE  KeyInv'
    <2>1. /\ rotation' = [rotation EXCEPT ![p] = Resting]
          /\ env' = [env EXCEPT ![p] = Deployed]
          /\ UNCHANGED <<keysFile, minted>>
        BY <1>3 DEF Restart
    <2>2. Deployed \in [Source -> 0 .. minted]
        BY DEF Deployed, KeyInv
    <2>3. env' \in [Process -> [Source -> 0 .. minted]]
        BY <2>1, <2>2 DEF KeyInv
    <2>4. QED
        BY <2>1, <2>3, PutKnownKeys, RestingSound DEF KeyInv
<1>4. ASSUME NEW c \in Call, CallStep(c)
      PROVE  UNCHANGED keyVars
    BY <1>4, Zenon DEF CallStep, Receive, BodyUnreadable, Validate, MessageTaken, MessageRefused, MessageAnswerLost
<1>5. ASSUME NEW k \in ApiKey, KeyExpires(k)
      PROVE  UNCHANGED keyVars
    BY <1>5, Zenon DEF KeyExpires
<1>6. ASSUME NEW p \in Process, NEW k \in ApiKey, WindowEnds(p, k)
      PROVE  UNCHANGED keyVars
    BY <1>6, Zenon DEF WindowEnds
<1>7. ASSUME NEW p \in Process, NEW n \in Nonce, NonceExpires(p, n)
      PROVE  UNCHANGED keyVars
    BY <1>7, Zenon DEF NonceExpires
<1>8. CASE UNCHANGED vars
    BY <1>1, <1>8 DEF vars
<1>9. QED
    BY <1>1, <1>2, <1>3, <1>4, <1>5, <1>6, <1>7, <1>8, Zenon DEF Next

\* However many processes rotate data/notification-keys.json at once, with no lock, the
\* file never holds two keys of one source in force, apart from those that
\* NOTIFICATIONS_API_KEYS lists.
THEOREM KeysHold == Spec => []OneKeyInForce
<1>1. KeyInv => OneKeyInForce
    BY DEF KeyInv, Sound, InForce, OneKeyInForce
<1>2. QED
    BY <1>1, InitKeyInv, NextKeyInv, PTL DEF Spec

----------------------------------------------------------------------------
(* Types.                                                                  *)

\* A job that may still be carried has an attempt left, and has not stalled too often.
Trying ==
    \A k \in JobId : job[k].at \in {"waiting", "active"} =>
        job[k].made < attempts /\ job[k].stalls <= MaxStalls

QueueTypes == QueueTypeOK /\ Trying

JobBound ==
    [at : {"none", "waiting", "active", "done", "failed"}, wallets : SUBSET Seat,
     made : 0 .. attempts, stalls : 0 .. MaxStalls + 1, requests : 0 .. maxRetries - 1]

CycleBound ==
    [at : {"idle", "wallets", "enqueue"}, ann : Announcement,
     n : 0 .. MaxSeats, next : 0 .. MaxSeats]

Tried(j) == j.at \in {"waiting", "active"} => j.made < attempts /\ j.stalls <= MaxStalls

\* No job and no cycle, within their bounds.
LEMMA Nothing == NoJob \in JobBound /\ Tried(NoJob) /\ Idle \in CycleBound
<1>1. /\ attempts \in Nat /\ attempts > 0 /\ maxRetries \in Nat /\ maxRetries > 0
      /\ MaxStalls \in Nat /\ MaxSeats \in Nat
    BY NotificationQueueAssumption
<1>2. QED
    BY <1>1 DEF NoJob, JobBound, Tried, Idle, CycleBound, Announcement

\* The initial state is within the bounds of the queue.
LEMMA InitQueueTypes == QueueInit => QueueTypes
<1> SUFFICES ASSUME QueueInit PROVE QueueTypes
    OBVIOUS
<1>1. /\ seated \in 0 .. MaxSeats /\ MaxEvents \in Nat
    BY NotificationQueueAssumption DEF QueueInit
<1>2. cycle \in [Process -> CycleBound] /\ job \in [JobId -> JobBound]
    BY Nothing DEF QueueInit
<1>3. \A k \in JobId : Tried(job[k])
    BY Nothing DEF QueueInit
<1>4. QED
    BY <1>1, <1>2, <1>3 DEF QueueInit, QueueTypes, QueueTypeOK, Trying, Tried, CycleBound, JobBound

\* What happens is counted up to MaxEvents.
LEMMA EventCounted ==
    ASSUME events \in 0 .. MaxEvents, Happens
    PROVE  events' \in 0 .. MaxEvents
BY NotificationQueueAssumption DEF Happens

\* A step of a cycle stays within the seats, and what it adds to the queue does.
LEMMA CycleTypes ==
    ASSUME QueueTypes, NEW p \in Process, CycleStep(p) \/ CycleFails(p)
    PROVE  QueueTypes'
<1> DEFINE c == cycle[p]
<1>1. /\ c \in CycleBound /\ cycle \in [Process -> CycleBound] /\ seated \in 0 .. MaxSeats
      /\ notified \in [Process -> SUBSET Announcement] /\ events \in 0 .. MaxEvents
      /\ job \in [JobId -> JobBound] /\ \A k \in JobId : Tried(job[k])
    BY DEF QueueTypes, QueueTypeOK, Trying, Tried, CycleBound, JobBound
<1>2. c.ann \in Announcement /\ c.n \in 0 .. MaxSeats /\ c.next \in 0 .. MaxSeats
    BY <1>1 DEF CycleBound
<1>3. MaxSeats \in Nat /\ MaxWallets \in Nat
    BY NotificationQueueAssumption
<1>4. UNCHANGED <<phase, refused, seated, reached, excuse>>
    BY DEF CycleStep, ProcessTournament, GetWallets, EnqueueChunk, CycleFails, jobVars
<1>5. events' \in 0 .. MaxEvents
    <2>1. UNCHANGED events \/ Happens
        BY Zenon DEF CycleStep, ProcessTournament, GetWallets, EnqueueChunk, CycleFails
    <2>2. QED
        BY <1>1, <2>1, EventCounted
<1>6. notified' \in [Process -> SUBSET Announcement]
    <2>1. notified' = notified \/ notified' = [notified EXCEPT ![p] = @ \cup {c.ann}]
        BY Zenon DEF CycleStep, ProcessTournament, GetWallets, EnqueueChunk, CycleFails, Remember
    <2>2. QED
        BY <1>1, <1>2, <2>1
<1>7. \E d \in CycleBound : cycle' = [cycle EXCEPT ![p] = d]
    <2>1. CASE ProcessTournament(p)
        <3>1. PICK a \in Announcement :
                  cycle' = [cycle EXCEPT ![p] = [Idle EXCEPT !.at = "wallets", !.ann = a]]
            BY <2>1 DEF ProcessTournament
        <3>2. [Idle EXCEPT !.at = "wallets", !.ann = a] \in CycleBound
            BY Nothing DEF CycleBound
        <3>3. QED
            BY <3>1, <3>2
    <2>2. CASE GetWallets(p)
        <3>1. [c EXCEPT !.at = "enqueue", !.n = seated] \in CycleBound
            BY <1>1 DEF CycleBound
        <3>2. \/ cycle' = [cycle EXCEPT ![p] = Idle]
              \/ cycle' = [cycle EXCEPT ![p] = [c EXCEPT !.at = "enqueue", !.n = seated]]
            BY <2>2 DEF GetWallets, Remember
        <3>3. QED
            BY <3>1, <3>2, Nothing
    <2>3. CASE EnqueueChunk(p)
        <3> DEFINE d == [c EXCEPT !.next = c.next + MaxWallets]
        <3>1. CASE c.next + MaxWallets < c.n
            <4>1. c.next + MaxWallets \in 0 .. MaxSeats
                BY <1>2, <1>3, <3>1
            <4>2. d \in CycleBound
                BY <1>1, <4>1 DEF CycleBound
            <4>3. cycle' = [cycle EXCEPT ![p] = d]
                BY <2>3, <3>1 DEF EnqueueChunk
            <4>4. QED
                BY <4>2, <4>3
        <3>2. CASE ~(c.next + MaxWallets < c.n)
            BY <2>3, <3>2, Nothing DEF EnqueueChunk, Remember
        <3>3. QED
            BY <3>1, <3>2
    <2>4. CASE CycleFails(p)
        BY <2>4, Nothing DEF CycleFails
    <2>5. QED
        BY <2>1, <2>2, <2>3, <2>4 DEF CycleStep
<1>8. cycle' \in [Process -> CycleBound]
    BY <1>1, <1>7
<1>9. \/ job' = job
      \/ \E k \in JobId, j \in JobBound : Tried(j) /\ job' = [job EXCEPT ![k] = j]
    <2>1. CASE EnqueueChunk(p)
        <3> DEFINE k == <<c.ann, c.next>>
                   wallets == Chunk(c.next, c.n)
                   fresh == [NoJob EXCEPT !.at = "waiting", !.wallets = wallets]
        <3>1. wallets \in SUBSET Seat
            BY <1>2, <1>3 DEF Chunk, Seat
        <3>2. job' = job \/ job' = [job EXCEPT ![k] = fresh]
            BY <2>1 DEF EnqueueChunk, Queued
        <3>3. k \notin JobId => [job EXCEPT ![k] = fresh] = job
            BY <1>1
        <3> HIDE DEF wallets
        <3>4. 0 < attempts /\ 0 <= MaxStalls
            BY Nothing, NotificationQueueAssumption
        <3>5. fresh \in JobBound /\ Tried(fresh)
            BY <3>1, <3>4, Nothing DEF NoJob, JobBound, Tried
        <3>6. QED
            BY <3>2, <3>3, <3>5
    <2>2. CASE ~EnqueueChunk(p)
        BY <2>2 DEF CycleStep, ProcessTournament, GetWallets, CycleFails, jobVars
    <2>3. QED
        BY <2>1, <2>2
<1>10. job' \in [JobId -> JobBound] /\ \A k \in JobId : Tried(job'[k])
    BY <1>1, <1>9
<1>11. QED
    BY <1>4, <1>5, <1>6, <1>8, <1>10
    DEF QueueTypes, QueueTypeOK, Trying, Tried, CycleBound, JobBound

\* A try that goes unanswered is counted, and the last one ends the job.
LEMMA UnansweredTypes ==
    ASSUME QueueTypes, NEW k \in JobId, job[k].at = "active", Unanswered(k)
    PROVE  \E j \in JobBound : Tried(j) /\ job' = [job EXCEPT ![k] = j]
<1> DEFINE j == job[k]
<1>1. /\ attempts \in Nat /\ attempts > 0 /\ maxRetries \in Nat /\ maxRetries > 0
      /\ MaxStalls \in Nat
    BY NotificationQueueAssumption
<1>2. j \in JobBound /\ j.made < attempts /\ j.stalls <= MaxStalls /\ j.at = "active"
    BY DEF QueueTypes, QueueTypeOK, Trying, JobBound
<1>3. j.made \in Nat /\ j.requests \in Nat
    BY <1>1, <1>2 DEF JobBound
<1> HIDE DEF j
<1>4. CASE j.requests + 1 < maxRetries
    <2> DEFINE again == [j EXCEPT !.requests = j.requests + 1]
    <2>1. j.requests + 1 \in 0 .. maxRetries - 1
        BY <1>1, <1>3, <1>4
    <2>2. again \in JobBound /\ Tried(again)
        BY <1>2, <2>1 DEF JobBound, Tried
    <2>3. job' = [job EXCEPT ![k] = again]
        BY <1>4 DEF Unanswered, j
    <2>4. QED
        BY <2>2, <2>3
<1>5. CASE ~(j.requests + 1 < maxRetries)
    <2> DEFINE place == IF j.made + 1 < attempts THEN "waiting" ELSE "failed"
               next == [j EXCEPT !.made = j.made + 1, !.requests = 0, !.at = place]
    <2>1. j.made + 1 \in 0 .. attempts /\ 0 \in 0 .. maxRetries - 1
        BY <1>1, <1>2, <1>3
    <2>2. /\ place \in {"waiting", "failed"}
          /\ place = "waiting" => j.made + 1 < attempts
        OBVIOUS
    <2>3. job' = [job EXCEPT ![k] = next]
        BY <1>5 DEF Unanswered, j
    <2> HIDE DEF place
    <2>4. next \in JobBound /\ Tried(next)
        BY <1>2, <2>1, <2>2 DEF JobBound, Tried
    <2>5. QED
        BY <2>3, <2>4
<1>6. QED
    BY <1>4, <1>5

\* The worker and the portal stay within the bounds of a job.
LEMMA WorkerTypes ==
    ASSUME QueueTypes, NEW k \in JobId,
           \/ WorkerStep(k) \/ PortalRefuses(k) \/ AnswerLost(k) \/ WorkerDies(k)
           \/ QueueForgets(k)
    PROVE  QueueTypes'
<1> DEFINE j == job[k]
<1>1. /\ j \in JobBound /\ job \in [JobId -> JobBound] /\ \A i \in JobId : Tried(job[i])
      /\ events \in 0 .. MaxEvents
      /\ reached \in [Announcement \X Seat -> Nat] /\ excuse \in [JobId -> Nat]
    BY DEF QueueTypes, QueueTypeOK, Trying, Tried, JobBound
<1>2. /\ attempts \in Nat /\ maxRetries \in Nat /\ maxRetries > 0 /\ MaxStalls \in Nat
    BY NotificationQueueAssumption
<1>3. UNCHANGED <<phase, refused, seated, notified, cycle>>
    BY DEF WorkerStep, StartJob, PortalAccepts, PortalRefuses, AnswerLost, WorkerDies, QueueForgets
<1>4. events' \in 0 .. MaxEvents
    BY <1>1, EventCounted
    DEF WorkerStep, StartJob, PortalAccepts, PortalRefuses, AnswerLost, WorkerDies, QueueForgets
<1>5. Deliver(k) => reached' \in [Announcement \X Seat -> Nat]
    BY <1>1 DEF Deliver
<1>6. Excused(k) => excuse' \in [JobId -> Nat]
    BY <1>1 DEF Excused
<1>7. reached' \in [Announcement \X Seat -> Nat] /\ excuse' \in [JobId -> Nat]
    BY <1>1, <1>5, <1>6
    DEF WorkerStep, StartJob, PortalAccepts, PortalRefuses, AnswerLost, WorkerDies, QueueForgets
<1>8. \E n \in JobBound : Tried(n) /\ job' = [job EXCEPT ![k] = n]
    <2>1. CASE StartJob(k)
        <3> DEFINE n == [j EXCEPT !.at = "active", !.requests = 0]
        <3>1. job' = [job EXCEPT ![k] = n] /\ j.at = "waiting"
            BY <1>1, <2>1 DEF StartJob
        <3>2. 0 \in 0 .. maxRetries - 1
            BY <1>2
        <3>3. Tried(j)
            BY <1>1
        <3> HIDE DEF j
        <3>4. n \in JobBound /\ Tried(n)
            BY <1>1, <3>1, <3>2, <3>3 DEF JobBound, Tried
        <3>5. QED
            BY <3>1, <3>4
    <2>2. CASE PortalAccepts(k)
        <3>1. job' = [job EXCEPT ![k] = [j EXCEPT !.at = "done"]]
            BY <1>1, <2>2 DEF PortalAccepts
        <3>2. [j EXCEPT !.at = "done"] \in JobBound /\ Tried([j EXCEPT !.at = "done"])
            BY <1>1 DEF JobBound, Tried
        <3>3. QED
            BY <3>1, <3>2
    <2>3. CASE PortalRefuses(k) \/ AnswerLost(k)
        BY <2>3, UnansweredTypes DEF PortalRefuses, AnswerLost
    <2>4. CASE WorkerDies(k)
        <3> DEFINE place == IF j.stalls < MaxStalls THEN "waiting" ELSE "failed"
                   n == [j EXCEPT !.stalls = j.stalls + 1, !.at = place]
        <3>1. job' = [job EXCEPT ![k] = n] /\ j.at = "active"
            BY <1>1, <2>4 DEF WorkerDies
        <3>2. Tried(j)
            BY <1>1
        <3> HIDE DEF j
        <3>3. j.stalls \in Nat /\ j.stalls <= MaxStalls /\ j.made < attempts
            BY <1>1, <1>2, <3>1, <3>2 DEF JobBound, Tried
        <3>4. j.stalls + 1 \in 0 .. MaxStalls + 1
            BY <1>2, <3>3
        <3>5. place \in {"waiting", "failed"} /\ (place = "waiting" => j.stalls + 1 <= MaxStalls)
            BY <1>2, <3>3
        <3> HIDE DEF place
        <3>6. n \in JobBound /\ Tried(n)
            BY <1>1, <3>3, <3>4, <3>5 DEF JobBound, Tried
        <3>7. QED
            BY <3>1, <3>6
    <2>5. CASE QueueForgets(k)
        BY <2>5, Nothing DEF QueueForgets
    <2>6. QED
        BY <2>1, <2>2, <2>3, <2>4, <2>5 DEF WorkerStep
<1>9. job' \in [JobId -> JobBound] /\ \A i \in JobId : Tried(job'[i])
    BY <1>1, <1>8
<1>10. QED
    BY <1>3, <1>4, <1>7, <1>9 DEF QueueTypes, QueueTypeOK, Trying, Tried, JobBound

\* Every step keeps the bounds of the queue; those of the other parts leave it alone, but
\* for a restart, which drops the cycle of its process.
LEMMA NextQueueTypes == QueueTypes /\ [Next]_vars => QueueTypes'
<1> SUFFICES ASSUME QueueTypes, [Next]_vars PROVE QueueTypes'
    OBVIOUS
<1>0. events \in 0 .. MaxEvents /\ MaxSeats \in Nat
    BY NotificationQueueAssumption DEF QueueTypes, QueueTypeOK
<1>1. ASSUME UNCHANGED quietQueue, UNCHANGED events \/ Happens
      PROVE  QueueTypes'
    <2>1. events' \in 0 .. MaxEvents
        BY <1>0, <1>1, EventCounted
    <2>2. QED
        BY <1>1, <2>1 DEF quietQueue, jobVars, QueueTypes, QueueTypeOK, Trying
<1>2. CASE QueueNext
    <2>1. CASE TimePasses
        <3>1. phase' \in {"upcoming", "active", "finished"}
              /\ UNCHANGED <<refused, seated, notified, cycle, jobVars>>
            BY <2>1 DEF TimePasses
        <3>2. events' \in 0 .. MaxEvents
            BY <2>1, <1>0, EventCounted DEF TimePasses
        <3>3. QED
            BY <3>1, <3>2 DEF jobVars, QueueTypes, QueueTypeOK, Trying
    <2>2. CASE SeatParticipant
        <3>1. seated' \in 0 .. MaxSeats /\ UNCHANGED <<phase, refused, notified, cycle, jobVars>>
            BY <2>2, <1>0 DEF SeatParticipant, QueueTypes, QueueTypeOK
        <3>2. events' \in 0 .. MaxEvents
            BY <2>2, <1>0, EventCounted DEF SeatParticipant
        <3>3. QED
            BY <3>1, <3>2 DEF jobVars, QueueTypes, QueueTypeOK, Trying
    <2>3. CASE ListingTurns
        <3>1. refused' \in BOOLEAN /\ UNCHANGED <<phase, seated, notified, cycle, jobVars>>
            BY <2>3 DEF ListingTurns, QueueTypes, QueueTypeOK
        <3>2. events' \in 0 .. MaxEvents
            BY <2>3, <1>0, EventCounted DEF ListingTurns
        <3>3. QED
            BY <3>1, <3>2 DEF jobVars, QueueTypes, QueueTypeOK, Trying
    <2>4. QED
        BY <1>2, <2>1, <2>2, <2>3, CycleTypes, WorkerTypes DEF QueueNext
<1>3. ASSUME NEW c \in Call, CallStep(c)
      PROVE  UNCHANGED quietQueue /\ (UNCHANGED events \/ Happens)
    BY <1>3 DEF CallStep, Receive, BodyUnreadable, Validate, MessageTaken, MessageRefused, MessageAnswerLost,
                queueVars, quietQueue, jobVars
<1>4. ASSUME NEW p \in Process, RotationStep(p)
      PROVE  UNCHANGED quietQueue /\ (UNCHANGED events \/ Happens)
    BY <1>4 DEF RotationStep, StartRotation, ReadKeys, TruncateKeys, WriteKeys, RotationFails,
                queueVars, quietQueue, jobVars
<1>5. ASSUME NEW p \in Process, Restart(p)
      PROVE  QueueTypes'
    <2>1. /\ notified' = [notified EXCEPT ![p] = {}] /\ cycle' = [cycle EXCEPT ![p] = Idle]
          /\ UNCHANGED <<phase, refused, seated, jobVars>>
        BY <1>5 DEF Restart, ForgetCycle
    <2>2. events' \in 0 .. MaxEvents
        BY <1>0, <1>5, EventCounted DEF Restart
    <2>3. cycle' \in [Process -> CycleBound] /\ notified' \in [Process -> SUBSET Announcement]
        BY <2>1, Nothing DEF QueueTypes, QueueTypeOK, CycleBound
    <2>4. QED
        BY <2>1, <2>2, <2>3 DEF jobVars, QueueTypes, QueueTypeOK, Trying, CycleBound
<1>6. ASSUME NEW k \in ApiKey, KeyExpires(k)
      PROVE  UNCHANGED quietQueue /\ Happens
    BY <1>6 DEF KeyExpires, quietQueue
<1>7. ASSUME NEW p \in Process, NEW k \in ApiKey, WindowEnds(p, k)
      PROVE  UNCHANGED quietQueue /\ Happens
    BY <1>7 DEF WindowEnds, quietQueue
<1>8. ASSUME NEW p \in Process, NEW n \in Nonce, NonceExpires(p, n)
      PROVE  UNCHANGED quietQueue /\ Happens
    BY <1>8 DEF NonceExpires, quietQueue
<1>9. CASE UNCHANGED vars
    BY <1>1, <1>9 DEF vars, queueVars, quietQueue
<1>10. QED
    BY <1>1, <1>2, <1>3, <1>4, <1>5, <1>6, <1>7, <1>8, <1>9, Zenon DEF Next

\* What the calls count: requests to the portal, and requests of a key in its window.
CallBounds ==
    /\ call \in [Call -> [at : Places, by : Process \cup {None}, posts : 0 .. maxPosts - 1]]
    /\ expired \subseteq Expiring
    /\ count \in [Process \X ApiKey -> 0 .. maxRequests]

\* A request follows another only when there is one left.
LEMMA AgainBounds ==
    ASSUME CallBounds, NEW c \in Call, NEW reason \in Places, Again(c, reason)
    PROVE  call' \in [Call -> [at : Places, by : Process \cup {None}, posts : 0 .. maxPosts - 1]]
<1> DEFINE r == call[c]
           Bound == [at : Places, by : Process \cup {None}, posts : 0 .. maxPosts - 1]
<1>1. r \in Bound /\ call \in [Call -> Bound] /\ maxPosts \in Nat
    BY SendNotificationAssumption DEF CallBounds
<1>2. r.posts \in Nat
    BY <1>1
<1>3. CASE r.posts + 1 < maxPosts
    <2>1. r.posts + 1 \in 0 .. maxPosts - 1
        BY <1>1, <1>2, <1>3
    <2>2. call' = [call EXCEPT ![c] = [r EXCEPT !.posts = r.posts + 1]]
        BY <1>1, <1>3 DEF Again
    <2>3. [r EXCEPT !.posts = r.posts + 1] \in Bound
        BY <1>1, <2>1
    <2>4. QED
        BY <1>1, <2>2, <2>3
<1>4. CASE ~(r.posts + 1 < maxPosts)
    <2>1. call' = [call EXCEPT ![c] = [r EXCEPT !.at = reason]]
        BY <1>1, <1>4 DEF Again
    <2>2. [r EXCEPT !.at = reason] \in Bound
        BY <1>1
    <2>3. QED
        BY <1>1, <2>1, <2>2
<1>5. QED
    BY <1>3, <1>4

\* A call keeps the bounds.
LEMMA CallStepBounds ==
    ASSUME CallBounds, NEW c \in Call, CallStep(c)
    PROVE  CallBounds'
<1> DEFINE Bound == [at : Places, by : Process \cup {None}, posts : 0 .. maxPosts - 1]
<1>1. /\ call \in [Call -> Bound] /\ call[c] \in Bound /\ expired \subseteq Expiring
      /\ count \in [Process \X ApiKey -> 0 .. maxRequests] /\ maxRequests \in Nat
    BY SendNotificationAssumption DEF CallBounds
<1>2. ASSUME NEW p \in Process, Receive(c, p)
      PROVE  CallBounds'
    <2> DEFINE k == KeyOf[c]
    <2>1. AuthStatus(k) \in Places \/ (AuthStatus(k) = "ok" /\ k \in ApiKey)
        BY DEF AuthStatus, Places
    <2>2. {"not_allowed", "body", "rate_limited"} \subseteq Places
        BY DEF Places
    <2>3. \A place \in Places : [call[c] EXCEPT !.at = place, !.by = p] \in Bound
        BY <1>1
    <2>4. ASSUME NEW place \in Places, call' = [call EXCEPT ![c].at = place, ![c].by = p],
                 count' \in [Process \X ApiKey -> 0 .. maxRequests]
          PROVE  CallBounds'
        <3>1. call' = [call EXCEPT ![c] = [call[c] EXCEPT !.at = place, !.by = p]]
            BY <1>1, <2>4
        <3>2. call' \in [Call -> Bound]
            BY <1>1, <2>3, <3>1
        <3>3. expired' = expired
            BY <1>2 DEF Receive
        <3>4. QED
            BY <1>1, <2>4, <3>2, <3>3 DEF CallBounds
    <2>5. CASE AuthStatus(k) # "ok"
        BY <1>1, <1>2, <2>1, <2>4, <2>5 DEF Receive
    <2>6. CASE AuthStatus(k) = "ok" /\ c \notin Admitted
        BY <1>1, <1>2, <2>2, <2>4, <2>6 DEF Receive
    <2>7. CASE AuthStatus(k) = "ok" /\ c \in Admitted
        <3> DEFINE place == IF count[<<p, k>>] < maxRequests THEN "body" ELSE "rate_limited"
        <3>1. "ok" \notin Places
            BY DEF Places
        <3>2. k \in ApiKey
            BY <2>1, <2>7, <3>1
        <3>3. call' = [call EXCEPT ![c].at = place, ![c].by = p]
            BY <1>1, <1>2, <2>7 DEF Receive
        <3>4. count' \in [Process \X ApiKey -> 0 .. maxRequests]
            <4>1. CASE count[<<p, k>>] < maxRequests
                <5>1. count[<<p, k>>] + 1 \in 0 .. maxRequests
                    BY <1>1, <3>2, <4>1
                <5>2. count' = [count EXCEPT ![<<p, k>>] = count[<<p, k>>] + 1]
                    BY <1>2, <2>7, <4>1 DEF Receive, Limit
                <5>3. QED
                    BY <1>1, <5>1, <5>2
            <4>2. CASE ~(count[<<p, k>>] < maxRequests)
                BY <1>1, <1>2, <2>7, <4>2 DEF Receive, Limit
            <4>3. QED
                BY <4>1, <4>2
        <3>5. QED
            BY <2>2, <2>4, <3>3, <3>4
    <2>8. QED
        BY <2>5, <2>6, <2>7
<1>3. ASSUME NEW place \in Places, call' = [call EXCEPT ![c].at = place]
      PROVE  call' \in [Call -> Bound]
    BY <1>1, <1>3
<1>10. CASE BodyUnreadable(c)
    <2>1. \E place \in Places : call' = [call EXCEPT ![c].at = place]
        BY <1>10 DEF BodyUnreadable, Places
    <2>2. QED
        BY <1>1, <1>3, <1>10, <2>1 DEF BodyUnreadable, CallBounds
<1>4. CASE Validate(c)
    <2>1. \E place \in Places : call' = [call EXCEPT ![c].at = place]
        BY <1>4 DEF Validate, Places
    <2>2. QED
        BY <1>1, <1>3, <1>4, <2>1 DEF Validate, CallBounds
<1>5. {"success", "upstream_error", "upstream_status"} \subseteq Places
    BY DEF Places
<1>6. CASE MessageTaken(c)
    <2>1. call' \in [Call -> Bound]
        BY <1>3, <1>5, <1>6 DEF MessageTaken
    <2>2. QED
        BY <1>1, <1>6, <2>1 DEF MessageTaken, CallBounds
<1>7. CASE MessageRefused(c)
    <2>1. call' \in [Call -> Bound]
        BY <1>3, <1>5, <1>7, AgainBounds DEF MessageRefused
    <2>2. QED
        BY <1>1, <1>7, <2>1 DEF MessageRefused, CallBounds
<1>8. CASE MessageAnswerLost(c)
    <2>1. call' \in [Call -> Bound]
        BY <1>5, <1>8, AgainBounds DEF MessageAnswerLost
    <2>2. QED
        BY <1>1, <1>8, <2>1 DEF MessageAnswerLost, CallBounds
<1>9. QED
    BY <1>2, <1>4, <1>6, <1>7, <1>8, <1>10 DEF CallStep

\* Every step keeps CallBounds.
LEMMA NextCallBounds == CallBounds /\ [Next]_vars => CallBounds'
<1> SUFFICES ASSUME CallBounds, [Next]_vars PROVE CallBounds'
    OBVIOUS
<1>0. maxRequests \in Nat
    BY SendNotificationAssumption
<1>1. ASSUME UNCHANGED <<call, expired, count>>
      PROVE  CallBounds'
    BY <1>1 DEF CallBounds
<1>2. CASE UNCHANGED callVars
    BY <1>1, <1>2 DEF callVars
<1>3. ASSUME NEW c \in Call, CallStep(c)
      PROVE  CallBounds'
    BY <1>3, CallStepBounds
<1>4. ASSUME NEW p \in Process, RotationStep(p)
      PROVE  UNCHANGED callVars
    BY <1>4, Zenon DEF RotationStep, StartRotation, ReadKeys, TruncateKeys, WriteKeys, RotationFails
<1>5. ASSUME NEW p \in Process, Restart(p)
      PROVE  CallBounds'
    <2>1. /\ call' = [c \in Call |-> IF call[c].by = p /\ call[c].at \in {"body", "dispatch"}
                                     THEN [call[c] EXCEPT !.at = "cut_off"] ELSE call[c]]
          /\ count' = [x \in DOMAIN count |-> IF x[1] = p THEN 0 ELSE count[x]]
          /\ expired' = expired
        BY <1>5 DEF Restart
    <2>2. "cut_off" \in Places
        BY DEF Places
    <2>3. call' \in [Call -> [at : Places, by : Process \cup {None}, posts : 0 .. maxPosts - 1]]
        BY <2>1, <2>2 DEF CallBounds
    <2>4. count' \in [Process \X ApiKey -> 0 .. maxRequests]
        BY <1>0, <2>1 DEF CallBounds
    <2>5. QED
        BY <2>1, <2>3, <2>4 DEF CallBounds
<1>6. ASSUME NEW k \in ApiKey, KeyExpires(k)
      PROVE  CallBounds'
    BY <1>6 DEF KeyExpires, CallBounds
<1>7. ASSUME NEW p \in Process, NEW k \in ApiKey, WindowEnds(p, k)
      PROVE  CallBounds'
    BY <1>0, <1>7 DEF WindowEnds, CallBounds
<1>8. ASSUME NEW p \in Process, NEW n \in Nonce, NonceExpires(p, n)
      PROVE  UNCHANGED <<call, expired, count>>
    BY <1>8 DEF NonceExpires
<1>9. CASE UNCHANGED vars
    BY <1>2, <1>9 DEF vars
<1>10. QED
    BY <1>1, <1>2, <1>3, <1>4, <1>5, <1>6, <1>7, <1>8, <1>9, Zenon DEF Next

\* Every variable of the notifications stays in its domain, within the counts that the
\* code sets limits to: wallets of a chunk, attempts of a job, retries of a request, calls
\* of a key in its window; no file and no environment holds a key that was neither
\* generated nor listed.
THEOREM TypeCorrect == Spec => []TypeOK
<1>1. Init => QueueTypes /\ CallBounds
    <2>1. ASSUME Init PROVE CallBounds
        BY <2>1, SendNotificationAssumption DEF Init, CallBounds, Places
    <2>2. QED
        BY <2>1, InitQueueTypes DEF Init
<1>2. ASSUME QueueTypes, CallBounds, NonceInv, KeyInv
      PROVE  TypeOK
    <2>1. /\ nonces \in [Process -> SUBSET Nonce]
          /\ sent \in [Process \X Nonce -> Nat] /\ forgiven \in [Process \X Nonce -> Nat]
        BY <1>2 DEF NonceInv, CallTypes
    <2>2. /\ keysFile = Unreadable \/ \A e \in keysFile :
                 e \in [id : (0 .. minted) \cup Listed, source : Source, revoked : BOOLEAN]
          /\ \A p \in Process :
                rotation[p].at \in {"idle", "read", "mend", "open", "mending", "writing"}
          /\ env \in [Process -> [Source -> 0 .. minted]]
        BY <1>2 DEF KeyInv, Sound, KeyEntry, RotationType
    <2>3. QED
        BY <1>2, <2>1, <2>2 DEF QueueTypes, CallBounds, TypeOK
<1>3. QED
    BY <1>1, <1>2, NextQueueTypes, NextCallBounds, InitNonceInv, NextNonceInv, InitKeyInv,
       NextKeyInv, PTL DEF Spec
=============================================================================
