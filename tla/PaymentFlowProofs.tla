--------------------------- MODULE PaymentFlowProofs ---------------------------
(***************************************************************************)
(* Proofs about PaymentFlow, for any number of users, sessions, payments,  *)
(* requests, attempts, stalls and faults.                                  *)
(***************************************************************************)
EXTENDS PaymentFlow, TLAPS

\* Where a job stands once it has made sure that its payment is confirmed.
Confirmed == {"tournament", "finalize", "readPot", "writePot", "exists", "seat", "notify"}
JobPlace  == Confirmed \cup {"idle", "find", "update"}

\* A job stands somewhere in processPayment exactly while it is active.
JobsRun == \A r \in Ref : at[r] \in JobPlace /\ (at[r] # "idle" <=> job[r] = "active")

\* Where a request of a payment does not vouch for it.
Turned == {"idle", "already", "reject", "rejected"}

\* A request is about to accept a payment only for the session that initiated it, with a
\* transaction that matches; a job exists only for a payment that such a request vouches
\* for; and the payment is on record unless the user's data has been deleted.
OnlyVouched ==
    /\ \A c \in Call : at[c] = "enqueue" =>
           /\ CallBy[c] = Payer[CallRef[c]] /\ c \notin Mismatched
           /\ status[CallRef[c]] # "none" \/ Payee(CallRef[c]) \in erased
    /\ \A r \in Ref : job[r] # "none" =>
           Vouched(r) /\ (status[r] # "none" \/ Payee(r) \in erased)

\* A job that goes on after the update leaves a confirmed payment in the history, or
\* one whose user has been erased.
OnlyConfirmed ==
    \A r \in Ref : at[r] \in Confirmed => WasConfirmed(r) \/ Payee(r) \in erased

\* A job that is about to complete has a seated payer, or an erased one.
SeatedFirst ==
    \A r \in Ref :
        at[r] = "notify" \/ job[r] = "completed" => Seated(Payee(r)) \/ Payee(r) \in erased

\* A job that has not ended has attempts left, and has not stalled too often.
Budget ==
    \A r \in Ref : job[r] \in {"none", "waiting", "active"} =>
        tries[r] < Attempts /\ stalls[r] <= MaxStalls

\* The history of a payment is the story of its status: it begins with pending, every
\* entry starts where the one before ended, and the last one is the status the
\* payment has, whatever requests and workers wrote in between.
HistoryIsChain ==
    \A r \in Ref :
        LET h == history[r]
            n == Len(h)
        IN  /\ (n = 0) = (status[r] = "none")
            /\ n > 0 => h[1].old = "none" /\ h[n].new = status[r]
            /\ \A i \in 2..n : h[i].old = h[i - 1].new

IInv ==
    /\ TypeOK
    /\ JobsRun
    /\ Budget
    /\ HistoryIsChain
    /\ OnlyVouched
    /\ OnlyConfirmed
    /\ SeatIsVouched
    /\ OneSeatPerUser
    /\ ErasedStaysErased
    /\ SeatedFirst

----------------------------------------------------------------------------
(* Facts about the operators.                                              *)

\* The user of a payment is a user, and the three kinds of actors are apart.
LEMMA Kinds ==
    /\ \A r \in Ref : Payee(r) \in User
    /\ \A c \in Call : CallRef[c] \in Ref
    /\ Call \cap Ref = {} /\ Call \cap Joiner = {} /\ Ref \cap Joiner = {}
BY PaymentFlowAssumption DEF Payee

\* The initial state satisfies every part.
LEMMA InitIInv == Init => IInv
<1> SUFFICES ASSUME Init PROVE IInv
    OBVIOUS
<1>1. TypeOK
    <2>1. faults \in 0..MaxFaults /\ tries \in [Ref -> 0..Attempts]
          /\ stalls \in [Ref -> 0..(MaxStalls + 1)]
        BY PaymentFlowAssumption DEF Init
    <2>2. QED
        BY <2>1 DEF Init, TypeOK, NewPot, Pot, Place, Status
<1>2. JobsRun /\ Budget /\ OnlyVouched /\ OnlyConfirmed /\ SeatedFirst
    BY Kinds, PaymentFlowAssumption
       DEF Init, JobsRun, Budget, JobPlace, OnlyVouched, OnlyConfirmed, Confirmed,
          SeatedFirst, Actor
<1>3. HistoryIsChain
    BY DEF Init, HistoryIsChain
<1>4. SeatIsVouched /\ OneSeatPerUser /\ ErasedStaysErased
    BY DEF Init, SeatIsVouched, OneSeatPerUser, ErasedStaysErased, Seated
<1>5. QED
    BY <1>1, <1>2, <1>3, <1>4 DEF IInv

\* A history is a sequence of entries.
LEMMA HistoryType ==
    ASSUME TypeOK, NEW r \in Ref
    PROVE  history[r] \in Seq(Entry) /\ Len(history[r]) \in Nat
<1>1. history[r] \in Seq(Entry)
    BY DEF TypeOK
<1>2. QED
    BY <1>1

\* updatePaymentStatus keeps both tables in their domains ...
LEMMA UpdateType ==
    ASSUME TypeOK, NEW r \in Ref, NEW new \in Status, UpdatePaymentStatus(r, new)
    PROVE  /\ status' \in [Ref -> Status \cup {"none"}]
           /\ history' \in [Ref -> Seq(Entry)]
<1>1. CASE status[r] = "none"
    BY <1>1 DEF UpdatePaymentStatus, TypeOK, paymentVars
<1>2. CASE status[r] # "none"
    <2>1. [old |-> status[r], new |-> new] \in Entry
        BY DEF TypeOK, Entry
    <2>2. Append(history[r], [old |-> status[r], new |-> new]) \in Seq(Entry)
        BY <2>1, HistoryType
    <2>3. QED
        BY <1>2, <2>2 DEF UpdatePaymentStatus, TypeOK
<1>3. QED
    BY <1>1, <1>2

\* ... and every history a chain that ends in the present status ...
LEMMA UpdateChain ==
    ASSUME TypeOK, HistoryIsChain, NEW r \in Ref, NEW new \in Status,
           UpdatePaymentStatus(r, new)
    PROVE  HistoryIsChain'
<1>1. CASE status[r] = "none"
    BY <1>1 DEF UpdatePaymentStatus, HistoryIsChain, paymentVars
<1>2. CASE status[r] # "none"
    <2> DEFINE h == history[r]
               e == [old |-> status[r], new |-> new]
               n == Len(h)
    <2>1. h \in Seq(Entry) /\ n \in Nat
        BY HistoryType
    <2>2. n > 0 /\ h[1].old = "none" /\ h[n].new = status[r]
          /\ \A i \in 2..n : h[i].old = h[i - 1].new
        BY <1>2, <2>1 DEF HistoryIsChain
    <2>3. history' = [history EXCEPT ![r] = Append(h, e)] /\ status' = [status EXCEPT ![r] = new]
        BY <1>2 DEF UpdatePaymentStatus
    <2>4. history'[r] = Append(h, e) /\ status'[r] = new
          /\ \A q \in Ref \ {r} : history'[q] = history[q] /\ status'[q] = status[q]
        BY <2>3 DEF TypeOK
    <2>5. Len(Append(h, e)) = n + 1 /\ Append(h, e)[n + 1] = e
          /\ \A i \in 1..n : Append(h, e)[i] = h[i]
        BY <2>1
    <2>6. \A i \in 2..(n + 1) : Append(h, e)[i].old = Append(h, e)[i - 1].new
        <3> TAKE i \in 2..(n + 1)
        <3>1. CASE i = n + 1
            <4>1. n \in 1..n /\ i - 1 = n
                BY <3>1, <2>1, <2>2
            <4>2. QED
                BY <3>1, <4>1, <2>2, <2>5
        <3>2. CASE i \in 2..n
            <4>1. i \in 1..n /\ i - 1 \in 1..n
                BY <3>2, <2>1
            <4>2. QED
                BY <3>2, <4>1, <2>2, <2>5
        <3>3. QED
            BY <3>1, <3>2, <2>1
    <2>7. Append(h, e)[1].old = "none"
        <3>1. 1 \in 1..n
            BY <2>1, <2>2
        <3>2. QED
            BY <3>1, <2>2, <2>5
    <2>8. new # "none"
        BY DEF Status
    <2>9. QED
        <3> SUFFICES ASSUME NEW q \in Ref
                     PROVE  /\ (Len(history'[q]) = 0) = (status'[q] = "none")
                            /\ Len(history'[q]) > 0 =>
                                   history'[q][1].old = "none"
                                   /\ history'[q][Len(history'[q])].new = status'[q]
                            /\ \A i \in 2..Len(history'[q]) :
                                   history'[q][i].old = history'[q][i - 1].new
            BY DEF HistoryIsChain
        <3>1. CASE q = r
            <4>1. Len(history'[q]) = n + 1 /\ history'[q] = Append(h, e) /\ status'[q] = new
                BY <3>1, <2>4, <2>5
            <4>2. n + 1 # 0 /\ e.new = new
                BY <2>1
            <4>3. QED
                BY <4>1, <4>2, <2>5, <2>6, <2>7, <2>8
        <3>2. CASE q # r
            <4>1. history'[q] = history[q] /\ status'[q] = status[q]
                BY <3>2, <2>4
            <4>2. QED
                BY <4>1 DEF HistoryIsChain
        <3>3. QED
            BY <3>1, <3>2
<1>3. QED
    BY <1>1, <1>2

\* ... and forgets no confirmation.
LEMMA UpdateRemembers ==
    ASSUME TypeOK, NEW r \in Ref, NEW new \in Status, UpdatePaymentStatus(r, new),
           NEW q \in Ref, WasConfirmed(q)
    PROVE  WasConfirmed(q)'
<1>1. CASE status[r] = "none"
    BY <1>1 DEF UpdatePaymentStatus, WasConfirmed, paymentVars
<1>2. CASE status[r] # "none"
    <2>1. history[r] \in Seq(Entry)
        BY HistoryType
    <2>2. PICK i \in DOMAIN history[q] : history[q][i].new = "confirmed"
        BY DEF WasConfirmed
    <2>3. history' = [history EXCEPT ![r] = Append(history[r], [old |-> status[r], new |-> new])]
        BY <1>2 DEF UpdatePaymentStatus
    <2>4. CASE q = r
        <3>1. i \in DOMAIN history'[q] /\ history'[q][i] = history[q][i]
            BY <2>1, <2>2, <2>3, <2>4 DEF TypeOK
        <3>2. QED
            BY <2>2, <3>1 DEF WasConfirmed
    <2>5. CASE q # r
        BY <2>2, <2>3, <2>5 DEF WasConfirmed, TypeOK
    <2>6. QED
        BY <2>4, <2>5
<1>3. QED
    BY <1>1, <1>2

\* The worker's own update leaves a confirmation.
LEMMA UpdateConfirms ==
    ASSUME TypeOK, NEW r \in Ref, UpdatePaymentStatus(r, "confirmed"), status[r] # "none"
    PROVE  WasConfirmed(r)'
<1>1. history[r] \in Seq(Entry)
    BY HistoryType
<1> DEFINE e == [old |-> status[r], new |-> "confirmed"]
<1>2. history'[r] = Append(history[r], e)
    BY DEF UpdatePaymentStatus, TypeOK
<1>3. Len(history[r]) + 1 \in DOMAIN history'[r] /\ history'[r][Len(history[r]) + 1] = e
    BY <1>1, <1>2
<1>4. QED
    BY <1>3 DEF WasConfirmed

\* A payment whose status is confirmed has the confirmation in its history.
LEMMA ConfirmedIsRemembered ==
    ASSUME TypeOK, HistoryIsChain, NEW r \in Ref, status[r] = "confirmed"
    PROVE  WasConfirmed(r)
<1>1. history[r] \in Seq(Entry) /\ Len(history[r]) \in Nat
    BY HistoryType
<1>2. Len(history[r]) > 0 /\ history[r][Len(history[r])].new = "confirmed"
    BY <1>1 DEF HistoryIsChain
<1>3. QED
    BY <1>1, <1>2 DEF WasConfirmed

\* A payment without a record has no confirmation to remember.
LEMMA NoneNotConfirmed ==
    ASSUME TypeOK, HistoryIsChain, NEW r \in Ref, status[r] = "none"
    PROVE  ~WasConfirmed(r)
<1>1. history[r] \in Seq(Entry) /\ Len(history[r]) = 0
    BY HistoryType DEF HistoryIsChain
<1>2. QED
    BY <1>1 DEF WasConfirmed

\* The join route never seats anyone: it asks for a tournament that is upcoming, and
\* validateTokenForTournament for one that is active.
LEMMA JoinSeatsNobody ==
    ASSUME NEW s \in Joiner, NEW r \in Ref, DecideJoin(s, r)
    PROVE  seats' = seats /\ JoinOutcome(s, r) \in JoinAnswer \ {"joined"}
<1>1. JoinOutcome(s, r) \in JoinAnswer \ {"joined"}
    BY DEF JoinOutcome, JoinAnswer
<1>2. QED
    BY <1>1 DEF DecideJoin

----------------------------------------------------------------------------
(* Types.                                                                  *)

\* A step of an actor to a place there is keeps `at' in its domain.
LEMMA GotoType ==
    ASSUME TypeOK, NEW a \in Actor, NEW place \in Place \cup Answer \cup JoinAnswer,
           Goto(a, place)
    PROVE  at' \in [Actor -> Place \cup Answer \cup JoinAnswer]
BY DEF TypeOK, Goto

\* A job that is active may use up an attempt.
LEMMA ThrowType ==
    ASSUME TypeOK, JobsRun, Budget, NEW r \in Ref, job[r] = "active", ThrowJob(r)
    PROVE  /\ job' \in [Ref -> {"none", "waiting", "active", "completed", "failed"}]
           /\ tries' \in [Ref -> 0..Attempts]
           /\ copy' \in [Actor -> Pot]
           /\ at' \in [Actor -> Place \cup Answer \cup JoinAnswer]
<1>1. tries[r] + 1 \in 0..Attempts
    BY PaymentFlowAssumption DEF TypeOK, Budget
<1>2. tries' \in [Ref -> 0..Attempts]
    BY <1>1 DEF ThrowJob, TypeOK
<1>3. QED
    BY <1>2 DEF ThrowJob, TypeOK, Forget, Goto, NewPot, Pot, Place

\* Every step keeps every variable in its domain.
LEMMA TypeStep == TypeOK /\ JobsRun /\ Budget /\ [Next]_vars => TypeOK'
<1> SUFFICES ASSUME TypeOK, JobsRun, Budget, [Next]_vars PROVE TypeOK'
    OBVIOUS
<1>1. CASE \E r \in Ref : InitiatePayment(r)
    BY <1>1, PaymentFlowAssumption
       DEF InitiatePayment, Goto, Forget, TypeOK, Actor, Place, Answer, JoinAnswer,
           Status, Entry, NewPot, Pot, paymentVars, users, queueVars, tournament
<1>2. CASE \E u \in User : VerifyAgain(u)
    BY <1>2, PaymentFlowAssumption
       DEF VerifyAgain, Goto, Forget, TypeOK, Actor, Place, Answer,
           JoinAnswer, Status, Entry, NewPot, Pot, paymentVars, users, queueVars, tournament
<1>3. CASE \E u \in User : EraseUser(u)
    BY <1>3, PaymentFlowAssumption
       DEF EraseUser, Goto, Forget, TypeOK, Actor, Place, Answer, JoinAnswer, Status,
           Entry, NewPot, Pot, paymentVars, users, queueVars, tournament
<1>4. CASE TimePasses
    BY <1>4, PaymentFlowAssumption
       DEF TimePasses, Goto, Forget, TypeOK, Actor, Place, Answer, JoinAnswer,
           Status, Entry, NewPot, Pot, paymentVars, users, queueVars, tournament
<1>5. CASE \E a \in Actor : GetTournament(a)
    <2> PICK a \in Actor : GetTournament(a)
        BY <1>5
    <2>1. pot \in Pot /\ NewPot \in Pot
        BY DEF TypeOK, NewPot, Pot
    <2>2. TournamentStatus(pot) \in {"upcoming", "active", "finished"}
        BY DEF TypeOK, TournamentStatus
    <2>3. copy' \in [Actor -> Pot] /\ joinSaw' \in [Joiner -> {"upcoming", "active", "finished"}]
        BY <2>1, <2>2 DEF GetTournament, TypeOK
    <2>4. at' \in [Actor -> Place \cup Answer \cup JoinAnswer]
        BY GotoType DEF GetTournament, Place
    <2>5. QED
        BY <2>3, <2>4 DEF GetTournament, TypeOK, paymentVars, users, queueVars, tournament
<1>6. CASE \E a \in Actor : FinalizeTournament(a)
    <2> PICK a \in Actor : FinalizeTournament(a)
        BY <1>6
    <2>1. copy[a] \in Pot /\ NewPot \in Pot
        BY DEF TypeOK, NewPot, Pot
    <2>2. pot' \in Pot /\ copy' \in [Actor -> Pot]
        BY <2>1 DEF FinalizeTournament, Forget, TypeOK, Pot
    <2>3. at' \in [Actor -> Place \cup Answer \cup JoinAnswer]
        BY GotoType DEF FinalizeTournament, Place
    <2>4. QED
        BY <2>2, <2>3 DEF FinalizeTournament, TypeOK, paymentVars, users, queueVars
<1>7. CASE \E a \in Actor : ReadPot(a)
    BY <1>7, PaymentFlowAssumption
       DEF ReadPot, Goto, Forget, TypeOK, Actor, Place, Answer, JoinAnswer, Status,
           Entry, NewPot, Pot, paymentVars, users, queueVars, tournament
<1>8. CASE \E a \in Actor : WritePot(a)
    <2> PICK a \in Actor : WritePot(a)
        BY <1>8
    <2>1. copy[a] \in Pot /\ NewPot \in Pot
        BY DEF TypeOK, NewPot, Pot
    <2>2. pot' = [pool |-> copy[a].pool + 1, finished |-> copy[a].finished]
        BY <2>1 DEF WritePot, Pot
    <2>3. pot' \in Pot
        BY <2>1, <2>2 DEF Pot
    <2>4. copy' \in [Actor -> Pot]
        BY <2>1 DEF WritePot, Forget, TypeOK
    <2>5. at' \in [Actor -> Place \cup Answer \cup JoinAnswer]
        BY GotoType DEF WritePot, Place, Answer
    <2>6. QED
        BY <2>3, <2>4, <2>5 DEF WritePot, TypeOK, paymentVars, users, queueVars
<1>9. CASE \E c \in Call : ReadPayment(c)
    BY <1>9, PaymentFlowAssumption
       DEF ReadPayment, Goto, Forget, TypeOK, Actor, Place, Answer, JoinAnswer,
           Status, Entry, NewPot, Pot, paymentVars, users, queueVars, tournament
<1>10. CASE \E c \in Call : RejectPayment(c)
    BY <1>10, Kinds, UpdateType
       DEF RejectPayment, Goto, TypeOK, Actor, Answer, Status, users, queueVars, tournament
<1>11. CASE \E c \in Call : Enqueue(c)
    BY <1>11, PaymentFlowAssumption
       DEF Enqueue, Goto, Forget, TypeOK, Actor, Place, Answer, JoinAnswer, Status,
           Entry, NewPot, Pot, paymentVars, users, queueVars, tournament
<1>12. CASE \E a \in Call \cup Joiner : RequestFails(a)
    BY <1>12, PaymentFlowAssumption
       DEF RequestFails, Goto, Forget, TypeOK, Actor, Place, Answer, JoinAnswer, Status,
           Entry, NewPot, Pot, paymentVars, users, queueVars, tournament
<1>13. CASE \E r \in Ref : StartJob(r)
    BY <1>13, PaymentFlowAssumption
       DEF StartJob, Goto, Forget, TypeOK, Actor, Place, Answer, JoinAnswer, Status,
           Entry, NewPot, Pot, paymentVars, users, queueVars, tournament
<1>14. CASE \E r \in Ref : FindPayment(r)
    BY <1>14, PaymentFlowAssumption
       DEF FindPayment, Goto, Forget, TypeOK, Actor, Place, Answer, JoinAnswer,
           Status, Entry, NewPot, Pot, paymentVars, users, queueVars, tournament
<1>15. CASE \E r \in Ref : ConfirmPayment(r)
    BY <1>15, UpdateType
       DEF ConfirmPayment, Goto, TypeOK, Actor, Place, Status, users, queueVars, tournament
<1>16. CASE \E r \in Ref : ParticipantExists(r)
    BY <1>16, PaymentFlowAssumption
       DEF ParticipantExists, Goto, Forget, TypeOK, Actor, Place, Answer, JoinAnswer,
           Status, Entry, NewPot, Pot, paymentVars, users, queueVars, tournament
<1>17. CASE \E r \in Ref : SeatPlayer(r)
    BY <1>17, PaymentFlowAssumption
       DEF SeatPlayer, Goto, Forget, TypeOK, Actor, Place, Answer, JoinAnswer,
           Status, Entry, NewPot, Pot, paymentVars, users, queueVars, tournament
<1>18. CASE \E r \in Ref : Notify(r)
    BY <1>18, PaymentFlowAssumption
       DEF Notify, Goto, Forget, TypeOK, Actor, Place, Answer, JoinAnswer, Status,
           Entry, NewPot, Pot, paymentVars, users, queueVars, tournament
<1>19. CASE \E r \in Ref : JobRefused(r)
    <2> PICK r \in Ref : JobRefused(r)
        BY <1>19
    <2>1. job[r] = "active"
        BY DEF JobRefused, JobsRun
    <2>2. QED
        BY <2>1, ThrowType DEF JobRefused, TypeOK, paymentVars, users, tournament
<1>20. CASE \E r \in Ref : JobFails(r)
    BY <1>20, PaymentFlowAssumption, ThrowType
       DEF JobFails, TypeOK, paymentVars, users, tournament
<1>21. CASE \E r \in Ref : WorkerCrash(r)
    <2> PICK r \in Ref : WorkerCrash(r)
        BY <1>21
    <2>1. stalls[r] + 1 \in 0..(MaxStalls + 1) /\ faults + 1 \in 0..MaxFaults
        BY PaymentFlowAssumption DEF WorkerCrash, TypeOK, Budget
    <2>2. stalls' \in [Ref -> 0..(MaxStalls + 1)]
        BY <2>1 DEF WorkerCrash, TypeOK
    <2>3. QED
        BY <2>1, <2>2
           DEF WorkerCrash, TypeOK, Goto, Forget, Actor, Place, NewPot, Pot,
               paymentVars, users,
                          tournament
<1>22. CASE \E s \in Joiner : BeginJoin(s)
    BY <1>22, PaymentFlowAssumption
       DEF BeginJoin, Goto, Forget, TypeOK, Actor, Place, Answer, JoinAnswer, Status,
           Entry, NewPot, Pot, paymentVars, users, queueVars, tournament
<1>23. CASE \E s \in Joiner, r \in Ref : DecideJoin(s, r)
    <2> PICK s \in Joiner, r \in Ref : DecideJoin(s, r)
        BY <1>23
    <2>1. seats' = seats /\ JoinOutcome(s, r) \in JoinAnswer
        BY JoinSeatsNobody
    <2>2. s \in Actor /\ Goto(s, JoinOutcome(s, r))
        BY DEF DecideJoin, Actor
    <2>3. at' \in [Actor -> Place \cup Answer \cup JoinAnswer]
        BY <2>1, <2>2, GotoType
    <2>4. QED
        BY <2>1, <2>3 DEF DecideJoin, TypeOK, paymentVars, users, queueVars
<1>24. CASE UNCHANGED vars
    BY <1>24
       DEF vars, TypeOK, Actor, Place, Answer, JoinAnswer, Status, Entry, NewPot,
           Pot, paymentVars, users, queueVars, tournament
<1>25. QED
    BY <1>1, <1>2, <1>3, <1>4, <1>5, <1>6, <1>7, <1>8, <1>9, <1>10, <1>11,
       <1>12, <1>13, <1>14, <1>15, <1>16, <1>17, <1>18, <1>19, <1>20, <1>21, <1>22,
       <1>23, <1>24
       DEF Next, CallStep, JobStep, TournamentStep

----------------------------------------------------------------------------
(* Jobs and requests.                                                      *)

\* A job has a place in processPayment exactly while it is active.
LEMMA JobsRunStep == TypeOK /\ JobsRun /\ [Next]_vars => JobsRun'
<1> SUFFICES ASSUME TypeOK, JobsRun, [Next]_vars PROVE JobsRun'
    OBVIOUS
<1>1. CASE \E r \in Ref : InitiatePayment(r)
    BY <1>1, Kinds
       DEF InitiatePayment, Goto, Forget, TypeOK, Actor, JobsRun, JobPlace,
           Confirmed, paymentVars, users, queueVars, tournament
<1>2. CASE \E u \in User : VerifyAgain(u)
    BY <1>2, Kinds
       DEF VerifyAgain, Goto, Forget, TypeOK, Actor, JobsRun, JobPlace,
           Confirmed, paymentVars, users, queueVars, tournament
<1>3. CASE \E u \in User : EraseUser(u)
    BY <1>3, Kinds
       DEF EraseUser, Goto, Forget, TypeOK, Actor, JobsRun, JobPlace, Confirmed,
           paymentVars, users, queueVars, tournament
<1>4. CASE TimePasses
    BY <1>4, Kinds
       DEF TimePasses, Goto, Forget, TypeOK, Actor, JobsRun, JobPlace, Confirmed,
           paymentVars, users, queueVars, tournament
<1>5. CASE \E a \in Actor : GetTournament(a)
    BY <1>5, Kinds
       DEF GetTournament, Goto, Forget, TypeOK, Actor, JobsRun, JobPlace, Confirmed,
           paymentVars, users, queueVars, tournament
<1>6. CASE \E a \in Actor : FinalizeTournament(a)
    BY <1>6, Kinds
       DEF FinalizeTournament, Goto, Forget, TypeOK, Actor, JobsRun, JobPlace,
           Confirmed, paymentVars, users, queueVars, tournament
<1>7. CASE \E a \in Actor : ReadPot(a)
    BY <1>7, Kinds
       DEF ReadPot, Goto, Forget, TypeOK, Actor, JobsRun, JobPlace, Confirmed,
           paymentVars, users, queueVars, tournament
<1>8. CASE \E a \in Actor : WritePot(a)
    BY <1>8, Kinds
       DEF WritePot, Goto, Forget, TypeOK, Actor, JobsRun, JobPlace, Confirmed,
           paymentVars, users, queueVars, tournament
<1>9. CASE \E c \in Call : ReadPayment(c)
    BY <1>9, Kinds
       DEF ReadPayment, Goto, Forget, TypeOK, Actor, JobsRun, JobPlace, Confirmed,
           paymentVars, users, queueVars, tournament
<1>10. CASE \E c \in Call : RejectPayment(c)
    BY <1>10, Kinds
       DEF RejectPayment, UpdatePaymentStatus, Goto, Forget, TypeOK, Actor, JobsRun,
           JobPlace, Confirmed, paymentVars, users, queueVars, tournament
<1>11. CASE \E c \in Call : Enqueue(c)
    BY <1>11, Kinds
       DEF Enqueue, Goto, Forget, TypeOK, Actor, JobsRun, JobPlace, Confirmed,
           paymentVars, users, queueVars, tournament
<1>12. CASE \E a \in Call \cup Joiner : RequestFails(a)
    BY <1>12, Kinds
       DEF RequestFails, Goto, Forget, TypeOK, Actor, JobsRun, JobPlace, Confirmed,
           paymentVars, users, queueVars, tournament
<1>13. CASE \E r \in Ref : StartJob(r)
    BY <1>13, Kinds
       DEF StartJob, Goto, Forget, TypeOK, Actor, JobsRun, JobPlace, Confirmed,
           paymentVars, users, queueVars, tournament
<1>14. CASE \E r \in Ref : FindPayment(r)
    BY <1>14, Kinds
       DEF FindPayment, Goto, Forget, TypeOK, Actor, JobsRun, JobPlace, Confirmed,
           paymentVars, users, queueVars, tournament
<1>15. CASE \E r \in Ref : ConfirmPayment(r)
    BY <1>15, Kinds
       DEF ConfirmPayment, UpdatePaymentStatus, Goto, Forget, TypeOK, Actor, JobsRun,
           JobPlace, Confirmed, paymentVars, users, queueVars, tournament
<1>16. CASE \E r \in Ref : ParticipantExists(r)
    BY <1>16, Kinds
       DEF ParticipantExists, Goto, Forget, TypeOK, Actor, JobsRun, JobPlace,
           Confirmed, paymentVars, users, queueVars, tournament
<1>17. CASE \E r \in Ref : SeatPlayer(r)
    BY <1>17, Kinds
       DEF SeatPlayer, Goto, Forget, TypeOK, Actor, JobsRun, JobPlace, Confirmed,
           paymentVars, users, queueVars, tournament
<1>18. CASE \E r \in Ref : Notify(r)
    BY <1>18, Kinds
       DEF Notify, Goto, Forget, TypeOK, Actor, JobsRun, JobPlace, Confirmed,
           paymentVars, users, queueVars, tournament
<1>19. CASE \E r \in Ref : JobRefused(r)
    BY <1>19, Kinds
       DEF JobRefused, ThrowJob, Goto, Forget, TypeOK, Actor, JobsRun, JobPlace,
           Confirmed, paymentVars, users, queueVars, tournament
<1>20. CASE \E r \in Ref : JobFails(r)
    BY <1>20, Kinds
       DEF JobFails, ThrowJob, Goto, Forget, TypeOK, Actor, JobsRun, JobPlace,
           Confirmed, paymentVars, users, queueVars, tournament
<1>21. CASE \E r \in Ref : WorkerCrash(r)
    BY <1>21, Kinds
       DEF WorkerCrash, Goto, Forget, TypeOK, Actor, JobsRun, JobPlace, Confirmed,
           paymentVars, users, queueVars, tournament
<1>22. CASE \E s \in Joiner : BeginJoin(s)
    BY <1>22, Kinds
       DEF BeginJoin, Goto, Forget, TypeOK, Actor, JobsRun, JobPlace, Confirmed,
           paymentVars, users, queueVars, tournament
<1>23. CASE \E s \in Joiner, r \in Ref : DecideJoin(s, r)
    BY <1>23, Kinds
       DEF DecideJoin, Goto, Forget, TypeOK, Actor, JobsRun, JobPlace, Confirmed,
           paymentVars, users, queueVars, tournament
<1>24. CASE UNCHANGED vars
    BY <1>24
       DEF vars, TypeOK, Actor, JobsRun, JobPlace, Confirmed, paymentVars, users, queueVars,
           tournament
<1>25. QED
    BY <1>1, <1>2, <1>3, <1>4, <1>5, <1>6, <1>7, <1>8, <1>9, <1>10, <1>11,
       <1>12, <1>13, <1>14, <1>15, <1>16, <1>17, <1>18, <1>19, <1>20, <1>21, <1>22,
       <1>23, <1>24
       DEF Next, CallStep, JobStep, TournamentStep

\* A job that goes on has attempts left.
LEMMA BudgetStep == TypeOK /\ JobsRun /\ Budget /\ [Next]_vars => Budget'
<1> SUFFICES ASSUME TypeOK, JobsRun, Budget, [Next]_vars PROVE Budget'
    OBVIOUS
<1>1. CASE \E r \in Ref : InitiatePayment(r)
    BY <1>1, Kinds, PaymentFlowAssumption
       DEF InitiatePayment, Goto, Forget, TypeOK, JobsRun, Budget, paymentVars, users,
           queueVars, tournament
<1>2. CASE \E u \in User : VerifyAgain(u)
    BY <1>2, Kinds, PaymentFlowAssumption
       DEF VerifyAgain, Goto, Forget, TypeOK, JobsRun, Budget, paymentVars, users,
           queueVars, tournament
<1>3. CASE \E u \in User : EraseUser(u)
    BY <1>3, Kinds, PaymentFlowAssumption
       DEF EraseUser, Goto, Forget, TypeOK, JobsRun, Budget, paymentVars, users, queueVars,
           tournament
<1>4. CASE TimePasses
    BY <1>4, Kinds, PaymentFlowAssumption
       DEF TimePasses, Goto, Forget, TypeOK, JobsRun, Budget, paymentVars, users, queueVars,
           tournament
<1>5. CASE \E a \in Actor : GetTournament(a)
    BY <1>5, Kinds, PaymentFlowAssumption
       DEF GetTournament, Goto, Forget, TypeOK, JobsRun, Budget, paymentVars, users,
           queueVars, tournament
<1>6. CASE \E a \in Actor : FinalizeTournament(a)
    BY <1>6, Kinds, PaymentFlowAssumption
       DEF FinalizeTournament, Goto, Forget, TypeOK, JobsRun, Budget, paymentVars, users,
           queueVars, tournament
<1>7. CASE \E a \in Actor : ReadPot(a)
    BY <1>7, Kinds, PaymentFlowAssumption
       DEF ReadPot, Goto, Forget, TypeOK, JobsRun, Budget, paymentVars, users, queueVars,
           tournament
<1>8. CASE \E a \in Actor : WritePot(a)
    BY <1>8, Kinds, PaymentFlowAssumption
       DEF WritePot, Goto, Forget, TypeOK, JobsRun, Budget, paymentVars, users, queueVars,
           tournament
<1>9. CASE \E c \in Call : ReadPayment(c)
    BY <1>9, Kinds, PaymentFlowAssumption
       DEF ReadPayment, Goto, Forget, TypeOK, JobsRun, Budget, paymentVars, users,
           queueVars, tournament
<1>10. CASE \E c \in Call : RejectPayment(c)
    BY <1>10, Kinds, PaymentFlowAssumption
       DEF RejectPayment, UpdatePaymentStatus, Goto, Forget, TypeOK, JobsRun, Budget,
           paymentVars, users, queueVars, tournament
<1>11. CASE \E c \in Call : Enqueue(c)
    BY <1>11, Kinds, PaymentFlowAssumption
       DEF Enqueue, Goto, Forget, TypeOK, JobsRun, Budget, paymentVars, users, queueVars,
           tournament
<1>12. CASE \E a \in Call \cup Joiner : RequestFails(a)
    BY <1>12, Kinds, PaymentFlowAssumption
       DEF RequestFails, Goto, Forget, TypeOK, JobsRun, Budget, paymentVars, users, queueVars,
           tournament
<1>13. CASE \E r \in Ref : StartJob(r)
    BY <1>13, Kinds, PaymentFlowAssumption
       DEF StartJob, Goto, Forget, TypeOK, JobsRun, Budget, paymentVars, users, queueVars,
           tournament
<1>14. CASE \E r \in Ref : FindPayment(r)
    BY <1>14, Kinds, PaymentFlowAssumption
       DEF FindPayment, Goto, Forget, TypeOK, JobsRun, Budget, paymentVars, users,
           queueVars, tournament
<1>15. CASE \E r \in Ref : ConfirmPayment(r)
    BY <1>15, Kinds, PaymentFlowAssumption
       DEF ConfirmPayment, UpdatePaymentStatus, Goto, Forget, TypeOK, JobsRun,
           Budget, paymentVars, users, queueVars, tournament
<1>16. CASE \E r \in Ref : ParticipantExists(r)
    BY <1>16, Kinds, PaymentFlowAssumption
       DEF ParticipantExists, Goto, Forget, TypeOK, JobsRun, Budget, paymentVars, users,
           queueVars, tournament
<1>17. CASE \E r \in Ref : SeatPlayer(r)
    BY <1>17, Kinds, PaymentFlowAssumption
       DEF SeatPlayer, Goto, Forget, TypeOK, JobsRun, Budget, paymentVars, users, queueVars,
           tournament
<1>18. CASE \E r \in Ref : Notify(r)
    BY <1>18, Kinds, PaymentFlowAssumption
       DEF Notify, Goto, Forget, TypeOK, JobsRun, Budget, paymentVars, users, queueVars,
           tournament
<1>19. CASE \E r \in Ref : JobRefused(r)
    BY <1>19, Kinds, PaymentFlowAssumption
       DEF JobRefused, ThrowJob, Goto, Forget, TypeOK, JobsRun, Budget, paymentVars, users,
           queueVars, tournament
<1>20. CASE \E r \in Ref : JobFails(r)
    BY <1>20, Kinds, PaymentFlowAssumption
       DEF JobFails, ThrowJob, Goto, Forget, TypeOK, JobsRun, Budget, paymentVars, users,
           queueVars, tournament
<1>21. CASE \E r \in Ref : WorkerCrash(r)
    BY <1>21, Kinds, PaymentFlowAssumption
       DEF WorkerCrash, Goto, Forget, TypeOK, JobsRun, Budget, paymentVars, users,
           queueVars, tournament
<1>22. CASE \E s \in Joiner : BeginJoin(s)
    BY <1>22, Kinds, PaymentFlowAssumption
       DEF BeginJoin, Goto, Forget, TypeOK, JobsRun, Budget, paymentVars, users, queueVars,
           tournament
<1>23. CASE \E s \in Joiner, r \in Ref : DecideJoin(s, r)
    BY <1>23, Kinds, PaymentFlowAssumption
       DEF DecideJoin, Goto, Forget, TypeOK, JobsRun, Budget, paymentVars, users, queueVars,
           tournament
<1>24. CASE UNCHANGED vars
    BY <1>24 DEF vars, TypeOK, JobsRun, Budget, paymentVars, users, queueVars, tournament
<1>25. QED
    BY <1>1, <1>2, <1>3, <1>4, <1>5, <1>6, <1>7, <1>8, <1>9, <1>10, <1>11,
       <1>12, <1>13, <1>14, <1>15, <1>16, <1>17, <1>18, <1>19, <1>20, <1>21, <1>22,
       <1>23, <1>24
       DEF Next, CallStep, JobStep, TournamentStep

\* A request that vouches for its payment is not turned down afterwards.
LEMMA VouchedStays ==
    TypeOK /\ JobsRun /\ [Next]_vars => \A r \in Ref : Vouched(r) => Vouched(r)'
<1> SUFFICES ASSUME TypeOK, JobsRun, [Next]_vars,
                    NEW c \in Call, at[c] \notin Turned
             PROVE  at'[c] \notin Turned
    BY DEF Vouched, Turned
<1>1. CASE UNCHANGED at
    BY <1>1
<1>2. CASE \E a \in Actor : GetTournament(a)
    BY <1>2, Kinds DEF GetTournament, Goto, TypeOK, Actor, Turned, Place
<1>3. CASE \E a \in Actor : FinalizeTournament(a)
    BY <1>3, Kinds DEF FinalizeTournament, Goto, TypeOK, Actor, Turned, Place
<1>4. CASE \E a \in Actor : ReadPot(a)
    BY <1>4, Kinds DEF ReadPot, Goto, TypeOK, Actor, Turned, Place
<1>5. CASE \E a \in Actor : WritePot(a)
    BY <1>5, Kinds DEF WritePot, Goto, TypeOK, Actor, Turned, Place
<1>6. CASE \E d \in Call : ReadPayment(d)
    BY <1>6, Kinds DEF ReadPayment, Goto, TypeOK, Actor, Turned, Place
<1>7. CASE \E d \in Call : RejectPayment(d)
    BY <1>7, Kinds DEF RejectPayment, Goto, TypeOK, Actor, Turned, Place
<1>8. CASE \E d \in Call : Enqueue(d)
    BY <1>8, Kinds DEF Enqueue, Goto, TypeOK, Actor, Turned, Place
<1>9. CASE \E a \in Call \cup Joiner : RequestFails(a)
    BY <1>9, Kinds DEF RequestFails, Goto, TypeOK, Actor, Turned, Place
<1>10. CASE \E r \in Ref : StartJob(r)
    BY <1>10, Kinds DEF StartJob, Goto, TypeOK, Actor, Turned
<1>11. CASE \E r \in Ref : FindPayment(r)
    BY <1>11, Kinds DEF FindPayment, Goto, TypeOK, Actor, Turned
<1>12. CASE \E r \in Ref : ConfirmPayment(r)
    BY <1>12, Kinds DEF ConfirmPayment, Goto, TypeOK, Actor, Turned
<1>13. CASE \E r \in Ref : ParticipantExists(r)
    BY <1>13, Kinds DEF ParticipantExists, Goto, TypeOK, Actor, Turned
<1>14. CASE \E r \in Ref : SeatPlayer(r)
    BY <1>14, Kinds DEF SeatPlayer, Goto, TypeOK, Actor, Turned
<1>15. CASE \E r \in Ref : Notify(r)
    BY <1>15, Kinds DEF Notify, Goto, TypeOK, Actor, Turned
<1>16. CASE \E r \in Ref : JobRefused(r)
    BY <1>16, Kinds DEF JobRefused, ThrowJob, Goto, TypeOK, Actor, Turned
<1>17. CASE \E r \in Ref : JobFails(r)
    BY <1>17, Kinds DEF JobFails, ThrowJob, Goto, TypeOK, Actor, Turned
<1>18. CASE \E r \in Ref : WorkerCrash(r)
    BY <1>18, Kinds DEF WorkerCrash, Goto, TypeOK, Actor, Turned
<1>19. CASE \E s \in Joiner : BeginJoin(s) \/ \E r \in Ref : DecideJoin(s, r)
    BY <1>19, Kinds DEF BeginJoin, DecideJoin, Goto, TypeOK, Actor, Turned
<1>20. QED
    BY <1>1, <1>2, <1>3, <1>4, <1>5, <1>6, <1>7, <1>8, <1>9, <1>10, <1>11, <1>12, <1>13,
       <1>14, <1>15, <1>16, <1>17, <1>18, <1>19
       DEF Next, CallStep, JobStep, TournamentStep, InitiatePayment, VerifyAgain, EraseUser,
           TimePasses, vars

\* No other step accepts a payment or makes a job, and no payment on record goes but with
\* its user.
LEMMA OnlyVouchedStep == TypeOK /\ JobsRun /\ OnlyVouched /\ [Next]_vars => OnlyVouched'
<1> SUFFICES ASSUME TypeOK, JobsRun, OnlyVouched, [Next]_vars PROVE OnlyVouched'
    OBVIOUS
<1> DEFINE Frame ==
        /\ \A c \in Call : at'[c] = "enqueue" => at[c] = "enqueue"
        /\ \A r \in Ref : job'[r] # "none" => job[r] # "none"
        /\ \A r \in Ref : status[r] # "none" => status'[r] # "none" \/ Payee(r) \in erased'
        /\ erased \subseteq erased'
<1>a. \A r \in Ref : Vouched(r) => Vouched(r)'
    BY VouchedStays
<1>b. Frame => OnlyVouched'
    BY <1>a, Kinds DEF OnlyVouched, Payee
<1>1. CASE \E r \in Ref : InitiatePayment(r)
    BY <1>1, <1>b, Kinds DEF InitiatePayment, Goto, Forget, TypeOK, Actor,
           Frame, paymentVars, users, queueVars, tournament
<1>2. CASE \E u \in User : VerifyAgain(u)
    BY <1>2, <1>b, Kinds DEF VerifyAgain, Goto, Forget, TypeOK, Actor,
           Frame, paymentVars, users, queueVars, tournament
<1>3. CASE \E u \in User : EraseUser(u)
    BY <1>3, <1>b, Kinds DEF EraseUser, Goto, Forget, TypeOK, Actor,
           Frame, paymentVars, users, queueVars, tournament
<1>4. CASE TimePasses
    BY <1>4, <1>b, Kinds DEF TimePasses, Goto, Forget, TypeOK, Actor,
           Frame, paymentVars, users, queueVars, tournament
<1>5. CASE \E a \in Actor : GetTournament(a)
    BY <1>5, <1>b, Kinds DEF GetTournament, Goto, Forget, TypeOK, Actor,
           Frame, paymentVars, users, queueVars, tournament
<1>6. CASE \E a \in Actor : FinalizeTournament(a)
    BY <1>6, <1>b, Kinds DEF FinalizeTournament, Goto, Forget, TypeOK, Actor,
           Frame, paymentVars, users, queueVars, tournament
<1>7. CASE \E a \in Actor : ReadPot(a)
    BY <1>7, <1>b, Kinds DEF ReadPot, Goto, Forget, TypeOK, Actor,
           Frame, paymentVars, users, queueVars, tournament
<1>8. CASE \E a \in Actor : WritePot(a)
    BY <1>8, <1>b, Kinds DEF WritePot, Goto, Forget, TypeOK, Actor,
           Frame, paymentVars, users, queueVars, tournament
<1>9. CASE \E c \in Call : ReadPayment(c)
    <2> PICK c \in Call : ReadPayment(c)
        BY <1>9
    <2>1. UNCHANGED <<status, job, erased>> /\ \A d \in Call \ {c} : at'[d] = at[d]
        BY DEF ReadPayment, Goto, TypeOK, Actor, paymentVars, users, queueVars
    <2>2. at'[c] = "enqueue" =>
              status[CallRef[c]] # "none" /\ CallBy[c] = Payer[CallRef[c]] /\ c \notin Mismatched
        BY DEF ReadPayment, Goto, TypeOK, Actor
    <2>3. QED
        BY <1>a, <2>1, <2>2, Kinds DEF OnlyVouched, Payee
<1>10. CASE \E c \in Call : RejectPayment(c)
    BY <1>10, <1>b, Kinds DEF RejectPayment, UpdatePaymentStatus, Status, Goto, Forget,
       TypeOK, Actor,
           Frame, paymentVars, users, queueVars, tournament
<1>11. CASE \E c \in Call : Enqueue(c)
    <2> PICK c \in Call : Enqueue(c)
        BY <1>11
    <2>1. UNCHANGED <<status, erased>> /\ \A d \in Call : at'[d] = "enqueue" => at[d] = "enqueue"
        BY DEF Enqueue, Goto, TypeOK, Actor, paymentVars, users
    <2>2. \A r \in Ref : job'[r] # "none" => job[r] # "none" \/ r = CallRef[c]
        BY DEF Enqueue, TypeOK
    <2>3. Vouched(CallRef[c])
        BY DEF Enqueue, OnlyVouched, Vouched
    <2>4. status[CallRef[c]] # "none" \/ Payee(CallRef[c]) \in erased
        BY DEF Enqueue, OnlyVouched
    <2>5. QED
        BY <1>a, <2>1, <2>2, <2>3, <2>4, Kinds DEF OnlyVouched, Payee
<1>12. CASE \E a \in Call \cup Joiner : RequestFails(a)
    BY <1>12, <1>b, Kinds DEF RequestFails, Goto, Forget, TypeOK, Actor,
           Frame, paymentVars, users, queueVars, tournament
<1>13. CASE \E r \in Ref : StartJob(r)
    BY <1>13, <1>b, Kinds DEF StartJob, JobsRun, Goto, Forget, TypeOK, Actor,
           Frame, paymentVars, users, queueVars, tournament
<1>14. CASE \E r \in Ref : FindPayment(r)
    BY <1>14, <1>b, Kinds DEF FindPayment, Goto, Forget, TypeOK, Actor,
           Frame, paymentVars, users, queueVars, tournament
<1>15. CASE \E r \in Ref : ConfirmPayment(r)
    BY <1>15, <1>b, Kinds DEF ConfirmPayment, UpdatePaymentStatus, Status, Goto, Forget,
       TypeOK, Actor,
           Frame, paymentVars, users, queueVars, tournament
<1>16. CASE \E r \in Ref : ParticipantExists(r)
    BY <1>16, <1>b, Kinds DEF ParticipantExists, Goto, Forget, TypeOK, Actor,
           Frame, paymentVars, users, queueVars, tournament
<1>17. CASE \E r \in Ref : SeatPlayer(r)
    BY <1>17, <1>b, Kinds DEF SeatPlayer, Goto, Forget, TypeOK, Actor,
           Frame, paymentVars, users, queueVars, tournament
<1>18. CASE \E r \in Ref : Notify(r)
    <2> PICK r \in Ref : Notify(r)
        BY <1>18
    <2>1. job[r] = "active"
        BY DEF Notify, JobsRun
    <2>2. \A q \in Ref : job'[q] # "none" => job[q] # "none"
        BY <2>1 DEF Notify, TypeOK
    <2>3. UNCHANGED <<status, erased>> /\ \A c \in Call : at'[c] = at[c]
        BY Kinds DEF Notify, Goto, TypeOK, Actor, paymentVars, users
    <2>4. QED
        BY <1>b, <2>2, <2>3 DEF Frame
<1>19. CASE \E r \in Ref : JobRefused(r)
    <2> PICK r \in Ref : JobRefused(r)
        BY <1>19
    <2>1. job[r] = "active"
        BY DEF JobRefused, JobsRun
    <2>2. \A q \in Ref : job'[q] # "none" => job[q] # "none"
        BY <2>1 DEF JobRefused, ThrowJob, TypeOK
    <2>3. UNCHANGED <<status, erased>> /\ \A c \in Call : at'[c] = at[c]
        BY Kinds DEF JobRefused, ThrowJob, Goto, TypeOK, Actor, paymentVars, users
    <2>4. QED
        BY <1>b, <2>2, <2>3 DEF Frame
<1>20. CASE \E r \in Ref : JobFails(r)
    BY <1>20, <1>b, Kinds DEF JobFails, ThrowJob, JobsRun, Goto, Forget, TypeOK, Actor,
           Frame, paymentVars, users, queueVars, tournament
<1>21. CASE \E r \in Ref : WorkerCrash(r)
    BY <1>21, <1>b, Kinds DEF WorkerCrash, Goto, Forget, TypeOK, Actor,
           Frame, paymentVars, users, queueVars, tournament
<1>22. CASE \E s \in Joiner : BeginJoin(s)
    BY <1>22, <1>b, Kinds DEF BeginJoin, Goto, Forget, TypeOK, Actor,
           Frame, paymentVars, users, queueVars, tournament
<1>23. CASE \E s \in Joiner, r \in Ref : DecideJoin(s, r)
    BY <1>23, <1>b, Kinds DEF DecideJoin, Goto, Forget, TypeOK, Actor,
           Frame, paymentVars, users, queueVars, tournament
<1>24. CASE UNCHANGED vars
    BY <1>24, <1>b, Kinds DEF vars, Goto, Forget, TypeOK, Actor,
           Frame, paymentVars, users, queueVars, tournament
<1>25. QED
    BY <1>1, <1>2, <1>3, <1>4, <1>5, <1>6, <1>7, <1>8, <1>9, <1>10, <1>11, <1>12, <1>13,
       <1>14, <1>15, <1>16, <1>17, <1>18, <1>19, <1>20, <1>21, <1>22, <1>23, <1>24
       DEF Next, CallStep, JobStep, TournamentStep

\* Past its update, a job has a confirmed payment.
LEMMA OnlyConfirmedStep ==
    TypeOK /\ HistoryIsChain /\ JobsRun /\ OnlyVouched /\ OnlyConfirmed /\ [Next]_vars
        => OnlyConfirmed'
<1> SUFFICES ASSUME TypeOK, HistoryIsChain, JobsRun, OnlyVouched, OnlyConfirmed,
                    [Next]_vars
             PROVE  OnlyConfirmed'
    OBVIOUS
<1>1. CASE \E r \in Ref : InitiatePayment(r)
    <2> PICK r \in Ref : InitiatePayment(r)
        BY <1>1
    <2>1. at[r] \notin Confirmed
        BY NoneNotConfirmed DEF InitiatePayment, OnlyConfirmed
    <2>2. \A q \in Ref \ {r} : history'[q] = history[q]
        BY DEF InitiatePayment, TypeOK
    <2>3. at' = at /\ erased' = erased
        BY DEF InitiatePayment, users
    <2>4. QED
        BY <2>1, <2>2, <2>3 DEF OnlyConfirmed, WasConfirmed
<1>2. CASE \E u \in User : VerifyAgain(u)
    BY <1>2, Kinds
       DEF VerifyAgain, Goto, Forget, TypeOK, Actor, OnlyConfirmed,
           Confirmed, WasConfirmed, Payee, paymentVars, users, queueVars, tournament
<1>3. CASE \E u \in User : EraseUser(u)
    BY <1>3, Kinds
       DEF EraseUser, Goto, Forget, TypeOK, Actor, OnlyConfirmed, Confirmed,
           WasConfirmed, Payee, paymentVars, users, queueVars, tournament
<1>4. CASE TimePasses
    BY <1>4, Kinds
       DEF TimePasses, Goto, Forget, TypeOK, Actor, OnlyConfirmed, Confirmed,
           WasConfirmed, Payee, paymentVars, users, queueVars, tournament
<1>5. CASE \E a \in Actor : GetTournament(a)
    BY <1>5, Kinds
       DEF GetTournament, Goto, Forget, TypeOK, Actor, OnlyConfirmed, Confirmed,
           WasConfirmed, Payee, paymentVars, users, queueVars, tournament
<1>6. CASE \E a \in Actor : FinalizeTournament(a)
    BY <1>6, Kinds
       DEF FinalizeTournament, Goto, Forget, TypeOK, Actor, OnlyConfirmed, Confirmed,
           WasConfirmed, Payee, paymentVars, users, queueVars, tournament
<1>7. CASE \E a \in Actor : ReadPot(a)
    BY <1>7, Kinds
       DEF ReadPot, Goto, Forget, TypeOK, Actor, OnlyConfirmed, Confirmed,
           WasConfirmed, Payee, paymentVars, users, queueVars, tournament
<1>8. CASE \E a \in Actor : WritePot(a)
    BY <1>8, Kinds
       DEF WritePot, Goto, Forget, TypeOK, Actor, OnlyConfirmed, Confirmed,
           WasConfirmed, Payee, paymentVars, users, queueVars, tournament
<1>9. CASE \E c \in Call : ReadPayment(c)
    BY <1>9, Kinds
       DEF ReadPayment, Goto, Forget, TypeOK, Actor, OnlyConfirmed, Confirmed,
           WasConfirmed, Payee, paymentVars, users, queueVars, tournament
<1>10. CASE \E c \in Call : RejectPayment(c)
    <2> PICK c \in Call : RejectPayment(c)
        BY <1>10
    <2>1. \A q \in Ref : WasConfirmed(q) => WasConfirmed(q)'
        BY Kinds, UpdateRemembers DEF RejectPayment, Status
    <2>2. \A q \in Ref : at'[q] = at[q]
        BY Kinds DEF RejectPayment, Goto, TypeOK, Actor
    <2>3. erased' = erased
        BY DEF RejectPayment, users
    <2>4. QED
        BY <2>1, <2>2, <2>3 DEF OnlyConfirmed
<1>11. CASE \E c \in Call : Enqueue(c)
    BY <1>11, Kinds
       DEF Enqueue, Goto, Forget, TypeOK, Actor, OnlyConfirmed, Confirmed,
           WasConfirmed, Payee, paymentVars, users, queueVars, tournament
<1>12. CASE \E a \in Call \cup Joiner : RequestFails(a)
    BY <1>12, Kinds
       DEF RequestFails, Goto, Forget, TypeOK, Actor, OnlyConfirmed, Confirmed,
           WasConfirmed, Payee, paymentVars, users, queueVars, tournament
<1>13. CASE \E r \in Ref : StartJob(r)
    BY <1>13, Kinds
       DEF StartJob, Goto, Forget, TypeOK, Actor, OnlyConfirmed, Confirmed,
           WasConfirmed, Payee, paymentVars, users, queueVars, tournament
<1>14. CASE \E r \in Ref : FindPayment(r)
    <2> PICK r \in Ref : FindPayment(r)
        BY <1>14
    <2>1. status[r] = "confirmed" => WasConfirmed(r)
        BY ConfirmedIsRemembered
    <2>2. history' = history /\ erased' = erased
        BY DEF FindPayment, paymentVars, users
    <2>3. \A q \in Ref : at'[q] \in Confirmed =>
              at[q] \in Confirmed \/ (q = r /\ status[r] = "confirmed")
        <3> TAKE q \in Ref
        <3>1. CASE q = r
            BY <3>1 DEF FindPayment, Goto, TypeOK, Actor, Confirmed
        <3>2. CASE q # r
            BY <3>2 DEF FindPayment, Goto, TypeOK, Actor
        <3>3. QED
            BY <3>1, <3>2
    <2>4. QED
        BY <2>1, <2>2, <2>3 DEF OnlyConfirmed, WasConfirmed
<1>15. CASE \E r \in Ref : ConfirmPayment(r)
    <2> PICK r \in Ref : ConfirmPayment(r)
        BY <1>15
    <2>1. \A q \in Ref : WasConfirmed(q) => WasConfirmed(q)'
        BY UpdateRemembers DEF ConfirmPayment, Status
    <2>2. status[r] # "none" \/ Payee(r) \in erased
        BY DEF ConfirmPayment, JobsRun, OnlyVouched
    <2>3. WasConfirmed(r)' \/ Payee(r) \in erased
        BY <2>2, UpdateConfirms DEF ConfirmPayment
    <2>4. \A q \in Ref \ {r} : at'[q] = at[q]
        BY DEF ConfirmPayment, Goto, TypeOK, Actor
    <2>5. erased' = erased
        BY DEF ConfirmPayment, users
    <2>6. QED
        BY <2>1, <2>3, <2>4, <2>5 DEF OnlyConfirmed
<1>16. CASE \E r \in Ref : ParticipantExists(r)
    BY <1>16, Kinds
       DEF ParticipantExists, Goto, Forget, TypeOK, Actor, OnlyConfirmed, Confirmed,
           WasConfirmed, Payee, paymentVars, users, queueVars, tournament
<1>17. CASE \E r \in Ref : SeatPlayer(r)
    BY <1>17, Kinds
       DEF SeatPlayer, Goto, Forget, TypeOK, Actor, OnlyConfirmed, Confirmed,
           WasConfirmed, Payee, paymentVars, users, queueVars, tournament
<1>18. CASE \E r \in Ref : Notify(r)
    BY <1>18, Kinds
       DEF Notify, Goto, Forget, TypeOK, Actor, OnlyConfirmed, Confirmed,
           WasConfirmed, Payee, paymentVars, users, queueVars, tournament
<1>19. CASE \E r \in Ref : JobRefused(r)
    BY <1>19, Kinds
       DEF JobRefused, ThrowJob, Goto, Forget, TypeOK, Actor, OnlyConfirmed,
           Confirmed, WasConfirmed, Payee, paymentVars, users, queueVars, tournament
<1>20. CASE \E r \in Ref : JobFails(r)
    BY <1>20, Kinds
       DEF JobFails, ThrowJob, Goto, Forget, TypeOK, Actor, OnlyConfirmed, Confirmed,
           WasConfirmed, Payee, paymentVars, users, queueVars, tournament
<1>21. CASE \E r \in Ref : WorkerCrash(r)
    BY <1>21, Kinds
       DEF WorkerCrash, Goto, Forget, TypeOK, Actor, OnlyConfirmed, Confirmed,
           WasConfirmed, Payee, paymentVars, users, queueVars, tournament
<1>22. CASE \E s \in Joiner : BeginJoin(s)
    BY <1>22, Kinds
       DEF BeginJoin, Goto, Forget, TypeOK, Actor, OnlyConfirmed, Confirmed,
           WasConfirmed, Payee, paymentVars, users, queueVars, tournament
<1>23. CASE \E s \in Joiner, r \in Ref : DecideJoin(s, r)
    BY <1>23, Kinds
       DEF DecideJoin, Goto, Forget, TypeOK, Actor, OnlyConfirmed, Confirmed,
           WasConfirmed, Payee, paymentVars, users, queueVars, tournament
<1>24. CASE UNCHANGED vars
    BY <1>24
       DEF vars, TypeOK, Actor, OnlyConfirmed, Confirmed, WasConfirmed, Payee,
           paymentVars, users, queueVars, tournament
<1>25. QED
    BY <1>1, <1>2, <1>3, <1>4, <1>5, <1>6, <1>7, <1>8, <1>9, <1>10, <1>11,
       <1>12, <1>13, <1>14, <1>15, <1>16, <1>17, <1>18, <1>19, <1>20, <1>21, <1>22,
       <1>23, <1>24
       DEF Next, CallStep, JobStep, TournamentStep

----------------------------------------------------------------------------
(* Payments and seats.                                                     *)

\* Every writer of a payment continues its history.
LEMMA HistoryStep == TypeOK /\ HistoryIsChain /\ [Next]_vars => HistoryIsChain'
<1> SUFFICES ASSUME TypeOK, HistoryIsChain, [Next]_vars PROVE HistoryIsChain'
    OBVIOUS
<1>1. CASE \E r \in Ref : InitiatePayment(r)
    <2> PICK r \in Ref : InitiatePayment(r)
        BY <1>1
    <2> DEFINE h == <<[old |-> "none", new |-> "pending"]>>
    <2>1. history'[r] = h /\ status'[r] = "pending"
          /\ \A q \in Ref \ {r} : history'[q] = history[q] /\ status'[q] = status[q]
        BY DEF InitiatePayment, TypeOK
    <2>2. Len(h) = 1 /\ h[1].old = "none" /\ h[1].new = "pending"
        OBVIOUS
    <2>3. QED
        BY <2>1, <2>2 DEF HistoryIsChain
<1>2. CASE \E u \in User : VerifyAgain(u)
    BY <1>2
       DEF VerifyAgain, Goto, Forget, HistoryIsChain, paymentVars, users, queueVars,
           tournament
<1>3. CASE \E u \in User : EraseUser(u)
    BY <1>3
       DEF EraseUser, Goto, Forget, HistoryIsChain, paymentVars, users, queueVars,
           tournament
<1>4. CASE TimePasses
    BY <1>4
       DEF TimePasses, Goto, Forget, HistoryIsChain, paymentVars, users, queueVars,
           tournament
<1>5. CASE \E a \in Actor : GetTournament(a)
    BY <1>5
       DEF GetTournament, Goto, Forget, HistoryIsChain, paymentVars, users, queueVars,
           tournament
<1>6. CASE \E a \in Actor : FinalizeTournament(a)
    BY <1>6
       DEF FinalizeTournament, Goto, Forget, HistoryIsChain, paymentVars, users, queueVars,
           tournament
<1>7. CASE \E a \in Actor : ReadPot(a)
    BY <1>7
       DEF ReadPot, Goto, Forget, HistoryIsChain, paymentVars, users, queueVars, tournament
<1>8. CASE \E a \in Actor : WritePot(a)
    BY <1>8
       DEF WritePot, Goto, Forget, HistoryIsChain, paymentVars, users, queueVars, tournament
<1>9. CASE \E c \in Call : ReadPayment(c)
    BY <1>9
       DEF ReadPayment, Goto, Forget, HistoryIsChain, paymentVars, users, queueVars,
           tournament
<1>10. CASE \E c \in Call : RejectPayment(c)
    BY <1>10, Kinds, UpdateChain DEF RejectPayment, Status
<1>11. CASE \E c \in Call : Enqueue(c)
    BY <1>11
       DEF Enqueue, Goto, Forget, HistoryIsChain, paymentVars, users, queueVars, tournament
<1>12. CASE \E a \in Call \cup Joiner : RequestFails(a)
    BY <1>12
       DEF RequestFails, Goto, Forget, HistoryIsChain, paymentVars, users, queueVars,
           tournament
<1>13. CASE \E r \in Ref : StartJob(r)
    BY <1>13
       DEF StartJob, Goto, Forget, HistoryIsChain, paymentVars, users, queueVars, tournament
<1>14. CASE \E r \in Ref : FindPayment(r)
    BY <1>14
       DEF FindPayment, Goto, Forget, HistoryIsChain, paymentVars, users, queueVars,
           tournament
<1>15. CASE \E r \in Ref : ConfirmPayment(r)
    BY <1>15, UpdateChain DEF ConfirmPayment, Status
<1>16. CASE \E r \in Ref : ParticipantExists(r)
    BY <1>16
       DEF ParticipantExists, Goto, Forget, HistoryIsChain, paymentVars, users, queueVars,
           tournament
<1>17. CASE \E r \in Ref : SeatPlayer(r)
    BY <1>17
       DEF SeatPlayer, Goto, Forget, HistoryIsChain, paymentVars, users, queueVars,
           tournament
<1>18. CASE \E r \in Ref : Notify(r)
    BY <1>18
       DEF Notify, Goto, Forget, HistoryIsChain, paymentVars, users, queueVars, tournament
<1>19. CASE \E r \in Ref : JobRefused(r)
    BY <1>19
       DEF JobRefused, ThrowJob, Goto, Forget, HistoryIsChain, paymentVars, users,
           queueVars, tournament
<1>20. CASE \E r \in Ref : JobFails(r)
    BY <1>20
       DEF JobFails, ThrowJob, Goto, Forget, HistoryIsChain, paymentVars, users, queueVars,
           tournament
<1>21. CASE \E r \in Ref : WorkerCrash(r)
    BY <1>21
       DEF WorkerCrash, Goto, Forget, HistoryIsChain, paymentVars, users, queueVars,
           tournament
<1>22. CASE \E s \in Joiner : BeginJoin(s)
    BY <1>22
       DEF BeginJoin, Goto, Forget, HistoryIsChain, paymentVars, users, queueVars,
           tournament
<1>23. CASE \E s \in Joiner, r \in Ref : DecideJoin(s, r)
    BY <1>23
       DEF DecideJoin, Goto, Forget, HistoryIsChain, paymentVars, users, queueVars,
           tournament
<1>24. CASE UNCHANGED vars
    BY <1>24 DEF vars, HistoryIsChain, paymentVars, users, queueVars, tournament
<1>25. QED
    BY <1>1, <1>2, <1>3, <1>4, <1>5, <1>6, <1>7, <1>8, <1>9, <1>10, <1>11,
       <1>12, <1>13, <1>14, <1>15, <1>16, <1>17, <1>18, <1>19, <1>20, <1>21, <1>22,
       <1>23, <1>24
       DEF Next, CallStep, JobStep, TournamentStep

\* Nothing of an erased user comes back.
LEMMA ErasedStep == TypeOK /\ ErasedStaysErased /\ [Next]_vars => ErasedStaysErased'
<1> SUFFICES ASSUME TypeOK, ErasedStaysErased, [Next]_vars PROVE ErasedStaysErased'
    OBVIOUS
<1>1. CASE \E r \in Ref : InitiatePayment(r)
    BY <1>1, PaymentFlowAssumption
       DEF InitiatePayment, Goto, Forget, TypeOK, ErasedStaysErased, Seated, Payee,
           paymentVars, users, queueVars, tournament
<1>2. CASE \E u \in User : VerifyAgain(u)
    BY <1>2, PaymentFlowAssumption
       DEF VerifyAgain, Goto, Forget, TypeOK, ErasedStaysErased, Seated,
           Payee, paymentVars, users, queueVars, tournament
<1>3. CASE \E u \in User : EraseUser(u)
    BY <1>3, PaymentFlowAssumption
       DEF EraseUser, Goto, Forget, TypeOK, ErasedStaysErased, Seated, Payee,
           paymentVars, users, queueVars, tournament
<1>4. CASE TimePasses
    BY <1>4, PaymentFlowAssumption
       DEF TimePasses, Goto, Forget, TypeOK, ErasedStaysErased, Seated, Payee,
           paymentVars, users, queueVars, tournament
<1>5. CASE \E a \in Actor : GetTournament(a)
    BY <1>5, PaymentFlowAssumption
       DEF GetTournament, Goto, Forget, TypeOK, ErasedStaysErased, Seated, Payee,
           paymentVars, users, queueVars, tournament
<1>6. CASE \E a \in Actor : FinalizeTournament(a)
    BY <1>6, PaymentFlowAssumption
       DEF FinalizeTournament, Goto, Forget, TypeOK, ErasedStaysErased, Seated,
           Payee, paymentVars, users, queueVars, tournament
<1>7. CASE \E a \in Actor : ReadPot(a)
    BY <1>7, PaymentFlowAssumption
       DEF ReadPot, Goto, Forget, TypeOK, ErasedStaysErased, Seated, Payee,
           paymentVars, users, queueVars, tournament
<1>8. CASE \E a \in Actor : WritePot(a)
    BY <1>8, PaymentFlowAssumption
       DEF WritePot, Goto, Forget, TypeOK, ErasedStaysErased, Seated, Payee,
           paymentVars, users, queueVars, tournament
<1>9. CASE \E c \in Call : ReadPayment(c)
    BY <1>9, PaymentFlowAssumption
       DEF ReadPayment, Goto, Forget, TypeOK, ErasedStaysErased, Seated, Payee,
           paymentVars, users, queueVars, tournament
<1>10. CASE \E c \in Call : RejectPayment(c)
    BY <1>10, PaymentFlowAssumption
       DEF RejectPayment, UpdatePaymentStatus, Goto, Forget, TypeOK,
           ErasedStaysErased, Seated, Payee, paymentVars, users, queueVars, tournament
<1>11. CASE \E c \in Call : Enqueue(c)
    BY <1>11, PaymentFlowAssumption
       DEF Enqueue, Goto, Forget, TypeOK, ErasedStaysErased, Seated, Payee,
           paymentVars, users, queueVars, tournament
<1>12. CASE \E a \in Call \cup Joiner : RequestFails(a)
    BY <1>12, PaymentFlowAssumption
       DEF RequestFails, Goto, Forget, TypeOK, ErasedStaysErased, Seated, Payee,
           paymentVars, users, queueVars, tournament
<1>13. CASE \E r \in Ref : StartJob(r)
    BY <1>13, PaymentFlowAssumption
       DEF StartJob, Goto, Forget, TypeOK, ErasedStaysErased, Seated, Payee,
           paymentVars, users, queueVars, tournament
<1>14. CASE \E r \in Ref : FindPayment(r)
    BY <1>14, PaymentFlowAssumption
       DEF FindPayment, Goto, Forget, TypeOK, ErasedStaysErased, Seated, Payee,
           paymentVars, users, queueVars, tournament
<1>15. CASE \E r \in Ref : ConfirmPayment(r)
    BY <1>15, PaymentFlowAssumption
       DEF ConfirmPayment, UpdatePaymentStatus, Goto, Forget, TypeOK,
           ErasedStaysErased, Seated, Payee, paymentVars, users, queueVars, tournament
<1>16. CASE \E r \in Ref : ParticipantExists(r)
    BY <1>16, PaymentFlowAssumption
       DEF ParticipantExists, Goto, Forget, TypeOK, ErasedStaysErased, Seated, Payee,
           paymentVars, users, queueVars, tournament
<1>17. CASE \E r \in Ref : SeatPlayer(r)
    <2> PICK r \in Ref : SeatPlayer(r)
        BY <1>17
    <2>1. \A q \in Ref : seats'[q] > 0 => seats[q] > 0 \/ q = r
        BY DEF SeatPlayer, TypeOK
    <2>2. erased' = erased /\ status' = status /\ known[Payee(r)] = "present" /\ known' = known
        BY DEF SeatPlayer, paymentVars, users
    <2>3. QED
        BY <2>1, <2>2 DEF ErasedStaysErased, Seated, Payee
<1>18. CASE \E r \in Ref : Notify(r)
    BY <1>18, PaymentFlowAssumption
       DEF Notify, Goto, Forget, TypeOK, ErasedStaysErased, Seated, Payee,
           paymentVars, users, queueVars, tournament
<1>19. CASE \E r \in Ref : JobRefused(r)
    BY <1>19, PaymentFlowAssumption
       DEF JobRefused, ThrowJob, Goto, Forget, TypeOK, ErasedStaysErased, Seated,
           Payee, paymentVars, users, queueVars, tournament
<1>20. CASE \E r \in Ref : JobFails(r)
    BY <1>20, PaymentFlowAssumption
       DEF JobFails, ThrowJob, Goto, Forget, TypeOK, ErasedStaysErased, Seated,
           Payee, paymentVars, users, queueVars, tournament
<1>21. CASE \E r \in Ref : WorkerCrash(r)
    BY <1>21, PaymentFlowAssumption
       DEF WorkerCrash, Goto, Forget, TypeOK, ErasedStaysErased, Seated, Payee,
           paymentVars, users, queueVars, tournament
<1>22. CASE \E s \in Joiner : BeginJoin(s)
    BY <1>22, PaymentFlowAssumption
       DEF BeginJoin, Goto, Forget, TypeOK, ErasedStaysErased, Seated, Payee,
           paymentVars, users, queueVars, tournament
<1>23. CASE \E s \in Joiner, r \in Ref : DecideJoin(s, r)
    BY <1>23, JoinSeatsNobody
       DEF DecideJoin, ErasedStaysErased, Seated, Payee, paymentVars, users
<1>24. CASE UNCHANGED vars
    BY <1>24
       DEF vars, TypeOK, ErasedStaysErased, Seated, Payee, paymentVars, users, queueVars,
           tournament
<1>25. QED
    BY <1>1, <1>2, <1>3, <1>4, <1>5, <1>6, <1>7, <1>8, <1>9, <1>10, <1>11,
       <1>12, <1>13, <1>14, <1>15, <1>16, <1>17, <1>18, <1>19, <1>20, <1>21, <1>22,
       <1>23, <1>24
       DEF Next, CallStep, JobStep, TournamentStep

\* Only a job seats a player, and a job exists only for a payment that is vouched for; no
\* other step forgets a confirmation but with the user's data.
LEMMA SeatIsVouchedStep ==
    TypeOK /\ HistoryIsChain /\ JobsRun /\ OnlyVouched /\ OnlyConfirmed /\ SeatIsVouched
    /\ [Next]_vars => SeatIsVouched'
<1> SUFFICES ASSUME TypeOK, HistoryIsChain, JobsRun, OnlyVouched, OnlyConfirmed,
                    SeatIsVouched, [Next]_vars
             PROVE  SeatIsVouched'
    OBVIOUS
<1> DEFINE Frame ==
        /\ \A r \in Ref : seats'[r] > 0 => seats[r] > 0
        /\ \A r \in Ref : WasConfirmed(r) => WasConfirmed(r)'
        /\ erased' = erased
<1>a. \A r \in Ref : Vouched(r) => Vouched(r)'
    BY VouchedStays
<1>b. Frame => SeatIsVouched'
    BY <1>a, Kinds DEF SeatIsVouched, Payee
<1>1. CASE \E r \in Ref : InitiatePayment(r)
    <2> PICK r \in Ref : InitiatePayment(r)
        BY <1>1
    <2>1. ~WasConfirmed(r)
        BY NoneNotConfirmed DEF InitiatePayment
    <2>2. \A q \in Ref \ {r} : WasConfirmed(q) => WasConfirmed(q)'
        BY DEF InitiatePayment, WasConfirmed, TypeOK
    <2>3. seats' = seats /\ UNCHANGED erased
        BY DEF InitiatePayment, tournament, users
    <2>4. QED
        BY <1>b, <2>1, <2>2, <2>3 DEF Frame
<1>2. CASE \E u \in User : VerifyAgain(u)
    BY <1>2, <1>b, Kinds DEF VerifyAgain, Frame, WasConfirmed, paymentVars, users, queueVars,
       tournament
<1>3. CASE \E u \in User : EraseUser(u)
    <2> PICK u \in User : EraseUser(u)
        BY <1>3
    <2>1. erased' = erased \cup {u}
        BY DEF EraseUser
    <2>2. \A r \in Ref : Payee(r) # u => seats'[r] = seats[r] /\ history'[r] = history[r]
        BY DEF EraseUser, TypeOK
    <2>3. \A r \in Ref : Payee(r) # u /\ WasConfirmed(r) => WasConfirmed(r)'
        BY <2>2 DEF WasConfirmed
    <2>4. QED
        BY <1>a, <2>1, <2>2, <2>3 DEF SeatIsVouched, Payee
<1>4. CASE TimePasses
    BY <1>4, <1>b, Kinds DEF TimePasses, Frame, WasConfirmed, paymentVars, users, queueVars,
       tournament
<1>5. CASE \E a \in Actor : GetTournament(a)
    BY <1>5, <1>b, Kinds DEF GetTournament, Frame, WasConfirmed, paymentVars, users,
       queueVars, tournament
<1>6. CASE \E a \in Actor : FinalizeTournament(a)
    BY <1>6, <1>b, Kinds DEF FinalizeTournament, Frame, WasConfirmed, paymentVars, users,
       queueVars, tournament
<1>7. CASE \E a \in Actor : ReadPot(a)
    BY <1>7, <1>b, Kinds DEF ReadPot, Frame, WasConfirmed, paymentVars, users, queueVars,
       tournament
<1>8. CASE \E a \in Actor : WritePot(a)
    BY <1>8, <1>b, Kinds DEF WritePot, Frame, WasConfirmed, paymentVars, users, queueVars,
       tournament
<1>9. CASE \E c \in Call : ReadPayment(c)
    BY <1>9, <1>b, Kinds DEF ReadPayment, Frame, WasConfirmed, paymentVars, users, queueVars,
       tournament
<1>10. CASE \E c \in Call : RejectPayment(c)
    <2>1. \A q \in Ref : WasConfirmed(q) => WasConfirmed(q)'
        BY <1>10, Kinds, UpdateRemembers DEF RejectPayment, Status
    <2>2. QED
        BY <1>b, <1>10, <2>1 DEF RejectPayment, Frame, tournament, users
<1>11. CASE \E c \in Call : Enqueue(c)
    BY <1>11, <1>b, Kinds DEF Enqueue, Frame, WasConfirmed, paymentVars, users, queueVars,
       tournament
<1>12. CASE \E a \in Call \cup Joiner : RequestFails(a)
    BY <1>12, <1>b, Kinds DEF RequestFails, Frame, WasConfirmed, paymentVars, users,
       queueVars, tournament
<1>13. CASE \E r \in Ref : StartJob(r)
    BY <1>13, <1>b, Kinds DEF StartJob, Frame, WasConfirmed, paymentVars, users, queueVars,
       tournament
<1>14. CASE \E r \in Ref : FindPayment(r)
    BY <1>14, <1>b, Kinds DEF FindPayment, Frame, WasConfirmed, paymentVars, users,
       queueVars, tournament
<1>15. CASE \E r \in Ref : ConfirmPayment(r)
    <2>1. \A q \in Ref : WasConfirmed(q) => WasConfirmed(q)'
        BY <1>15, Kinds, UpdateRemembers DEF ConfirmPayment, Status
    <2>2. QED
        BY <1>b, <1>15, <2>1 DEF ConfirmPayment, Frame, tournament, users
<1>16. CASE \E r \in Ref : ParticipantExists(r)
    BY <1>16, <1>b, Kinds DEF ParticipantExists, Frame, WasConfirmed, paymentVars, users,
       queueVars, tournament
<1>17. CASE \E r \in Ref : SeatPlayer(r)
    <2> PICK r \in Ref : SeatPlayer(r)
        BY <1>17
    <2>1. WasConfirmed(r) \/ Payee(r) \in erased
        BY DEF SeatPlayer, OnlyConfirmed, Confirmed
    <2>2. Vouched(r)
        BY DEF SeatPlayer, OnlyVouched, JobsRun
    <2>3. \A q \in Ref : seats'[q] > 0 => seats[q] > 0 \/ q = r
        BY DEF SeatPlayer, TypeOK
    <2>4. history' = history /\ UNCHANGED erased
        BY DEF SeatPlayer, paymentVars, users
    <2>5. \A q \in Ref : WasConfirmed(q) => WasConfirmed(q)'
        BY <2>4 DEF WasConfirmed
    <2>6. QED
        BY <1>a, <2>1, <2>2, <2>3, <2>4, <2>5 DEF SeatIsVouched, Payee
<1>18. CASE \E r \in Ref : Notify(r)
    BY <1>18, <1>b, Kinds DEF Notify, Frame, WasConfirmed, paymentVars, users, queueVars,
       tournament
<1>19. CASE \E r \in Ref : JobRefused(r)
    BY <1>19, <1>b, Kinds DEF JobRefused, ThrowJob, Frame, WasConfirmed, paymentVars, users,
       queueVars, tournament
<1>20. CASE \E r \in Ref : JobFails(r)
    BY <1>20, <1>b, Kinds DEF JobFails, ThrowJob, Frame, WasConfirmed, paymentVars, users,
       queueVars, tournament
<1>21. CASE \E r \in Ref : WorkerCrash(r)
    BY <1>21, <1>b, Kinds DEF WorkerCrash, Frame, WasConfirmed, paymentVars, users,
       queueVars, tournament
<1>22. CASE \E s \in Joiner : BeginJoin(s)
    BY <1>22, <1>b, Kinds DEF BeginJoin, Frame, WasConfirmed, paymentVars, users, queueVars,
       tournament
<1>23. CASE \E s \in Joiner, r \in Ref : DecideJoin(s, r)
    BY <1>23, <1>b, JoinSeatsNobody DEF DecideJoin, Frame, WasConfirmed, paymentVars, users
<1>24. CASE UNCHANGED vars
    BY <1>24, <1>b, Kinds DEF vars, Frame, WasConfirmed, paymentVars, users, queueVars,
       tournament
<1>25. QED
    BY <1>1, <1>2, <1>3, <1>4, <1>5, <1>6, <1>7, <1>8, <1>9, <1>10, <1>11, <1>12, <1>13,
       <1>14, <1>15, <1>16, <1>17, <1>18, <1>19, <1>20, <1>21, <1>22, <1>23, <1>24
       DEF Next, CallStep, JobStep, TournamentStep

\* A seat is added only for a player without one.
LEMMA OneSeatStep == TypeOK /\ OneSeatPerUser /\ [Next]_vars => OneSeatPerUser'
<1> SUFFICES ASSUME TypeOK, OneSeatPerUser, [Next]_vars PROVE OneSeatPerUser'
    OBVIOUS
<1>1. CASE \E r \in Ref : InitiatePayment(r)
    BY <1>1
       DEF InitiatePayment, Goto, Forget, TypeOK, OneSeatPerUser, Seated,
           paymentVars, users, queueVars, tournament
<1>2. CASE \E u \in User : VerifyAgain(u)
    BY <1>2
       DEF VerifyAgain, Goto, Forget, TypeOK, OneSeatPerUser, Seated,
           paymentVars, users, queueVars, tournament
<1>3. CASE \E u \in User : EraseUser(u)
    BY <1>3
       DEF EraseUser, Goto, Forget, TypeOK, OneSeatPerUser, Seated, paymentVars, users,
           queueVars, tournament
<1>4. CASE TimePasses
    BY <1>4
       DEF TimePasses, Goto, Forget, TypeOK, OneSeatPerUser, Seated, paymentVars, users,
           queueVars, tournament
<1>5. CASE \E a \in Actor : GetTournament(a)
    BY <1>5
       DEF GetTournament, Goto, Forget, TypeOK, OneSeatPerUser, Seated, paymentVars, users,
           queueVars, tournament
<1>6. CASE \E a \in Actor : FinalizeTournament(a)
    BY <1>6
       DEF FinalizeTournament, Goto, Forget, TypeOK, OneSeatPerUser, Seated,
           paymentVars, users, queueVars, tournament
<1>7. CASE \E a \in Actor : ReadPot(a)
    BY <1>7
       DEF ReadPot, Goto, Forget, TypeOK, OneSeatPerUser, Seated, paymentVars, users,
           queueVars, tournament
<1>8. CASE \E a \in Actor : WritePot(a)
    BY <1>8
       DEF WritePot, Goto, Forget, TypeOK, OneSeatPerUser, Seated, paymentVars, users,
           queueVars, tournament
<1>9. CASE \E c \in Call : ReadPayment(c)
    BY <1>9
       DEF ReadPayment, Goto, Forget, TypeOK, OneSeatPerUser, Seated, paymentVars, users,
           queueVars, tournament
<1>10. CASE \E c \in Call : RejectPayment(c)
    BY <1>10
       DEF RejectPayment, UpdatePaymentStatus, Goto, Forget, TypeOK, OneSeatPerUser,
           Seated, paymentVars, users, queueVars, tournament
<1>11. CASE \E c \in Call : Enqueue(c)
    BY <1>11
       DEF Enqueue, Goto, Forget, TypeOK, OneSeatPerUser, Seated, paymentVars, users,
           queueVars, tournament
<1>12. CASE \E a \in Call \cup Joiner : RequestFails(a)
    BY <1>12
       DEF RequestFails, Goto, Forget, TypeOK, OneSeatPerUser, Seated, paymentVars, users,
           queueVars, tournament
<1>13. CASE \E r \in Ref : StartJob(r)
    BY <1>13
       DEF StartJob, Goto, Forget, TypeOK, OneSeatPerUser, Seated, paymentVars, users,
           queueVars, tournament
<1>14. CASE \E r \in Ref : FindPayment(r)
    BY <1>14
       DEF FindPayment, Goto, Forget, TypeOK, OneSeatPerUser, Seated, paymentVars, users,
           queueVars, tournament
<1>15. CASE \E r \in Ref : ConfirmPayment(r)
    BY <1>15
       DEF ConfirmPayment, UpdatePaymentStatus, Goto, Forget, TypeOK, OneSeatPerUser,
           Seated, paymentVars, users, queueVars, tournament
<1>16. CASE \E r \in Ref : ParticipantExists(r)
    BY <1>16
       DEF ParticipantExists, Goto, Forget, TypeOK, OneSeatPerUser, Seated,
           paymentVars, users, queueVars, tournament
<1>17. CASE \E r \in Ref : SeatPlayer(r)
    BY <1>17
       DEF SeatPlayer, Goto, Forget, TypeOK, OneSeatPerUser, Seated, paymentVars, users,
           queueVars, tournament
<1>18. CASE \E r \in Ref : Notify(r)
    BY <1>18
       DEF Notify, Goto, Forget, TypeOK, OneSeatPerUser, Seated, paymentVars, users,
           queueVars, tournament
<1>19. CASE \E r \in Ref : JobRefused(r)
    BY <1>19
       DEF JobRefused, ThrowJob, Goto, Forget, TypeOK, OneSeatPerUser, Seated,
           paymentVars, users, queueVars, tournament
<1>20. CASE \E r \in Ref : JobFails(r)
    BY <1>20
       DEF JobFails, ThrowJob, Goto, Forget, TypeOK, OneSeatPerUser, Seated,
           paymentVars, users, queueVars, tournament
<1>21. CASE \E r \in Ref : WorkerCrash(r)
    BY <1>21
       DEF WorkerCrash, Goto, Forget, TypeOK, OneSeatPerUser, Seated, paymentVars, users,
           queueVars, tournament
<1>22. CASE \E s \in Joiner : BeginJoin(s)
    BY <1>22
       DEF BeginJoin, Goto, Forget, TypeOK, OneSeatPerUser, Seated, paymentVars, users,
           queueVars, tournament
<1>23. CASE \E s \in Joiner, r \in Ref : DecideJoin(s, r)
    BY <1>23, JoinSeatsNobody DEF OneSeatPerUser, Payee
<1>24. CASE UNCHANGED vars
    BY <1>24
       DEF vars, TypeOK, OneSeatPerUser, Seated, paymentVars, users, queueVars, tournament
<1>25. QED
    BY <1>1, <1>2, <1>3, <1>4, <1>5, <1>6, <1>7, <1>8, <1>9, <1>10, <1>11,
       <1>12, <1>13, <1>14, <1>15, <1>16, <1>17, <1>18, <1>19, <1>20, <1>21, <1>22,
       <1>23, <1>24
       DEF Next, CallStep, JobStep, TournamentStep

\* A job completes only with its payer seated.
LEMMA SeatedFirstStep ==
    TypeOK /\ JobsRun /\ SeatedFirst /\ [Next]_vars => SeatedFirst'
<1> SUFFICES ASSUME TypeOK, JobsRun, SeatedFirst, [Next]_vars PROVE SeatedFirst'
    OBVIOUS
<1>1. CASE \E r \in Ref : InitiatePayment(r)
    BY <1>1, Kinds
       DEF InitiatePayment, Goto, Forget, TypeOK, Actor, JobsRun, SeatedFirst,
           Seated, Payee, paymentVars, users, queueVars, tournament
<1>2. CASE \E u \in User : VerifyAgain(u)
    BY <1>2, Kinds
       DEF VerifyAgain, Goto, Forget, TypeOK, Actor, JobsRun, SeatedFirst,
           Seated, Payee, paymentVars, users, queueVars, tournament
<1>3. CASE \E u \in User : EraseUser(u)
    <2> PICK u \in User : EraseUser(u)
        BY <1>3
    <2>1. erased' = erased \cup {u} /\ at' = at /\ job' = job
        BY DEF EraseUser, queueVars, users
    <2>2. \A q \in Ref : Payee(q) # u => seats'[q] = seats[q]
        BY DEF EraseUser
    <2>3. \A q \in Ref : Seated(Payee(q)) => Seated(Payee(q))' \/ Payee(q) \in erased'
        <3> TAKE q \in Ref
        <3>1. CASE Payee(q) = u
            BY <2>1, <3>1
        <3>2. CASE Payee(q) # u
            BY <2>2, <3>2 DEF Seated, Payee
        <3>3. QED
            BY <3>1, <3>2
    <2>4. QED
        BY <2>1, <2>3 DEF SeatedFirst, Payee
<1>4. CASE TimePasses
    BY <1>4, Kinds
       DEF TimePasses, Goto, Forget, TypeOK, Actor, JobsRun, SeatedFirst, Seated,
           Payee, paymentVars, users, queueVars, tournament
<1>5. CASE \E a \in Actor : GetTournament(a)
    BY <1>5, Kinds
       DEF GetTournament, Goto, Forget, TypeOK, Actor, JobsRun, SeatedFirst, Seated,
           Payee, paymentVars, users, queueVars, tournament
<1>6. CASE \E a \in Actor : FinalizeTournament(a)
    BY <1>6, Kinds
       DEF FinalizeTournament, Goto, Forget, TypeOK, Actor, JobsRun, SeatedFirst,
           Seated, Payee, paymentVars, users, queueVars, tournament
<1>7. CASE \E a \in Actor : ReadPot(a)
    BY <1>7, Kinds
       DEF ReadPot, Goto, Forget, TypeOK, Actor, JobsRun, SeatedFirst, Seated, Payee,
           paymentVars, users, queueVars, tournament
<1>8. CASE \E a \in Actor : WritePot(a)
    BY <1>8, Kinds
       DEF WritePot, Goto, Forget, TypeOK, Actor, JobsRun, SeatedFirst, Seated,
           Payee, paymentVars, users, queueVars, tournament
<1>9. CASE \E c \in Call : ReadPayment(c)
    BY <1>9, Kinds
       DEF ReadPayment, Goto, Forget, TypeOK, Actor, JobsRun, SeatedFirst, Seated,
           Payee, paymentVars, users, queueVars, tournament
<1>10. CASE \E c \in Call : RejectPayment(c)
    BY <1>10, Kinds
       DEF RejectPayment, UpdatePaymentStatus, Goto, Forget, TypeOK, Actor, JobsRun,
           SeatedFirst, Seated, Payee, paymentVars, users, queueVars, tournament
<1>11. CASE \E c \in Call : Enqueue(c)
    BY <1>11, Kinds
       DEF Enqueue, Goto, Forget, TypeOK, Actor, JobsRun, SeatedFirst, Seated, Payee,
           paymentVars, users, queueVars, tournament
<1>12. CASE \E a \in Call \cup Joiner : RequestFails(a)
    BY <1>12, Kinds
       DEF RequestFails, Goto, Forget, TypeOK, Actor, JobsRun, SeatedFirst, Seated,
           Payee, paymentVars, users, queueVars, tournament
<1>13. CASE \E r \in Ref : StartJob(r)
    BY <1>13, Kinds
       DEF StartJob, Goto, Forget, TypeOK, Actor, JobsRun, SeatedFirst, Seated,
           Payee, paymentVars, users, queueVars, tournament
<1>14. CASE \E r \in Ref : FindPayment(r)
    BY <1>14, Kinds
       DEF FindPayment, Goto, Forget, TypeOK, Actor, JobsRun, SeatedFirst, Seated,
           Payee, paymentVars, users, queueVars, tournament
<1>15. CASE \E r \in Ref : ConfirmPayment(r)
    BY <1>15, Kinds
       DEF ConfirmPayment, UpdatePaymentStatus, Goto, Forget, TypeOK, Actor, JobsRun,
           SeatedFirst, Seated, Payee, paymentVars, users, queueVars, tournament
<1>16. CASE \E r \in Ref : ParticipantExists(r)
    BY <1>16, Kinds
       DEF ParticipantExists, Goto, Forget, TypeOK, Actor, JobsRun, SeatedFirst,
           Seated, Payee, paymentVars, users, queueVars, tournament
<1>17. CASE \E r \in Ref : SeatPlayer(r)
    <2> PICK r \in Ref : SeatPlayer(r)
        BY <1>17
    <2>1. \A q \in Ref : seats[q] > 0 => seats'[q] > 0
        BY DEF SeatPlayer, TypeOK
    <2>2. Seated(Payee(r))'
        <3>1. CASE Seated(Payee(r))
            BY <2>1, <3>1 DEF Seated, Payee
        <3>2. CASE ~Seated(Payee(r))
            BY <3>2 DEF SeatPlayer, Seated, Payee, TypeOK
        <3>3. QED
            BY <3>1, <3>2
    <2>3. \A q \in Ref \ {r} : at'[q] = at[q]
        BY DEF SeatPlayer, Goto, TypeOK, Actor
    <2>4. job' = job /\ erased' = erased
        BY DEF SeatPlayer, queueVars, users
    <2>5. QED
        BY <2>1, <2>2, <2>3, <2>4 DEF SeatedFirst, Seated, Payee
<1>18. CASE \E r \in Ref : Notify(r)
    BY <1>18, Kinds
       DEF Notify, Goto, Forget, TypeOK, Actor, JobsRun, SeatedFirst, Seated, Payee,
           paymentVars, users, queueVars, tournament
<1>19. CASE \E r \in Ref : JobRefused(r)
    BY <1>19, Kinds
       DEF JobRefused, ThrowJob, Goto, Forget, TypeOK, Actor, JobsRun, SeatedFirst,
           Seated, Payee, paymentVars, users, queueVars, tournament
<1>20. CASE \E r \in Ref : JobFails(r)
    BY <1>20, Kinds
       DEF JobFails, ThrowJob, Goto, Forget, TypeOK, Actor, JobsRun, SeatedFirst,
           Seated, Payee, paymentVars, users, queueVars, tournament
<1>21. CASE \E r \in Ref : WorkerCrash(r)
    BY <1>21, Kinds
       DEF WorkerCrash, Goto, Forget, TypeOK, Actor, JobsRun, SeatedFirst, Seated,
           Payee, paymentVars, users, queueVars, tournament
<1>22. CASE \E s \in Joiner : BeginJoin(s)
    BY <1>22, Kinds
       DEF BeginJoin, Goto, Forget, TypeOK, Actor, JobsRun, SeatedFirst, Seated,
           Payee, paymentVars, users, queueVars, tournament
<1>23. CASE \E s \in Joiner, r \in Ref : DecideJoin(s, r)
    BY <1>23, Kinds
       DEF DecideJoin, Goto, Forget, TypeOK, Actor, JobsRun, SeatedFirst, Seated,
           Payee, paymentVars, users, queueVars, tournament
<1>24. CASE UNCHANGED vars
    BY <1>24
       DEF vars, TypeOK, Actor, JobsRun, SeatedFirst, Seated, Payee, paymentVars, users,
           queueVars, tournament
<1>25. QED
    BY <1>1, <1>2, <1>3, <1>4, <1>5, <1>6, <1>7, <1>8, <1>9, <1>10, <1>11,
       <1>12, <1>13, <1>14, <1>15, <1>16, <1>17, <1>18, <1>19, <1>20, <1>21, <1>22,
       <1>23, <1>24
       DEF Next, CallStep, JobStep, TournamentStep

----------------------------------------------------------------------------
(* The theorems.                                                           *)

\* IInv is an invariant.
THEOREM Invariance == Spec => []IInv
<1>1. IInv /\ [Next]_vars => IInv'
    BY TypeStep, JobsRunStep, BudgetStep, HistoryStep, OnlyVouchedStep, OnlyConfirmedStep,
       SeatIsVouchedStep, OneSeatStep, ErasedStep, SeatedFirstStep
       DEF IInv
<1>2. QED
    BY InitIInv, <1>1, PTL DEF Spec

\* Every variable stays in its domain.
THEOREM TypeCorrect == Spec => []TypeOK
<1>1. IInv => TypeOK
    BY DEF IInv
<1>2. QED
    BY Invariance, <1>1, PTL

\* The history of a payment tells how it came to its status.
THEOREM HistoryTells == Spec => []HistoryIsChain
<1>1. IInv => HistoryIsChain
    BY DEF IInv
<1>2. QED
    BY Invariance, <1>1, PTL

\* A seat has a confirmed payment, and a matching request of the session that pays, unless
\* the data of its user has been deleted.
THEOREM SeatsAreVouched == Spec => []SeatIsVouched
<1>1. IInv => SeatIsVouched
    BY DEF IInv
<1>2. QED
    BY Invariance, <1>1, PTL

\* Nobody has two seats.
THEOREM SeatsAreSingle == Spec => []OneSeatPerUser
<1>1. IInv => OneSeatPerUser
    BY DEF IInv
<1>2. QED
    BY Invariance, <1>1, PTL

\* Requests and jobs under way bring nothing of an erased user back.
THEOREM ErasureHolds == Spec => []ErasedStaysErased
<1>1. IInv => ErasedStaysErased
    BY DEF IInv
<1>2. QED
    BY Invariance, <1>1, PTL

\* A completed job has seated its payer.
THEOREM CompletionSeats == Spec => []CompletedJobSeats
<1>1. IInv => CompletedJobSeats
    BY DEF IInv, SeatedFirst, CompletedJobSeats
<1>2. QED
    BY Invariance, <1>1, PTL
================================================================================
