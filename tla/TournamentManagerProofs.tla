------------------------ MODULE TournamentManagerProofs ------------------------
(***************************************************************************)
(* Proofs about TournamentManager, for any number of tournaments, players, *)
(* tokens and scores: what a tournament has taken in matches its players;  *)
(* a finalized tournament does not change; its winners are the best; and   *)
(* its prizes are paid from its own pot, which the balance always holds.   *)
(***************************************************************************)
EXTENDS TournamentManager, RowsProofs, TLAPS

\* The domains of the variables that joinTournament and the end of a tournament use.
EntryTypes ==
    /\ config \in [Id -> Config \cup {NoConfig}]
    /\ players \in [Id -> Seq(Player)]
    /\ prizePool \in [Id -> Nat]
    /\ DOMAIN finalized = Id
    /\ DOMAIN scores = Id
    /\ DOMAIN winners = Id

\* Nobody is in, and nothing has been paid for, a tournament that does not exist.
EmptyBefore == \A id \in Id : ~Exists(id) => players[id] = <<>> /\ prizePool[id] = 0

IInv == EntryTypes /\ EmptyBefore /\ PoolMatchesPlayers

\* A configuration has a buy-in and a number of places.
LEMMA ConfigType ==
    ASSUME EntryTypes, NEW id \in Id, Exists(id)
    PROVE  config[id] \in Config /\ config[id].buyIn \in Nat /\ config[id].maxPlayers \in Nat
<1>1. config[id] \in Config
    BY DEF EntryTypes, Exists
<1>2. QED
    BY <1>1, TournamentManagerAssumption

\* The initial state satisfies IInv.
LEMMA InitIInv == Init => IInv
BY DEF Init, IInv, EntryTypes, EmptyBefore, PoolMatchesPlayers, Exists

\* A player who is let in is new, takes a free place and pays the buy-in.
LEMMA JoinStep ==
    ASSUME IInv, NEW id \in Id, NEW p \in Player, JoinTournament(id, p)
    PROVE  IInv'
<1> DEFINE c == config[id]
           ps == players[id]
<1>1. /\ Exists(id) /\ c.buyIn \in Nat /\ c.maxPlayers \in Nat
      /\ ps \in Seq(Player) /\ Len(ps) \in Nat /\ prizePool[id] \in Nat
    BY ConfigType DEF JoinTournament, IInv, EntryTypes
<1>2. /\ prizePool[id] = c.buyIn * Len(ps)
      /\ Len(ps) < c.maxPlayers
      /\ IsInjective(ps)
      /\ \A i \in DOMAIN ps : ps[i] # p
    BY <1>1 DEF JoinTournament, Registered, IInv, PoolMatchesPlayers
<1>3. /\ players' = [players EXCEPT ![id] = Append(ps, p)]
      /\ prizePool' = [prizePool EXCEPT ![id] = prizePool[id] + c.buyIn]
      /\ UNCHANGED <<config, finalized, scores, winners>>
    BY DEF JoinTournament, resultVars
<1>4. players'[id] = Append(ps, p) /\ prizePool'[id] = prizePool[id] + c.buyIn
      /\ \A other \in Id \ {id} : players'[other] = players[other]
                                  /\ prizePool'[other] = prizePool[other]
    BY <1>3 DEF IInv, EntryTypes
<1>5. Append(ps, p) \in Seq(Player) /\ Len(Append(ps, p)) = Len(ps) + 1
    BY <1>1
<1>6. prizePool[id] + c.buyIn = c.buyIn * (Len(ps) + 1)
    <2>1. \A a, n \in Nat : a * (n + 1) = a * n + a
        OBVIOUS
    <2>2. c.buyIn * (Len(ps) + 1) = c.buyIn * Len(ps) + c.buyIn
        BY <1>1, <2>1
    <2>3. QED
        BY <1>2, <2>2
<1>7. IsInjective(Append(ps, p))
    <2>1. \A i \in DOMAIN Append(ps, p) : i \in DOMAIN ps \/ i = Len(ps) + 1
        BY <1>1
    <2>2. \A i \in DOMAIN ps : Append(ps, p)[i] = ps[i] /\ i # Len(ps) + 1
        BY <1>1
    <2>3. Append(ps, p)[Len(ps) + 1] = p
        BY <1>1
    <2>4. QED
        BY <1>2, <2>1, <2>2, <2>3 DEF IsInjective
<1>8. EntryTypes'
    <2>1. prizePool[id] + c.buyIn \in Nat
        BY <1>1
    <2>2. QED
        BY <1>3, <1>5, <2>1 DEF IInv, EntryTypes
<1>9. EmptyBefore'
    BY <1>1, <1>3, <1>4 DEF IInv, EmptyBefore, Exists
<1>10. PoolMatchesPlayers'
    <2>1. Len(ps) + 1 <= c.maxPlayers
        BY <1>1, <1>2
    <2>2. QED
        BY <1>2, <1>3, <1>4, <1>5, <1>6, <1>7, <2>1 DEF IInv, PoolMatchesPlayers, Exists
<1>11. QED
    BY <1>8, <1>9, <1>10 DEF IInv

\* A new tournament begins empty.
LEMMA CreateStep ==
    ASSUME IInv, NEW id \in Id, NEW c \in Config, CreateTournament(id, c)
    PROVE  IInv'
<1>1. players[id] = <<>> /\ prizePool[id] = 0
    BY DEF CreateTournament, IInv, EmptyBefore
<1>2. c.buyIn \in Nat /\ c.maxPlayers \in Nat
    BY TournamentManagerAssumption
<1>3. /\ config' = [config EXCEPT ![id] = c]
      /\ UNCHANGED <<players, prizePool, finalized, scores, winners>>
    BY DEF CreateTournament, entryVars, resultVars
<1>4. EntryTypes'
    BY <1>3 DEF IInv, EntryTypes
<1>5. EmptyBefore'
    BY <1>1, <1>3 DEF IInv, EntryTypes, EmptyBefore, Exists
<1>6. PoolMatchesPlayers'
    <2>1. c.buyIn * 0 = 0 /\ Len(players[id]) = 0 /\ IsInjective(players[id])
        BY <1>1, <1>2 DEF IsInjective
    <2>2. config'[id] = c /\ \A other \in Id \ {id} : config'[other] = config[other]
        BY <1>3 DEF IInv, EntryTypes
    <2>3. QED
        BY <1>1, <1>2, <1>3, <2>1, <2>2 DEF IInv, PoolMatchesPlayers, Exists
<1>7. QED
    BY <1>4, <1>5, <1>6 DEF IInv

\* No other function touches the players, the pot or the configuration.
LEMMA OtherStep ==
    ASSUME IInv, UNCHANGED <<config, players, prizePool>>,
           DOMAIN finalized' = Id, DOMAIN scores' = Id, DOMAIN winners' = Id
    PROVE  IInv'
BY DEF IInv, EntryTypes, EmptyBefore, PoolMatchesPlayers, Exists

\* Every step preserves IInv.
LEMMA IInvStep == IInv /\ [Next]_vars => IInv'
<1> SUFFICES ASSUME IInv, [Next]_vars PROVE IInv'
    OBVIOUS
<1>0. DOMAIN finalized = Id /\ DOMAIN scores = Id /\ DOMAIN winners = Id
    BY DEF IInv, EntryTypes
<1>1. CASE \E who \in Other, authorized \in BOOLEAN : SetAuthorizedSubmitter(who, authorized)
    BY <1>0, <1>1, OtherStep DEF SetAuthorizedSubmitter, entryVars, resultVars
<1>2. CASE \E id \in Id, c \in Config : CreateTournament(id, c)
    BY <1>2, CreateStep
<1>3. CASE \E id \in Id, p \in Player : JoinTournament(id, p)
    BY <1>3, JoinStep
<1>4. CASE \E id \in Id, p \in Player, score \in Score : RecordScore(id, p, score)
    BY <1>0, <1>4, OtherStep DEF RecordScore, entryVars, resultVars
<1>5. CASE \E id \in Id : FinalizeTournament(id)
    BY <1>0, <1>5, OtherStep DEF FinalizeTournament, entryVars
<1>6. CASE \E id \in Id : DistributePrizes(id)
    BY <1>0, <1>6, OtherStep DEF DistributePrizes, entryVars, resultVars
<1>7. CASE TimePasses
    BY <1>0, <1>7, OtherStep DEF TimePasses, entryVars, resultVars
<1>8. CASE UNCHANGED vars
    BY <1>0, <1>8, OtherStep DEF vars, entryVars, resultVars
<1>9. QED
    BY <1>1, <1>2, <1>3, <1>4, <1>5, <1>6, <1>7, <1>8
       DEF Next, SubmitScore, SubmitScoreWithSignature

\* IInv is an invariant.
THEOREM Invariance == Spec => []IInv
BY InitIInv, IInvStep, PTL DEF Spec

\* What a tournament has taken in is the buy-ins of its players, all of them different
\* and not too many.
THEOREM PoolIsBuyIns == Spec => []PoolMatchesPlayers
<1>1. IInv => PoolMatchesPlayers
    BY DEF IInv
<1>2. QED
    BY Invariance, <1>1, PTL

\* One step leaves a finalized tournament as it is.
Settled ==
    \A id \in Id : finalized[id] =>
        /\ finalized'[id]
        /\ players'[id] = players[id] /\ scores'[id] = scores[id]
        /\ winners'[id] = winners[id] /\ prizePool'[id] = prizePool[id]

\* Every step leaves what a finalized tournament was decided by.
LEMMA SettledStep == IInv /\ [Next]_vars => Settled
<1> SUFFICES ASSUME IInv, [Next]_vars PROVE Settled
    OBVIOUS
<1>1. CASE \E who \in Other, authorized \in BOOLEAN : SetAuthorizedSubmitter(who, authorized)
    BY <1>1 DEF SetAuthorizedSubmitter, Settled, entryVars, resultVars
<1>2. CASE \E id \in Id, c \in Config : CreateTournament(id, c)
    BY <1>2 DEF CreateTournament, Settled, entryVars, resultVars
<1>3. CASE \E id \in Id, p \in Player : JoinTournament(id, p)
    BY <1>3 DEF JoinTournament, Settled, resultVars, IInv, EntryTypes
<1>4. CASE \E id \in Id, p \in Player, score \in Score : RecordScore(id, p, score)
    BY <1>4 DEF RecordScore, Settled, entryVars, resultVars, IInv, EntryTypes
<1>5. CASE \E id \in Id : FinalizeTournament(id)
    BY <1>5 DEF FinalizeTournament, Settled, entryVars, IInv, EntryTypes
<1>6. CASE \E id \in Id : DistributePrizes(id)
    BY <1>6 DEF DistributePrizes, Settled, entryVars, resultVars
<1>7. CASE TimePasses
    BY <1>7 DEF TimePasses, Settled, entryVars, resultVars
<1>8. CASE UNCHANGED vars
    BY <1>8 DEF vars, Settled, entryVars, resultVars
<1>9. QED
    BY <1>1, <1>2, <1>3, <1>4, <1>5, <1>6, <1>7, <1>8
       DEF Next, SubmitScore, SubmitScoreWithSignature

\* No join, no score and no second finalization ever reaches a finalized tournament.
THEOREM FinalityHolds == Spec => FinalizedIsFinal
<1>1. IInv /\ [Next]_vars => [Settled]_vars
    BY SettledStep
<1>2. Spec => [][Settled]_vars
    BY Invariance, <1>1, PTL DEF Spec
<1>3. QED
    BY <1>2 DEF FinalizedIsFinal, Settled

----------------------------------------------------------------------------
(* _rankPlayers.                                                           *)

\* r has the players of ps, in some order.
Permuted(r, ps) ==
    /\ r \in Seq(Player) /\ Len(r) = Len(ps)
    /\ IsInjective(r) /\ ToSet(r) = ToSet(ps)

\* Nobody after one of the first i places has a higher score than its player.
Ordered(r, i, score) ==
    \A a, b \in 1 .. Len(r) : a <= i /\ a < b => score[r[a]] >= score[r[b]]

\* Nobody from place i to place j has a higher score than the player at place i.
Best(r, i, j, score) ==
    \A b \in 1 .. Len(r) : i < b /\ b <= j => score[r[i]] >= score[r[b]]

\* Exchanging two players leaves the same players.
LEMMA SwapPermuted ==
    ASSUME NEW ps \in Seq(Player), NEW r, Permuted(r, ps),
           NEW i \in 1 .. Len(ps), NEW j \in 1 .. Len(ps), i # j
    PROVE  Permuted(Swap(r, i, j), ps)
<1> DEFINE q == Swap(r, i, j)
           n == Len(ps)
<1>1. /\ n \in Nat /\ r \in Seq(Player) /\ DOMAIN r = 1 .. n /\ Len(r) = n
      /\ \A k \in 1 .. n : r[k] \in Player
    BY DEF Permuted
<1>2. /\ DOMAIN q = 1 .. n /\ q[i] = r[j] /\ q[j] = r[i]
      /\ \A k \in 1 .. n : k # i /\ k # j => q[k] = r[k]
    BY <1>1 DEF Swap
<1>3. q \in Seq(Player) /\ Len(q) = n
    BY <1>1 DEF Swap
<1> HIDE DEF q, n
<1>4. IsInjective(q)
    BY <1>1, <1>2 DEF Permuted, IsInjective, n
<1>5. ToSet(q) = ToSet(r)
    <2>1. ASSUME NEW k \in 1 .. n
          PROVE  (\E l \in 1 .. n : q[k] = r[l]) /\ (\E l \in 1 .. n : r[k] = q[l])
        BY <1>2 DEF n
    <2>2. ToSet(q) = {q[k] : k \in 1 .. n} /\ ToSet(r) = {r[k] : k \in 1 .. n}
        BY <1>1, <1>2 DEF ToSet
    <2>3. ToSet(q) \subseteq ToSet(r)
        BY <2>1, <2>2
    <2>4. ToSet(r) \subseteq ToSet(q)
        BY <2>1, <2>2
    <2>5. QED
        BY <2>3, <2>4
<1>6. QED
    BY <1>3, <1>4, <1>5 DEF Permuted, q, n

\* One comparison of the inner loop.
LEMMA ComparedStep ==
    ASSUME NEW ps \in Seq(Player), NEW score \in [Player -> Nat], NEW r, Permuted(r, ps),
           NEW i \in 1 .. Len(ps), NEW j \in 1 .. Len(ps), i < j,
           Ordered(r, i - 1, score), Best(r, i, j - 1, score)
    PROVE  /\ Permuted(Compared(r, i, j, score), ps)
           /\ Ordered(Compared(r, i, j, score), i - 1, score)
           /\ Best(Compared(r, i, j, score), i, j, score)
<1> DEFINE q == Compared(r, i, j, score)
           n == Len(ps)
           s == [k \in 1 .. n |-> score[r[k]]]
           t == [k \in 1 .. n |-> score[q[k]]]
<1>0. /\ n \in Nat /\ i \in 1 .. n /\ j \in 1 .. n /\ Len(r) = n /\ i # j
      /\ \A k \in 1 .. n : r[k] \in Player
      /\ DOMAIN r = 1 .. n
    BY DEF Permuted
<1>1. s \in [1 .. n -> Nat]
    BY <1>0
<1>2. /\ \A a, b \in 1 .. n : a <= i - 1 /\ a < b => s[a] >= s[b]
      /\ \A b \in 1 .. n : i < b /\ b <= j - 1 => s[i] >= s[b]
    BY <1>0 DEF Ordered, Best
<1>3. CASE ~(s[j] > s[i])
    <2>1. q = r
        BY <1>0, <1>3 DEF Compared
    <2>2. s[i] >= s[j]
        BY <1>0, <1>1, <1>3
    <2>3. \A b \in 1 .. n : i < b /\ b <= j => s[i] >= s[b]
        <3>1. \A b \in 1 .. n : b <= j => b <= j - 1 \/ b = j
            BY <1>0
        <3>2. QED
            BY <1>2, <2>2, <3>1
    <2>4. Best(r, i, j, score)
        BY <1>0, <2>3 DEF Best
    <2>5. QED
        BY <2>1, <2>4
<1>4. CASE s[j] > s[i]
    <2>1. q = Swap(r, i, j)
        BY <1>0, <1>4 DEF Compared
    <2>2. Permuted(q, ps)
        BY <2>1, <1>0, SwapPermuted
    <2>3. /\ DOMAIN q = 1 .. n /\ q[i] = r[j] /\ q[j] = r[i] /\ Len(q) = n
          /\ \A k \in 1 .. n : k # i /\ k # j => q[k] = r[k]
        <3>1. /\ DOMAIN Swap(r, i, j) = 1 .. n
              /\ Swap(r, i, j)[i] = r[j] /\ Swap(r, i, j)[j] = r[i]
              /\ \A k \in 1 .. n : k # i /\ k # j => Swap(r, i, j)[k] = r[k]
            BY <1>0 DEF Swap
        <3>2. Len(q) = n
            BY <2>2 DEF Permuted
        <3>3. QED
            BY <2>1, <3>1, <3>2
    <2> HIDE DEF q
    <2>4. t \in [1 .. n -> Nat] /\ t[i] = s[j] /\ t[j] = s[i]
          /\ \A k \in 1 .. n : k # i /\ k # j => t[k] = s[k]
        BY <1>0, <1>1, <2>3
    <2>5. \A k \in 1 .. n : t[k] = score[q[k]]
        OBVIOUS
    <2> HIDE DEF s, t, n
    <2>6. \A a, b \in 1 .. n : a <= i - 1 /\ a < b => t[a] >= t[b]
        <3> SUFFICES ASSUME NEW a \in 1 .. n, NEW b \in 1 .. n, a <= i - 1, a < b
                     PROVE  t[a] >= t[b]
            OBVIOUS
        <3>1. a # i /\ a # j /\ a < i /\ a < j
            BY <1>0
        <3>2. s[a] >= s[b] /\ s[a] >= s[i] /\ s[a] >= s[j]
            BY <1>0, <1>2, <3>1
        <3>3. QED
            BY <1>0, <2>4, <3>1, <3>2
    <2>7. \A b \in 1 .. n : i < b /\ b <= j => t[i] >= t[b]
        <3> SUFFICES ASSUME NEW b \in 1 .. n, i < b, b <= j PROVE t[i] >= t[b]
            OBVIOUS
        <3>1. CASE b = j
            BY <1>0, <1>1, <1>4, <2>4, <3>1
        <3>2. CASE b # j
            <4>1. b <= j - 1 /\ b # i
                BY <1>0, <3>2
            <4>2. s[i] >= s[b] /\ t[b] = s[b] /\ t[i] = s[j]
                BY <1>2, <2>4, <3>2, <4>1
            <4>3. s[i] \in Nat /\ s[j] \in Nat /\ s[b] \in Nat
                BY <1>0, <1>1
            <4>4. QED
                BY <1>4, <4>2, <4>3
        <3>3. QED
            BY <3>1, <3>2
    <2>8. Ordered(q, i - 1, score) /\ Best(q, i, j, score)
        BY <1>0, <2>3, <2>5, <2>6, <2>7 DEF Ordered, Best
    <2>9. QED
        BY <2>2, <2>8 DEF q
<1>5. QED
    BY <1>3, <1>4

\* What the inner loop builds up.
LEMMA PlacedSteps ==
    ASSUME NEW r \in Seq(Player), NEW i \in 1 .. Len(r), NEW score \in [Player -> Nat]
    PROVE  \E after \in [0 .. Len(r) - i -> [1 .. Len(r) -> Player]] :
               /\ Placed(r, i, score) = after[Len(r) - i]
               /\ after[0] = r
               /\ \A k \in 1 .. Len(r) - i : after[k] = Compared(after[k - 1], i, i + k, score)
<1> DEFINE n == Len(r)
           m == n - i
           V == [1 .. n -> Player]
           next == [k \in 1 .. m |-> [x \in V |-> Compared(x, i, i + k, score)]]
           Body(f) == [k \in 0 .. m |-> IF k = 0 THEN r
                                        ELSE Compared(f[k - 1], i, i + k, score)]
<1>0. n \in Nat /\ m \in Nat /\ i \in 1 .. n /\ r \in V /\ \A k \in 1 .. m : i + k \in 1 .. n
    OBVIOUS
<1>1. \A x \in V, k \in 1 .. m : Compared(x, i, i + k, score) \in V
    <2> HIDE DEF m, n
    <2>1. QED
        BY <1>0 DEF Compared, Swap
<1> HIDE DEF V
<1>2. next \in [1 .. m -> [V -> V]]
    BY <1>1
<1>3. PICK f \in [0 .. m -> V] : f[0] = r /\ \A k \in 1 .. m : f[k] = next[k][f[k - 1]]
    <2>1. \E f : Recurs(f, m, V, r, next)
        <3> HIDE DEF next, m
        <3>1. QED
            BY <1>0, <1>2, Recursion
    <2>2. QED
        BY <2>1 DEF Recurs
<1>4. ASSUME NEW k \in 1 .. m PROVE f[k] = Compared(f[k - 1], i, i + k, score)
    <2>1. k - 1 \in 0 .. m /\ f[k - 1] \in V
        <3> HIDE DEF m
        <3>1. k - 1 \in 0 .. m
            BY <1>0
        <3>2. QED
            BY <3>1
    <2>2. QED
        BY <1>3, <2>1
<1>5. f = Body(f)
    <2>1. ASSUME NEW k \in 0 .. m PROVE f[k] = Body(f)[k]
        <3>1. CASE k = 0
            BY <1>3, <3>1
        <3>2. CASE k # 0
            <4>1. k \in 1 .. m
                BY <1>0, <3>2
            <4>2. QED
                BY <1>4, <3>2, <4>1
        <3>3. QED
            BY <3>1, <3>2
    <2>2. QED
        BY <2>1
<1> DEFINE g == CHOOSE g : g = Body(g)
<1>6. g = Body(g)
    BY <1>5
<1>7. Placed(r, i, score) = g[m]
    BY DEF Placed
<1> HIDE DEF g
<1>8. g[0] = r /\ DOMAIN g = 0 .. m
    BY <1>0, <1>6
<1>9. ASSUME NEW k \in 1 .. m PROVE g[k] = Compared(g[k - 1], i, i + k, score)
    <2>1. k \in 0 .. m /\ k # 0
        BY <1>0
    <2>2. g[k] = Body(g)[k]
        BY <1>6
    <2>3. QED
        BY <2>1, <2>2
<1>10. g \in [0 .. m -> V]
    <2> DEFINE T == {k \in Nat : k <= m => g[k] \in V}
    <2>1. 0 \in T
        BY <1>0, <1>8
    <2>2. ASSUME NEW k \in Nat, k \in T PROVE k + 1 \in T
        <3>1. SUFFICES ASSUME k + 1 <= m PROVE g[k + 1] \in V
            OBVIOUS
        <3>2. g[k] \in V /\ k + 1 \in 1 .. m /\ k + 1 - 1 = k
            BY <1>0, <2>2, <3>1
        <3>3. g[k + 1] = Compared(g[k], i, i + (k + 1), score)
            BY <1>9, <3>2
        <3>4. QED
            BY <1>1, <3>2, <3>3
    <2>3. Nat \subseteq T
        <3> HIDE DEF T
        <3>1. QED
            BY <2>1, <2>2, Induction
    <2>4. \A k \in 0 .. m : g[k] \in V
        BY <1>0, <2>3
    <2>5. QED
        BY <1>6, <2>4
<1>11. QED
    BY <1>7, <1>8, <1>9, <1>10 DEF V

\* The inner loop finds the best of those who are not yet placed.
LEMMA PlacedStep ==
    ASSUME NEW ps \in Seq(Player), NEW score \in [Player -> Nat], NEW r, Permuted(r, ps),
           NEW i \in 1 .. Len(ps), Ordered(r, i - 1, score)
    PROVE  Permuted(Placed(r, i, score), ps) /\ Ordered(Placed(r, i, score), i, score)
<1> DEFINE n == Len(ps)
           m == n - i
<1>0. n \in Nat /\ m \in Nat /\ i \in 1 .. n /\ r \in Seq(Player) /\ Len(r) = n
    BY DEF Permuted
<1>1. PICK after \in [0 .. m -> [1 .. n -> Player]] :
          /\ Placed(r, i, score) = after[m]
          /\ after[0] = r
          /\ \A k \in 1 .. m : after[k] = Compared(after[k - 1], i, i + k, score)
    <2>0. i \in 1 .. Len(r)
        BY <1>0
    <2>1. PICK after \in [0 .. Len(r) - i -> [1 .. Len(r) -> Player]] :
              /\ Placed(r, i, score) = after[Len(r) - i]
              /\ after[0] = r
              /\ \A k \in 1 .. Len(r) - i :
                     after[k] = Compared(after[k - 1], i, i + k, score)
        BY <1>0, <2>0, PlacedSteps
    <2>2. Len(r) = n /\ Len(r) - i = m
        BY <1>0
    <2> HIDE DEF n, m
    <2>3. QED
        BY <2>1, <2>2
<1> DEFINE Good(k) == /\ Permuted(after[k], ps) /\ Ordered(after[k], i - 1, score)
                      /\ Best(after[k], i, i + k, score)
           T == {k \in Nat : k <= m => Good(k)}
<1>2. 0 \in T
    <2>1. Best(r, i, i + 0, score)
        BY <1>0 DEF Best
    <2>2. QED
        BY <1>1, <2>1
<1>3. ASSUME NEW k \in Nat, k \in T PROVE k + 1 \in T
    <2>1. SUFFICES ASSUME k + 1 <= m PROVE Good(k + 1)
        OBVIOUS
    <2>2. /\ Good(k) /\ k + 1 \in 1 .. m /\ k + 1 - 1 = k
          /\ i + (k + 1) \in 1 .. n /\ i < i + (k + 1) /\ i + (k + 1) - 1 = i + k
        BY <1>0, <1>3, <2>1
    <2>3. after[k + 1] = Compared(after[k], i, i + (k + 1), score)
        BY <1>1, <2>2
    <2> HIDE DEF m
    <2> DEFINE j == i + (k + 1)
    <2>4. j \in 1 .. n /\ i < j /\ Best(after[k], i, j - 1, score)
        BY <2>2
    <2> HIDE DEF j
    <2>5. /\ Permuted(Compared(after[k], i, j, score), ps)
          /\ Ordered(Compared(after[k], i, j, score), i - 1, score)
          /\ Best(Compared(after[k], i, j, score), i, j, score)
        BY <1>0, <2>2, <2>4, ComparedStep
    <2>6. QED
        BY <2>3, <2>5 DEF j
<1>4. Good(m)
    <2>1. Nat \subseteq T
        <3> HIDE DEF T
        <3>1. QED
            BY <1>2, <1>3, Induction
    <2>2. m \in Nat
        BY <1>0
    <2> HIDE DEF Good, m
    <2>3. m <= m
        BY <2>2
    <2>4. QED
        BY <2>1, <2>2, <2>3
<1> DEFINE q == after[m]
<1>5. Permuted(q, ps) /\ Ordered(q, i - 1, score) /\ Best(q, i, n, score) /\ Len(q) = n
    <2>1. i + m = n
        BY <1>0
    <2>2. QED
        BY <1>4, <2>1 DEF Permuted
<1> HIDE DEF q
<1>6. Ordered(q, i, score)
    <2> SUFFICES ASSUME NEW a \in 1 .. n, NEW b \in 1 .. n, a <= i, a < b
                 PROVE  score[q[a]] >= score[q[b]]
        BY <1>5 DEF Ordered
    <2>1. CASE a = i
        BY <1>0, <1>5, <2>1 DEF Best
    <2>2. CASE a # i
        <3>1. a <= i - 1
            BY <1>0, <2>2
        <3>2. QED
            BY <1>5, <3>1 DEF Ordered
    <2>3. QED
        BY <2>1, <2>2
<1>7. QED
    BY <1>1, <1>5, <1>6 DEF q

\* What the outer loop builds up.
LEMMA RankSteps ==
    ASSUME NEW ps \in Seq(Player), NEW score \in [Player -> Nat]
    PROVE  \E ranked \in [0 .. Len(ps) -> [1 .. Len(ps) -> Player]] :
               /\ RankPlayers(ps, score) = ranked[Len(ps)]
               /\ ranked[0] = ps
               /\ \A i \in 1 .. Len(ps) : ranked[i] = Placed(ranked[i - 1], i, score)
<1> DEFINE n == Len(ps)
           V == [1 .. n -> Player]
           next == [i \in 1 .. n |-> [x \in V |-> Placed(x, i, score)]]
           Body(f) == [i \in 0 .. n |-> IF i = 0 THEN ps ELSE Placed(f[i - 1], i, score)]
<1>0. n \in Nat /\ ps \in V
    OBVIOUS
<1>1. ASSUME NEW x \in V, NEW i \in 1 .. n PROVE Placed(x, i, score) \in V
    <2>1. x \in Seq(Player) /\ Len(x) = n
        BY <1>0
    <2>2. i \in 1 .. Len(x)
        BY <2>1
    <2>3. PICK after \in [0 .. Len(x) - i -> [1 .. Len(x) -> Player]] :
              Placed(x, i, score) = after[Len(x) - i]
        BY <2>1, <2>2, PlacedSteps
    <2>4. Len(x) - i \in 0 .. Len(x) - i
        BY <1>0, <2>1, <2>2
    <2>5. QED
        BY <2>1, <2>3, <2>4
<1> HIDE DEF V
<1>2. next \in [1 .. n -> [V -> V]]
    BY <1>1
<1>3. PICK f \in [0 .. n -> V] : f[0] = ps /\ \A i \in 1 .. n : f[i] = next[i][f[i - 1]]
    <2>1. \E f : Recurs(f, n, V, ps, next)
        <3> HIDE DEF next, n
        <3>1. QED
            BY <1>0, <1>2, Recursion
    <2>2. QED
        BY <2>1 DEF Recurs
<1>4. ASSUME NEW i \in 1 .. n PROVE f[i] = Placed(f[i - 1], i, score)
    <2>1. i - 1 \in 0 .. n /\ f[i - 1] \in V
        <3> HIDE DEF n
        <3>1. i - 1 \in 0 .. n
            BY <1>0
        <3>2. QED
            BY <3>1
    <2>2. QED
        BY <1>3, <2>1
<1>5. f = Body(f)
    <2>1. ASSUME NEW i \in 0 .. n PROVE f[i] = Body(f)[i]
        <3>1. CASE i = 0
            BY <1>3, <3>1
        <3>2. CASE i # 0
            <4>1. i \in 1 .. n
                BY <1>0, <3>2
            <4>2. QED
                BY <1>4, <3>2, <4>1
        <3>3. QED
            BY <3>1, <3>2
    <2>2. QED
        BY <2>1
<1> DEFINE g == CHOOSE g : g = Body(g)
<1>6. g = Body(g)
    BY <1>5
<1>7. RankPlayers(ps, score) = g[n]
    BY DEF RankPlayers
<1> HIDE DEF g
<1>8. g[0] = ps /\ DOMAIN g = 0 .. n
    BY <1>0, <1>6
<1>9. ASSUME NEW i \in 1 .. n PROVE g[i] = Placed(g[i - 1], i, score)
    <2>1. i \in 0 .. n /\ i # 0
        BY <1>0
    <2>2. g[i] = Body(g)[i]
        BY <1>6
    <2>3. QED
        BY <2>1, <2>2
<1>10. g \in [0 .. n -> V]
    <2> DEFINE T == {i \in Nat : i <= n => g[i] \in V}
    <2>1. 0 \in T
        BY <1>0, <1>8
    <2>2. ASSUME NEW i \in Nat, i \in T PROVE i + 1 \in T
        <3>1. SUFFICES ASSUME i + 1 <= n PROVE g[i + 1] \in V
            OBVIOUS
        <3>2. g[i] \in V /\ i + 1 \in 1 .. n /\ i + 1 - 1 = i
            BY <1>0, <2>2, <3>1
        <3>3. g[i + 1] = Placed(g[i], i + 1, score)
            BY <1>9, <3>2
        <3>4. QED
            BY <1>1, <3>2, <3>3
    <2>3. Nat \subseteq T
        <3> HIDE DEF T
        <3>1. QED
            BY <2>1, <2>2, Induction
    <2>4. \A i \in 0 .. n : g[i] \in V
        BY <1>0, <2>3
    <2>5. QED
        BY <1>6, <2>4
<1>11. QED
    BY <1>7, <1>8, <1>9, <1>10 DEF V

\* The exchanges put all players in the order of their scores.
LEMMA RankPlayersOrders ==
    ASSUME NEW ps \in Seq(Player), IsInjective(ps), NEW score \in [Player -> Nat]
    PROVE  /\ Permuted(RankPlayers(ps, score), ps)
           /\ Ordered(RankPlayers(ps, score), Len(ps), score)
<1> DEFINE n == Len(ps)
<1>0. n \in Nat
    OBVIOUS
<1>1. PICK ranked \in [0 .. n -> [1 .. n -> Player]] :
          /\ RankPlayers(ps, score) = ranked[n]
          /\ ranked[0] = ps
          /\ \A i \in 1 .. n : ranked[i] = Placed(ranked[i - 1], i, score)
    BY RankSteps
<1> DEFINE Good(i) == Permuted(ranked[i], ps) /\ Ordered(ranked[i], i, score)
           T == {i \in Nat : i <= n => Good(i)}
<1>2. 0 \in T
    <2>1. Permuted(ps, ps)
        BY DEF Permuted
    <2>2. Ordered(ps, 0, score)
        BY <1>0 DEF Ordered
    <2>3. QED
        BY <1>1, <2>1, <2>2
<1>3. ASSUME NEW i \in Nat, i \in T PROVE i + 1 \in T
    <2>1. SUFFICES ASSUME i + 1 <= n PROVE Good(i + 1)
        OBVIOUS
    <2>2. Good(i) /\ i + 1 \in 1 .. n /\ i + 1 - 1 = i
        BY <1>0, <1>3, <2>1
    <2>3. ranked[i + 1] = Placed(ranked[i], i + 1, score)
        BY <1>1, <2>2
    <2>4. /\ Permuted(Placed(ranked[i], i + 1, score), ps)
          /\ Ordered(Placed(ranked[i], i + 1, score), i + 1, score)
        <3> DEFINE j == i + 1
        <3>1. j \in 1 .. n /\ Ordered(ranked[i], j - 1, score) /\ Permuted(ranked[i], ps)
            BY <2>2
        <3> HIDE DEF j
        <3>2. /\ Permuted(Placed(ranked[i], j, score), ps)
              /\ Ordered(Placed(ranked[i], j, score), j, score)
            BY <3>1, PlacedStep
        <3>3. QED
            BY <3>2 DEF j
    <2>5. QED
        BY <2>3, <2>4
<1>4. Good(n)
    <2>1. Nat \subseteq T
        <3> HIDE DEF T
        <3>1. QED
            BY <1>2, <1>3, Induction
    <2>2. n \in Nat
        BY <1>0
    <2> HIDE DEF Good, n
    <2>3. n <= n
        BY <2>2
    <2>4. QED
        BY <2>1, <2>2, <2>3
<1>5. QED
    BY <1>1, <1>4

----------------------------------------------------------------------------
(* The winners.                                                            *)

\* w are the winners among ps, when there are n prizes.
Crowned(w, ps, score, n) ==
    LET out == ToSet(ps) \ ToSet(w)
    IN  /\ w # <<>> /\ IsInjective(w) /\ ToSet(w) \subseteq ToSet(ps)
        /\ \A i, j \in DOMAIN w : i < j => score[w[i]] >= score[w[j]]
        /\ out = {} \/ Len(w) = n
        /\ \A p \in out, i \in DOMAIN w : score[p] <= score[w[i]]

\* The first of the ranked players are the winners.
LEMMA FirstAreCrowned ==
    ASSUME NEW ps \in Seq(Player), IsInjective(ps), ps # <<>>, NEW score \in [Player -> Nat],
           NEW n \in Nat, n # 0, NEW r, Permuted(r, ps), Ordered(r, Len(ps), score),
           NEW w, w = SubSeq(r, 1, IF n > Len(r) THEN Len(r) ELSE n)
    PROVE  w \in Seq(Player) /\ Len(w) <= n /\ Crowned(w, ps, score, n)
<1> DEFINE N == Len(ps)
           k == IF n > N THEN N ELSE n
<1>1. /\ r \in Seq(Player) /\ Len(r) = N /\ N \in Nat /\ N # 0 /\ DOMAIN r = 1 .. N
      /\ IsInjective(r) /\ ToSet(r) = ToSet(ps)
      /\ \A i \in 1 .. N : r[i] \in Player
    BY DEF Permuted
<1>2. k \in 1 .. N /\ k <= n /\ (k = N \/ k = n)
    BY <1>1
<1>3. w = SubSeq(r, 1, k)
    BY <1>1
<1> HIDE DEF k, N
<1>4. /\ w \in Seq(Player) /\ Len(w) = k /\ DOMAIN w = 1 .. k
      /\ \A i \in 1 .. k : w[i] = r[i] /\ i \in 1 .. N
    BY <1>1, <1>2, <1>3
<1>5. \A a, b \in 1 .. N : a < b => score[r[a]] >= score[r[b]]
    <2>1. \A a \in 1 .. N : a <= N
        BY <1>1
    <2>2. QED
        BY <1>1, <2>1 DEF Ordered, N
<1>6. w # <<>> /\ IsInjective(w)
    <2>1. Len(w) # 0
        BY <1>1, <1>2, <1>4
    <2>2. \A i, j \in 1 .. k : r[i] = r[j] => i = j
        BY <1>1, <1>4 DEF IsInjective
    <2>3. \A i, j \in 1 .. k : w[i] = w[j] => i = j
        BY <1>4, <2>2
    <2>4. IsInjective(w)
        BY <1>4, <2>3 DEF IsInjective
    <2>5. QED
        BY <2>1, <2>4
<1>7. ToSet(w) \subseteq ToSet(ps)
    <2>1. ToSet(w) = {r[i] : i \in 1 .. k}
        BY <1>4 DEF ToSet
    <2>2. ToSet(r) = {r[i] : i \in 1 .. N}
        BY <1>1 DEF ToSet
    <2>3. QED
        BY <1>1, <1>4, <2>1, <2>2
<1>8. \A i, j \in DOMAIN w : i < j => score[w[i]] >= score[w[j]]
    BY <1>4, <1>5
<1>9. ASSUME NEW p \in ToSet(ps) \ ToSet(w)
      PROVE  \E i \in 1 .. N : p = r[i] /\ k < i
    <2>1. PICK i \in 1 .. N : p = r[i]
        BY <1>1 DEF ToSet
    <2>2. ~(i \in 1 .. k)
        <3>1. SUFFICES ASSUME i \in 1 .. k PROVE FALSE
            OBVIOUS
        <3>2. p = w[i] /\ i \in DOMAIN w
            BY <1>4, <2>1, <3>1
        <3>3. QED
            BY <1>9, <3>2 DEF ToSet
    <2>3. k < i
        BY <1>1, <1>2, <2>2
    <2>4. QED
        BY <2>1, <2>3
<1>10. ToSet(ps) \ ToSet(w) = {} \/ Len(w) = n
    <2>1. CASE k = N
        <3>1. \A i \in 1 .. N : ~(k < i)
            BY <1>1, <2>1
        <3>2. QED
            BY <1>9, <3>1
    <2>2. QED
        BY <1>2, <1>4, <2>1
<1>11. \A p \in ToSet(ps) \ ToSet(w), i \in DOMAIN w : score[p] <= score[w[i]]
    <2> SUFFICES ASSUME NEW p \in ToSet(ps) \ ToSet(w), NEW i \in 1 .. k
                 PROVE  score[p] <= score[w[i]]
        BY <1>4
    <2>1. PICK j \in 1 .. N : p = r[j] /\ k < j
        BY <1>9
    <2>2. i < j /\ i \in 1 .. N
        BY <1>1, <1>2, <2>1
    <2>3. score[r[i]] >= score[r[j]] /\ w[i] = r[i] /\ r[i] \in Player /\ r[j] \in Player
        BY <1>1, <1>4, <1>5, <2>2
    <2>4. score[r[i]] \in Nat /\ score[r[j]] \in Nat
        BY <2>3
    <2>5. QED
        BY <2>1, <2>3, <2>4
<1>12. Crowned(w, ps, score, n)
    BY <1>6, <1>7, <1>8, <1>10, <1>11 DEF Crowned
<1>13. QED
    BY <1>2, <1>4, <1>12

----------------------------------------------------------------------------
(* The invariant of the results.                                           *)

\* The domains of the other variables.
RestTypes ==
    /\ scores \in [Id -> [Player -> Nat]]
    /\ winners \in [Id -> Seq(Player)]
    /\ finalized \in [Id -> BOOLEAN]
    /\ prizesDistributed \in [Id -> BOOLEAN]
    /\ submitters \subseteq Other \cup {Owner}
    /\ balance \in [Token -> Nat]
    /\ funds \in [Token -> [Player -> Nat]]
    /\ now \in 0 .. MaxTime
    /\ paid \in [Id -> Nat]

\* A tournament that exists has passed the requires of createTournament.
Checked == \A id \in Id : Exists(id) => ValidConfig(config[id])

\* A finalized tournament has winners, not more of them than it has prizes.
Decided ==
    \A id \in Id : finalized[id] =>
        /\ Exists(id) /\ Len(winners[id]) <= Len(config[id].distribution)
        /\ Crowned(winners[id], players[id], scores[id], Len(config[id].distribution))

ResultInv == RestTypes /\ Checked /\ Decided

\* What a configuration is made of.
LEMMA ConfigFields ==
    ASSUME NEW c \in Config
    PROVE  /\ c.start \in Nat /\ c.end \in Nat /\ c.token \in Token /\ c.buyIn \in Nat
           /\ c.maxPlayers \in Nat /\ c.distribution \in Seq(Nat)
BY TournamentManagerAssumption

\* The prizes of a finalized tournament are numbers, and its pot is enough for them.
LEMMA PrizesFromPool ==
    ASSUME IInv, ResultInv, NEW id \in Id, finalized[id]
    PROVE  /\ Prizes(id) \in Seq(Nat) /\ DOMAIN Prizes(id) = DOMAIN winners[id]
           /\ Sum(Prizes(id)) \in Nat /\ Sum(Prizes(id)) <= prizePool[id]
<1> DEFINE d == config[id].distribution
           w == winners[id]
           pool == prizePool[id]
           n == Len(w)
           e == [i \in 1 .. n |-> d[i]]
           h == [i \in 1 .. n |-> i]
           prizes == Prizes(id)
<1>1. /\ d \in Seq(Nat) /\ Sum(d) = Scale /\ w \in Seq(Player) /\ n <= Len(d)
      /\ pool \in Nat
    <2>1. Exists(id) /\ config[id] \in Config /\ ValidConfig(config[id])
        BY DEF ResultInv, Decided, Checked, IInv, EntryTypes, Exists
    <2>2. QED
        BY <2>1, ConfigFields DEF ResultInv, RestTypes, Decided, IInv, EntryTypes, ValidConfig
<1>2. Scale \in Nat /\ Scale # 0
    BY TournamentManagerAssumption
<1>3. /\ n \in Nat /\ Len(d) \in Nat /\ DOMAIN w = 1 .. n
      /\ \A i \in 1 .. n : i \in 1 .. Len(d) /\ d[i] \in Nat
    BY <1>1
<1>4. prizes = [i \in 1 .. n |-> (pool * d[i]) \div Scale]
    BY <1>3 DEF Prizes
<1> HIDE DEF d, w, pool, n, prizes
<1>5. ASSUME NEW i \in 1 .. n
      PROVE  /\ (pool * d[i]) \div Scale \in Nat
             /\ Scale * ((pool * d[i]) \div Scale) <= pool * d[i]
    <2>1. PICK x \in Nat : x = pool * d[i]
        BY <1>1, <1>3
    <2>2. x \div Scale \in Nat /\ Scale * (x \div Scale) <= x
        BY <1>2
    <2>3. QED
        BY <2>1, <2>2
<1>6. prizes \in [1 .. n -> Nat]
    BY <1>4, <1>5
<1>7. prizes \in Seq(Nat) /\ Len(prizes) = n /\ prizes \in Seq(Int)
    BY <1>3, <1>6
<1>8. e \in Seq(Int) /\ Len(e) = n /\ \A i \in 1 .. n : e[i] = d[i]
    BY <1>3
<1>9. Sum(e) <= Scale
    <2>1. h \in [1 .. n -> 1 .. Len(d)]
        BY <1>3
    <2>2. \A i \in 1 .. n : h[i] = i
        OBVIOUS
    <2>3. \A i, j \in 1 .. n : i < j => h[i] < h[j]
        BY <2>2
    <2>4. \A i \in 1 .. n : e[i] <= d[h[i]]
        BY <1>3, <1>8, <2>2
    <2> HIDE DEF e, h
    <2>5. Sum(e) <= Sum(d)
        BY <1>1, <1>8, <2>1, <2>3, <2>4, SumSelected
    <2>6. QED
        BY <1>1, <2>5
<1> HIDE DEF e
<1>10. Scale * Sum(prizes) <= pool * Sum(e)
    <2>1. \A i \in 1 .. n : Scale * prizes[i] <= pool * e[i]
        BY <1>4, <1>5, <1>8
    <2>2. Scale \in Int /\ pool \in Int
        BY <1>1, <1>2
    <2>3. QED
        BY <1>7, <1>8, <2>1, <2>2, SumScaled
<1>11. Sum(prizes) \in Nat /\ Sum(e) \in Int
    BY <1>7, <1>8, SumNat, SumInt
<1>12. Scale * Sum(prizes) <= Scale * pool
    <2>1. \A k, x, y \in Int : k >= 0 /\ x <= y => k * x <= k * y
        OBVIOUS
    <2>2. pool * Sum(e) <= pool * Scale
        BY <1>1, <1>2, <1>9, <1>11, <2>1
    <2>3. \A x, y \in Int : x * y = y * x /\ x * y \in Int
        OBVIOUS
    <2>4. /\ pool * Scale = Scale * pool /\ pool * Scale \in Int /\ pool * Sum(e) \in Int
          /\ Scale * Sum(prizes) \in Int
        BY <1>1, <1>2, <1>11, <2>3
    <2>5. QED
        BY <1>10, <2>2, <2>4, Chained
<1>13. Sum(prizes) <= pool
    <2>1. \A k \in Nat, x, y \in Int : k # 0 /\ k * x <= k * y => x <= y
        OBVIOUS
    <2>2. QED
        BY <1>1, <1>2, <1>11, <1>12, <2>1
<1>14. QED
    BY <1>3, <1>4, <1>7, <1>11, <1>13 DEF prizes, w, pool
\* What each winner gets is a number.
LEMMA WonNat ==
    ASSUME NEW prizes \in Seq(Nat), NEW w, NEW p
    PROVE  Sum([i \in DOMAIN prizes |-> IF w[i] = p THEN prizes[i] ELSE 0]) \in Nat
<1> DEFINE won == [i \in DOMAIN prizes |-> IF w[i] = p THEN prizes[i] ELSE 0]
<1>1. DOMAIN prizes = 1 .. Len(prizes) /\ \A i \in 1 .. Len(prizes) : prizes[i] \in Nat
    OBVIOUS
<1>2. won \in [1 .. Len(prizes) -> Nat]
    BY <1>1
<1>3. won \in Seq(Nat)
    BY <1>2
<1>4. QED
    BY <1>3, SumNat

\* What finalizeTournament makes the winners.
LEMMA FinalizeStep ==
    ASSUME IInv, ResultInv, NEW id \in Id, FinalizeTournament(id)
    PROVE  ResultInv'
<1> DEFINE ps == players[id]
           score == scores[id]
           n == Len(config[id].distribution)
           r == RankPlayers(ps, score)
           w == SubSeq(r, 1, IF n > Len(r) THEN Len(r) ELSE n)
<1>1. /\ Exists(id) /\ ps # <<>> /\ ~finalized[id]
      /\ winners' = [winners EXCEPT ![id] = w]
      /\ finalized' = [finalized EXCEPT ![id] = TRUE]
      /\ UNCHANGED <<config, players, prizePool, scores, prizesDistributed, paid, submitters,
                     balance, funds, now>>
    BY DEF FinalizeTournament, entryVars, payVars, moneyVars
<1>2. /\ ps \in Seq(Player) /\ IsInjective(ps) /\ score \in [Player -> Nat]
      /\ DOMAIN winners = Id /\ DOMAIN finalized = Id
    BY <1>1 DEF IInv, EntryTypes, PoolMatchesPlayers, ResultInv, RestTypes
<1>3. n \in Nat /\ n # 0
    <2>1. config[id] \in Config /\ ValidConfig(config[id])
        BY <1>1 DEF ResultInv, Checked, IInv, EntryTypes, Exists
    <2>2. config[id].distribution \in Seq(Nat) /\ config[id].distribution # <<>>
        BY <2>1, ConfigFields DEF ValidConfig
    <2>3. QED
        BY <2>2
<1> HIDE DEF ps, score, n
<1>4. Permuted(r, ps) /\ Ordered(r, Len(ps), score)
    BY <1>2, RankPlayersOrders
<1> HIDE DEF r
<1>5. w \in Seq(Player) /\ Len(w) <= n /\ Crowned(w, ps, score, n)
    BY <1>1, <1>2, <1>3, <1>4, FirstAreCrowned
<1> HIDE DEF w
<1>6. RestTypes'
    BY <1>1, <1>5 DEF ResultInv, RestTypes
<1>7. Checked'
    BY <1>1 DEF ResultInv, Checked, Exists
<1>8. Decided'
    <2> SUFFICES ASSUME NEW other \in Id, finalized'[other]
                 PROVE  /\ Exists(other) /\ Len(winners'[other]) <= Len(config[other].distribution)
                        /\ Crowned(winners'[other], players[other], scores[other],
                                   Len(config[other].distribution))
        BY <1>1 DEF Decided, Exists
    <2>1. CASE other = id
        BY <1>1, <1>2, <1>5, <2>1 DEF ps, score, n
    <2>2. CASE other # id
        <3>1. finalized[other] /\ winners'[other] = winners[other]
            BY <1>1, <1>2, <2>2
        <3>2. QED
            BY <3>1 DEF ResultInv, Decided
    <2>3. QED
        BY <2>1, <2>2
<1>9. QED
    BY <1>6, <1>7, <1>8 DEF ResultInv

\* No other function makes or changes winners.
LEMMA StillDecided ==
    ASSUME IInv, ResultInv, [Next]_vars, RestTypes', finalized' = finalized,
           \A id \in Id : config'[id] = config[id] \/ (~Exists(id) /\ ValidConfig(config'[id]))
    PROVE  ResultInv'
<1>1. Settled
    BY SettledStep
<1>2. Checked'
    BY DEF ResultInv, Checked, Exists
<1>3. Decided'
    <2> SUFFICES ASSUME NEW id \in Id, finalized[id]
                 PROVE  /\ Exists(id)' /\ Len(winners'[id]) <= Len(config'[id].distribution)
                        /\ Crowned(winners'[id], players'[id], scores'[id],
                                   Len(config'[id].distribution))
        BY DEF Decided
    <2>1. /\ Exists(id) /\ Len(winners[id]) <= Len(config[id].distribution)
          /\ Crowned(winners[id], players[id], scores[id], Len(config[id].distribution))
        BY DEF ResultInv, Decided
    <2>2. /\ config'[id] = config[id] /\ winners'[id] = winners[id]
          /\ players'[id] = players[id] /\ scores'[id] = scores[id]
        BY <1>1, <2>1 DEF Settled
    <2>3. QED
        BY <2>1, <2>2 DEF Exists
<1>4. QED
    BY <1>2, <1>3 DEF ResultInv

\* Joining moves a buy-in from the player to the contract.
LEMMA JoinTypes ==
    ASSUME IInv, ResultInv, NEW id \in Id, NEW p \in Player, JoinTournament(id, p)
    PROVE  /\ RestTypes' /\ UNCHANGED <<config, finalized>>
<1> DEFINE c == config[id]
<1>1. /\ c \in Config
      /\ funds' = [funds EXCEPT ![c.token][p] = @ - c.buyIn]
      /\ balance' = [balance EXCEPT ![c.token] = @ + c.buyIn]
      /\ funds[c.token][p] >= c.buyIn
      /\ UNCHANGED <<config, scores, winners, finalized, prizesDistributed, paid, submitters, now>>
    BY DEF JoinTournament, Exists, IInv, EntryTypes, resultVars, payVars
<1> HIDE DEF c
<1>2. c.token \in Token /\ c.buyIn \in Nat
    BY <1>1, ConfigFields
<1>3. funds \in [Token -> [Player -> Nat]] /\ balance \in [Token -> Nat]
    BY DEF ResultInv, RestTypes
<1>4. balance' \in [Token -> Nat]
    BY <1>1, <1>2, <1>3
<1>5. funds' \in [Token -> [Player -> Nat]]
    <2>1. funds[c.token][p] - c.buyIn \in Nat
        BY <1>1, <1>2, <1>3
    <2>2. QED
        BY <1>1, <1>2, <1>3, <2>1
<1>6. QED
    BY <1>1, <1>4, <1>5 DEF ResultInv, RestTypes

\* The contract pays what it has.
LEMMA DistributeTypes ==
    ASSUME IInv, ResultInv, NEW id \in Id, DistributePrizes(id)
    PROVE  /\ RestTypes' /\ UNCHANGED <<config, finalized>>
<1> DEFINE token == config[id].token
           prizes == Prizes(id)
           Won(p) == Sum([i \in DOMAIN prizes |-> IF winners[id][i] = p THEN prizes[i] ELSE 0])
<1>1. /\ Exists(id) /\ finalized[id] /\ balance[token] >= Sum(prizes)
      /\ balance' = [balance EXCEPT ![token] = @ - Sum(prizes)]
      /\ funds' = [funds EXCEPT ![token] = [p \in Player |-> @[p] + Won(p)]]
      /\ prizesDistributed' = [prizesDistributed EXCEPT ![id] = TRUE]
      /\ paid' = [paid EXCEPT ![id] = @ + Sum(prizes)]
      /\ UNCHANGED <<config, scores, winners, finalized, submitters, now>>
    BY DEF DistributePrizes, resultVars
<1>2. prizes \in Seq(Nat) /\ Sum(prizes) \in Nat
    BY <1>1, PrizesFromPool
<1>3. \A p : Won(p) \in Nat
    <2> HIDE DEF prizes
    <2>1. QED
        BY <1>2, WonNat
<1>4. token \in Token
    <2>1. config[id] \in Config
        BY <1>1 DEF Exists, IInv, EntryTypes
    <2>2. QED
        BY <2>1, ConfigFields
<1> HIDE DEF Won, prizes, token
<1>5. /\ funds \in [Token -> [Player -> Nat]] /\ balance \in [Token -> Nat]
      /\ paid \in [Id -> Nat] /\ prizesDistributed \in [Id -> BOOLEAN]
    BY DEF ResultInv, RestTypes
<1>6. balance' \in [Token -> Nat]
    <2>1. balance[token] - Sum(prizes) \in Nat
        BY <1>1, <1>2, <1>4, <1>5
    <2>2. QED
        BY <1>1, <1>4, <1>5, <2>1
<1>7. funds' \in [Token -> [Player -> Nat]]
    <2>1. [p \in Player |-> funds[token][p] + Won(p)] \in [Player -> Nat]
        BY <1>3, <1>4, <1>5
    <2>2. QED
        BY <1>1, <1>4, <1>5, <2>1
<1>8. paid' \in [Id -> Nat] /\ prizesDistributed' \in [Id -> BOOLEAN]
    BY <1>1, <1>2, <1>5
<1>9. QED
    BY <1>1, <1>6, <1>7, <1>8 DEF ResultInv, RestTypes

\* The initial state satisfies ResultInv.
LEMMA InitResultInv == Init => ResultInv
<1> SUFFICES ASSUME Init PROVE ResultInv
    OBVIOUS
<1>1. Funds \in Nat /\ MaxTime \in Nat
    BY TournamentManagerAssumption
<1>2. RestTypes
    <2>1. 0 \in 0 .. MaxTime
        BY <1>1
    <2>2. QED
        BY <1>1, <2>1 DEF Init, RestTypes
<1>3. Checked /\ Decided
    BY DEF Init, Checked, Decided, Exists
<1>4. QED
    BY <1>2, <1>3 DEF ResultInv

\* Every step preserves ResultInv.
LEMMA ResultStep == IInv /\ ResultInv /\ [Next]_vars => ResultInv'
<1> SUFFICES ASSUME IInv, ResultInv, [Next]_vars PROVE ResultInv'
    OBVIOUS
<1>0. RestTypes
    BY DEF ResultInv
<1>1. CASE \E who \in Other, authorized \in BOOLEAN : SetAuthorizedSubmitter(who, authorized)
    <2>1. submitters' \subseteq Other \cup {Owner}
        BY <1>0, <1>1 DEF SetAuthorizedSubmitter, RestTypes
    <2>2. RestTypes' /\ UNCHANGED <<config, finalized>>
        BY <1>0, <1>1, <2>1 DEF SetAuthorizedSubmitter, RestTypes, resultVars, payVars, moneyVars
    <2>3. QED
        BY <2>2, StillDecided
<1>2. CASE \E id \in Id, c \in Config : CreateTournament(id, c)
    <2>1. PICK id \in Id, c \in Config : CreateTournament(id, c)
        BY <1>2
    <2>2. /\ ~Exists(id) /\ ValidConfig(c) /\ config' = [config EXCEPT ![id] = c]
          /\ DOMAIN config = Id
        BY <2>1 DEF CreateTournament, IInv, EntryTypes
    <2>3. RestTypes' /\ finalized' = finalized
        BY <1>0, <2>1 DEF CreateTournament, RestTypes, resultVars, payVars, moneyVars
    <2>4. QED
        BY <2>2, <2>3, StillDecided
<1>3. CASE \E id \in Id, p \in Player : JoinTournament(id, p)
    BY <1>3, JoinTypes, StillDecided
<1>4. CASE \E id \in Id, p \in Player, score \in Score : RecordScore(id, p, score)
    <2>1. Score \subseteq Nat
        BY TournamentManagerAssumption
    <2>2. scores' \in [Id -> [Player -> Nat]]
        BY <1>0, <1>4, <2>1 DEF RecordScore, RestTypes
    <2>3. RestTypes' /\ UNCHANGED <<config, finalized>>
        BY <1>0, <1>4, <2>2 DEF RecordScore, RestTypes, resultVars, payVars, moneyVars
    <2>4. QED
        BY <2>3, StillDecided
<1>5. CASE \E id \in Id : FinalizeTournament(id)
    BY <1>5, FinalizeStep
<1>6. CASE \E id \in Id : DistributePrizes(id)
    BY <1>6, DistributeTypes, StillDecided
<1>7. CASE TimePasses
    <2>1. MaxTime \in Nat
        BY TournamentManagerAssumption
    <2>2. now' \in 0 .. MaxTime
        BY <1>0, <1>7, <2>1 DEF TimePasses, RestTypes
    <2>3. RestTypes' /\ UNCHANGED <<config, finalized>>
        BY <1>0, <1>7, <2>2 DEF TimePasses, RestTypes, resultVars, payVars, moneyVars
    <2>4. QED
        BY <2>3, StillDecided
<1>8. CASE UNCHANGED vars
    <2>1. RestTypes' /\ UNCHANGED <<config, finalized>>
        BY <1>0, <1>8 DEF vars, RestTypes, resultVars, payVars, moneyVars
    <2>2. QED
        BY <2>1, StillDecided
<1>9. QED
    BY <1>1, <1>2, <1>3, <1>4, <1>5, <1>6, <1>7, <1>8
       DEF Next, SubmitScore, SubmitScoreWithSignature
----------------------------------------------------------------------------
(* The invariant of the money.                                             *)

\* What f says of each tournament, added up.
Total(f) == Sum([i \in DOMAIN Ids |-> f[Ids[i]]])
Owing(t) == [id \in Id |-> Owed(t, id)]

MoneyInv ==
    /\ \A id \in Id : ~prizesDistributed[id] => paid[id] = 0
    /\ PaidWithinPool
    /\ \A t \in Token : balance[t] = Total(Owing(t))

\* Ids has every tournament once.
LEMMA IdsOnce ==
    /\ Ids \in Seq(Id) /\ IsInjective(Ids)
    /\ \A id \in Id : \E k \in DOMAIN Ids : Ids[k] = id
<1> DEFINE n == Cardinality(Id)
<1>1. IsFiniteSet(Id) /\ n \in Nat
    BY TournamentManagerAssumption, FS_CardinalityType
<1>2. PICK f \in Bijection(1 .. n, Id) : TRUE
    BY <1>1, TournamentManagerAssumption, FS_CardinalityType DEF ExistsBijection
<1>3. f \in [1 .. n -> Id] /\ IsInjective(f)
    BY <1>2 DEF Bijection, Injection, IsInjective
<1>4. Ids \in [1 .. n -> Id] /\ IsInjective(Ids)
    BY <1>3 DEF Ids, SetToSeq
<1>5. Ids \in Injection(1 .. n, Id)
    BY <1>4 DEF Injection, IsInjective
<1>6. IsFiniteSet(1 .. n) /\ Cardinality(1 .. n) = n
    BY <1>1, FS_Interval
<1>7. Ids \in Surjection(1 .. n, Id)
    BY <1>1, <1>5, <1>6, FS_Injection
<1>8. \A id \in Id : \E k \in 1 .. n : Ids[k] = id
    BY <1>7 DEF Surjection
<1>9. QED
    BY <1>1, <1>4, <1>8

\* A total when one tournament's amount changes.
LEMMA TotalChanged ==
    ASSUME NEW f \in [Id -> Int], NEW g \in [Id -> Int], NEW id \in Id,
           \A other \in Id : other # id => g[other] = f[other]
    PROVE  Total(g) = Total(f) + g[id] - f[id] /\ Total(f) \in Int
<1> DEFINE a == [i \in DOMAIN Ids |-> f[Ids[i]]]
           b == [i \in DOMAIN Ids |-> g[Ids[i]]]
<1>1. /\ Ids \in Seq(Id) /\ DOMAIN Ids = 1 .. Len(Ids) /\ Len(Ids) \in Nat
      /\ \A i \in 1 .. Len(Ids) : Ids[i] \in Id
    BY IdsOnce
<1>2. a \in [1 .. Len(Ids) -> Int] /\ b \in [1 .. Len(Ids) -> Int]
    BY <1>1
<1>3. a \in Seq(Int) /\ b \in Seq(Int) /\ Len(a) = Len(Ids) /\ Len(b) = Len(Ids)
    BY <1>1, <1>2
<1>4. PICK k \in 1 .. Len(Ids) : Ids[k] = id
    BY <1>1, IdsOnce
<1>5. \A i \in 1 .. Len(Ids) : i # k => b[i] = a[i]
    <2> SUFFICES ASSUME NEW i \in 1 .. Len(Ids), i # k PROVE b[i] = a[i]
        OBVIOUS
    <2>1. Ids[i] # id
        BY <1>1, <1>4, IdsOnce DEF IsInjective
    <2>2. QED
        BY <1>1, <2>1
<1>6. a[k] = f[id] /\ b[k] = g[id]
    BY <1>1, <1>4
<1>7. Total(f) = Sum(a) /\ Total(g) = Sum(b)
    BY DEF Total
<1> HIDE DEF a, b
<1>8. k \in 1 .. Len(a) /\ Len(a) = Len(b) /\ \A i \in 1 .. Len(a) : i # k => b[i] = a[i]
    BY <1>3, <1>4, <1>5
<1>9. Sum(b) = Sum(a) + b[k] - a[k] /\ Sum(a) \in Int
    BY <1>3, <1>8, SumChanged, SumInt
<1>10. QED
    BY <1>6, <1>7, <1>9

\* Nobody is owed anything at first.
LEMMA TotalZero == Total([id \in Id |-> 0]) = 0
<1> DEFINE f == [id \in Id |-> 0]
           a == [i \in DOMAIN Ids |-> f[Ids[i]]]
<1>1. /\ Ids \in Seq(Id) /\ DOMAIN Ids = 1 .. Len(Ids) /\ Len(Ids) \in Nat
      /\ \A i \in 1 .. Len(Ids) : Ids[i] \in Id
    BY IdsOnce
<1>2. a \in [1 .. Len(Ids) -> Nat] /\ \A i \in 1 .. Len(Ids) : a[i] = 0
    BY <1>1
<1>3. a \in Seq(Nat) /\ a \in Seq(Int) /\ Len(a) = Len(Ids)
    BY <1>1, <1>2
<1> HIDE DEF a
<1>4. Sum(a) \in Nat
    BY <1>3, SumNat
<1>5. ASSUME NEW z \in Int, NEW e \in Int, z = 0, e = 1 PROVE e * Sum(a) <= z * Sum(a)
    <2>1. \A i \in 1 .. Len(a) : e * a[i] <= z * a[i]
        <3>1. \A i \in 1 .. Len(a) : a[i] = 0
            BY <1>2, <1>3
        <3>2. e * 0 <= z * 0
            BY <1>5
        <3>3. QED
            BY <3>1, <3>2
    <2>2. QED
        BY <1>3, <2>1, SumScaled
<1>6. Sum(a) = 0
    BY <1>4, <1>5
<1>7. QED
    BY <1>6 DEF Total, a

\* The initial state satisfies MoneyInv.
LEMMA InitMoneyInv == Init => MoneyInv
<1> SUFFICES ASSUME Init PROVE MoneyInv
    OBVIOUS
<1>1. \A t \in Token : Owing(t) = [id \in Id |-> 0]
    BY DEF Init, Owing, Owed, Exists
<1>2. QED
    BY <1>1, TotalZero DEF Init, MoneyInv, PaidWithinPool

\* What is owed to a tournament's winners, in the token t.
LEMMA OwedInt ==
    ASSUME IInv, ResultInv, NEW t
    PROVE  Owing(t) \in [Id -> Int]
BY DEF IInv, EntryTypes, ResultInv, RestTypes, Owing, Owed

\* When a tournament that exists takes in or pays out an amount, the balance of its token
\* goes with it.
LEMMA BalanceStep ==
    ASSUME IInv, ResultInv, MoneyInv, IInv', ResultInv', config' = config,
           NEW id \in Id, Exists(id), NEW d \in Int,
           prizePool'[id] - paid'[id] = prizePool[id] - paid[id] + d,
           \A other \in Id : other # id =>
               prizePool'[other] = prizePool[other] /\ paid'[other] = paid[other],
           balance' = [balance EXCEPT ![config[id].token] = balance[config[id].token] + d]
    PROVE  \A t \in Token : balance'[t] = Total(Owing(t)')
<1> SUFFICES ASSUME NEW t \in Token PROVE balance'[t] = Total(Owing(t)')
    OBVIOUS
<1> DEFINE f == Owing(t)
           g == Owing(t)'
<1>1. f \in [Id -> Int] /\ balance[t] = Total(f) /\ balance \in [Token -> Nat]
    BY OwedInt DEF MoneyInv, ResultInv, RestTypes
<1>2. g \in [Id -> Int]
    <2>1. prizePool' \in [Id -> Nat] /\ paid' \in [Id -> Nat]
        BY DEF IInv, EntryTypes, ResultInv, RestTypes
    <2>2. \A other \in Id : Owed(t, other)' \in Int
        BY <2>1 DEF Owed
    <2>3. QED
        BY <2>2 DEF Owing
<1>3. ASSUME NEW other \in Id, other # id PROVE g[other] = f[other]
    BY <1>3 DEF Owing, Owed, Exists
<1>4. g[id] = f[id] + (IF config[id].token = t THEN d ELSE 0)
    <2>1. prizePool[id] - paid[id] \in Int
        BY DEF IInv, EntryTypes, ResultInv, RestTypes
    <2>2. CASE config[id].token = t
        <3>1. f[id] = prizePool[id] - paid[id] /\ g[id] = prizePool'[id] - paid'[id]
            BY <2>2 DEF Owing, Owed, Exists
        <3>2. QED
            BY <2>2, <3>1
    <2>3. CASE config[id].token # t
        <3>1. f[id] = 0 /\ g[id] = 0
            BY <2>3 DEF Owing, Owed, Exists
        <3>2. QED
            BY <2>3, <3>1
    <2>4. QED
        BY <2>2, <2>3
<1>5. balance'[t] = balance[t] + (IF config[id].token = t THEN d ELSE 0)
    BY <1>1
<1> HIDE DEF f, g
<1>6. Total(g) = Total(f) + g[id] - f[id] /\ Total(f) \in Int
    BY <1>1, <1>2, <1>3, TotalChanged
<1>7. Total(g) = Total(f) + (IF config[id].token = t THEN d ELSE 0)
    <2>1. f[id] \in Int
        BY <1>1
    <2>2. CASE config[id].token = t
        BY <1>4, <1>6, <2>1, <2>2
    <2>3. CASE config[id].token # t
        BY <1>4, <1>6, <2>1, <2>3
    <2>4. QED
        BY <2>2, <2>3
<1>8. QED
    BY <1>1, <1>5, <1>7 DEF g

\* Joining adds the buy-in to the pot and to the balance.
LEMMA JoinMoney ==
    ASSUME IInv, ResultInv, MoneyInv, IInv', ResultInv',
           NEW id \in Id, NEW p \in Player, JoinTournament(id, p)
    PROVE  MoneyInv'
<1> DEFINE c == config[id]
<1>1. /\ Exists(id) /\ c \in Config
      /\ prizePool' = [prizePool EXCEPT ![id] = @ + c.buyIn]
      /\ balance' = [balance EXCEPT ![c.token] = @ + c.buyIn]
      /\ UNCHANGED <<config, prizesDistributed, paid>>
    BY DEF JoinTournament, Exists, IInv, EntryTypes, payVars
<1>2. c.buyIn \in Nat
    BY <1>1, ConfigFields
<1>3. prizePool \in [Id -> Nat] /\ paid \in [Id -> Nat]
    BY DEF IInv, EntryTypes, ResultInv, RestTypes
<1>4. /\ prizePool'[id] = prizePool[id] + c.buyIn
      /\ \A other \in Id : other # id => prizePool'[other] = prizePool[other]
    BY <1>1, <1>3
<1>5. prizePool'[id] - paid'[id] = prizePool[id] - paid[id] + c.buyIn
    BY <1>1, <1>2, <1>3, <1>4
<1>6. \A t \in Token : balance'[t] = Total(Owing(t)')
    <2>1. c.buyIn \in Int /\ balance' = [balance EXCEPT ![c.token] = balance[c.token] + c.buyIn]
        BY <1>1, <1>2
    <2>2. \A other \in Id : other # id =>
              prizePool'[other] = prizePool[other] /\ paid'[other] = paid[other]
        BY <1>1, <1>4
    <2>3. config' = config /\ Exists(id)
        BY <1>1
    <2>4. QED
        BY <1>5, <2>1, <2>2, <2>3, BalanceStep
<1>7. PaidWithinPool'
    <2> SUFFICES ASSUME NEW other \in Id PROVE paid'[other] <= prizePool'[other]
        BY DEF PaidWithinPool
    <2>1. paid[other] <= prizePool[other]
        BY DEF MoneyInv, PaidWithinPool
    <2>2. CASE other = id
        BY <1>1, <1>2, <1>3, <1>4, <2>1, <2>2
    <2>3. CASE other # id
        BY <1>1, <1>4, <2>1, <2>3
    <2>4. QED
        BY <2>2, <2>3
<1>8. QED
    BY <1>1, <1>6, <1>7 DEF MoneyInv

\* The prizes leave the pot and the balance, once.
LEMMA DistributeMoney ==
    ASSUME IInv, ResultInv, MoneyInv, IInv', ResultInv',
           NEW id \in Id, DistributePrizes(id)
    PROVE  MoneyInv'
<1> DEFINE token == config[id].token
           s == Sum(Prizes(id))
<1>1. /\ Exists(id) /\ finalized[id] /\ ~prizesDistributed[id]
      /\ balance' = [balance EXCEPT ![token] = @ - s]
      /\ prizesDistributed' = [prizesDistributed EXCEPT ![id] = TRUE]
      /\ paid' = [paid EXCEPT ![id] = @ + s]
      /\ UNCHANGED <<config, prizePool>>
    BY DEF DistributePrizes, entryVars
<1>2. s \in Nat /\ s <= prizePool[id]
    BY <1>1, PrizesFromPool
<1> HIDE DEF s
<1>3. /\ prizePool \in [Id -> Nat] /\ paid \in [Id -> Nat] /\ balance \in [Token -> Nat]
      /\ prizesDistributed \in [Id -> BOOLEAN] /\ token \in Token
    <2>1. config[id] \in Config
        BY <1>1 DEF Exists, IInv, EntryTypes
    <2>2. QED
        BY <2>1, ConfigFields DEF IInv, EntryTypes, ResultInv, RestTypes
<1>4. paid[id] = 0 /\ paid'[id] = s /\ \A other \in Id : other # id => paid'[other] = paid[other]
    BY <1>1, <1>2, <1>3 DEF MoneyInv
<1>5. prizePool'[id] - paid'[id] = prizePool[id] - paid[id] + (0 - s)
    BY <1>1, <1>2, <1>3, <1>4
<1>6. balance' = [balance EXCEPT ![token] = balance[token] + (0 - s)]
    <2>1. balance[token] - s = balance[token] + (0 - s)
        BY <1>2, <1>3
    <2>2. QED
        BY <1>1, <2>1
<1>7. \A t \in Token : balance'[t] = Total(Owing(t)')
    <2>1. 0 - s \in Int
        BY <1>2
    <2>2. QED
        BY <1>1, <1>4, <1>5, <1>6, <2>1, BalanceStep
<1>8. PaidWithinPool'
    <2> SUFFICES ASSUME NEW other \in Id PROVE paid'[other] <= prizePool'[other]
        BY DEF PaidWithinPool
    <2>1. CASE other = id
        BY <1>1, <1>2, <1>4, <2>1
    <2>2. CASE other # id
        BY <1>1, <1>4, <2>2 DEF MoneyInv, PaidWithinPool
    <2>3. QED
        BY <2>1, <2>2
<1>9. \A other \in Id : ~prizesDistributed'[other] => paid'[other] = 0
    BY <1>1, <1>3, <1>4 DEF MoneyInv
<1>10. QED
    BY <1>7, <1>8, <1>9 DEF MoneyInv

\* No other function moves money; a new tournament owes nothing.
LEMMA StillMoney ==
    ASSUME MoneyInv, UNCHANGED <<prizePool, paid, prizesDistributed, balance>>,
           \/ config' = config
           \/ \E id \in Id : /\ ~Exists(id) /\ prizePool[id] = 0 /\ paid[id] = 0
                             /\ \E c : config' = [config EXCEPT ![id] = c]
    PROVE  MoneyInv'
<1>1. \A t \in Token : Owing(t)' = Owing(t)
    <2>1. CASE config' = config
        BY <2>1 DEF Owing, Owed, Exists
    <2>2. CASE config' # config
        <3>1. PICK id \in Id : /\ ~Exists(id) /\ prizePool[id] = 0 /\ paid[id] = 0
                               /\ \E c : config' = [config EXCEPT ![id] = c]
            BY <2>2
        <3>2. ASSUME NEW t \in Token, NEW other \in Id PROVE Owed(t, other)' = Owed(t, other)
            <4>1. CASE other = id
                BY <3>1, <4>1 DEF Owed, Exists
            <4>2. CASE other # id
                BY <3>1, <4>2 DEF Owed, Exists
            <4>3. QED
                BY <4>1, <4>2
        <3>3. QED
            BY <3>2 DEF Owing
    <2>3. QED
        BY <2>1, <2>2
<1>2. QED
    BY <1>1 DEF MoneyInv, PaidWithinPool

\* Every step preserves MoneyInv.
LEMMA MoneyStep == IInv /\ ResultInv /\ MoneyInv /\ [Next]_vars => MoneyInv'
<1> SUFFICES ASSUME IInv, ResultInv, MoneyInv, [Next]_vars PROVE MoneyInv'
    OBVIOUS
<1>0. IInv' /\ ResultInv'
    BY IInvStep, ResultStep
<1>1. CASE \E who \in Other, authorized \in BOOLEAN : SetAuthorizedSubmitter(who, authorized)
    BY <1>1, StillMoney DEF SetAuthorizedSubmitter, entryVars, payVars, moneyVars
<1>2. CASE \E id \in Id, c \in Config : CreateTournament(id, c)
    <2>1. PICK id \in Id, c \in Config : CreateTournament(id, c)
        BY <1>2
    <2>2. /\ ~Exists(id) /\ config' = [config EXCEPT ![id] = c]
          /\ UNCHANGED <<prizePool, paid, prizesDistributed, balance>>
        BY <2>1 DEF CreateTournament, entryVars, payVars, moneyVars
    <2>3. prizePool[id] = 0 /\ paid[id] = 0
        <3>1. prizePool[id] = 0 /\ paid[id] <= prizePool[id] /\ paid[id] \in Nat
            BY <2>2 DEF IInv, EmptyBefore, MoneyInv, PaidWithinPool, ResultInv, RestTypes
        <3>2. QED
            BY <3>1
    <2>4. QED
        BY <2>2, <2>3, StillMoney
<1>3. CASE \E id \in Id, p \in Player : JoinTournament(id, p)
    BY <1>0, <1>3, JoinMoney
<1>4. CASE \E id \in Id, p \in Player, score \in Score : RecordScore(id, p, score)
    BY <1>4, StillMoney DEF RecordScore, entryVars, payVars, moneyVars
<1>5. CASE \E id \in Id : FinalizeTournament(id)
    BY <1>5, StillMoney DEF FinalizeTournament, entryVars, payVars, moneyVars
<1>6. CASE \E id \in Id : DistributePrizes(id)
    BY <1>0, <1>6, DistributeMoney
<1>7. CASE TimePasses
    BY <1>7, StillMoney DEF TimePasses, entryVars, payVars, moneyVars
<1>8. CASE UNCHANGED vars
    BY <1>8, StillMoney DEF vars, entryVars, payVars, moneyVars
<1>9. QED
    BY <1>1, <1>2, <1>3, <1>4, <1>5, <1>6, <1>7, <1>8
       DEF Next, SubmitScore, SubmitScoreWithSignature

----------------------------------------------------------------------------
(* What follows.                                                           *)

\* The entries, the results and the money are in order together.
THEOREM ContractInvariance == Spec => [](IInv /\ ResultInv /\ MoneyInv)
<1>1. Init => IInv /\ ResultInv /\ MoneyInv
    BY InitIInv, InitResultInv, InitMoneyInv
<1>2. IInv /\ ResultInv /\ MoneyInv /\ [Next]_vars => (IInv /\ ResultInv /\ MoneyInv)'
    BY IInvStep, ResultStep, MoneyStep
<1>3. QED
    BY <1>1, <1>2, PTL DEF Spec

\* Every variable stays in its domain: no transfer makes a balance negative, and what
\* _rankPlayers returns are players.
THEOREM TypeCorrect == Spec => []TypeOK
<1>1. IInv /\ ResultInv => TypeOK
    BY DEF IInv, EntryTypes, ResultInv, RestTypes, TypeOK
<1>2. QED
    BY <1>1, ContractInvariance, PTL

\* The exchange sort of _rankPlayers makes the best players the winners, ties and
\* tournaments with few players included, and so they remain until the prizes are paid.
THEOREM WinnersAreBest == Spec => []WinnersRanked
<1>1. IInv /\ ResultInv => WinnersRanked
    BY Zenon DEF ResultInv, Decided, Crowned, WinnersRanked
<1>2. QED
    BY <1>1, ContractInvariance, PTL

\* No tournament pays more than its own pot: the shares add up to the scale, each is
\* rounded down, and distributePrizes pays them once.
THEOREM PaysFromPool == Spec => []PaidWithinPool
<1>1. MoneyInv => PaidWithinPool
    BY DEF MoneyInv
<1>2. QED
    BY <1>1, ContractInvariance, PTL

\* The balance of a token is what all its tournaments have taken in and not paid, so none
\* is paid with the money of another.
THEOREM SolventAlways == Spec => []Solvent
<1>1. IInv /\ ResultInv /\ MoneyInv => Solvent
    <2> SUFFICES ASSUME IInv, ResultInv, MoneyInv, NEW t \in Token
                 PROVE  balance[t] >= Sum([i \in DOMAIN Ids |-> Owed(t, Ids[i])])
        BY DEF Solvent
    <2>1. \A i \in DOMAIN Ids : Ids[i] \in Id
        BY IdsOnce
    <2>2. [i \in DOMAIN Ids |-> Owing(t)[Ids[i]]] = [i \in DOMAIN Ids |-> Owed(t, Ids[i])]
        BY <2>1 DEF Owing
    <2>3. balance[t] = Sum([i \in DOMAIN Ids |-> Owed(t, Ids[i])]) /\ balance[t] \in Nat
        BY <2>2 DEF MoneyInv, Total, ResultInv, RestTypes
    <2>4. QED
        BY <2>3
<1>2. QED
    BY <1>1, ContractInvariance, PTL
================================================================================
