-------------------------- MODULE TournamentManager --------------------------
(***************************************************************************)
(* contracts/TournamentManager.sol: tournaments whose buy-ins, in one      *)
(* ERC-20 token or another, are all kept in the contract's own balance.    *)
(*                                                                         *)
(* A transaction is atomic and a require that fails undoes it, so every    *)
(* external function is one action whose guard is the conjunction of its   *)
(* requires.  Tokens move exactly the amount asked for (an ordinary        *)
(* ERC-20; the contract is not written for tokens that keep a fee).        *)
(***************************************************************************)
EXTENDS Integers, Sequences, FiniteSets, SequencesExt, Rows

CONSTANTS
    Id,        \* bytes32 tournament ids
    Player,    \* addresses that may join
    Other,     \* addresses that may be made submitters
    Owner,     \* owner()
    Token,     \* ERC-20 tokens
    Config,    \* arguments createTournament is called with
    NoConfig,  \* a tournament that does not exist
    Scale,     \* PRIZE_DISTRIBUTION_SCALE
    Score,     \* scores submitted
    Funds,     \* bound: what each player has of each token at the beginning
    MaxTime    \* bound: the last block.timestamp

ASSUME TournamentManagerAssumption ==
    /\ IsFiniteSet(Id)
    /\ Config \subseteq [start : Nat, end : Nat, token : Token, buyIn : Nat,
                         maxPlayers : Nat, distribution : Seq(Nat)]
    /\ NoConfig \notin Config
    /\ Scale \in Nat \ {0} /\ Score \subseteq Nat /\ Funds \in Nat /\ MaxTime \in Nat

VARIABLES
    config,       \* what each tournament was created with
    players, scores, winners, prizePool, finalized, prizesDistributed,
    submitters,   \* authorizedSubmitters
    balance,      \* the contract's balance of each token
    funds,        \* and the players'
    now,          \* block.timestamp
    \* history, read by no guard
    paid          \* what has been paid out for each tournament

entryVars  == <<players, prizePool>>
resultVars == <<winners, finalized>>
payVars    == <<prizesDistributed, paid>>
moneyVars  == <<balance, funds>>
vars == <<config, entryVars, scores, resultVars, payVars, submitters, moneyVars, now>>

Exists(id) == config[id] # NoConfig
Registered(id, p) == \E i \in DOMAIN players[id] : players[id][i] = p

Init ==
    /\ config = [id \in Id |-> NoConfig]
    /\ players = [id \in Id |-> <<>>]
    /\ scores = [id \in Id |-> [p \in Player |-> 0]]
    /\ winners = [id \in Id |-> <<>>]
    /\ prizePool = [id \in Id |-> 0]
    /\ finalized = [id \in Id |-> FALSE]
    /\ prizesDistributed = [id \in Id |-> FALSE]
    /\ submitters = {Owner}
    /\ balance = [t \in Token |-> 0]
    /\ funds = [t \in Token |-> [p \in Player |-> Funds]]
    /\ now = 0
    /\ paid = [id \in Id |-> 0]

----------------------------------------------------------------------------
(* Set-up.                                                                 *)

SetAuthorizedSubmitter(who, authorized) ==
    /\ submitters' = IF authorized THEN submitters \cup {who} ELSE submitters \ {who}
    /\ UNCHANGED <<config, entryVars, scores, resultVars, payVars, moneyVars, now>>

\* The requires of createTournament about its arguments.
ValidConfig(c) ==
    /\ c.buyIn > 0 /\ c.maxPlayers > 0
    /\ c.start < c.end
    /\ c.distribution # <<>>
    /\ Sum(c.distribution) = Scale

CreateTournament(id, c) ==
    /\ ~Exists(id)
    /\ ValidConfig(c)
    /\ config' = [config EXCEPT ![id] = c]
    /\ UNCHANGED <<entryVars, scores, resultVars, payVars, submitters, moneyVars, now>>

----------------------------------------------------------------------------
(* Playing.                                                                *)

\* Fault: a player who comes back is let in again, free of charge.
JoinTournament_Again(id, p) ==
    LET c == config[id] IN
    /\ Exists(id)
    /\ now < c.start
    /\ ~finalized[id] /\ ~prizesDistributed[id]
    /\ Len(players[id]) < c.maxPlayers
    /\ funds[c.token][p] >= c.buyIn
    /\ funds' = IF Registered(id, p) THEN funds ELSE [funds EXCEPT ![c.token][p] = @ - c.buyIn]
    /\ balance' = IF Registered(id, p) THEN balance ELSE [balance EXCEPT ![c.token] = @ + c.buyIn]
    /\ prizePool' = [prizePool EXCEPT ![id] = @ + (IF Registered(id, p) THEN 0 ELSE c.buyIn)]
    /\ players' = [players EXCEPT ![id] = Append(@, p)]
    /\ UNCHANGED <<config, scores, resultVars, payVars, submitters, now>>

\* Fault: transferFrom in place of safeTransferFrom, its result not looked at.
JoinTournament_UncheckedTransfer(id, p) ==
    LET c == config[id]
        Moved == IF funds[c.token][p] >= c.buyIn THEN c.buyIn ELSE 0
    IN  /\ Exists(id)
        /\ now < c.start
        /\ ~finalized[id] /\ ~prizesDistributed[id]
        /\ ~Registered(id, p)
        /\ Len(players[id]) < c.maxPlayers
        /\ funds' = [funds EXCEPT ![c.token][p] = @ - Moved]
        /\ balance' = [balance EXCEPT ![c.token] = @ + Moved]
        /\ prizePool' = [prizePool EXCEPT ![id] = @ + c.buyIn]
        /\ players' = [players EXCEPT ![id] = Append(@, p)]
        /\ UNCHANGED <<config, scores, resultVars, payVars, submitters, now>>

\* joinTournament, sent by p.
JoinTournament(id, p) ==
    LET c == config[id] IN
    /\ Exists(id)
    /\ now < c.start
    /\ ~finalized[id] /\ ~prizesDistributed[id]
    /\ ~Registered(id, p)
    /\ Len(players[id]) < c.maxPlayers
    /\ funds[c.token][p] >= c.buyIn
    /\ funds' = [funds EXCEPT ![c.token][p] = @ - c.buyIn]
    /\ balance' = [balance EXCEPT ![c.token] = @ + c.buyIn]
    /\ prizePool' = [prizePool EXCEPT ![id] = @ + c.buyIn]
    /\ players' = [players EXCEPT ![id] = Append(@, p)]
    /\ UNCHANGED <<config, scores, resultVars, payVars, submitters, now>>

\* Fault: a score may still be recorded once the winners are known.
RecordScore_AfterFinal(id, p, score) ==
    /\ Exists(id)
    /\ now > config[id].end
    /\ Registered(id, p)
    /\ scores' = [scores EXCEPT ![id][p] = score]
    /\ UNCHANGED <<config, entryVars, resultVars, payVars, submitters, moneyVars, now>>

\* _recordScore: the last score submitted counts.
RecordScore(id, p, score) ==
    /\ Exists(id)
    /\ now > config[id].end
    /\ ~finalized[id]
    /\ Registered(id, p)
    /\ scores' = [scores EXCEPT ![id][p] = score]
    /\ UNCHANGED <<config, entryVars, resultVars, payVars, submitters, moneyVars, now>>

SubmitScore(caller, id, p, score) ==
    /\ caller \in submitters \cup {Owner}
    /\ RecordScore(id, p, score)

\* Anyone may bring a score, any number of times, if `signer' is who signed it for
\* this contract, tournament and player: ECDSA.recover has to give the player.
SubmitScoreWithSignature(signer, id, p, score) ==
    /\ signer = p
    /\ RecordScore(id, p, score)

----------------------------------------------------------------------------
(* The end.                                                                *)

Swap(s, i, j) == [s EXCEPT ![i] = s[j], ![j] = s[i]]

\* Fault: the inner loop compares neighbours only.
RankPlayers_Neighbours(ps, score) ==
    LET Compare(ranked, i) ==
            IF i < Len(ps) /\ score[ranked[i + 1]] > score[ranked[i]]
            THEN Swap(ranked, i, i + 1) ELSE ranked
    IN  FoldLeft(Compare, ps, [i \in DOMAIN ps |-> i])

\* Places i and j are exchanged when the player at j has the higher score.
Compared(ranked, i, j, score) ==
    IF score[ranked[j]] > score[ranked[i]] THEN Swap(ranked, i, j) ELSE ranked

\* The inner loop: place i against every later one.
Placed(ranked, i, score) ==
    LET after[k \in 0 .. Len(ranked) - i] ==
            IF k = 0 THEN ranked ELSE Compared(after[k - 1], i, i + k, score)
    IN  after[Len(ranked) - i]

\* _rankPlayers, place by place.
RankPlayers(ps, score) ==
    LET ranked[i \in 0 .. Len(ps)] == IF i = 0 THEN ps ELSE Placed(ranked[i - 1], i, score)
    IN  ranked[Len(ps)]

\* Fault: an array as long as the distribution, its last entries address(0).
FinalizeTournament_ZeroAddress(id) ==
    LET ranked == RankPlayers(players[id], scores[id])
    IN  /\ Exists(id)
        /\ now > config[id].end
        /\ ~finalized[id]
        /\ players[id] # <<>>
        /\ winners' = [winners EXCEPT
               ![id] = [i \in DOMAIN config[id].distribution |->
                            IF i \in DOMAIN ranked THEN ranked[i] ELSE 0]]
        /\ finalized' = [finalized EXCEPT ![id] = TRUE]
        /\ UNCHANGED <<config, entryVars, scores, payVars, submitters, moneyVars, now>>

FinalizeTournament(id) ==
    LET ranked == RankPlayers(players[id], scores[id])
        shares == Len(config[id].distribution)
    IN  /\ Exists(id)
        /\ now > config[id].end
        /\ ~finalized[id]
        /\ players[id] # <<>>
        /\ winners' = [winners EXCEPT
               ![id] = SubSeq(ranked, 1, IF shares > Len(ranked) THEN Len(ranked) ELSE shares)]
        /\ finalized' = [finalized EXCEPT ![id] = TRUE]
        /\ UNCHANGED <<config, entryVars, scores, payVars, submitters, moneyVars, now>>

\* The prizes, rounded down, in the order of the winners.
Prizes(id) ==
    [i \in DOMAIN winners[id] |-> (prizePool[id] * config[id].distribution[i]) \div Scale]

\* Fault: prizesDistributed is never set.
DistributePrizes_Again(id) ==
    LET token  == config[id].token
        prizes == Prizes(id)
        Won(p) == Sum([i \in DOMAIN prizes |-> IF winners[id][i] = p THEN prizes[i] ELSE 0])
    IN  /\ Exists(id)
        /\ finalized[id] /\ ~prizesDistributed[id]
        /\ winners[id] # <<>>
        /\ balance[token] >= Sum(prizes)
        /\ balance' = [balance EXCEPT ![token] = @ - Sum(prizes)]
        /\ funds' = [funds EXCEPT ![token] = [p \in Player |-> @[p] + Won(p)]]
        /\ paid' = [paid EXCEPT ![id] = @ + Sum(prizes)]
        /\ UNCHANGED <<config, entryVars, scores, resultVars, prizesDistributed, submitters, now>>

\* distributePrizes: all transfers, or none.
DistributePrizes(id) ==
    LET token  == config[id].token
        prizes == Prizes(id)
        Won(p) == Sum([i \in DOMAIN prizes |-> IF winners[id][i] = p THEN prizes[i] ELSE 0])
    IN  /\ Exists(id)
        /\ finalized[id] /\ ~prizesDistributed[id]
        /\ winners[id] # <<>>
        /\ balance[token] >= Sum(prizes)
        /\ balance' = [balance EXCEPT ![token] = @ - Sum(prizes)]
        /\ funds' = [funds EXCEPT ![token] = [p \in Player |-> @[p] + Won(p)]]
        /\ prizesDistributed' = [prizesDistributed EXCEPT ![id] = TRUE]
        /\ paid' = [paid EXCEPT ![id] = @ + Sum(prizes)]
        /\ UNCHANGED <<config, entryVars, scores, resultVars, submitters, now>>

TimePasses ==
    /\ now < MaxTime
    /\ now' = now + 1
    /\ UNCHANGED <<config, entryVars, scores, resultVars, payVars, submitters, moneyVars>>

----------------------------------------------------------------------------

Next ==
    \/ \E who \in Other, authorized \in BOOLEAN : SetAuthorizedSubmitter(who, authorized)
    \/ \E id \in Id, c \in Config : CreateTournament(id, c)
    \/ \E id \in Id, p \in Player : JoinTournament(id, p)
    \/ \E caller \in Other \cup {Owner}, id \in Id, p \in Player, score \in Score :
           SubmitScore(caller, id, p, score)
    \/ \E signer \in Other \cup Player, id \in Id, p \in Player, score \in Score :
           SubmitScoreWithSignature(signer, id, p, score)
    \/ \E id \in Id : FinalizeTournament(id) \/ DistributePrizes(id)
    \/ TimePasses

Spec == Init /\ [][Next]_vars

----------------------------------------------------------------------------
(* Properties.                                                             *)

\* Every variable stays in its domain; balances do not go below zero.
TypeOK ==
    /\ config \in [Id -> Config \cup {NoConfig}]
    /\ players \in [Id -> Seq(Player)]
    /\ scores \in [Id -> [Player -> Nat]]
    /\ winners \in [Id -> Seq(Player)]
    /\ prizePool \in [Id -> Nat]
    /\ finalized \in [Id -> BOOLEAN]
    /\ prizesDistributed \in [Id -> BOOLEAN]
    /\ submitters \subseteq Other \cup {Owner}
    /\ balance \in [Token -> Nat]
    /\ funds \in [Token -> [Player -> Nat]]
    /\ now \in 0..MaxTime
    /\ paid \in [Id -> Nat]

\* The pot of a tournament is the buy-ins of its players, who are all different and
\* no more than there is room for, also when other tournaments use the same token.
PoolMatchesPlayers ==
    \A id \in Id : Exists(id) =>
        /\ prizePool[id] = config[id].buyIn * Len(players[id])
        /\ Len(players[id]) <= config[id].maxPlayers
        /\ IsInjective(players[id])

\* The winners are the best: in descending order, all different, all of them players,
\* and nobody left out has a higher score than the last of them -- still so when the
\* prizes are paid, for no score changes in between.
WinnersRanked ==
    \A id \in Id : finalized[id] =>
        LET w == winners[id]
            OutOfPrizes == ToSet(players[id]) \ ToSet(w)
        IN  /\ w # <<>> /\ IsInjective(w) /\ ToSet(w) \subseteq ToSet(players[id])
            /\ \A i, j \in DOMAIN w : i < j => scores[id][w[i]] >= scores[id][w[j]]
            /\ OutOfPrizes = {} \/ Len(w) = Len(config[id].distribution)
            /\ \A p \in OutOfPrizes, i \in DOMAIN w : scores[id][p] <= scores[id][w[i]]

Owed(t, id) == IF Exists(id) /\ config[id].token = t THEN prizePool[id] - paid[id] ELSE 0
Ids == SetToSeq(Id)

\* Every tournament of a token can be paid from the one balance they share: what has
\* come in and has not gone out for one is never spent on another.
Solvent == \A t \in Token : balance[t] >= Sum([i \in DOMAIN Ids |-> Owed(t, Ids[i])])

\* No tournament pays more than its own pot, however often distributePrizes is sent.
PaidWithinPool == \A id \in Id : paid[id] <= prizePool[id]

\* A finalized tournament is settled: its players, scores, winners and pot stay.
FinalizedIsFinal ==
    [][\A id \in Id : finalized[id] =>
            /\ finalized'[id]
            /\ players'[id] = players[id] /\ scores'[id] = scores[id]
            /\ winners'[id] = winners[id] /\ prizePool'[id] = prizePool[id]]_vars
=============================================================================
