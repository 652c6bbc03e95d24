---------------------------- MODULE MCPlayerData ----------------------------
EXTENDS PlayerData

CONSTANTS p1, p2, v1, v2, v3, n1, n2, u1, u2, w1, w2,
          erase, consent, progress, initiate, stats, profile, view

\* Two requests race for nullifier n1, one names its user; a third one verifies
\* another person.
TheNullifierOf == [v \in Verify |-> IF v = v3 THEN n2 ELSE n1]
TheUserOf == [v \in Verify |-> IF v = v3 THEN u2 ELSE u1]
TheVerifiedBy == [v \in Verify |-> IF v = v2 THEN p2 ELSE p1]
TheWalletOf == [v \in Verify |-> None]
TheKind ==
    [r \in Request |-> CASE r = erase -> "erase" [] r = consent -> "consent"
                         [] r = progress -> "progress" [] r = initiate -> "initiate"
                         [] r = stats -> "stats" [] r = profile -> "profile"
                         [] OTHER -> "view"]
TheCookie == [r \in Request |-> v1]
TheServedBy == [r \in Request |-> IF r \in {erase, stats, profile} THEN p1 ELSE p2]
OneServer == [r \in Request |-> p1]
ThePays == [r \in Request |-> IF r = initiate THEN w1 ELSE None]
=============================================================================
