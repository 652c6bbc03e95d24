------------------------ MODULE MCTournamentManager ------------------------
(* Two tournaments that share a token.                                       *)
EXTENDS TournamentManager

CONSTANTS wld, p1, p2, p3

MCConfig ==
    { [start |-> 1, end |-> 2, token |-> wld, buyIn |-> 2, maxPlayers |-> 3,
       distribution |-> <<6, 3, 1>>],
      [start |-> 2, end |-> 3, token |-> wld, buyIn |-> 1, maxPlayers |-> 2,
       distribution |-> <<10>>],
      [start |-> 1, end |-> 2, token |-> wld, buyIn |-> 1, maxPlayers |-> 3,
       distribution |-> <<9, 5>>] }
============================================================================
