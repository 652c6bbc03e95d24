----------------------- MODULE MCTournamentLifecycle -----------------------
(* A configured tournament, and one that POST /api/tournaments/create takes, of *)
(* [150, -62.5, 12.5] percent.                                                  *)
EXTENDS TournamentLifecycle

CONSTANTS poll, view, stream, credit, distribute, u1, u2, s1

TheKind ==
    [a \in Actor |-> CASE a = poll -> "poll" [] a = view -> "view" [] a = stream -> "stream"
                       [] a = credit -> "credit" [] OTHER -> "distribute"]
TheConfigured == <<120, 80>>
TheCreated == <<300, -125, 25>>
TheScores == {<<u1, 1>>, <<u2, 2>>}
TheSeeds == <<<<s1, 1>>>>
=============================================================================
