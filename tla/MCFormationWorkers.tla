------------------------- MODULE MCFormationWorkers -------------------------
(* TLC instances of FormationWorkers. *)
EXTENDS FormationWorkers, TLC

CONSTANTS s1

\* No turn kills its worker; the first turn of the project does.
NoKiller == {}
FirstTurnKills == {<<s1, 0>>}
=============================================================================
