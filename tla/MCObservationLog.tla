-------------------------- MODULE MCObservationLog --------------------------
(* TLC instances of ObservationLog. *)
EXTENDS ObservationLog, TLC

CONSTANTS s1, s2, k1, a1, p1, p2

\* Projects and payloads are interchangeable; no liveness is checked here.
Symmetry == Permutations({s1, s2}) \cup Permutations({p1, p2})
=============================================================================
