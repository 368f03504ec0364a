--------------------------- MODULE MCWatermarkTx ---------------------------
(* TLC instances of WatermarkTx. *)
EXTENDS WatermarkTx, TLC

\* Connections are interchangeable; no liveness is checked here.
Symmetry == Permutations(Conns)
=============================================================================
