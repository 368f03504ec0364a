---------------------------- MODULE MCEmbeddings -----------------------------
(* A small instance of Embeddings: two generations, two builders.           *)
EXTENDS Embeddings, TLC

Alike == Permutations(Gens) \cup Permutations(Builders)
=============================================================================
