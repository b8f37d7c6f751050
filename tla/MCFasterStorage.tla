--------------------------- MODULE MCFasterStorage ---------------------------
(* Clients are interchangeable, and no liveness property is checked. *)
EXTENDS FasterStorage, TLC

ClientPermutations == Permutations(Clients)
=============================================================================
