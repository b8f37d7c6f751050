--------------------------- MODULE MCInMemoryCache ---------------------------
(* The callers of a key pass every moniker. Calls, threads and tokens are        *)
(* interchangeable, and no liveness property is checked.                         *)
EXTENDS InMemoryCache, TLC

EveryMoniker == [k \in Keys |-> Monikers]

Permutable == Permutations(Calls) \cup Permutations(Threads) \cup Permutations(Tokens)
=============================================================================
