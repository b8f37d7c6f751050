-------------------------- MODULE MCSqlServerCache --------------------------
(* Threads are interchangeable, and no liveness property is checked. *)
EXTENDS SqlServerCache, TLC

EveryMoniker == [k \in Keys |-> Monikers]
SomeOptions == {NoOptions, [sliding |-> 2, absolute |-> 1], [sliding |-> Never, absolute |-> 2]}
CallerPermutations == Permutations(Callers)
=============================================================================
