-------------------------- MODULE AnalyticsDelivery --------------------------
(***************************************************************************)
(* What the analytics pipeline promises for the items it accepts, whatever *)
(* its threads do: every accepted item is settled at most once, in batches *)
(* of at most BufferCapacity items, and a shutdown that ends without an    *)
(* error leaves no accepted item behind.                                   *)
(***************************************************************************)
EXTENDS Integers, FiniteSets

CONSTANT BufferCapacity

VARIABLES
  closed,   \* no item is accepted any more
  accepted, \* number of items accepted
  stored, handled, lost, \* how the settled items ended
  outcome   \* of the shutdown

vars == <<closed, accepted, stored, handled, lost, outcome>>

Pending == (1..accepted) \ (stored \cup handled \cup lost)

Init ==
  /\ closed = FALSE /\ accepted = 0
  /\ stored = {} /\ handled = {} /\ lost = {}
  /\ outcome = "running"

Close ==
  /\ ~closed
  /\ closed' = TRUE
  /\ UNCHANGED <<accepted, stored, handled, lost, outcome>>

Accept ==
  /\ ~closed
  /\ accepted' = accepted + 1
  /\ UNCHANGED <<closed, stored, handled, lost, outcome>>

\* One batch reaches the repository, its error handler, or dies with its task.
Settle(batch) ==
  /\ batch # {} /\ Cardinality(batch) <= BufferCapacity
  /\ \/ stored' = stored \cup batch /\ UNCHANGED <<handled, lost>>
     \/ handled' = handled \cup batch /\ UNCHANGED <<stored, lost>>
     \/ lost' = lost \cup batch /\ UNCHANGED <<stored, handled>>
  /\ UNCHANGED <<closed, accepted, outcome>>

\* A clean end needs every item stored or handled; a failed one, a lost batch.
Finish ==
  /\ closed /\ outcome = "running"
  /\ \/ outcome' = "returned" /\ Pending = {} /\ lost = {}
     \/ outcome' = "threw" /\ lost # {}
  /\ UNCHANGED <<closed, accepted, stored, handled, lost>>

Next ==
  \/ Close \/ Accept \/ Finish
  \/ \E batch \in SUBSET Pending : Settle(batch)

Spec == Init /\ [][Next]_vars
=============================================================================
