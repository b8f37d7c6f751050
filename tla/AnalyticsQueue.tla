--------------------------- MODULE AnalyticsQueue ---------------------------
(***************************************************************************)
(* The analytics server: requests enqueue items (AnalyticsTrackingMiddle-  *)
(* ware, QueueingService), ProcessorThreadCount tasks drain the queue into *)
(* buffers and persist them (QueueProcessorService), and the host shuts    *)
(* the pipeline down.                                                      *)
(*                                                                         *)
(* An item is the ticket number it got when the BlockingCollection         *)
(* accepted it: the collection is FIFO, so the queue is taken+1..accepted. *)
(***************************************************************************)
EXTENDS Integers, FiniteSets

CONSTANTS
  Requests,       \* HTTP requests that reach the middleware
  Processors,     \* the tasks of ProcessorTasks
  BufferCapacity, \* AnalyticsServerOptions.BufferCapacity
  MaxItems        \* bound: items the handlers yield, all requests together

ASSUME ConstantsAssumption ==
  /\ Processors # {}
  /\ BufferCapacity \in Nat \ {0}   \* AnalyticsServerBuilder.Configure: Math.Max(1, ...)
  /\ MaxItems \in Nat

VARIABLES
  addingCompleted, \* BlockingCollection.IsAddingCompleted
  accepted,        \* items added to the collection so far
  taken,           \* items taken from it so far
  request,         \* progress of each request
  offered,         \* items the handlers yielded so far (bounded by MaxItems)
  pc,              \* where each processor task is
  resume,          \* where PersistBufferAsync returns to
  buffer,          \* the List<AnalyticsItem> of each processor
  stored,          \* items a StoreAsync call persisted
  handled,         \* items given to HandleErrorAsync
  lost,            \* items in the buffer of a task that died
  host,            \* QueueProcessorService.StartAsync
  stop             \* QueueProcessorService.StopAsync

queueVars == <<addingCompleted, accepted, taken>>
requestVars == <<request, offered>>
processorVars == <<pc, resume, buffer>>
outcomeVars == <<stored, handled, lost>>
hostVars == <<host, stop>>
vars == <<queueVars, requestVars, processorVars, outcomeVars, hostVars>>

Tickets == 1..accepted
Ended == {"done", "faulted"}

TypeOK ==
  /\ addingCompleted \in BOOLEAN
  /\ accepted \in Nat /\ taken \in 0..accepted
  /\ request \in [Requests -> {"open", "adding", "answered", "failed"}]
  /\ offered \in 0..MaxItems
  /\ pc \in [Processors -> {"created", "loop", "take", "resolve", "store", "handle"} \cup Ended]
  /\ resume \in [Processors -> {"take", "loop"}]
  /\ buffer \in [Processors -> SUBSET (1..taken)]
  /\ stored \in SUBSET (1..taken)
  /\ handled \in SUBSET (1..taken)
  /\ lost \in SUBSET (1..taken)
  /\ host \in {"created", "running", "failed"}
  /\ stop \in {"no", "waiting", "returned", "threw"}

Init ==
  /\ addingCompleted = FALSE
  /\ accepted = 0 /\ taken = 0
  /\ request = [r \in Requests |-> "open"]
  /\ offered = 0
  /\ pc = [p \in Processors |-> "created"]
  /\ resume = [p \in Processors |-> "loop"]
  /\ buffer = [p \in Processors |-> {}]
  /\ stored = {} /\ handled = {} /\ lost = {}
  /\ host = "created"
  /\ stop = "no"

-----------------------------------------------------------------------------
(* QueueingService *)

\* BlockingCollection.IsCompleted: no more adds, and nothing left to take.
IsCompleted == addingCompleted /\ taken = accepted

\* ApplicationStopping fires: CompleteAdding. It may fire before StartAsync.
CompleteAdding ==
  /\ ~addingCompleted
  /\ addingCompleted' = TRUE
  /\ UNCHANGED <<accepted, taken, requestVars, processorVars, outcomeVars, hostVars>>

\* The handler yields a non-null item and Enqueue tests IsCompleted. A completed
\* queue drops the item silently; the request goes on.
EnqueueChecks(r) ==
  /\ request[r] = "open"
  /\ offered < MaxItems
  /\ offered' = offered + 1
  /\ request' = [request EXCEPT ![r] = IF IsCompleted THEN "open" ELSE "adding"]
  /\ UNCHANGED <<queueVars, processorVars, outcomeVars, hostVars>>

\* Faulty variant: TryAdd accepts items after CompleteAdding.
EnqueueAddsAnyway(r) ==
  /\ request[r] = "adding"
  /\ request' = [request EXCEPT ![r] = "open"]
  /\ accepted' = accepted + 1
  /\ UNCHANGED <<addingCompleted, taken, offered, processorVars, outcomeVars, hostVars>>

\* TryAdd of the unbounded collection: it succeeds at once, or throws
\* InvalidOperationException when adding was completed after the test above.
EnqueueAdds(r) ==
  /\ request[r] = "adding"
  /\ IF addingCompleted
     THEN /\ request' = [request EXCEPT ![r] = "failed"]
          /\ accepted' = accepted
     ELSE /\ request' = [request EXCEPT ![r] = "open"]
          /\ accepted' = accepted + 1
  /\ UNCHANGED <<addingCompleted, taken, offered, processorVars, outcomeVars, hostVars>>

\* The handler's stream ends (204) or throws.
RequestEnds(r) ==
  /\ request[r] = "open"
  /\ \E end \in {"answered", "failed"} : request' = [request EXCEPT ![r] = end]
  /\ UNCHANGED <<offered, queueVars, processorVars, outcomeVars, hostVars>>

-----------------------------------------------------------------------------
(* QueueProcessorService: the tasks *)

\* Faulty variant: the task tests nothing and loops for ever.
LoopForever(p) ==
  /\ pc[p] = "loop"
  /\ pc' = [pc EXCEPT ![p] = "take"]
  /\ buffer' = [buffer EXCEPT ![p] = {}]
  /\ UNCHANGED <<resume, queueVars, requestVars, outcomeVars, hostVars>>

\* while (!IsCompleted): a new, empty buffer, or the end of the task.
LoopTest(p) ==
  /\ pc[p] = "loop"
  /\ pc' = [pc EXCEPT ![p] = IF IsCompleted THEN "done" ELSE "take"]
  /\ buffer' = [buffer EXCEPT ![p] = {}]
  /\ UNCHANGED <<resume, queueVars, requestVars, outcomeVars, hostVars>>

\* Faulty variant: an item is taken out of an empty queue.
TakeItemUnchecked(p) ==
  /\ pc[p] = "take"
  /\ taken' = taken + 1
  /\ buffer' = [buffer EXCEPT ![p] = @ \cup {taken + 1}]
  /\ UNCHANGED <<addingCompleted, accepted, pc, resume, requestVars, outcomeVars, hostVars>>

\* Faulty variant: the buffer is persisted one item too late (< for <=).
TakeItemLateFlush(p) ==
  /\ pc[p] = "take"
  /\ taken < accepted
  /\ taken' = taken + 1
  /\ buffer' = [buffer EXCEPT ![p] = @ \cup {taken + 1}]
  /\ IF BufferCapacity < Cardinality(buffer'[p])
     THEN /\ pc' = [pc EXCEPT ![p] = "resolve"]
          /\ resume' = [resume EXCEPT ![p] = "take"]
     ELSE UNCHANGED <<pc, resume>>
  /\ UNCHANGED <<addingCompleted, accepted, requestVars, outcomeVars, hostVars>>

\* TryGetNext returns an item; a full buffer is persisted before the next take.
TakeItem(p) ==
  /\ pc[p] = "take"
  /\ taken < accepted
  /\ taken' = taken + 1
  /\ buffer' = [buffer EXCEPT ![p] = @ \cup {taken + 1}]
  /\ IF BufferCapacity <= Cardinality(buffer'[p])
     THEN /\ pc' = [pc EXCEPT ![p] = "resolve"]
          /\ resume' = [resume EXCEPT ![p] = "take"]
     ELSE UNCHANGED <<pc, resume>>
  /\ UNCHANGED <<addingCompleted, accepted, requestVars, outcomeVars, hostVars>>

\* Faulty variant: the rest of the buffer is not persisted after the inner loop.
TakeNothingForgetsRest(p) ==
  /\ pc[p] = "take"
  /\ taken = accepted
  /\ pc' = [pc EXCEPT ![p] = "loop"]
  /\ UNCHANGED <<resume, buffer, queueVars, requestVars, outcomeVars, hostVars>>

\* TryGetNext returns false, after 10 s or because the queue completed: the rest
\* of the buffer is persisted; an empty buffer makes PersistBufferAsync return.
TakeNothing(p) ==
  /\ pc[p] = "take"
  /\ taken = accepted
  /\ IF buffer[p] = {}
     THEN /\ pc' = [pc EXCEPT ![p] = "loop"]
          /\ resume' = resume
     ELSE /\ pc' = [pc EXCEPT ![p] = "resolve"]
          /\ resume' = [resume EXCEPT ![p] = "loop"]
  /\ UNCHANGED <<buffer, queueVars, requestVars, outcomeVars, hostVars>>

\* PersistBufferAsync resolves the scoped repository outside its try block.
ResolveRepository(p) ==
  /\ pc[p] = "resolve"
  /\ pc' = [pc EXCEPT ![p] = "store"]
  /\ UNCHANGED <<resume, buffer, queueVars, requestVars, outcomeVars, hostVars>>

\* A failure there escapes ProcessItemsAsync: the task faults with its buffer.
ResolveFails(p) ==
  /\ pc[p] = "resolve"
  /\ pc' = [pc EXCEPT ![p] = "faulted"]
  /\ lost' = lost \cup buffer[p]
  /\ buffer' = [buffer EXCEPT ![p] = {}]
  /\ UNCHANGED <<resume, stored, handled, queueVars, requestVars, hostVars>>

\* Faulty variant: buffer.Clear() is forgotten.
KeepBuffer(p) ==
  /\ pc' = [pc EXCEPT ![p] = resume[p]]
  /\ UNCHANGED <<resume, buffer>>

\* finally { buffer.Clear(); } and the return to ProcessItemsAsync.
ClearBuffer(p) ==
  /\ buffer' = [buffer EXCEPT ![p] = {}]
  /\ pc' = [pc EXCEPT ![p] = resume[p]]
  /\ UNCHANGED resume

\* StoreAsync persists the whole buffer (one SaveChanges), or throws.
StoreSucceeds(p) ==
  /\ pc[p] = "store"
  /\ stored' = stored \cup buffer[p]
  /\ ClearBuffer(p)
  /\ UNCHANGED <<handled, lost, queueVars, requestVars, hostVars>>

StoreThrows(p) ==
  /\ pc[p] = "store"
  /\ pc' = [pc EXCEPT ![p] = "handle"]
  /\ UNCHANGED <<resume, buffer, queueVars, requestVars, outcomeVars, hostVars>>

StoreEnds(p) == StoreSucceeds(p) \/ StoreThrows(p)

\* HandleErrorAsync returns, or throws and is logged: the buffer goes either way.
HandleError(p) ==
  /\ pc[p] = "handle"
  /\ handled' = handled \cup buffer[p]
  /\ ClearBuffer(p)
  /\ UNCHANGED <<stored, lost, queueVars, requestVars, hostVars>>

-----------------------------------------------------------------------------
(* QueueProcessorService: the hosted service *)

\* InitializeAsync of the repository, then one Task.Run per processor.
StartAsync ==
  /\ host = "created"
  /\ \/ /\ host' = "running"
        /\ pc' = [p \in Processors |-> "loop"]
     \/ /\ host' = "failed"
        /\ pc' = pc
  /\ UNCHANGED <<stop, resume, buffer, queueVars, requestVars, outcomeVars>>

\* The host stops its services after ApplicationStopping. Cancelling
\* StopTokenSource reaches nobody: the tasks never look at it.
StopAsync ==
  /\ host = "running" /\ addingCompleted
  /\ stop = "no"
  /\ stop' = "waiting"
  /\ UNCHANGED <<host, queueVars, requestVars, processorVars, outcomeVars>>

\* Task.WaitAll: returns when every task ended, and throws if one faulted.
WaitAllEnds ==
  /\ stop = "waiting"
  /\ \A p \in Processors : pc[p] \in Ended
  /\ stop' = IF \E p \in Processors : pc[p] = "faulted" THEN "threw" ELSE "returned"
  /\ UNCHANGED <<host, queueVars, requestVars, processorVars, outcomeVars>>

-----------------------------------------------------------------------------
RequestStep(r) == EnqueueChecks(r) \/ EnqueueAdds(r) \/ RequestEnds(r)

\* The steps the code takes by itself, the repository's work apart.
ProcessorStep(p) ==
  \/ LoopTest(p) \/ TakeItem(p) \/ TakeNothing(p)
  \/ ResolveRepository(p) \/ HandleError(p)

Next ==
  \/ CompleteAdding
  \/ \E r \in Requests : RequestStep(r)
  \/ \E p \in Processors : ProcessorStep(p) \/ StoreEnds(p) \/ ResolveFails(p)
  \/ StartAsync \/ StopAsync \/ WaitAllEnds

Spec == Init /\ [][Next]_vars

\* The thread pool runs every task that can run; the host stops its services.
\* Nothing is assumed of the clients, of StartAsync or of ApplicationStopping.
SchedulingFairness ==
  /\ \A p \in Processors : WF_vars(ProcessorStep(p))
  /\ WF_vars(StopAsync) /\ WF_vars(WaitAllEnds)

\* The repository answers every StoreAsync call.
RepositoryFairness == \A p \in Processors : WF_vars(StoreEnds(p))

SchedulerSpec == Spec /\ SchedulingFairness
FairSpec == SchedulerSpec /\ RepositoryFairness
-----------------------------------------------------------------------------
(* Properties *)

Settled == stored \cup handled \cup lost

\* Every item taken from the queue is in exactly one place: the buffer of one
\* processor, or one of the three outcomes. TryGetNext, buffer.Clear() and the two
\* call sites of PersistBufferAsync must agree for no item to vanish or be stored
\* a second time.
ItemConservation ==
  /\ \A t \in 1..taken : t \in Settled \/ \E p \in Processors : t \in buffer[p]
  /\ \A p, q \in Processors : p # q => buffer[p] \cap buffer[q] = {}
  /\ \A p \in Processors : buffer[p] \cap Settled = {}
  /\ stored \cap handled = {} /\ stored \cap lost = {} /\ handled \cap lost = {}

\* When StopAsync returns normally, every item ever accepted was persisted or
\* given to the repository's error handler: no task ends while an Enqueue that
\* passed its IsCompleted test can still add.
DrainedAtStop == stop = "returned" => stored \cup handled = Tickets

\* The inductive strengthening of the invariants above (see AnalyticsQueueProofs).
HoldsItems == {"resolve", "store", "handle"}

BufferInv ==
  \A p \in Processors :
    /\ Cardinality(buffer[p]) <= BufferCapacity
    /\ pc[p] = "take" => Cardinality(buffer[p]) < BufferCapacity
    /\ pc[p] \in HoldsItems <=> (pc[p] # "take" /\ buffer[p] # {})

ShutdownInv ==
  /\ \A p \in Processors : pc[p] = "done" => IsCompleted
  /\ \A p \in Processors : pc[p] = "created" <=> host # "running"
  /\ lost # {} <=> \E p \in Processors : pc[p] = "faulted"
  /\ stop # "no" => addingCompleted
  /\ stop \in {"returned", "threw"} => \A p \in Processors : pc[p] \in Ended
  /\ stop = "returned" => \A p \in Processors : pc[p] = "done"
  /\ stop = "threw" => lost # {}

IInv == TypeOK /\ ItemConservation /\ BufferInv /\ ShutdownInv

\* Once the service runs, an accepted item does not wait in the queue or in a
\* half-full buffer for ever, unless every processor died.
AcceptedIsSettled ==
  \A t \in 1..MaxItems :
    (t <= accepted /\ host = "running")
      ~> (t \in Settled \/ \A p \in Processors : pc[p] = "faulted")

\* StopAsync ends: CompleteAdding wakes and ends every task, without a token.
StopCompletes == stop = "waiting" ~> stop \in {"returned", "threw"}

\* AnalyticsServerOptions.StorageTimeout: "the maximum time given to the repository
\* to persist analytics data buffer". A buffer being persisted is given up or
\* stored eventually, however long the repository takes.
StorageTimeoutApplies == \A p \in Processors : pc[p] = "store" ~> pc[p] # "store"

\* The pipeline implements its contract (AnalyticsDelivery).
Delivery ==
  INSTANCE AnalyticsDelivery
    WITH closed <- addingCompleted,
         outcome <- IF stop \in {"returned", "threw"} THEN stop ELSE "running"

DeliverySpec == Delivery!Spec
=============================================================================
