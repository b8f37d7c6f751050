------------------------ MODULE AnalyticsQueueProofs ------------------------
(***************************************************************************)
(* The safety of the analytics pipeline, for any number of requests and    *)
(* processors, any buffer capacity and any number of items.                *)
(***************************************************************************)
EXTENDS AnalyticsQueue, FiniteSetTheorems, TLAPS

\* The inductive invariant holds initially.
LEMMA InitialState == Init => IInv
<1> SUFFICES ASSUME Init PROVE IInv
  OBVIOUS
<1>1. TypeOK
  <2>1. accepted \in Nat /\ taken \in 0..accepted /\ offered \in 0..MaxItems
    BY ConstantsAssumption DEF Init
  <2>2. buffer \in [Processors -> SUBSET (1..taken)]
    BY DEF Init
  <2>3. pc \in [Processors -> {"created", "loop", "take", "resolve", "store", "handle"} \cup Ended]
    BY DEF Init
  <2>4. QED
    BY <2>1, <2>2, <2>3 DEF Init, TypeOK
<1>2. ItemConservation
  BY DEF Init, ItemConservation, Settled
<1>3. Cardinality({}) = 0
  BY FS_EmptySet
<1>4. BufferInv
  BY <1>3, ConstantsAssumption DEF Init, BufferInv, HoldsItems
<1>5. ShutdownInv
  BY DEF Init, ShutdownInv
<1>6. QED
  BY <1>1, <1>2, <1>4, <1>5 DEF IInv

\* Every step keeps the types.
LEMMA TypeStep == TypeOK /\ [Next]_vars => TypeOK'
<1> SUFFICES ASSUME TypeOK, [Next]_vars PROVE TypeOK'
  OBVIOUS
<1> USE DEF TypeOK, Ended
<1>1. CASE CompleteAdding
  BY <1>1 DEF CompleteAdding, requestVars, processorVars, outcomeVars, hostVars
<1>2. ASSUME NEW r \in Requests, RequestStep(r) PROVE TypeOK'
  <2>1. CASE EnqueueChecks(r)
    <3>1. offered' \in 0..MaxItems
      BY <2>1, ConstantsAssumption DEF EnqueueChecks
    <3>2. QED
      BY <2>1, <3>1 DEF EnqueueChecks, queueVars, processorVars, outcomeVars, hostVars
  <2>2. CASE EnqueueAdds(r)
    <3>1. accepted' \in Nat /\ taken' \in 0..accepted'
      BY <2>2 DEF EnqueueAdds
    <3>2. request' \in [Requests -> {"open", "adding", "answered", "failed"}]
      BY <2>2 DEF EnqueueAdds
    <3>3. QED
      BY <2>2, <3>1, <3>2 DEF EnqueueAdds, processorVars, outcomeVars, hostVars
  <2>3. CASE RequestEnds(r)
    BY <2>3 DEF RequestEnds, queueVars, processorVars, outcomeVars, hostVars
  <2>4. QED
    BY <1>2, <2>1, <2>2, <2>3 DEF RequestStep
<1>3. ASSUME NEW p \in Processors, TakeItem(p) PROVE TypeOK'
  <2>1. taken' = taken + 1 /\ taken' \in 0..accepted' /\ accepted' = accepted
    BY <1>3 DEF TakeItem
  <2>2. 1..taken \subseteq 1..taken' /\ taken + 1 \in 1..taken'
    BY <2>1
  <2>3. buffer' \in [Processors -> SUBSET (1..taken')]
    BY <1>3, <2>2 DEF TakeItem
  <2>4. stored' \in SUBSET (1..taken') /\ handled' \in SUBSET (1..taken') /\ lost' \in SUBSET (1..taken')
    BY <1>3, <2>2 DEF TakeItem, outcomeVars
  <2>5. QED
    BY <1>3, <2>1, <2>3, <2>4 DEF TakeItem, requestVars, hostVars
<1>4. ASSUME NEW p \in Processors, LoopTest(p) \/ TakeNothing(p) \/ ResolveRepository(p)
      PROVE TypeOK'
  BY <1>4 DEF LoopTest, TakeNothing, ResolveRepository,
       queueVars, requestVars, outcomeVars, hostVars
<1>5. ASSUME NEW p \in Processors, StoreSucceeds(p) PROVE TypeOK'
  BY <1>5 DEF StoreSucceeds, ClearBuffer, queueVars, requestVars, hostVars
<1>6. ASSUME NEW p \in Processors, StoreThrows(p) PROVE TypeOK'
  BY <1>6 DEF StoreThrows, queueVars, requestVars, outcomeVars, hostVars
<1>7. ASSUME NEW p \in Processors, HandleError(p) PROVE TypeOK'
  BY <1>7 DEF HandleError, ClearBuffer, queueVars, requestVars, hostVars
<1>8. ASSUME NEW p \in Processors, ResolveFails(p) PROVE TypeOK'
  BY <1>8 DEF ResolveFails, queueVars, requestVars, hostVars
<1>9. CASE StartAsync
  BY <1>9 DEF StartAsync, queueVars, requestVars, outcomeVars
<1>10. CASE StopAsync \/ WaitAllEnds
  BY <1>10 DEF StopAsync, WaitAllEnds, queueVars, requestVars, processorVars, outcomeVars
<1>11. CASE UNCHANGED vars
  BY <1>11 DEF vars, queueVars, requestVars, processorVars, outcomeVars, hostVars
<1>12. QED
  BY <1>1, <1>2, <1>3, <1>4, <1>5, <1>6, <1>7, <1>8, <1>9, <1>10, <1>11
  DEF Next, ProcessorStep, StoreEnds

\* No step of the pipeline makes an item vanish or be in two places.
LEMMA ConservationStep == IInv /\ [Next]_vars => ItemConservation'
<1> SUFFICES ASSUME IInv, [Next]_vars PROVE ItemConservation'
  OBVIOUS
<1> USE DEF IInv, TypeOK, ItemConservation, Settled
<1>1. CASE CompleteAdding \/ StartAsync \/ StopAsync \/ WaitAllEnds
  BY <1>1 DEF CompleteAdding, StartAsync, StopAsync, WaitAllEnds,
       queueVars, processorVars, outcomeVars
<1>2. ASSUME NEW r \in Requests, RequestStep(r) PROVE ItemConservation'
  BY <1>2 DEF RequestStep, EnqueueChecks, EnqueueAdds, RequestEnds,
       queueVars, processorVars, outcomeVars
<1>3. ASSUME NEW p \in Processors, LoopTest(p) PROVE ItemConservation'
  <2>1. buffer[p] = {}
    BY <1>3 DEF LoopTest, BufferInv, HoldsItems
  <2>2. buffer' = buffer
    BY <1>3, <2>1 DEF LoopTest
  <2>3. QED
    BY <1>3, <2>2 DEF LoopTest, queueVars, outcomeVars
<1>4. ASSUME NEW p \in Processors, TakeItem(p) PROVE ItemConservation'
  <2>1. /\ taken' = taken + 1
        /\ buffer' = [buffer EXCEPT ![p] = @ \cup {taken + 1}]
        /\ UNCHANGED <<stored, handled, lost>>
    BY <1>4 DEF TakeItem, outcomeVars
  <2>2. taken + 1 \notin 1..taken
    OBVIOUS
  <2>3. ASSUME NEW t \in 1..taken' PROVE t \in Settled \/ \E q \in Processors : t \in buffer'[q]
    <3>1. CASE t = taken + 1
      BY <3>1, <2>1
    <3>2. CASE t \in 1..taken
      BY <3>2, <2>1
    <3>3. QED
      BY <2>1, <3>1, <3>2
  <2>4. \A q, o \in Processors : q # o => buffer'[q] \cap buffer'[o] = {}
    BY <2>1, <2>2
  <2>5. \A q \in Processors : buffer'[q] \cap Settled = {}
    BY <2>1, <2>2
  <2>6. QED
    BY <2>1, <2>3, <2>4, <2>5
<1>5. ASSUME NEW p \in Processors,
             TakeNothing(p) \/ ResolveRepository(p) \/ StoreThrows(p)
      PROVE ItemConservation'
  BY <1>5 DEF TakeNothing, ResolveRepository, StoreThrows, queueVars, outcomeVars
<1>6. ASSUME NEW p \in Processors, StoreSucceeds(p) PROVE ItemConservation'
  BY <1>6 DEF StoreSucceeds, ClearBuffer, queueVars
<1>7. ASSUME NEW p \in Processors, HandleError(p) PROVE ItemConservation'
  BY <1>7 DEF HandleError, ClearBuffer, queueVars
<1>8. ASSUME NEW p \in Processors, ResolveFails(p) PROVE ItemConservation'
  BY <1>8 DEF ResolveFails, queueVars
<1>9. CASE UNCHANGED vars
  BY <1>9 DEF vars, queueVars, processorVars, outcomeVars
<1>10. QED
  BY <1>1, <1>2, <1>3, <1>4, <1>5, <1>6, <1>7, <1>8, <1>9
  DEF Next, ProcessorStep, StoreEnds

\* A buffer is finite, so its Cardinality counts.
LEMMA BufferIsFinite ==
  ASSUME TypeOK, NEW p \in Processors
  PROVE  IsFiniteSet(buffer[p]) /\ Cardinality(buffer[p]) \in Nat
<1>1. taken \in Nat /\ buffer[p] \subseteq 1..taken
  BY DEF TypeOK
<1>2. IsFiniteSet(1..taken)
  BY <1>1, FS_Interval
<1>3. QED
  BY <1>1, <1>2, FS_Subset, FS_CardinalityType

\* A buffer never outgrows BufferCapacity, and only a task between its takes and
\* the end of PersistBufferAsync holds items.
LEMMA BufferStep == IInv /\ [Next]_vars => BufferInv'
<1> SUFFICES ASSUME IInv, [Next]_vars PROVE BufferInv'
  OBVIOUS
<1> USE DEF IInv, TypeOK, BufferInv, HoldsItems, Ended
<1>0. BufferCapacity \in Nat /\ BufferCapacity > 0 /\ Cardinality({}) = 0
  BY ConstantsAssumption, FS_EmptySet
<1>1. CASE CompleteAdding \/ StopAsync \/ WaitAllEnds
  BY <1>1 DEF CompleteAdding, StopAsync, WaitAllEnds, processorVars
<1>2. ASSUME NEW r \in Requests, RequestStep(r) PROVE BufferInv'
  BY <1>2 DEF RequestStep, EnqueueChecks, EnqueueAdds, RequestEnds, processorVars
<1>3. ASSUME NEW p \in Processors, LoopTest(p) PROVE BufferInv'
  BY <1>0, <1>3 DEF LoopTest
<1>4. ASSUME NEW p \in Processors, TakeItem(p) PROVE BufferInv'
  <2>1. taken + 1 \notin buffer[p]
    OBVIOUS
  <2>2. IsFiniteSet(buffer[p]) /\ Cardinality(buffer[p]) \in Nat
    BY BufferIsFinite
  <2>3. Cardinality(buffer[p] \cup {taken + 1}) = Cardinality(buffer[p]) + 1
    BY <2>1, <2>2, FS_AddElement
  <2>4. /\ buffer' = [buffer EXCEPT ![p] = @ \cup {taken + 1}]
        /\ pc[p] = "take"
        /\ IF BufferCapacity <= Cardinality(buffer'[p])
           THEN pc' = [pc EXCEPT ![p] = "resolve"]
           ELSE pc' = pc
    BY <1>4 DEF TakeItem
  <2>5. Cardinality(buffer'[p]) = Cardinality(buffer[p]) + 1 /\ buffer'[p] # {}
    BY <2>3, <2>4
  <2>6. Cardinality(buffer[p]) < BufferCapacity
    BY <2>4
  <2>7. ASSUME NEW q \in Processors, q # p
        PROVE  buffer'[q] = buffer[q] /\ pc'[q] = pc[q]
    BY <2>4, <2>7
  <2>8. CASE BufferCapacity <= Cardinality(buffer'[p])
    <3>1. pc'[p] = "resolve"
      BY <2>4, <2>8
    <3>2. Cardinality(buffer'[p]) <= BufferCapacity
      BY <1>0, <2>2, <2>5, <2>6
    <3>3. QED
      BY <2>5, <2>7, <3>1, <3>2
  <2>9. CASE ~(BufferCapacity <= Cardinality(buffer'[p]))
    <3>1. pc'[p] = "take"
      BY <2>4, <2>9
    <3>2. Cardinality(buffer'[p]) < BufferCapacity
      BY <1>0, <2>2, <2>5, <2>9
    <3>3. QED
      BY <1>0, <2>2, <2>5, <2>7, <3>1, <3>2
  <2>10. QED
    BY <2>8, <2>9
<1>5. ASSUME NEW p \in Processors, TakeNothing(p) PROVE BufferInv'
  BY <1>5 DEF TakeNothing
<1>6. ASSUME NEW p \in Processors, ResolveRepository(p) \/ StoreThrows(p) PROVE BufferInv'
  BY <1>6 DEF ResolveRepository, StoreThrows
<1>7. ASSUME NEW p \in Processors, StoreSucceeds(p) \/ HandleError(p) PROVE BufferInv'
  <2>1. /\ buffer' = [buffer EXCEPT ![p] = {}]
        /\ pc' = [pc EXCEPT ![p] = resume[p]]
    BY <1>7 DEF StoreSucceeds, HandleError, ClearBuffer
  <2>2. buffer'[p] = {} /\ pc'[p] \in {"take", "loop"}
    BY <2>1
  <2>3. \A q \in Processors : q # p => buffer'[q] = buffer[q] /\ pc'[q] = pc[q]
    BY <2>1
  <2>4. Cardinality(buffer'[p]) = 0
    BY <1>0, <2>2
  <2>5. ASSUME NEW q \in Processors
        PROVE  /\ Cardinality(buffer'[q]) <= BufferCapacity
               /\ pc'[q] = "take" => Cardinality(buffer'[q]) < BufferCapacity
               /\ pc'[q] \in HoldsItems <=> (pc'[q] # "take" /\ buffer'[q] # {})
    <3>1. CASE q = p
      BY ONLY <1>0, <2>2, <2>4, <3>1 DEF HoldsItems
    <3>2. CASE q # p
      <4>1. buffer'[q] = buffer[q] /\ pc'[q] = pc[q]
        BY <2>3, <3>2
      <4>2. /\ Cardinality(buffer[q]) <= BufferCapacity
            /\ pc[q] = "take" => Cardinality(buffer[q]) < BufferCapacity
            /\ pc[q] \in HoldsItems <=> (pc[q] # "take" /\ buffer[q] # {})
        OBVIOUS
      <4>3. QED
        BY ONLY <4>1, <4>2
    <3>3. QED
      BY <3>1, <3>2
  <2>6. QED
    BY <2>5
<1>8. ASSUME NEW p \in Processors, ResolveFails(p) PROVE BufferInv'
  BY <1>0, <1>8 DEF ResolveFails
<1>9. CASE StartAsync
  BY <1>9 DEF StartAsync, ShutdownInv
<1>10. CASE UNCHANGED vars
  BY <1>10 DEF vars, processorVars
<1>11. QED
  BY <1>1, <1>2, <1>3, <1>4, <1>5, <1>6, <1>7, <1>8, <1>9, <1>10
  DEF Next, ProcessorStep, StoreEnds

\* Once a task saw the queue completed, nothing is added; StopAsync waits for all.
LEMMA ShutdownStep == IInv /\ [Next]_vars => ShutdownInv'
<1> SUFFICES ASSUME IInv, [Next]_vars PROVE ShutdownInv'
  OBVIOUS
<1> USE DEF IInv, TypeOK, ShutdownInv, IsCompleted, Ended
<1>1. CASE CompleteAdding
  BY <1>1 DEF CompleteAdding, processorVars, outcomeVars, hostVars
<1>2. ASSUME NEW r \in Requests, RequestStep(r) PROVE ShutdownInv'
  <2>1. UNCHANGED <<addingCompleted, taken, pc, lost, host, stop>>
    BY <1>2 DEF RequestStep, EnqueueChecks, EnqueueAdds, RequestEnds,
         queueVars, processorVars, outcomeVars, hostVars
  <2>2. addingCompleted => accepted' = accepted
    BY <1>2 DEF RequestStep, EnqueueChecks, EnqueueAdds, RequestEnds, queueVars
  <2>3. QED
    BY <2>1, <2>2
<1>3. ASSUME NEW p \in Processors, LoopTest(p) PROVE ShutdownInv'
  BY <1>3 DEF LoopTest, queueVars, outcomeVars, hostVars
<1>4. ASSUME NEW p \in Processors, TakeItem(p) PROVE ShutdownInv'
  BY <1>4 DEF TakeItem, outcomeVars, hostVars
<1>5. ASSUME NEW p \in Processors, TakeNothing(p) PROVE ShutdownInv'
  BY <1>5 DEF TakeNothing, queueVars, outcomeVars, hostVars
<1>6. ASSUME NEW p \in Processors, ResolveRepository(p) \/ StoreThrows(p) PROVE ShutdownInv'
  BY <1>6 DEF ResolveRepository, StoreThrows, queueVars, outcomeVars, hostVars
<1>7. ASSUME NEW p \in Processors, StoreSucceeds(p) \/ HandleError(p) PROVE ShutdownInv'
  BY <1>7 DEF StoreSucceeds, HandleError, ClearBuffer, queueVars, hostVars
<1>8. ASSUME NEW p \in Processors, ResolveFails(p) PROVE ShutdownInv'
  <2>1. lost' # {}
    BY <1>8 DEF ResolveFails, BufferInv, HoldsItems
  <2>2. QED
    BY <1>8, <2>1 DEF ResolveFails, queueVars, hostVars
<1>9. CASE StartAsync
  BY <1>9 DEF StartAsync, queueVars, outcomeVars
<1>10. CASE StopAsync
  BY <1>10 DEF StopAsync, queueVars, processorVars, outcomeVars
<1>11. CASE WaitAllEnds
  BY <1>11 DEF WaitAllEnds, queueVars, processorVars, outcomeVars
<1>12. CASE UNCHANGED vars
  BY <1>12 DEF vars, queueVars, processorVars, outcomeVars, hostVars
<1>13. QED
  BY <1>1, <1>2, <1>3, <1>4, <1>5, <1>6, <1>7, <1>8, <1>9, <1>10, <1>11, <1>12
  DEF Next, ProcessorStep, StoreEnds

\* Conservation, fill and shutdown hold together in every state.
LEMMA Inductive == Spec => []IInv
<1>1. IInv /\ [Next]_vars => IInv'
  BY TypeStep, ConservationStep, BufferStep, ShutdownStep DEF IInv
<1>2. QED
  BY <1>1, InitialState, PTL DEF Spec
-----------------------------------------------------------------------------
\* The variables of the pipeline always have their types.
THEOREM TypeCorrect == Spec => []TypeOK
<1>1. IInv => TypeOK
  BY DEF IInv
<1>2. QED
  BY <1>1, Inductive, PTL

\* No accepted item vanishes or is settled twice, however many processors drain
\* the queue and whatever the repository does.
THEOREM Conservation == Spec => []ItemConservation
<1>1. IInv => ItemConservation
  BY DEF IInv
<1>2. QED
  BY <1>1, Inductive, PTL

\* A StopAsync that returns normally left no accepted item behind.
THEOREM Drained == Spec => []DrainedAtStop
<1>1. IInv => DrainedAtStop
  <2> SUFFICES ASSUME IInv, stop = "returned" PROVE stored \cup handled = Tickets
    BY DEF DrainedAtStop
  <2>1. PICK p \in Processors : pc[p] = "done"
    BY ConstantsAssumption DEF IInv, ShutdownInv
  <2>2. taken = accepted
    BY <2>1 DEF IInv, ShutdownInv, IsCompleted
  <2>3. lost = {} /\ \A q \in Processors : buffer[q] = {}
    BY DEF IInv, ShutdownInv, BufferInv, HoldsItems
  <2>4. QED
    BY <2>2, <2>3 DEF IInv, TypeOK, ItemConservation, Settled, Tickets
<1>2. QED
  BY <1>1, Inductive, PTL

\* The pipeline implements its contract: each step is a step of AnalyticsDelivery
\* on closed, accepted, the three outcomes and the outcome of the shutdown.
THEOREM Refinement == Spec => DeliverySpec
<1>1. Init => Delivery!Init
  BY DEF Init, Delivery!Init
<1>2. IInv /\ [Next]_vars => [Delivery!Next]_Delivery!vars
  <2> SUFFICES ASSUME IInv, [Next]_vars PROVE [Delivery!Next]_Delivery!vars
    OBVIOUS
  <2> USE DEF Delivery!vars
  <2>0. ASSUME NEW p \in Processors, pc[p] \in HoldsItems
        PROVE  /\ buffer[p] \in SUBSET Delivery!Pending
               /\ buffer[p] # {} /\ Cardinality(buffer[p]) <= BufferCapacity
    <3>1. buffer[p] \subseteq Tickets /\ buffer[p] \cap Settled = {}
      BY DEF IInv, TypeOK, ItemConservation, Tickets
    <3>2. buffer[p] # {} /\ Cardinality(buffer[p]) <= BufferCapacity
      BY <2>0 DEF IInv, BufferInv
    <3>3. QED
      BY <3>1, <3>2 DEF Delivery!Pending, Settled, Tickets
  <2>1. CASE CompleteAdding
    BY <2>1 DEF CompleteAdding, outcomeVars, hostVars, Delivery!Next, Delivery!Close
  <2>2. ASSUME NEW r \in Requests, RequestStep(r) PROVE [Delivery!Next]_Delivery!vars
    <3>1. CASE EnqueueAdds(r)
      BY <3>1 DEF EnqueueAdds, outcomeVars, hostVars, Delivery!Next, Delivery!Accept
    <3>2. CASE EnqueueChecks(r) \/ RequestEnds(r)
      BY <3>2 DEF EnqueueChecks, RequestEnds, queueVars, outcomeVars, hostVars
    <3>3. QED
      BY <2>2, <3>1, <3>2 DEF RequestStep
  <2>3. ASSUME NEW p \in Processors,
               LoopTest(p) \/ TakeItem(p) \/ TakeNothing(p) \/ ResolveRepository(p) \/ StoreThrows(p)
        PROVE  [Delivery!Next]_Delivery!vars
    BY <2>3 DEF LoopTest, TakeItem, TakeNothing, ResolveRepository, StoreThrows,
         queueVars, outcomeVars, hostVars
  <2>4. ASSUME NEW p \in Processors, StoreSucceeds(p) \/ HandleError(p) \/ ResolveFails(p)
        PROVE  [Delivery!Next]_Delivery!vars
    <3>1. pc[p] \in HoldsItems
      BY <2>4 DEF StoreSucceeds, HandleError, ResolveFails, HoldsItems
    <3>. Delivery!Cardinality(buffer[p]) = Cardinality(buffer[p])
      BY DEF Delivery!Cardinality, Cardinality
    <3>2. Delivery!Settle(buffer[p])
      BY <2>0, <2>4, <3>1 DEF StoreSucceeds, HandleError, ResolveFails,
           queueVars, hostVars, Delivery!Settle
    <3>3. QED
      BY <2>0, <3>1, <3>2 DEF Delivery!Next
  <2>5. CASE StartAsync \/ StopAsync
    BY <2>5 DEF StartAsync, StopAsync, queueVars, outcomeVars
  <2>6. CASE WaitAllEnds
    <3>1. addingCompleted
      BY <2>6 DEF WaitAllEnds, IInv, ShutdownInv
    <3>2. CASE \E p \in Processors : pc[p] = "faulted"
      <4>1. stop' = "threw" /\ lost # {}
        BY <2>6, <3>2 DEF WaitAllEnds, IInv, ShutdownInv
      <4>2. QED
        BY <2>6, <3>1, <4>1 DEF WaitAllEnds, queueVars, outcomeVars, Delivery!Next, Delivery!Finish
    <3>3. CASE ~\E p \in Processors : pc[p] = "faulted"
      <4>1. stop' = "returned" /\ \A p \in Processors : pc[p] = "done"
        BY <2>6, <3>3 DEF WaitAllEnds, Ended
      <4>2. PICK p \in Processors : pc[p] = "done"
        BY <4>1, ConstantsAssumption
      <4>3. taken = accepted
        BY <4>2 DEF IInv, ShutdownInv, IsCompleted
      <4>4. lost = {} /\ \A q \in Processors : buffer[q] = {}
        BY <3>3, <4>1 DEF IInv, ShutdownInv, BufferInv, HoldsItems
      <4>5. Delivery!Pending = {}
        BY <4>3, <4>4 DEF IInv, TypeOK, ItemConservation, Settled, Delivery!Pending
      <4>6. QED
        BY <2>6, <3>1, <4>1, <4>4, <4>5
        DEF WaitAllEnds, queueVars, outcomeVars, Delivery!Next, Delivery!Finish
    <3>4. QED
      BY <3>2, <3>3
  <2>7. CASE UNCHANGED vars
    BY <2>7 DEF vars, queueVars, outcomeVars, hostVars
  <2>8. QED
    BY <2>1, <2>2, <2>3, <2>4, <2>5, <2>6, <2>7 DEF Next, ProcessorStep, StoreEnds
<1>3. QED
  BY <1>1, <1>2, Inductive, PTL DEF Spec, DeliverySpec, Delivery!Spec
=============================================================================
