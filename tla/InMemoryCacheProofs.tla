------------------------- MODULE InMemoryCacheProofs -------------------------
(***************************************************************************)
(* The safety of the in-memory cache, for any number of calls, threads,    *)
(* keys, monikers and tokens, whatever monikers the keys depend on.        *)
(***************************************************************************)
EXTENDS InMemoryCache, TLAPS

\* A call before its factory: it is on the thread that entered the lock for it.
Entered == {"draining", "notifying", "removing", "attaching", "registering"}

\* A call has a thread to itself and, until its factory is awaited, the lock and
\* the cache it began with; a thread that waits for the write lock runs no call.
LockInv ==
  /\ \A c \in Calls :
       /\ pc[c] \in Inside => key[c] \in Keys
       /\ pc[c] \in Entered => current[c] /\ readLocks[thread[c]] > 0
       /\ \A d \in Calls : c # d /\ thread[c] # None => thread[c] # thread[d]
       /\ thread[c] # None => thread[c] # clearing
  /\ clearing # None =>
       /\ writeLocks[clearing] < MaxLocks
       /\ readLocks[clearing] = 0 \/ writeLocks[clearing] > 0

\* The read locks that the threads hold.
Slots == {s \in Threads \X (1..MaxLocks) : s[2] <= readLocks[s[1]]}

Callers == {c \in Calls : pc[c] \in Inside}

\* Every call inside has a read lock of its own, on whatever thread; the ones that
\* nobody has were left by calls that ended on another thread.
EveryCallIsCounted ==
  \E slot \in [Callers -> Slots] :
    \A c, d \in Callers : slot[c] = slot[d] => c = d

\* No notification speaks of a version that the source has not reached.
SourceInv ==
  /\ \A m \in Monikers : announced[m] <= source[m]
  /\ \A i \in DOMAIN queue : queue[i].version <= source[queue[i].moniker]
  /\ \A c \in Calls :
       /\ pc[c] \in {"notifying", "removing"} =>
            note[c] \in Note /\ note[c].version <= source[note[c].moniker]
       /\ pc[c] \in {"removing", "registering"} => token[c] # None

\* The tokens that have changed, or will without anybody doing anything for it.
Gone == changed \cup evicting

\* A token that a call has created and not yet registered is its own, for one
\* moniker; one that it attached is registered until it is gone.
TokenInv ==
  /\ \A c \in Calls :
       /\ pc[c] = "factory" => Unattached(c) = {}
       /\ pc[c] \notin Inside => \A m \in Monikers : tokens[c][m] = None
       /\ pc[c] = "registering" =>
            /\ \A m \in Monikers : registered[m] # token[c]
            /\ \A d \in Calls, m \in Monikers : tokens[d][m] = token[c] => d = c
            /\ \A m, n \in Monikers : tokens[c][m] = token[c] /\ tokens[c][n] = token[c] => m = n
       /\ \A m \in Monikers :
            (/\ current[c] /\ tokens[c][m] # None /\ tokens[c][m] \notin Gone
             /\ pc[c] = "registering" => tokens[c][m] # token[c])
              => registered[m] = tokens[c][m]

\* What a factory read is no older than the last notification for any moniker
\* whose token is not gone.
ReadInv ==
  \A c \in Calls :
    /\ value[c] # None => pc[c] \in {"factory", "exiting"}
    /\ (pc[c] = "factory" /\ current[c] /\ value[c] # None) =>
         \A m \in Depends[key[c]] : tokens[c][m] \notin Gone => value[c][m] >= announced[m]

IInv ==
  /\ TypeOK
  /\ LockInv
  /\ EveryCallIsCounted
  /\ SourceInv
  /\ TokenInv
  /\ ReadInv
  /\ LiveItemIsReachable
  /\ LiveItemIsFresh

-----------------------------------------------------------------------------
\* The inductive invariant holds initially.
LEMMA InitialState == Init => IInv
<1> SUFFICES ASSUME Init PROVE IInv
  OBVIOUS
<1>1. TypeOK
  BY ConstantsAssumption DEF Init, TypeOK, Inside, OnThread, NoTokens, Version
<1>2. LockInv /\ SourceInv /\ TokenInv /\ ReadInv
  BY DEF Init, LockInv, SourceInv, TokenInv, ReadInv, Inside, OnThread, Entered, NoTokens
<1>3. EveryCallIsCounted
  <2>1. Callers = {}
    BY DEF Init, Callers, Inside, OnThread
  <2>2. [c \in Callers |-> 0] \in [Callers -> Slots]
    BY <2>1
  <2>3. QED
    BY <2>1, <2>2 DEF EveryCallIsCounted
<1>4. LiveItemIsReachable /\ LiveItemIsFresh
  BY DEF Init, LiveItemIsReachable, LiveItemIsFresh
<1>5. QED
  BY <1>1, <1>2, <1>3, <1>4 DEF IInv

\* Every step of the cache keeps the state well typed.
LEMMA TypeStep == TypeOK /\ LockInv /\ SourceInv /\ TokenInv /\ [Next]_vars => TypeOK'
<1> SUFFICES ASSUME TypeOK, LockInv, SourceInv, TokenInv, [Next]_vars PROVE TypeOK'
  OBVIOUS
<1> USE DEF TypeOK, Inside, OnThread, lockVars, cacheVars, sourceVars, callVars
<1>1. ASSUME NEW c \in Calls, NEW t \in Threads, Refused(c, t) PROVE TypeOK'
  BY <1>1 DEF Refused
<1>2. ASSUME NEW c \in Calls, NEW t \in Threads, Resume(c, t), entry' \in [Keys -> Item \cup {None}]
      PROVE TypeOK'
  BY <1>2, ConstantsAssumption DEF Resume
<1>3. ASSUME NEW c \in Calls, NEW t \in Threads, FactoryReturns(c, t) PROVE TypeOK'
  <2> DEFINE item == [value |-> value[c], tokens |-> {tokens[c][m] : m \in Depends[key[c]]}]
  <2>1. pc[c] = "factory" /\ value[c] # None
    BY <1>3 DEF FactoryReturns, Resume
  <2>2. entry' = IF ~current[c] THEN entry
                 ELSE [entry EXCEPT ![key[c]] = IF Live(item) THEN item ELSE None]
    BY <1>3 DEF FactoryReturns
  <2>3. item \in Item
    <3>1. key[c] \in Keys /\ Depends[key[c]] \subseteq Monikers
      BY <2>1, ConstantsAssumption DEF LockInv
    <3>2. \A m \in Depends[key[c]] : tokens[c][m] \in Tokens
      BY <2>1, <3>1 DEF TokenInv, Unattached
    <3>3. value[c] \in Version
      BY <2>1
    <3>4. QED
      BY <3>2, <3>3 DEF Item
  <2> HIDE DEF item
  <2>4. entry' \in [Keys -> Item \cup {None}]
    BY <2>2, <2>3
  <2>5. QED
    BY <1>2, <1>3, <2>4 DEF FactoryReturns
<1>4. ASSUME NEW c \in Calls, NEW t \in Threads, FactoryThrows(c, t) PROVE TypeOK'
  BY <1>2, <1>4 DEF FactoryThrows
<1>5. ASSUME NEW c \in Calls, NEW t \in Threads, NEW k \in Keys, Enter(c, t, k) PROVE TypeOK'
  <2>1. t # None /\ readLocks[t] + 1 \in 0..MaxLocks
    BY <1>5, ConstantsAssumption DEF Enter
  <2>2. QED
    BY <1>5, <2>1 DEF Enter
<1>6. ASSUME NEW c \in Calls, UncachedEnds(c) PROVE TypeOK'
  BY <1>6 DEF UncachedEnds
<1>7. ASSUME NEW c \in Calls, ExitReadLock(c) \/ ExitReadLockThrows(c) PROVE TypeOK'
  <2>1. pc[c] = "exiting"
    BY <1>7 DEF ExitReadLock, ExitReadLockThrows
  <2>2. thread[c] \in Threads
    BY <2>1
  <2>3. readLocks' \in [Threads -> 0..MaxLocks]
    <3>1. CASE ExitReadLock(c)
      <4>1. readLocks[thread[c]] - 1 \in 0..MaxLocks
        BY <2>2, <3>1, ConstantsAssumption DEF ExitReadLock
      <4>2. QED
        BY <3>1, <4>1 DEF ExitReadLock
    <3>2. CASE ExitReadLockThrows(c)
      BY <3>2 DEF ExitReadLockThrows
    <3>3. QED
      BY <1>7, <3>1, <3>2
  <2>4. NoTokens \in [Monikers -> Tokens \cup {None}]
    BY DEF NoTokens
  <2>5. Forget(c) /\ UNCHANGED <<writeLocks, clearing, cacheVars, sourceVars>>
    BY <1>7 DEF ExitReadLock, ExitReadLockThrows
  <2>6. \A d \in Calls : thread'[d] # None <=> pc'[d] \in OnThread
    BY <2>5 DEF Forget
  <2>7. QED
    BY <2>3, <2>4, <2>5, <2>6 DEF Forget
<1>8. ASSUME NEW c \in Calls, Dequeue(c) PROVE TypeOK'
  <2>1. Head(queue) \in Note /\ Tail(queue) \in Seq(Note) /\ Len(Tail(queue)) <= MaxQueue
    BY <1>8, ConstantsAssumption DEF Dequeue
  <2>2. QED
    BY <1>8, <2>1 DEF Dequeue
<1>9. ASSUME NEW c \in Calls, NotifyFinds(c) PROVE TypeOK'
  BY <1>9 DEF NotifyFinds, SourceInv, Note
<1>10. ASSUME NEW c \in Calls, pc[c] \in {"notifying", "removing"}, Announce(note[c])
       PROVE announced' \in Version
  BY <1>10 DEF Announce, SourceInv, Note, Version
<1>11. ASSUME NEW c \in Calls, NotifyMisses(c) PROVE TypeOK'
  BY <1>10, <1>11 DEF NotifyMisses
<1>12. ASSUME NEW c \in Calls, NotifyRemoves(c) PROVE TypeOK'
  <2>1. note[c].moniker \in Monikers /\ token[c] \in Tokens
    BY <1>12 DEF NotifyRemoves, SourceInv, Note
  <2>2. QED
    BY <1>10, <1>12, <2>1 DEF NotifyRemoves
<1>13. ASSUME NEW c \in Calls, Hit(c) \/ Miss(c) PROVE TypeOK'
  BY <1>13 DEF Hit, Miss
<1>14. ASSUME NEW c \in Calls, InvokeFactory(c) \/ FactoryReads(c) PROVE TypeOK'
  <2>1. CASE InvokeFactory(c)
    BY <2>1 DEF InvokeFactory
  <2>2. CASE FactoryReads(c)
    BY <2>2 DEF FactoryReads
  <2>3. QED
    BY <1>14, <2>1, <2>2
<1>15. ASSUME NEW c \in Calls, NEW m \in Monikers, Attach(c, m) PROVE TypeOK'
  BY <1>15 DEF Attach
<1>16. ASSUME NEW c \in Calls, NEW m \in Monikers, RegisterToken(c, m) PROVE TypeOK'
  BY <1>16 DEF RegisterToken
<1>17. ASSUME NEW c \in Calls, NEW m \in Monikers, NEW t \in Tokens, CreateToken(c, m, t) PROVE TypeOK'
  BY <1>17 DEF CreateToken
<1>18. ASSUME NEW t \in Tokens, ChangeTokenEvicted(t) PROVE TypeOK'
  BY <1>18 DEF ChangeTokenEvicted
<1>19. ASSUME NEW k \in Keys, Remove(k) PROVE TypeOK'
  BY <1>19 DEF Remove
<1>20. ASSUME NEW t \in Threads, ClearBegins(t) PROVE TypeOK'
  BY <1>20 DEF ClearBegins
<1>21. CASE ClearAsync
  BY <1>21, ConstantsAssumption DEF ClearAsync, LockInv
<1>22. CASE ClearTimesOut
  BY <1>22 DEF ClearTimesOut
<1>23. ASSUME NEW m \in Monikers, SourceChanges(m) PROVE TypeOK'
  BY <1>23, ConstantsAssumption DEF SourceChanges, Version
<1>24. ASSUME NEW m \in Monikers, NotifyChanged(m) PROVE TypeOK'
  <2> DEFINE n == [moniker |-> m, version |-> source[m]]
  <2>1. n \in Note
    BY DEF Note, Version
  <2>2. queue' = Append(queue, n) /\ Len(queue) < MaxQueue
    BY <1>24 DEF NotifyChanged
  <2> HIDE DEF n
  <2>3. queue' \in Seq(Note) /\ Len(queue') <= MaxQueue
    BY <2>1, <2>2, ConstantsAssumption
  <2>4. QED
    BY <1>24, <2>3 DEF NotifyChanged
<1>25. CASE UNCHANGED vars
  BY <1>25 DEF vars
<1>26. QED
  BY <1>1, <1>3, <1>4, <1>5, <1>6, <1>7, <1>8, <1>9, <1>11, <1>12, <1>13, <1>14, <1>15, <1>16, <1>17,
     <1>18, <1>19, <1>20, <1>21, <1>22, <1>23, <1>24, <1>25 DEF Next, CallStep

\* Nobody takes the lock or the thread of a call before its factory is awaited.
LEMMA LockStep == TypeOK /\ LockInv /\ [Next]_vars => LockInv'
<1> SUFFICES ASSUME TypeOK, LockInv, [Next]_vars PROVE LockInv'
  OBVIOUS
<1> USE DEF TypeOK, LockInv, Inside, OnThread, Entered, lockVars, cacheVars, sourceVars, callVars
<1>1. ASSUME NEW c \in Calls, NEW t \in Threads, Refused(c, t) PROVE LockInv'
  BY <1>1 DEF Refused
<1>2. ASSUME NEW c \in Calls, NEW t \in Threads, Resume(c, t) PROVE LockInv'
  BY <1>2 DEF Resume, Available
<1>3. ASSUME NEW c \in Calls, NEW t \in Threads, FactoryReturns(c, t) \/ FactoryThrows(c, t) PROVE LockInv'
  BY <1>2, <1>3 DEF FactoryReturns, FactoryThrows
<1>4. ASSUME NEW c \in Calls, NEW t \in Threads, NEW k \in Keys, Enter(c, t, k) PROVE LockInv'
  BY <1>4, ConstantsAssumption DEF Enter, Available
<1>5. ASSUME NEW c \in Calls, UncachedEnds(c) PROVE LockInv'
  BY <1>5 DEF UncachedEnds
<1>6. ASSUME NEW c \in Calls, ExitReadLock(c) PROVE LockInv'
  <2>1. thread[c] \in Threads /\ thread[c] # clearing
    BY <1>6 DEF ExitReadLock
  <2>2. \A d \in Calls : d # c => thread[d] # thread[c]
    BY <2>1, ConstantsAssumption
  <2>3. QED
    BY <1>6, <2>1, <2>2 DEF ExitReadLock, Forget
<1>7. ASSUME NEW c \in Calls, ExitReadLockThrows(c) PROVE LockInv'
  BY <1>7 DEF ExitReadLockThrows, Forget
<1>8. ASSUME NEW c \in Calls, Dequeue(c) \/ NotifyFinds(c) \/ NotifyMisses(c) \/ NotifyRemoves(c) PROVE LockInv'
  BY <1>8 DEF Dequeue, NotifyFinds, NotifyMisses, NotifyRemoves
<1>9. ASSUME NEW c \in Calls, Hit(c) \/ Miss(c) PROVE LockInv'
  BY <1>9 DEF Hit, Miss
<1>10. ASSUME NEW c \in Calls, InvokeFactory(c) \/ FactoryReads(c) PROVE LockInv'
  BY <1>10 DEF InvokeFactory, FactoryReads
<1>11. ASSUME NEW c \in Calls, NEW m \in Monikers, Attach(c, m) \/ RegisterToken(c, m) PROVE LockInv'
  BY <1>11 DEF Attach, RegisterToken
<1>12. ASSUME NEW c \in Calls, NEW m \in Monikers, NEW t \in Tokens, CreateToken(c, m, t) PROVE LockInv'
  BY <1>12 DEF CreateToken
<1>13. ASSUME NEW t \in Tokens, ChangeTokenEvicted(t) PROVE LockInv'
  BY <1>13 DEF ChangeTokenEvicted
<1>14. ASSUME NEW k \in Keys, Remove(k) PROVE LockInv'
  BY <1>14 DEF Remove
<1>15. ASSUME NEW t \in Threads, ClearBegins(t) PROVE LockInv'
  BY <1>15 DEF ClearBegins, Available
<1>16. CASE ClearAsync
  <2>1. clearing \in Threads /\ \A u \in Threads \ {clearing} : readLocks[u] = 0
    BY <1>16 DEF ClearAsync, CanWrite
  <2>2. \A c \in Calls : pc[c] \notin Entered
    <3> SUFFICES ASSUME NEW c \in Calls, pc[c] \in Entered PROVE FALSE
      OBVIOUS
    <3>1. thread[c] # None
      OBVIOUS
    <3>2. thread[c] \in Threads \ {clearing} /\ readLocks[thread[c]] > 0
      BY <3>1
    <3>3. QED
      BY <2>1, <3>2
  <2>3. QED
    BY <1>16, <2>2 DEF ClearAsync
<1>17. CASE ClearTimesOut
  BY <1>17 DEF ClearTimesOut
<1>18. ASSUME NEW m \in Monikers, SourceChanges(m) \/ NotifyChanged(m) PROVE LockInv'
  BY <1>18 DEF SourceChanges, NotifyChanged
<1>19. CASE UNCHANGED vars
  BY <1>19 DEF vars
<1>20. QED
  BY <1>1, <1>3, <1>4, <1>5, <1>6, <1>7, <1>8, <1>9, <1>10, <1>11, <1>12, <1>13, <1>14, <1>15, <1>16, <1>17,
     <1>18, <1>19 DEF Next, CallStep

\* A call that leaves hands its read lock to the call that had the one it exits:
\* the others still have one each.
LEMMA LeavingKeepsTheCount ==
  ASSUME TypeOK, EveryCallIsCounted, NEW c \in Calls, pc[c] = "exiting",
         ExitReadLock(c) \/ ExitReadLockThrows(c)
  PROVE  EveryCallIsCounted'
<1> USE DEF TypeOK
<1>1. PICK slot \in [Callers -> Slots] : \A d, e \in Callers : slot[d] = slot[e] => d = e
  BY DEF EveryCallIsCounted
<1>2. c \in Callers /\ Callers' = Callers \ {c}
  BY DEF Callers, Inside, OnThread, ExitReadLock, ExitReadLockThrows, Forget
<1>3. CASE ExitReadLockThrows(c)
  <2>1. Slots' = Slots
    BY <1>3 DEF Slots, ExitReadLockThrows, lockVars
  <2> DEFINE f == [d \in Callers' |-> slot[d]]
  <2>2. f \in [Callers' -> Slots']
    BY <1>1, <1>2, <2>1
  <2>3. \A d, e \in Callers' : f[d] = f[e] => d = e
    BY <1>1, <1>2
  <2>4. QED
    BY <2>2, <2>3 DEF EveryCallIsCounted
<1>4. CASE ExitReadLock(c)
  <2> DEFINE u == thread[c]
             last == <<u, readLocks[u]>>
             f == [d \in Callers' |-> IF slot[d] = last THEN slot[c] ELSE slot[d]]
  <2>1. u \in Threads /\ readLocks[u] \in 1..MaxLocks
    BY <1>4, ConstantsAssumption DEF ExitReadLock, OnThread
  <2>2. readLocks' = [readLocks EXCEPT ![u] = readLocks[u] - 1]
    BY <1>4 DEF ExitReadLock
  <2>3. Slots' = Slots \ {last}
    <3>1. ASSUME NEW s \in Threads \X (1..MaxLocks)
          PROVE s \in Slots' <=> s \in Slots /\ s # last
      <4>1. PICK t \in Threads, n \in 1..MaxLocks : s = <<t, n>>
        BY <3>1
      <4>2. s \in Slots' <=> n <= readLocks'[t]
        BY <3>1, <4>1 DEF Slots
      <4>3. s \in Slots <=> n <= readLocks[t]
        BY <3>1, <4>1 DEF Slots
      <4>4. s = last <=> t = u /\ n = readLocks[u]
        BY <4>1
      <4>5. n <= readLocks'[t] <=> n <= readLocks[t] /\ ~(t = u /\ n = readLocks[u])
        BY <2>1, <2>2, ConstantsAssumption
      <4>6. QED
        BY <4>2, <4>3, <4>4, <4>5
    <3>2. Slots \subseteq Threads \X (1..MaxLocks) /\ Slots' \subseteq Threads \X (1..MaxLocks)
      BY DEF Slots
    <3>3. QED
      BY <3>1, <3>2
  <2> HIDE DEF last
  <2>4. \A d \in Callers' : slot[d] \in Slots /\ slot[c] \in Slots /\ slot[d] # slot[c]
    BY <1>1, <1>2
  <2>5. f \in [Callers' -> Slots']
    BY <2>3, <2>4
  <2>6. \A d, e \in Callers' : f[d] = f[e] => d = e
    BY <1>1, <1>2, <2>4
  <2> HIDE DEF f
  <2>7. QED
    BY <2>5, <2>6 DEF EveryCallIsCounted
<1>5. QED
  BY <1>3, <1>4

\* A call that enters takes the read lock that its thread gets on top of its others.
LEMMA EnteringKeepsTheCount ==
  ASSUME TypeOK, EveryCallIsCounted, NEW c \in Calls, NEW t \in Threads, NEW k \in Keys, Enter(c, t, k)
  PROVE  EveryCallIsCounted'
<1> USE DEF TypeOK
<1>1. PICK slot \in [Callers -> Slots] : \A d, e \in Callers : slot[d] = slot[e] => d = e
  BY DEF EveryCallIsCounted
<1>2. c \notin Callers /\ Callers' = Callers \cup {c}
  BY DEF Callers, Inside, OnThread, Enter
<1> DEFINE new == <<t, readLocks[t] + 1>>
           f == [d \in Callers' |-> IF d = c THEN new ELSE slot[d]]
<1>3. readLocks[t] \in Nat /\ readLocks[t] + 1 \in 1..MaxLocks
  BY ConstantsAssumption DEF Enter
<1>4. readLocks' = [readLocks EXCEPT ![t] = readLocks[t] + 1]
  BY DEF Enter
<1>5. new \in Slots' /\ new \notin Slots
  BY <1>3, <1>4 DEF Slots
<1>6. Slots \subseteq Slots'
  <2> SUFFICES ASSUME NEW u \in Threads, NEW n \in 1..MaxLocks, <<u, n>> \in Slots
               PROVE <<u, n>> \in Slots'
    BY DEF Slots
  <2>1. n <= readLocks[u] /\ n \in Nat /\ readLocks[u] \in Nat
    BY ConstantsAssumption DEF Slots
  <2>2. n <= readLocks'[u]
    BY <1>3, <1>4, <2>1
  <2>3. QED
    BY <2>2 DEF Slots
<1> HIDE DEF new
<1>7. f \in [Callers' -> Slots']
  BY <1>1, <1>2, <1>5, <1>6
<1>8. \A d, e \in Callers' : f[d] = f[e] => d = e
  BY <1>1, <1>2, <1>5
<1> HIDE DEF f
<1>9. QED
  BY <1>7, <1>8 DEF EveryCallIsCounted

\* No step leaves a call without a read lock of its own.
LEMMA CountStep == TypeOK /\ EveryCallIsCounted /\ [Next]_vars => EveryCallIsCounted'
<1> SUFFICES ASSUME TypeOK, EveryCallIsCounted, [Next]_vars PROVE EveryCallIsCounted'
  OBVIOUS
<1>1. ASSUME Callers' = Callers, readLocks' = readLocks PROVE EveryCallIsCounted'
  <2>1. Slots' = Slots
    BY <1>1 DEF Slots
  <2>2. QED
    BY <1>1, <2>1 DEF EveryCallIsCounted
<1> USE DEF Inside, OnThread, lockVars, callVars
<1>2. ASSUME NEW c \in Calls, NEW t \in Threads, Refused(c, t) \/ FactoryReturns(c, t) \/ FactoryThrows(c, t)
      PROVE EveryCallIsCounted'
  BY <1>1, <1>2 DEF Callers, Refused, FactoryReturns, FactoryThrows, Resume, TypeOK
<1>3. ASSUME NEW c \in Calls, NEW t \in Threads, NEW k \in Keys, Enter(c, t, k) PROVE EveryCallIsCounted'
  BY <1>3, EnteringKeepsTheCount
<1>4. ASSUME NEW c \in Calls, ExitReadLock(c) \/ ExitReadLockThrows(c) PROVE EveryCallIsCounted'
  BY <1>4, LeavingKeepsTheCount DEF ExitReadLock, ExitReadLockThrows
<1>5. ASSUME NEW c \in Calls,
             \/ UncachedEnds(c) \/ Dequeue(c) \/ NotifyFinds(c) \/ NotifyMisses(c) \/ NotifyRemoves(c)
             \/ Hit(c) \/ Miss(c) \/ InvokeFactory(c) \/ FactoryReads(c)
             \/ \E m \in Monikers : Attach(c, m) \/ RegisterToken(c, m)
             \/ \E m \in Monikers, t \in Tokens : CreateToken(c, m, t)
      PROVE EveryCallIsCounted'
  <2>1. Callers' = Callers
    BY <1>5 DEF Callers, TypeOK, UncachedEnds, Dequeue, NotifyFinds, NotifyMisses, NotifyRemoves, Hit, Miss,
                InvokeFactory, FactoryReads, Attach, RegisterToken, CreateToken
  <2>2. readLocks' = readLocks
    BY <1>5 DEF UncachedEnds, Dequeue, NotifyFinds, NotifyMisses, NotifyRemoves, Hit, Miss,
                InvokeFactory, FactoryReads, Attach, RegisterToken, CreateToken
  <2>3. QED
    BY <1>1, <2>1, <2>2
<1>6. CASE \/ \E t \in Tokens : ChangeTokenEvicted(t)
           \/ \E k \in Keys : Remove(k)
           \/ \E t \in Threads : ClearBegins(t)
           \/ ClearAsync \/ ClearTimesOut
           \/ \E m \in Monikers : SourceChanges(m) \/ NotifyChanged(m)
           \/ UNCHANGED vars
  BY <1>1, <1>6 DEF Callers, ChangeTokenEvicted, Remove, ClearBegins, ClearAsync, ClearTimesOut,
                    SourceChanges, NotifyChanged, vars
<1>7. QED
  BY <1>2, <1>3, <1>4, <1>5, <1>6 DEF Next, CallStep

\* A notification carries the version of its moment, and the source only moves on.
LEMMA SourceStep == TypeOK /\ SourceInv /\ [Next]_vars => SourceInv'
<1> SUFFICES ASSUME TypeOK, SourceInv, [Next]_vars PROVE SourceInv'
  OBVIOUS
<1> USE DEF TypeOK, SourceInv, lockVars, cacheVars, sourceVars, callVars
<1>1. \A m \in Monikers : source[m] \in Nat /\ announced[m] \in Nat
  BY ConstantsAssumption DEF Version
<1>2. \A n \in Note : n.moniker \in Monikers /\ n.version \in Nat
  BY ConstantsAssumption DEF Note
<1>3. \A i \in DOMAIN queue : queue[i] \in Note
  OBVIOUS
<1>4. ASSUME NEW c \in Calls, NEW t \in Threads, Refused(c, t) \/ FactoryReturns(c, t) \/ FactoryThrows(c, t)
      PROVE SourceInv'
  BY <1>4 DEF Refused, FactoryReturns, FactoryThrows, Resume
<1>5. ASSUME NEW c \in Calls, NEW t \in Threads, NEW k \in Keys, Enter(c, t, k) PROVE SourceInv'
  BY <1>5 DEF Enter
<1>6. ASSUME NEW c \in Calls, UncachedEnds(c) \/ ExitReadLock(c) \/ ExitReadLockThrows(c) PROVE SourceInv'
  BY <1>6 DEF UncachedEnds, ExitReadLock, ExitReadLockThrows, Forget
<1>7. ASSUME NEW c \in Calls, Dequeue(c) PROVE SourceInv'
  <2>1. Head(queue) = queue[1] /\ 1 \in DOMAIN queue
    BY <1>7 DEF Dequeue
  <2>2. \A i \in DOMAIN Tail(queue) : i + 1 \in DOMAIN queue /\ Tail(queue)[i] = queue[i + 1]
    BY <1>7 DEF Dequeue
  <2>3. \A i \in DOMAIN queue' : queue'[i].version <= source'[queue'[i].moniker]
    BY <1>7, <2>2 DEF Dequeue
  <2>4. QED
    BY <1>3, <1>7, <2>1, <2>3 DEF Dequeue
<1>8. ASSUME NEW c \in Calls, NotifyFinds(c) PROVE SourceInv'
  <2>1. note[c].moniker \in Monikers
    BY <1>2, <1>8 DEF NotifyFinds
  <2>2. QED
    BY <1>8, <2>1 DEF NotifyFinds
<1>9. ASSUME NEW c \in Calls, pc[c] \in {"notifying", "removing"}, Announce(note[c]), source' = source
      PROVE \A m \in Monikers : announced'[m] <= source'[m]
  <2>1. note[c] \in Note /\ note[c].version <= source[note[c].moniker]
    BY <1>9
  <2>2. QED
    BY <1>1, <1>2, <1>9, <2>1 DEF Announce
<1>10. ASSUME NEW c \in Calls, NotifyMisses(c) PROVE SourceInv'
  BY <1>9, <1>10 DEF NotifyMisses
<1>11. ASSUME NEW c \in Calls, NotifyRemoves(c) PROVE SourceInv'
  BY <1>9, <1>11 DEF NotifyRemoves
<1>12. ASSUME NEW c \in Calls, Hit(c) \/ Miss(c) \/ InvokeFactory(c) \/ FactoryReads(c) PROVE SourceInv'
  BY <1>12 DEF Hit, Miss, InvokeFactory, FactoryReads
<1>13. ASSUME NEW c \in Calls, NEW m \in Monikers, Attach(c, m) \/ RegisterToken(c, m) PROVE SourceInv'
  BY <1>13 DEF Attach, RegisterToken
<1>14. ASSUME NEW c \in Calls, NEW m \in Monikers, NEW t \in Tokens, CreateToken(c, m, t) PROVE SourceInv'
  BY <1>14, ConstantsAssumption DEF CreateToken
<1>15. CASE \/ \E t \in Tokens : ChangeTokenEvicted(t)
            \/ \E k \in Keys : Remove(k)
            \/ \E t \in Threads : ClearBegins(t)
            \/ ClearAsync \/ ClearTimesOut \/ UNCHANGED vars
  BY <1>15 DEF ChangeTokenEvicted, Remove, ClearBegins, ClearAsync, ClearTimesOut, vars
<1>16. ASSUME NEW m \in Monikers, SourceChanges(m) PROVE SourceInv'
  <2>1. \A n \in Monikers : source'[n] \in Nat /\ source[n] <= source'[n]
    BY <1>1, <1>16 DEF SourceChanges
  <2>2. \A n \in Note : n.version <= source[n.moniker] => n.version <= source'[n.moniker]
    BY <1>1, <1>2, <2>1
  <2>3. ASSUME NEW n \in Monikers PROVE announced[n] <= source'[n]
    <3>1. announced[n] <= source[n]
      OBVIOUS
    <3>2. QED
      BY <1>1, <2>1, <3>1
  <2>4. QED
    BY <1>3, <1>16, <2>2, <2>3 DEF SourceChanges
<1>17. ASSUME NEW m \in Monikers, NotifyChanged(m) PROVE SourceInv'
  <2> DEFINE n == [moniker |-> m, version |-> source[m]]
  <2>1. n.version <= source[n.moniker] /\ n \in Note
    BY <1>1 DEF Note, Version
  <2>2. queue' = Append(queue, n)
    BY <1>17 DEF NotifyChanged
  <2> HIDE DEF n
  <2>3. \A i \in DOMAIN queue' : (i \in DOMAIN queue /\ queue'[i] = queue[i]) \/ queue'[i] = n
    BY <2>1, <2>2
  <2>4. QED
    BY <1>17, <2>1, <2>3 DEF NotifyChanged
<1>18. QED
  BY <1>4, <1>5, <1>6, <1>7, <1>8, <1>10, <1>11, <1>12, <1>13, <1>14, <1>15, <1>16, <1>17 DEF Next, CallStep

-----------------------------------------------------------------------------
\* What a step may do to the tokens: one that is no longer registered, or whose
\* moniker is announced, is gone; one comes back only when nobody refers to it.
Orderly ==
  /\ \A m \in Monikers :
       registered'[m] # registered[m] \/ announced'[m] # announced[m]
         => registered[m] = None \/ registered[m] \in Gone'
  /\ \A d \in Gone \ Gone' : ~Referenced(d)

\* Only ClearAsync, which replaces the cache, drops tokens in another way.
LEMMA StepsAreOrderly ==
  ASSUME TypeOK, SourceInv, [Next]_vars, ~ClearAsync
  PROVE  Orderly
<1> USE DEF TypeOK, Orderly, Gone, lockVars, cacheVars, sourceVars, callVars
<1>1. ASSUME NEW c \in Calls, NEW t \in Threads, Refused(c, t) \/ FactoryReturns(c, t) \/ FactoryThrows(c, t)
      PROVE Orderly
  BY <1>1 DEF Refused, FactoryReturns, FactoryThrows, Resume
<1>2. ASSUME NEW c \in Calls, NEW t \in Threads, NEW k \in Keys, Enter(c, t, k) PROVE Orderly
  BY <1>2 DEF Enter
<1>3. ASSUME NEW c \in Calls,
             \/ UncachedEnds(c) \/ ExitReadLock(c) \/ ExitReadLockThrows(c) \/ Dequeue(c) \/ NotifyFinds(c)
             \/ Hit(c) \/ Miss(c) \/ InvokeFactory(c) \/ FactoryReads(c)
      PROVE Orderly
  BY <1>3 DEF UncachedEnds, ExitReadLock, ExitReadLockThrows, Dequeue, NotifyFinds, Hit, Miss, InvokeFactory,
              FactoryReads
<1>4. ASSUME NEW c \in Calls, pc[c] \in {"notifying", "removing"}, Announce(note[c]),
             NEW m \in Monikers, m # note[c].moniker
      PROVE announced'[m] = announced[m]
  BY <1>4 DEF Announce, Version
<1>5. ASSUME NEW c \in Calls, NotifyMisses(c) PROVE Orderly
  BY <1>4, <1>5 DEF NotifyMisses
<1>6. ASSUME NEW c \in Calls, NotifyRemoves(c) PROVE Orderly
  BY <1>4, <1>6 DEF NotifyRemoves
<1>7. ASSUME NEW c \in Calls, NEW m \in Monikers, Attach(c, m) PROVE Orderly
  BY <1>7 DEF Attach
<1>8. ASSUME NEW c \in Calls, NEW m \in Monikers, RegisterToken(c, m) PROVE Orderly
  BY <1>8 DEF RegisterToken
<1>9. ASSUME NEW c \in Calls, NEW m \in Monikers, NEW t \in Tokens, CreateToken(c, m, t) PROVE Orderly
  BY <1>9 DEF CreateToken
<1>10. ASSUME NEW t \in Tokens, ChangeTokenEvicted(t) PROVE Orderly
  BY <1>10 DEF ChangeTokenEvicted
<1>11. CASE \/ \E k \in Keys : Remove(k)
            \/ \E t \in Threads : ClearBegins(t)
            \/ ClearTimesOut
            \/ \E m \in Monikers : SourceChanges(m) \/ NotifyChanged(m)
            \/ UNCHANGED vars
  BY <1>11 DEF Remove, ClearBegins, ClearTimesOut, SourceChanges, NotifyChanged, vars
<1>12. QED
  BY <1>1, <1>2, <1>3, <1>5, <1>6, <1>7, <1>8, <1>9, <1>10, <1>11 DEF Next, CallStep

\* A token of a call or of an item that a step leaves valid was valid before it.
LEMMA ValidTokens ==
  ASSUME TypeOK, Orderly
  PROVE  /\ \A c \in Calls, m \in Monikers : tokens[c][m] \notin Gone' => tokens[c][m] \notin Gone
         /\ \A k \in Keys : entry[k] # None =>
              \A d \in entry[k].tokens : d \notin Gone' => d \notin Gone
<1>1. ASSUME NEW c \in Calls, NEW m \in Monikers PROVE Referenced(tokens[c][m])
  BY DEF Referenced, Range, TypeOK
<1>2. ASSUME NEW k \in Keys, entry[k] # None, NEW d \in entry[k].tokens PROVE Referenced(d)
  BY <1>2 DEF Referenced
<1>3. QED
  BY <1>1, <1>2 DEF Orderly

\* Tokens stay with their moniker, and a call's with the call until it registers
\* them; a clear finds no call that would.
LEMMA TokenStep == TypeOK /\ LockInv /\ SourceInv /\ TokenInv /\ [Next]_vars => TokenInv'
<1> SUFFICES ASSUME TypeOK, LockInv, SourceInv, TokenInv, [Next]_vars PROVE TokenInv'
  OBVIOUS
<1> USE DEF TokenInv, Unattached, Inside, OnThread, lockVars, cacheVars, sourceVars, callVars
<1>1. ASSUME UNCHANGED <<tokens, token, registered, changed, evicting, current>>,
             \A c \in Calls :
               /\ pc'[c] = "factory" => pc[c] = "factory" /\ key'[c] = key[c]
               /\ pc'[c] = "registering" <=> pc[c] = "registering"
               /\ pc[c] \notin Inside <=> pc'[c] \notin Inside
      PROVE TokenInv'
  <2>1. Gone' = Gone
    BY <1>1 DEF Gone
  <2>2. QED
    BY <1>1, <2>1
<1>2. ASSUME NEW c \in Calls, NEW t \in Threads, Refused(c, t) \/ FactoryReturns(c, t) \/ FactoryThrows(c, t)
      PROVE TokenInv'
  BY <1>1, <1>2 DEF Refused, FactoryReturns, FactoryThrows, Resume, TypeOK
<1>3. ASSUME NEW c \in Calls, NEW t \in Threads, NEW k \in Keys, Enter(c, t, k) PROVE TokenInv'
  <2>1. Gone' = Gone
    BY <1>3 DEF Gone, Enter
  <2>2. QED
    BY <1>3, <2>1 DEF Enter, TypeOK
<1>4. ASSUME NEW c \in Calls,
             \/ UncachedEnds(c) \/ Dequeue(c) \/ NotifyMisses(c) \/ Hit(c) \/ Miss(c) \/ FactoryReads(c)
      PROVE TokenInv'
  BY <1>1, <1>4 DEF UncachedEnds, Dequeue, NotifyMisses, Hit, Miss, FactoryReads, TypeOK
<1>5. ASSUME NEW c \in Calls, ExitReadLock(c) \/ ExitReadLockThrows(c) PROVE TokenInv'
  <2>1. Forget(c) /\ UNCHANGED cacheVars /\ pc[c] = "exiting"
    BY <1>5 DEF ExitReadLock, ExitReadLockThrows
  <2>2. Gone' = Gone
    BY <2>1 DEF Gone
  <2>3. tokens' = [tokens EXCEPT ![c] = NoTokens] /\ \A m \in Monikers : tokens'[c][m] = None
    BY <2>1 DEF Forget, NoTokens, TypeOK
  <2>4. \A d \in Calls : pc'[d] = "registering" => d # c /\ token[d] # None
    BY <2>1 DEF Forget, TypeOK, SourceInv
  <2>5. QED
    BY <2>1, <2>2, <2>3, <2>4 DEF Forget, TypeOK
<1>6. ASSUME NEW c \in Calls, NotifyFinds(c) PROVE TokenInv'
  <2>1. Gone' = Gone
    BY <1>6 DEF Gone, NotifyFinds
  <2>2. QED
    BY <1>6, <2>1 DEF NotifyFinds, TypeOK
<1>7. ASSUME NEW c \in Calls, NotifyRemoves(c) PROVE TokenInv'
  <2>1. /\ \A m \in Monikers : registered'[m] = registered[m] \/ registered'[m] = None
        /\ \A m \in Monikers : registered[m] # None /\ registered[m] \notin Gone' => registered'[m] = registered[m]
        /\ Gone \subseteq Gone'
    BY <1>7 DEF Gone, NotifyRemoves, TypeOK
  <2>2. \A d \in Calls : pc'[d] = "registering" => d # c /\ pc[d] = "registering" /\ token[d] # None
    BY <1>7 DEF NotifyRemoves, TypeOK, SourceInv
  <2>3. \A d \in Calls : d # c => token'[d] = token[d] /\ pc'[d] = pc[d]
    BY <1>7 DEF NotifyRemoves, TypeOK
  <2>4. pc[c] = "removing" /\ pc'[c] = "draining" /\ UNCHANGED <<tokens, key, current>>
    BY <1>7 DEF NotifyRemoves, TypeOK
  <2>5. QED
    BY <2>1, <2>2, <2>3, <2>4
<1>8. ASSUME NEW c \in Calls, InvokeFactory(c) PROVE TokenInv'
  <2>1. Gone' = Gone
    BY <1>8 DEF Gone, InvokeFactory
  <2>2. QED
    BY <1>8, <2>1 DEF InvokeFactory, TypeOK
<1>9. ASSUME NEW c \in Calls, NEW m \in Monikers, Attach(c, m) PROVE TokenInv'
  <2>1. Gone' = Gone
    BY <1>9 DEF Gone, Attach
  <2>2. tokens' = [tokens EXCEPT ![c][m] = registered[m]] /\ pc[c] = "attaching" /\ pc' = pc
        /\ UNCHANGED <<token, registered, key, current>>
    BY <1>9 DEF Attach
  <2>3. QED
    BY <2>1, <2>2 DEF TypeOK
<1>10. ASSUME NEW c \in Calls, NEW m \in Monikers, RegisterToken(c, m) PROVE TokenInv'
  <2>1. /\ registered' = [registered EXCEPT ![m] = token[c]] /\ tokens[c][m] = token[c]
        /\ Gone \subseteq Gone' /\ (registered[m] # None => registered[m] \in Gone')
        /\ pc[c] = "registering" /\ pc' = [pc EXCEPT ![c] = "attaching"]
        /\ token' = [token EXCEPT ![c] = None]
        /\ UNCHANGED <<tokens, key, current>>
    BY <1>10 DEF Gone, RegisterToken
  <2>2. token[c] # None
    BY <2>1 DEF SourceInv
  <2>3. ASSUME NEW d \in Calls, pc'[d] = "registering"
        PROVE d # c /\ pc[d] = "registering" /\ token'[d] = token[d] /\ token[d] # token[c]
    BY <2>1, <2>3 DEF TypeOK
  <2>4. ASSUME NEW d \in Calls, NEW n \in Monikers, current[d], tokens[d][n] # None, tokens[d][n] \notin Gone',
               pc'[d] = "registering" => tokens[d][n] # token'[d]
        PROVE registered'[n] = tokens[d][n]
    <3>1. CASE tokens[d][n] = token[c]
      <4>1. d = c
        BY <2>1, <3>1
      <4>2. n = m
        BY <2>1, <3>1, <4>1
      <4>3. QED
        BY <2>1, <4>1, <4>2 DEF TypeOK
    <3>2. CASE tokens[d][n] # token[c]
      <4>1. registered[n] = tokens[d][n]
        BY <2>1, <2>4, <3>2 DEF TypeOK
      <4>2. n # m
        BY <2>1, <2>4, <4>1
      <4>3. QED
        BY <2>1, <4>1, <4>2 DEF TypeOK
    <3>3. QED
      BY <3>1, <3>2
  <2>5. \A d \in Calls : pc'[d] = "registering" => \A n \in Monikers : registered'[n] # token'[d]
    BY <2>1, <2>3 DEF TypeOK
  <2>6. QED
    BY <2>1, <2>3, <2>4, <2>5 DEF TypeOK
<1>11. ASSUME NEW c \in Calls, NEW m \in Monikers, NEW t \in Tokens, CreateToken(c, m, t) PROVE TokenInv'
  <2>1. /\ tokens' = [tokens EXCEPT ![c][m] = t] /\ token' = [token EXCEPT ![c] = t]
        /\ pc[c] = "attaching" /\ pc' = [pc EXCEPT ![c] = "registering"]
        /\ UNCHANGED <<key, current, registered, evicting>> /\ changed' = changed \ {t}
    BY <1>11 DEF CreateToken
  <2>2. /\ \A n \in Monikers : registered[n] # t
        /\ \A d \in Calls : token[d] # t
        /\ \A d \in Calls, n \in Monikers : tokens[d][n] # t
    BY <1>11 DEF CreateToken, Referenced, Range, TypeOK
  <2>3. \A d : d # t => (d \in Gone' <=> d \in Gone)
    BY <2>1 DEF Gone
  <2>4. t # None
    BY ConstantsAssumption
  <2>5. /\ \A d \in Calls, n \in Monikers : tokens'[d][n] = IF d = c /\ n = m THEN t ELSE tokens[d][n]
        /\ \A d \in Calls : token'[d] = IF d = c THEN t ELSE token[d]
        /\ \A d \in Calls : pc'[d] = IF d = c THEN "registering" ELSE pc[d]
    BY <2>1 DEF TypeOK
  <2>6. QED
    BY <2>1, <2>2, <2>3, <2>5
<1>12. ASSUME NEW t \in Tokens, ChangeTokenEvicted(t) PROVE TokenInv'
  <2>1. Gone' = Gone
    BY <1>12 DEF Gone, ChangeTokenEvicted
  <2>2. QED
    BY <1>12, <2>1 DEF ChangeTokenEvicted
<1>13. CASE \/ \E k \in Keys : Remove(k)
            \/ \E t \in Threads : ClearBegins(t)
            \/ ClearTimesOut
            \/ \E m \in Monikers : SourceChanges(m) \/ NotifyChanged(m)
            \/ UNCHANGED vars
  BY <1>1, <1>13 DEF Remove, ClearBegins, ClearTimesOut, SourceChanges, NotifyChanged, vars
<1>14. CASE ClearAsync
  BY <1>14 DEF ClearAsync, TypeOK, SourceInv
<1>15. QED
  BY <1>2, <1>3, <1>4, <1>5, <1>6, <1>7, <1>8, <1>9, <1>10, <1>11, <1>12, <1>13, <1>14 DEF Next, CallStep

\* Tokens are attached before the factory reads, so that what is announced after
\* that takes them away.
LEMMA ReadStep ==
  TypeOK /\ LockInv /\ SourceInv /\ TokenInv /\ ReadInv /\ [Next]_vars => ReadInv'
<1> SUFFICES ASSUME TypeOK, LockInv, SourceInv, TokenInv, ReadInv, [Next]_vars PROVE ReadInv'
  OBVIOUS
<1> USE DEF Inside, OnThread, lockVars, cacheVars, sourceVars, callVars
<1>1. ASSUME \A c \in Calls :
               /\ value'[c] # None => pc'[c] \in {"factory", "exiting"}
               /\ pc'[c] = "factory" /\ value'[c] # None =>
                    /\ pc[c] = "factory"
                    /\ value'[c] = value[c]
                    /\ UNCHANGED <<key[c], tokens[c]>>
                    /\ current'[c] => current[c],
             ~ClearAsync
      PROVE ReadInv'
  <2> SUFFICES ASSUME NEW c \in Calls, pc'[c] = "factory", current'[c], value'[c] # None,
                      NEW m \in Depends[key[c]], tokens[c][m] \notin Gone'
               PROVE value[c][m] >= announced'[m]
    BY <1>1 DEF ReadInv
  <2>1. pc[c] = "factory" /\ current[c] /\ value[c] # None
    BY <1>1
  <2>2. m \in Monikers
    BY <2>1, ConstantsAssumption DEF LockInv
  <2>3. tokens[c][m] \notin Gone
    BY <1>1, <2>2, StepsAreOrderly, ValidTokens
  <2>4. tokens[c][m] # None
    BY <2>1, <2>2 DEF TokenInv, Unattached
  <2>5. registered[m] = tokens[c][m]
    BY <2>1, <2>2, <2>3, <2>4 DEF TokenInv
  <2>6. announced'[m] = announced[m]
    BY <1>1, <2>2, <2>4, <2>5, StepsAreOrderly DEF Orderly
  <2>7. QED
    BY <2>1, <2>3, <2>6 DEF ReadInv
<1>2. ASSUME NEW c \in Calls, NEW t \in Threads, Refused(c, t) \/ FactoryReturns(c, t) \/ FactoryThrows(c, t)
      PROVE ReadInv'
  <2>1. ~ClearAsync
    BY <1>2 DEF ClearAsync, Refused, FactoryReturns, FactoryThrows, Resume, TypeOK
  <2>2. QED
    BY <1>1, <1>2, <2>1 DEF Refused, FactoryReturns, FactoryThrows, Resume, TypeOK, ReadInv
<1>3. ASSUME NEW c \in Calls, NEW t \in Threads, NEW k \in Keys, Enter(c, t, k) PROVE ReadInv'
  <2>1. ~ClearAsync
    BY <1>3 DEF ClearAsync, Enter, TypeOK
  <2>2. QED
    BY <1>1, <1>3, <2>1 DEF Enter, TypeOK, ReadInv
<1>4. ASSUME NEW c \in Calls,
             \/ UncachedEnds(c) \/ ExitReadLock(c) \/ ExitReadLockThrows(c)
             \/ Dequeue(c) \/ NotifyFinds(c) \/ NotifyMisses(c) \/ NotifyRemoves(c)
             \/ Hit(c) \/ Miss(c) \/ InvokeFactory(c)
             \/ \E m \in Monikers : Attach(c, m) \/ RegisterToken(c, m)
             \/ \E m \in Monikers, t \in Tokens : CreateToken(c, m, t)
      PROVE ReadInv'
  <2>1. ~ClearAsync
    BY <1>4 DEF ClearAsync, UncachedEnds, ExitReadLock, ExitReadLockThrows, Forget, Dequeue, NotifyFinds,
                NotifyMisses, NotifyRemoves, Hit, Miss, InvokeFactory, Attach, RegisterToken, CreateToken, TypeOK
  <2>2. QED
    BY <1>1, <1>4, <2>1 DEF UncachedEnds, ExitReadLock, ExitReadLockThrows, Forget, Dequeue, NotifyFinds,
                NotifyMisses, NotifyRemoves, Hit, Miss, InvokeFactory, Attach, RegisterToken, CreateToken,
                TypeOK, ReadInv
<1>5. ASSUME NEW c \in Calls, FactoryReads(c) PROVE ReadInv'
  <2>1. /\ value' = [value EXCEPT ![c] = source] /\ pc[c] = "factory"
        /\ UNCHANGED <<pc, key, tokens, current, announced, changed, evicting>>
    BY <1>5 DEF FactoryReads
  <2>2. \A m \in Depends[key[c]] : source[m] >= announced[m]
    BY <2>1, ConstantsAssumption DEF LockInv, SourceInv, TypeOK, Version
  <2>3. Gone' = Gone
    BY <2>1 DEF Gone
  <2>4. QED
    BY <2>1, <2>2, <2>3 DEF ReadInv, TypeOK
<1>6. ASSUME NEW t \in Threads, ClearBegins(t) PROVE ReadInv'
  <2>1. ~ClearAsync
    BY <1>6 DEF ClearAsync, ClearBegins, TypeOK
  <2>2. QED
    BY <1>1, <1>6, <2>1 DEF ClearBegins, ReadInv
<1>7. CASE ClearAsync
  BY <1>7 DEF ClearAsync, ReadInv
<1>8. CASE /\ ~ClearAsync
           /\ \/ \E t \in Tokens : ChangeTokenEvicted(t)
              \/ \E k \in Keys : Remove(k)
              \/ ClearTimesOut
              \/ \E m \in Monikers : SourceChanges(m) \/ NotifyChanged(m)
              \/ UNCHANGED vars
  BY <1>1, <1>8 DEF ChangeTokenEvicted, Remove, ClearTimesOut, SourceChanges, NotifyChanged, vars, ReadInv
<1>9. QED
  BY <1>2, <1>3, <1>4, <1>5, <1>6, <1>7, <1>8 DEF Next, CallStep

\* An item that a step leaves in the cache keeps what it had: a moniker whose token
\* or announcement is replaced loses it to the step.
LEMMA KeptItems ==
  ASSUME TypeOK, Orderly, LiveItemIsReachable, LiveItemIsFresh,
         NEW k \in Keys, entry[k] # None, entry'[k] = entry[k], entry[k].tokens \cap Gone' = {}
  PROVE  /\ entry[k].tokens = {registered'[m] : m \in Depends[k]}
         /\ \A m \in Depends[k] : entry[k].value[m] >= announced'[m]
<1>1. Settled(entry[k])
  BY ValidTokens DEF Settled, Gone
<1>2. entry[k].tokens = {registered[m] : m \in Depends[k]}
  BY <1>1 DEF LiveItemIsReachable
<1>3. Depends[k] \subseteq Monikers /\ entry[k].tokens \subseteq Tokens
  BY ConstantsAssumption DEF TypeOK, Item
<1>4. \A m \in Depends[k] : registered[m] # None /\ registered[m] \notin Gone'
  BY <1>2, <1>3, ConstantsAssumption DEF Settled, Gone
<1>5. \A m \in Depends[k] : registered'[m] = registered[m] /\ announced'[m] = announced[m]
  BY <1>3, <1>4 DEF Orderly
<1>6. QED
  BY <1>1, <1>2, <1>5 DEF LiveItemIsFresh

\* Every item of the cache is reachable and fresh after every step.
LEMMA ItemStep == IInv /\ [Next]_vars => LiveItemIsReachable' /\ LiveItemIsFresh'
<1> SUFFICES ASSUME IInv, [Next]_vars PROVE LiveItemIsReachable' /\ LiveItemIsFresh'
  OBVIOUS
<1>1. TypeOK /\ LockInv /\ SourceInv /\ TokenInv /\ ReadInv /\ LiveItemIsReachable /\ LiveItemIsFresh
  BY DEF IInv
<1>2. CASE ClearAsync
  BY <1>2 DEF ClearAsync, LiveItemIsReachable, LiveItemIsFresh
<1>3. CASE ~ClearAsync /\ \A k \in Keys : entry'[k] \in {entry[k], None}
  <2>1. Orderly
    BY <1>1, <1>3, StepsAreOrderly
  <2>2. QED
    BY <1>1, <1>3, <2>1, KeptItems DEF LiveItemIsReachable, LiveItemIsFresh, Settled, Gone
<1>4. ASSUME NEW c \in Calls, NEW t \in Threads, FactoryReturns(c, t), ~ClearAsync
      PROVE LiveItemIsReachable' /\ LiveItemIsFresh'
  <2> DEFINE item == [value |-> value[c], tokens |-> {tokens[c][m] : m \in Depends[key[c]]}]
  <2>1. /\ pc[c] = "factory" /\ value[c] # None
        /\ UNCHANGED <<registered, announced, changed, evicting>>
    BY <1>4 DEF FactoryReturns, Resume, sourceVars
  <2>2. key[c] \in Keys /\ Depends[key[c]] \subseteq Monikers
    BY <1>1, <2>1, ConstantsAssumption DEF LockInv, Inside
  <2>3. entry' = IF ~current[c] THEN entry
                 ELSE [entry EXCEPT ![key[c]] = IF Live(item) THEN item ELSE None]
    BY <1>4 DEF FactoryReturns
  <2>4. CASE \A k \in Keys : entry'[k] \in {entry[k], None}
    BY <1>3, <1>4, <2>4
  <2>5. CASE current[c] /\ entry' = [entry EXCEPT ![key[c]] = item]
    <3>1. ASSUME NEW k \in Keys, k # key[c], entry'[k] # None, entry'[k].tokens \cap Gone' = {}
          PROVE /\ entry'[k].tokens = {registered'[m] : m \in Depends[k]}
                /\ \A m \in Depends[k] : entry'[k].value[m] >= announced'[m]
      <4>1. entry'[k] = entry[k]
        BY <1>1, <2>5, <3>1 DEF TypeOK
      <4>2. Orderly
        BY <1>1, <1>4, StepsAreOrderly
      <4>3. QED
        BY <1>1, <3>1, <4>1, <4>2, KeptItems
    <3>2. ASSUME item.tokens \cap Gone' = {}
          PROVE /\ item.tokens = {registered'[m] : m \in Depends[key[c]]}
                /\ \A m \in Depends[key[c]] : item.value[m] >= announced'[m]
      <4>1. \A m \in Depends[key[c]] : tokens[c][m] \notin Gone
        BY <2>1, <3>2 DEF Gone
      <4>2. \A m \in Depends[key[c]] : registered[m] = tokens[c][m]
        BY <1>1, <2>1, <2>2, <2>5, <4>1 DEF TokenInv, Unattached
      <4>3. \A m \in Depends[key[c]] : value[c][m] >= announced[m]
        BY <1>1, <2>1, <2>5, <4>1 DEF ReadInv
      <4>4. QED
        BY <2>1, <4>2, <4>3
    <3>3. entry'[key[c]] = item
      BY <1>1, <2>2, <2>5 DEF TypeOK
    <3> HIDE DEF item
    <3>4. QED
      BY <3>1, <3>2, <3>3 DEF LiveItemIsReachable, LiveItemIsFresh, Settled, Gone
  <2> HIDE DEF item
  <2>6. QED
    BY <1>1, <2>2, <2>3, <2>4, <2>5 DEF TypeOK
<1>5. ASSUME NEW c \in Calls, NEW t \in Threads, NEW k \in Keys,
             Refused(c, t) \/ FactoryThrows(c, t) \/ Enter(c, t, k)
      PROVE entry' = entry
  BY <1>5 DEF Refused, FactoryThrows, Enter, cacheVars
<1>6. ASSUME NEW c \in Calls,
             \/ UncachedEnds(c) \/ ExitReadLock(c) \/ ExitReadLockThrows(c)
             \/ Dequeue(c) \/ NotifyFinds(c) \/ NotifyMisses(c) \/ NotifyRemoves(c)
             \/ Hit(c) \/ InvokeFactory(c) \/ FactoryReads(c)
             \/ \E m \in Monikers : Attach(c, m) \/ RegisterToken(c, m)
             \/ \E m \in Monikers, t \in Tokens : CreateToken(c, m, t)
      PROVE entry' = entry
  BY <1>6 DEF UncachedEnds, ExitReadLock, ExitReadLockThrows, Dequeue, NotifyFinds, NotifyMisses, NotifyRemoves,
              Hit, InvokeFactory, FactoryReads, Attach, RegisterToken, CreateToken, cacheVars
<1>7. ASSUME NEW c \in Calls, Miss(c) PROVE \A k \in Keys : entry'[k] \in {entry[k], None}
  BY <1>1, <1>7 DEF Miss, TypeOK
<1>8. ASSUME NEW k \in Keys, Remove(k) PROVE \A q \in Keys : entry'[q] \in {entry[q], None}
  BY <1>1, <1>8 DEF Remove, TypeOK
<1>9. CASE \/ \E t \in Tokens : ChangeTokenEvicted(t)
           \/ \E t \in Threads : ClearBegins(t)
           \/ ClearTimesOut
           \/ \E m \in Monikers : SourceChanges(m) \/ NotifyChanged(m)
           \/ UNCHANGED vars
  <2>1. entry' = entry
    BY <1>9 DEF ChangeTokenEvicted, ClearBegins, ClearTimesOut, SourceChanges, NotifyChanged, vars, cacheVars
  <2>2. QED
    BY <1>2, <1>3, <2>1
<1>10. QED
  BY <1>2, <1>3, <1>4, <1>5, <1>6, <1>7, <1>8, <1>9 DEF Next, CallStep

-----------------------------------------------------------------------------
\* The inductive invariant holds in every reachable state.
THEOREM Invariant == Spec => []IInv
<1>1. IInv /\ [Next]_vars => IInv'
  BY TypeStep, LockStep, CountStep, SourceStep, TokenStep, ReadStep, ItemStep DEF IInv
<1>2. QED
  BY InitialState, <1>1, PTL DEF Spec

\* The state of the cache, its lock and its calls is well typed at every step.
THEOREM TypeCorrect == Spec => []TypeOK
<1>1. IInv => TypeOK
  BY DEF IInv
<1>2. QED
  BY Invariant, <1>1, PTL

\* What a call may return from the cache is no older than the last notification
\* carried out for any of its monikers.
THEOREM CachedDataIsFresh == Spec => []LiveItemIsFresh
<1>1. IInv => LiveItemIsFresh
  BY DEF IInv
<1>2. QED
  BY Invariant, <1>1, PTL

\* A notification that comes for a cached item finds it, whichever of the calls
\* that raced to create a token was the last.
THEOREM NotificationsFindItems == Spec => []LiveItemIsReachable
<1>1. IInv => LiveItemIsReachable
  BY DEF IInv
<1>2. QED
  BY Invariant, <1>1, PTL

\* ClearAsync takes the write lock when no call is inside the cache, on whatever
\* threads the calls go on after their awaits.
THEOREM ClearFindsNobodyInside == Spec => ClearWaitsForCalls
<1> DEFINE Waits == \A t \in Threads : (writeLocks[t] = 0 /\ writeLocks'[t] > 0) =>
                      \A c \in Calls : pc[c] \notin Inside
<1>1. IInv /\ [Next]_vars => [Waits]_vars
  <2> SUFFICES ASSUME IInv, [Next]_vars, NEW t \in Threads, writeLocks[t] = 0, writeLocks'[t] > 0,
                      NEW c \in Calls, pc[c] \in Inside
               PROVE FALSE
    OBVIOUS
  <2>1. ClearAsync
    <3>1. writeLocks' # writeLocks
      OBVIOUS
    <3> USE DEF lockVars
    <3>2. ASSUME NEW d \in Calls, NEW u \in Threads,
                 \/ Refused(d, u) \/ FactoryReturns(d, u) \/ FactoryThrows(d, u)
                 \/ \E k \in Keys : Enter(d, u, k)
          PROVE FALSE
      BY <3>1, <3>2 DEF Refused, FactoryReturns, FactoryThrows, Resume, Enter
    <3>3. ASSUME NEW d \in Calls,
                 \/ UncachedEnds(d) \/ ExitReadLock(d) \/ ExitReadLockThrows(d)
                 \/ Dequeue(d) \/ NotifyFinds(d) \/ NotifyMisses(d) \/ NotifyRemoves(d)
                 \/ Hit(d) \/ Miss(d) \/ InvokeFactory(d) \/ FactoryReads(d)
                 \/ \E m \in Monikers : Attach(d, m) \/ RegisterToken(d, m)
                 \/ \E m \in Monikers, u \in Tokens : CreateToken(d, m, u)
          PROVE FALSE
      BY <3>1, <3>3 DEF UncachedEnds, ExitReadLock, ExitReadLockThrows, Dequeue, NotifyFinds, NotifyMisses,
                        NotifyRemoves, Hit, Miss, InvokeFactory, FactoryReads, Attach, RegisterToken, CreateToken
    <3>4. ASSUME \/ \E u \in Tokens : ChangeTokenEvicted(u)
                 \/ \E k \in Keys : Remove(k)
                 \/ \E u \in Threads : ClearBegins(u)
                 \/ ClearTimesOut
                 \/ \E m \in Monikers : SourceChanges(m) \/ NotifyChanged(m)
                 \/ UNCHANGED vars
          PROVE FALSE
      BY <3>1, <3>4 DEF ChangeTokenEvicted, Remove, ClearBegins, ClearTimesOut, SourceChanges, NotifyChanged, vars
    <3>5. QED
      BY <3>2, <3>3, <3>4 DEF Next, CallStep
  <2>2. t = clearing
    BY <2>1 DEF ClearAsync, IInv, TypeOK
  <2>3. \A u \in Threads : readLocks[u] = 0
    BY <2>1, <2>2 DEF ClearAsync, CanWrite, IInv, LockInv, TypeOK
  <2>4. Slots = {}
    BY <2>3 DEF Slots
  <2>5. c \in Callers
    BY DEF Callers
  <2>6. QED
    BY <2>4, <2>5 DEF IInv, EveryCallIsCounted
<1>2. QED
  BY Invariant, <1>1, PTL DEF Spec, ClearWaitsForCalls

=============================================================================
