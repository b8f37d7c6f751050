---------------------------- MODULE InMemoryCache ----------------------------
(***************************************************************************)
(* InMemoryCache: calls of GetOrCreateAsync that share a MemoryCache under *)
(* a reader-writer lock owned by threads, dependency tokens registered     *)
(* under their monikers, queued change notifications and ClearAsync.       *)
(***************************************************************************)
EXTENDS Naturals, Sequences, Functions

CONSTANTS
  Calls,      \* calls of GetOrCreateAsync in progress at a time
  Threads,    \* threads of the pool
  Keys, Monikers,
  Depends,    \* the dependency monikers that the callers of a key pass
  Tokens,     \* DependencyChangeToken objects; one that nobody refers to is reused
  MaxVersion, \* bound: changes of the data behind a moniker
  MaxQueue,   \* bound: notifications in the queue
  MaxLocks,   \* bound: read locks, and write locks, of a thread
  None

ASSUME ConstantsAssumption ==
  /\ Depends \in [Keys -> SUBSET Monikers]
  /\ MaxVersion \in Nat /\ MaxQueue \in Nat /\ MaxLocks \in Nat
  /\ None \notin Keys \cup Monikers \cup Tokens \cup Threads

VARIABLES
  pc, thread,  \* of each call: its place, and its thread between two awaits
  key, tokens, \* of each call: its argument, the token attached for each moniker
  value,       \* of each call: the source as its factory read it
  current,     \* of each call: its MemoryCache is still the cache's
  note,        \* of each call: the notification it took from the queue
  token,       \* of each call: the token it looked up, or created
  readLocks, writeLocks, \* of each thread: ReaderWriterLock, recursive
  clearing,    \* the thread that waits in ClearAsync's TryEnterWriteLock
  entry,       \* MemoryCache: the item of each key
  registered,  \* MemoryCache: the token of each moniker
  changed,     \* the tokens with HasChanged
  evicting,    \* evicted tokens whose ChangeTokenEvicted has still to run
  queue,       \* NotificationQueue
  source,      \* the data behind each moniker, as a version
  announced    \* history: the newest version whose notification was carried out

callVars == <<pc, thread, key, tokens, value, current, note, token>>
lockVars == <<readLocks, writeLocks, clearing>>
cacheVars == <<entry, registered, changed, evicting>>
sourceVars == <<queue, source, announced>>
vars == <<callVars, lockVars, cacheVars, sourceVars>>

\* Places of a call that occupies a thread; in the others a factory is awaited.
OnThread == {"draining", "notifying", "removing", "attaching", "registering", "exiting"}
Inside == OnThread \cup {"factory"}

Version == [Monikers -> 0..MaxVersion]
Note == [moniker : Monikers, version : 0..MaxVersion]
Item == [value : Version, tokens : SUBSET Tokens]
NoTokens == [m \in Monikers |-> None]

TypeOK ==
  /\ pc \in [Calls -> Inside \cup {"idle", "uncached"}]
  /\ thread \in [Calls -> Threads \cup {None}]
  /\ \A c \in Calls : thread[c] # None <=> pc[c] \in OnThread
  /\ key \in [Calls -> Keys \cup {None}]
  /\ tokens \in [Calls -> [Monikers -> Tokens \cup {None}]]
  /\ value \in [Calls -> Version \cup {None}]
  /\ current \in [Calls -> BOOLEAN]
  /\ note \in [Calls -> Note \cup {None}]
  /\ token \in [Calls -> Tokens \cup {None}]
  /\ readLocks \in [Threads -> 0..MaxLocks]
  /\ writeLocks \in [Threads -> 0..MaxLocks]
  /\ clearing \in Threads \cup {None}
  /\ entry \in [Keys -> Item \cup {None}]
  /\ registered \in [Monikers -> Tokens \cup {None}]
  /\ changed \subseteq Tokens /\ evicting \subseteq Tokens
  /\ queue \in Seq(Note) /\ Len(queue) <= MaxQueue
  /\ source \in Version /\ announced \in Version

Init ==
  /\ pc = [c \in Calls |-> "idle"] /\ thread = [c \in Calls |-> None]
  /\ key = [c \in Calls |-> None] /\ tokens = [c \in Calls |-> NoTokens]
  /\ value = [c \in Calls |-> None] /\ current = [c \in Calls |-> FALSE]
  /\ note = [c \in Calls |-> None] /\ token = [c \in Calls |-> None]
  /\ readLocks = [t \in Threads |-> 0] /\ writeLocks = [t \in Threads |-> 0]
  /\ clearing = None
  /\ entry = [k \in Keys |-> None] /\ registered = [m \in Monikers |-> None]
  /\ changed = {} /\ evicting = {}
  /\ queue = <<>>
  /\ source = [m \in Monikers |-> 0] /\ announced = [m \in Monikers |-> 0]

-----------------------------------------------------------------------------
(* The lock *)

Available(t) ==
  /\ clearing # t
  /\ \A c \in Calls : thread[c] # t

\* A thread that holds the lock enters it again; the others wait for writers,
\* the waiting one included.
CanRead(t) ==
  /\ \A u \in Threads \ {t} : writeLocks[u] = 0
  /\ clearing # None => readLocks[t] + writeLocks[t] > 0

\* GetOrCreateAsync(key, ...) begins on thread t: TryEnterReadLock.
Enter(c, t, k) ==
  /\ pc[c] = "idle" /\ Available(t)
  /\ CanRead(t) /\ readLocks[t] < MaxLocks
  /\ pc' = [pc EXCEPT ![c] = "draining"]
  /\ thread' = [thread EXCEPT ![c] = t]
  /\ key' = [key EXCEPT ![c] = k]
  /\ current' = [current EXCEPT ![c] = TRUE]
  /\ readLocks' = [readLocks EXCEPT ![t] = @ + 1]
  /\ UNCHANGED <<tokens, value, note, token, writeLocks, clearing, cacheVars, sourceVars>>

\* 50 ms passed: the factory is called with a NullCacheItem, outside the cache.
Refused(c, t) ==
  /\ pc[c] = "idle" /\ Available(t)
  /\ ~CanRead(t)
  /\ pc' = [pc EXCEPT ![c] = "uncached"]
  /\ UNCHANGED <<thread, key, tokens, value, current, note, token, lockVars, cacheVars, sourceVars>>

UncachedEnds(c) ==
  /\ pc[c] = "uncached"
  /\ pc' = [pc EXCEPT ![c] = "idle"]
  /\ UNCHANGED <<thread, key, tokens, value, current, note, token, lockVars, cacheVars, sourceVars>>

\* What the call held is dropped.
Forget(c) ==
  /\ pc' = [pc EXCEPT ![c] = "idle"]
  /\ thread' = [thread EXCEPT ![c] = None]
  /\ key' = [key EXCEPT ![c] = None]
  /\ tokens' = [tokens EXCEPT ![c] = NoTokens]
  /\ value' = [value EXCEPT ![c] = None]
  /\ current' = [current EXCEPT ![c] = FALSE]
  /\ UNCHANGED <<note, token>>

\* Faulty variant: a lock that any thread may exit.
ExitAnyLock(c) ==
  /\ pc[c] = "exiting"
  /\ readLocks' = [readLocks EXCEPT ![thread[c]] = @ - 1]
  /\ Forget(c)
  /\ UNCHANGED <<writeLocks, clearing, cacheVars, sourceVars>>

\* finally: ExitReadLock, on the thread that the call is on now.
ExitReadLock(c) ==
  /\ pc[c] = "exiting"
  /\ readLocks[thread[c]] > 0
  /\ readLocks' = [readLocks EXCEPT ![thread[c]] = @ - 1]
  /\ Forget(c)
  /\ UNCHANGED <<writeLocks, clearing, cacheVars, sourceVars>>

\* This thread holds no read lock: SynchronizationLockException replaces the
\* result, and the lock stays with the thread that entered it.
ExitReadLockThrows(c) ==
  /\ pc[c] = "exiting"
  /\ readLocks[thread[c]] = 0
  /\ Forget(c)
  /\ UNCHANGED <<lockVars, cacheVars, sourceVars>>

-----------------------------------------------------------------------------
(* Notifications: the queue is drained by the calls that follow *)

Dequeue(c) ==
  /\ pc[c] = "draining" /\ queue # <<>>
  /\ note' = [note EXCEPT ![c] = Head(queue)]
  /\ queue' = Tail(queue)
  /\ pc' = [pc EXCEPT ![c] = "notifying"]
  /\ UNCHANGED <<thread, key, tokens, value, current, token, source, announced, lockVars, cacheVars>>

Announce(n) ==
  announced' = [announced EXCEPT ![n.moniker] = IF @ < n.version THEN n.version ELSE @]

\* notifyAction: TryGetValue(moniker) finds the token.
NotifyFinds(c) ==
  /\ pc[c] = "notifying" /\ registered[note[c].moniker] # None
  /\ token' = [token EXCEPT ![c] = registered[note[c].moniker]]
  /\ pc' = [pc EXCEPT ![c] = "removing"]
  /\ UNCHANGED <<thread, key, tokens, value, current, note, lockVars, cacheVars, sourceVars>>

\* No cached item depends on the moniker.
NotifyMisses(c) ==
  /\ pc[c] = "notifying" /\ registered[note[c].moniker] = None
  /\ Announce(note[c])
  /\ note' = [note EXCEPT ![c] = None]
  /\ pc' = [pc EXCEPT ![c] = "draining"]
  /\ UNCHANGED <<thread, key, tokens, value, current, token, queue, source, lockVars, cacheVars>>

\* Remove(moniker) evicts the token that is registered by now; NotifyChanged is
\* for the one that was looked up.
NotifyRemoves(c) ==
  /\ pc[c] = "removing"
  /\ registered' = [registered EXCEPT ![note[c].moniker] = None]
  /\ evicting' = evicting \cup ({registered[note[c].moniker]} \ {None})
  /\ changed' = changed \cup {token[c]}
  /\ Announce(note[c])
  /\ note' = [note EXCEPT ![c] = None]
  /\ token' = [token EXCEPT ![c] = None]
  /\ pc' = [pc EXCEPT ![c] = "draining"]
  /\ UNCHANGED <<thread, key, tokens, value, current, queue, source, entry, lockVars>>

\* The pool runs ChangeTokenEvicted for an evicted token.
ChangeTokenEvicted(t) ==
  /\ t \in evicting
  /\ evicting' = evicting \ {t}
  /\ changed' = changed \cup {t}
  /\ UNCHANGED <<entry, registered, callVars, lockVars, sourceVars>>

-----------------------------------------------------------------------------
(* The cache *)

Live(item) == item # None /\ item.tokens \cap changed = {}

\* TryGetValue(key): the value is returned without awaiting anything.
Hit(c) ==
  /\ pc[c] = "draining" /\ queue = <<>>
  /\ Live(entry[key[c]])
  /\ pc' = [pc EXCEPT ![c] = "exiting"]
  /\ UNCHANGED <<thread, key, tokens, value, current, note, token, lockVars, cacheVars, sourceVars>>

\* There is no item, or an expired one, which TryGetValue removes.
Miss(c) ==
  /\ pc[c] = "draining" /\ queue = <<>>
  /\ ~Live(entry[key[c]])
  /\ entry' = [entry EXCEPT ![key[c]] = None]
  /\ pc' = [pc EXCEPT ![c] = "attaching"]
  /\ UNCHANGED <<thread, key, tokens, value, current, note, token, registered, changed,
                 evicting, lockVars, sourceVars>>

Unattached(c) == {m \in Depends[key[c]] : tokens[c][m] = None}

\* The moniker's token is registered: AddExpirationToken.
Attach(c, m) ==
  /\ pc[c] = "attaching" /\ m \in Unattached(c)
  /\ registered[m] # None
  /\ tokens' = [tokens EXCEPT ![c][m] = registered[m]]
  /\ UNCHANGED <<pc, thread, key, value, current, note, token, lockVars, cacheVars, sourceVars>>

Referenced(t) ==
  \/ t \in evicting \cup Range(registered) \cup Range(token)
  \/ \E c \in Calls : t \in Range(tokens[c])
  \/ \E k \in Keys : entry[k] # None /\ t \in entry[k].tokens

\* It is not: GetOrCreate(moniker) creates a token ...
CreateToken(c, m, t) ==
  /\ pc[c] = "attaching" /\ m \in Unattached(c)
  /\ registered[m] = None
  /\ ~Referenced(t)
  /\ changed' = changed \ {t}
  /\ tokens' = [tokens EXCEPT ![c][m] = t]
  /\ token' = [token EXCEPT ![c] = t]
  /\ pc' = [pc EXCEPT ![c] = "registering"]
  /\ UNCHANGED <<thread, key, value, current, note, entry, registered, evicting, lockVars, sourceVars>>

\* Faulty variant: the token is registered without its post eviction callback.
RegisterSilently(c, m) ==
  /\ pc[c] = "registering" /\ tokens[c][m] = token[c]
  /\ registered' = [registered EXCEPT ![m] = token[c]]
  /\ token' = [token EXCEPT ![c] = None]
  /\ pc' = [pc EXCEPT ![c] = "attaching"]
  /\ UNCHANGED <<thread, key, tokens, value, current, note, entry, changed, evicting, lockVars, sourceVars>>

\* ... and registers it, which evicts the token of a call that was faster.
RegisterToken(c, m) ==
  /\ pc[c] = "registering" /\ tokens[c][m] = token[c]
  /\ registered' = [registered EXCEPT ![m] = token[c]]
  /\ evicting' = evicting \cup ({registered[m]} \ {None})
  /\ token' = [token EXCEPT ![c] = None]
  /\ pc' = [pc EXCEPT ![c] = "attaching"]
  /\ UNCHANGED <<thread, key, tokens, value, current, note, entry, changed, lockVars, sourceVars>>

\* The factory is called and awaited: the thread goes back to the pool.
InvokeFactory(c) ==
  /\ pc[c] = "attaching" /\ Unattached(c) = {}
  /\ pc' = [pc EXCEPT ![c] = "factory"]
  /\ thread' = [thread EXCEPT ![c] = None]
  /\ UNCHANGED <<key, tokens, value, current, note, token, lockVars, cacheVars, sourceVars>>

\* Faulty variant: the factory is called before the change tokens are attached.
ReadsEarly(c) ==
  /\ pc[c] \in {"attaching", "factory"} /\ value[c] = None
  /\ value' = [value EXCEPT ![c] = source]
  /\ UNCHANGED <<pc, thread, key, tokens, current, note, token, lockVars, cacheVars, sourceVars>>

FactoryReads(c) ==
  /\ pc[c] = "factory" /\ value[c] = None
  /\ value' = [value EXCEPT ![c] = source]
  /\ UNCHANGED <<pc, thread, key, tokens, current, note, token, lockVars, cacheVars, sourceVars>>

\* The call goes on, on thread t.
Resume(c, t) ==
  /\ pc[c] = "factory" /\ Available(t)
  /\ pc' = [pc EXCEPT ![c] = "exiting"]
  /\ thread' = [thread EXCEPT ![c] = t]
  /\ UNCHANGED <<key, tokens, value, current, note, token, registered, changed, evicting,
                 lockVars, sourceVars>>

\* The entry replaces the item of its key; an expired one only removes it, and a
\* disposed MemoryCache takes nothing.
FactoryReturns(c, t) ==
  /\ value[c] # None
  /\ LET item == [value |-> value[c], tokens |-> {tokens[c][m] : m \in Depends[key[c]]}]
     IN  entry' = IF ~current[c] THEN entry
                  ELSE [entry EXCEPT ![key[c]] = IF Live(item) THEN item ELSE None]
  /\ Resume(c, t)

\* The exception leaves through the finally block; the entry has no value.
FactoryThrows(c, t) ==
  /\ Resume(c, t)
  /\ UNCHANGED entry

Remove(k) ==
  /\ entry[k] # None
  /\ entry' = [entry EXCEPT ![k] = None]
  /\ UNCHANGED <<registered, changed, evicting, callVars, lockVars, sourceVars>>

\* ClearAsync on thread t waits for the write lock, unless the thread holds a
\* read lock alone, which throws before anything happens.
ClearBegins(t) ==
  /\ clearing = None /\ Available(t)
  /\ readLocks[t] = 0 \/ writeLocks[t] > 0
  /\ writeLocks[t] < MaxLocks
  /\ clearing' = t
  /\ UNCHANGED <<readLocks, writeLocks, callVars, cacheVars, sourceVars>>

\* Faulty variant: only writers are waited for.
CanWriteOverReaders(t) == \A u \in Threads \ {t} : writeLocks[u] = 0

CanWrite(t) == \A u \in Threads \ {t} : readLocks[u] = 0 /\ writeLocks[u] = 0

\* Both caches are disposed of and replaced; there is no ExitWriteLock.
ClearAsync ==
  /\ clearing # None /\ CanWrite(clearing)
  /\ writeLocks' = [writeLocks EXCEPT ![clearing] = @ + 1]
  /\ clearing' = None
  /\ entry' = [k \in Keys |-> None] /\ registered' = [m \in Monikers |-> None]
  /\ current' = [c \in Calls |-> FALSE]
  /\ UNCHANGED <<pc, thread, key, tokens, value, note, token, readLocks, changed, evicting, sourceVars>>

\* 2 s passed: false.
ClearTimesOut ==
  /\ clearing # None /\ ~CanWrite(clearing)
  /\ clearing' = None
  /\ UNCHANGED <<readLocks, writeLocks, callVars, cacheVars, sourceVars>>

-----------------------------------------------------------------------------
(* The data behind the monikers, and NotifyChanged *)

SourceChanges(m) ==
  /\ source[m] < MaxVersion
  /\ source' = [source EXCEPT ![m] = @ + 1]
  /\ UNCHANGED <<queue, announced, callVars, lockVars, cacheVars>>

NotifyChanged(m) ==
  /\ Len(queue) < MaxQueue
  /\ queue' = Append(queue, [moniker |-> m, version |-> source[m]])
  /\ UNCHANGED <<source, announced, callVars, lockVars, cacheVars>>

CallStep(c) ==
  \/ \E t \in Threads : Refused(c, t) \/ FactoryReturns(c, t) \/ FactoryThrows(c, t)
  \/ \E t \in Threads, k \in Keys : Enter(c, t, k)
  \/ UncachedEnds(c) \/ ExitReadLock(c) \/ ExitReadLockThrows(c)
  \/ Dequeue(c) \/ NotifyFinds(c) \/ NotifyMisses(c) \/ NotifyRemoves(c)
  \/ Hit(c) \/ Miss(c) \/ InvokeFactory(c) \/ FactoryReads(c)
  \/ \E m \in Monikers : Attach(c, m) \/ RegisterToken(c, m)
  \/ \E m \in Monikers, t \in Tokens : CreateToken(c, m, t)

Next ==
  \/ \E c \in Calls : CallStep(c)
  \/ \E t \in Tokens : ChangeTokenEvicted(t)
  \/ \E k \in Keys : Remove(k)
  \/ \E t \in Threads : ClearBegins(t)
  \/ ClearAsync \/ ClearTimesOut
  \/ \E m \in Monikers : SourceChanges(m) \/ NotifyChanged(m)

Spec == Init /\ [][Next]_vars

-----------------------------------------------------------------------------
(* Properties *)

Settled(item) == item.tokens \cap (changed \cup evicting) = {}

\* An item that a call may return holds data no older than the last notification
\* carried out for its monikers, up to eviction callbacks the pool has still to
\* run: tokens are attached before the factory reads, whoever else does the same.
LiveItemIsFresh ==
  \A k \in Keys : entry[k] # None /\ Settled(entry[k]) =>
    \A m \in Depends[k] : entry[k].value[m] >= announced[m]

\* A notification finds every item it is about: the tokens of a live item are the
\* ones registered, although two calls may have created tokens for one moniker.
LiveItemIsReachable ==
  \A k \in Keys : entry[k] # None /\ Settled(entry[k]) =>
    entry[k].tokens = {registered[m] : m \in Depends[k]}

\* ClearAsync disposes of the cache when no call is inside it, although calls
\* leave the lock on other threads than they entered it, as long as its own thread
\* does not still hold the write lock of an earlier ClearAsync.
ClearWaitsForCalls ==
  [][\A t \in Threads : (writeLocks[t] = 0 /\ writeLocks'[t] > 0) =>
       \A c \in Calls : pc[c] \notin Inside]_vars

\* ICache.GetOrCreateAsync returns "the data retrieved from the cache if exists, or
\* the result of the factory method": a call does not end in an exception of the
\* cache's own.
CallReturnsTheData == \A c \in Calls : pc[c] = "exiting" => readLocks[thread[c]] > 0
=============================================================================
