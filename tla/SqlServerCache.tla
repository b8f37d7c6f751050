--------------------------- MODULE SqlServerCache ---------------------------
(***************************************************************************)
(* SqlServerCache: the threads of the servers that share one database. The *)
(* steps are the SQL statements: each of them is atomic, a command of two  *)
(* statements is not, and every call passes the time at which it began.    *)
(***************************************************************************)
EXTENDS Integers, FiniteSets

CONSTANTS
  Callers,                   \* threads inside a call of the cache
  Keys, Monikers,
  MonikersOf,                \* the dependencyMonikers that go with a key
  Options,                   \* expirations that a factory or a caller may set
  DefaultSlidingExpiration,
  ExpiredItemsDeletionInterval,
  Horizon,                   \* bound of the clock
  MaxChanges,                \* bound: NotifyChanged in progress together
  Never                      \* NULL, and the absence of a row or a call

ASSUME ConstantsAssumption ==
  /\ MonikersOf \in [Keys -> SUBSET Monikers]
  /\ Options \subseteq [sliding : (Nat \ {0}) \cup {Never}, absolute : (Nat \ {0}) \cup {Never}]
  /\ DefaultSlidingExpiration \in Nat \ {0}
  /\ ExpiredItemsDeletionInterval \in Nat
  /\ Horizon \in Nat /\ MaxChanges \in Nat
  /\ Never \notin Int \cup Keys \cup Monikers \cup Callers
  /\ Callers \cap {"settled", "outdated", "loose"} = {}

VARIABLES
  now,       \* DateTimeOffset.UtcNow
  rows,      \* the table of items
  monikers,  \* the table of dependencies: <<[Key], CacheKey>>
  calls,     \* of each thread: the call it is in
  lastScan,  \* LastExpirationScan
  scans,     \* DeleteExpiredCacheItems in progress
  changes    \* NotifyChanged in progress

vars == <<now, rows, monikers, calls, lastScan, scans, changes>>

Time == 0..Horizon
NULL(S) == S \cup {Never}

NoOptions == [sliding |-> Never, absolute |-> Never]

\* A value is told apart by whether it has to be the data behind its key. History:
\* the call that is to list the item's monikers, if no NotifyChanged was in progress
\* during it; "settled" when it has; "outdated" when the data changed after that;
\* and "loose" otherwise.
Row == [expires : Nat, sliding : NULL(Nat), absolute : NULL(Nat),
        value : Callers \cup {"settled", "outdated", "loose"}]

Pc == {"refresh", "get", "select", "mutex", "factory", "update", "insert", "list"}

\* History: another call stored an item between two statements of this one
\* (overtaken), and this call is to store and list an item, with no NotifyChanged
\* in progress so far (calm).
Call == [pc : Pc, key : Keys, utcNow : Time, next : {"factory", "list", "done"},
         options : Options \cup {NoOptions}, todo : SUBSET Monikers,
         overtaken : BOOLEAN, calm : BOOLEAN]

ASSUME NeverAssumption == Never \notin Row \cup Call

TypeOK ==
  /\ now \in Time
  /\ rows \in [Keys -> NULL(Row)]
  /\ monikers \subseteq Monikers \X Keys
  /\ calls \in [Callers -> NULL(Call)]
  /\ lastScan \in NULL(Time)
  /\ scans \subseteq {"items", "monikers"}
  /\ changes \subseteq [moniker : Monikers, trigger : NULL(Keys), pc : {"items", "monikers"}]

Init ==
  /\ now = 0
  /\ rows = [k \in Keys |-> Never] /\ monikers = {}
  /\ calls = [c \in Callers |-> Never]
  /\ lastScan = Never \* default(DateTimeOffset) is long ago
  /\ scans = {} /\ changes = {}

Tick == now < Horizon /\ now' = now + 1
        /\ UNCHANGED <<rows, monikers, calls, lastScan, scans, changes>>

-----------------------------------------------------------------------------
(* SqlQueries *)

Idle(c) == calls[c] = Never
At(c, pc) == calls[c] # Never /\ calls[c].pc = pc

\* WHERE @UtcNow <= ExpiresAtTime
Live(r, utcNow) == r # Never /\ utcNow <= r.expires

\* Faulty variant: the expiration slides past the absolute one.
SlidFurther(r, utcNow) == [r EXCEPT !.expires = utcNow + r.sliding]

\* Faulty variant: the branches of the CASE the other way round.
SlidToNull(r, utcNow) ==
  [r EXCEPT !.expires = IF r.absolute # Never /\ r.absolute - utcNow > r.sliding
                        THEN utcNow + r.sliding ELSE r.absolute]

\* The CASE of UpdateCacheItemFormat.
Slid(r, utcNow) ==
  [r EXCEPT !.expires = IF r.absolute # Never /\ r.absolute - utcNow <= r.sliding
                        THEN r.absolute ELSE utcNow + r.sliding]

\* UpdateCacheItemFormat: a read or a refresh prolongs a live sliding item.
UpdateCacheItem(k, utcNow) ==
  LET r == rows[k]
  IN  rows' = IF Live(r, utcNow) /\ r.sliding # Never /\ r.absolute # r.expires
              THEN [rows EXCEPT ![k] = Slid(r, utcNow)] ELSE rows

\* SetCacheItemFormat: with a sliding expiration the absolute one does not bound
\* ExpiresAtTime; the next read's UPDATE does.
NewRow(c) ==
  LET s == calls[c].options.sliding
      a == calls[c].options.absolute
      t == calls[c].utcNow
      none == s = Never /\ a = Never \* GetOptions
      sliding == IF none THEN DefaultSlidingExpiration ELSE s
  IN  [sliding |-> sliding,
       absolute |-> IF a = Never THEN Never ELSE t + a,
       expires |-> t + IF sliding = Never THEN a ELSE sliding,
       value |-> IF calls[c].calm THEN c ELSE "loose"]

\* Faulty variant: an expired row is not updated.
LiveRowExists(c) == Live(rows[calls[c].key], calls[c].utcNow)

\* @@ROWCOUNT of the UPDATE.
RowExists(c) == rows[calls[c].key] # Never

\* Faulty variant: every row.
Unreferenced == monikers

\* DeleteExpiredDependencyMonikersFormat: rows without an item.
Orphans == {mk \in monikers : rows[mk[2]] = Never}
-----------------------------------------------------------------------------
(* Calls *)

\* What a call is about to do, without the data it has no use for any more.
Doing(pc, k) ==
  [pc |-> pc, key |-> k, utcNow |-> 0, next |-> "done", options |-> NoOptions, todo |-> {},
   overtaken |-> FALSE, calm |-> FALSE]

\* The first check of ScanForExpiredItemsIfRequired, outside the lock.
ScanIsDue == lastScan # Never => now - lastScan > ExpiredItemsDeletionInterval

\* The end of a call, or its next command.
Proceed(call) == IF call.next = "done" THEN Never ELSE [call EXCEPT !.pc = call.next]

\* Every command is followed by ScanForExpiredItemsIfRequired: its first check is
\* outside the lock, and a DateTimeOffset is not read in one piece: while another
\* thread is under the lock any answer is possible.
Checked(c, call) ==
  LET torn == \E d \in Callers \ {c} : At(d, "mutex")
  IN  {r \in {[call EXCEPT !.pc = "mutex"], Proceed(call)} :
         torn \/ (ScanIsDue <=> r # Proceed(call))}

\* GetAsync, and GetOrCreateAsync, which goes on with the factory. A call takes
\* the time when it begins.
GetOrCreateAsync(c, k) ==
  /\ Idle(c)
  /\ calls' = [calls EXCEPT ![c] =
       [Doing("get", k) EXCEPT !.utcNow = now, !.next = "factory", !.todo = MonikersOf[k],
                             !.calm = changes = {}]]
  /\ UNCHANGED <<now, rows, monikers, lastScan, scans, changes>>

RefreshAsync(c, k) ==
  /\ Idle(c)
  /\ calls' = [calls EXCEPT ![c] = [Doing("refresh", k) EXCEPT !.utcNow = now]]
  /\ UNCHANGED <<now, rows, monikers, lastScan, scans, changes>>

\* The caller of IDistributedCache.SetAsync passes the data as it is now.
SetAsync(c, k, options) ==
  /\ Idle(c)
  /\ calls' = [calls EXCEPT ![c] =
       [Doing("update", k) EXCEPT !.utcNow = now, !.options = options]]
  /\ UNCHANGED <<now, rows, monikers, lastScan, scans, changes>>

\* RemoveAsync; its moniker rows stay.
RemoveAsync(c, k) ==
  /\ Idle(c)
  /\ \E r \in Checked(c, Doing("mutex", k)) : calls' = [calls EXCEPT ![c] = r]
  /\ rows' = [rows EXCEPT ![k] = Never]
  /\ UNCHANGED <<now, monikers, lastScan, scans, changes>>

\* The call of c without the data of the command it has done with.
Goes(c, pc) ==
  [Doing(pc, calls[c].key) EXCEPT !.next = calls[c].next, !.todo = calls[c].todo,
                                !.calm = calls[c].calm]

\* The first statement of a get ...
UpdateOnGet(c) ==
  /\ At(c, "get")
  /\ calls' = [calls EXCEPT ![c].pc = "select"]
  /\ UpdateCacheItem(calls[c].key, calls[c].utcNow)
  /\ UNCHANGED <<now, monikers, lastScan, scans, changes>>

\* ... is the only one of a refresh.
UpdateOnRefresh(c) ==
  /\ At(c, "refresh")
  /\ \E r \in Checked(c, Goes(c, "mutex")) : calls' = [calls EXCEPT ![c] = r]
  /\ UpdateCacheItem(calls[c].key, calls[c].utcNow)
  /\ UNCHANGED <<now, monikers, lastScan, scans, changes>>

\* SELECT Value: a hit ends the call; a miss goes on to the factory.
SelectValue(c) ==
  /\ At(c, "select")
  /\ LET hit == Live(rows[calls[c].key], calls[c].utcNow)
         call == IF hit THEN Doing("mutex", calls[c].key) ELSE Goes(c, "mutex")
     IN  \E r \in Checked(c, call) : calls' = [calls EXCEPT ![c] = r]
  /\ UNCHANGED <<now, rows, monikers, lastScan, scans, changes>>

\* The factory reads the data and chooses the options.
Create(c, options) ==
  /\ At(c, "factory")
  /\ calls' = [calls EXCEPT ![c] =
       [Goes(c, "update") EXCEPT !.options = options, !.utcNow = now, !.next = "list"]]
  /\ UNCHANGED <<now, rows, monikers, lastScan, scans, changes>>

\* c stores an item: history of the calls between two statements on its key.
Overtaking(c, call) ==
  [d \in Callers |->
     IF d # c /\ (At(d, "select") \/ At(d, "insert")) /\ calls[d].key = calls[c].key
     THEN [calls[d] EXCEPT !.overtaken = TRUE]
     ELSE IF d = c THEN call ELSE calls[d]]

Stored(c) == [Goes(c, "mutex") EXCEPT !.calm = FALSE]

\* UPDATE of SetCacheItemFormat.
UpdateItem(c) ==
  /\ At(c, "update")
  /\ IF RowExists(c)
     THEN /\ rows' = [rows EXCEPT ![calls[c].key] = NewRow(c)]
          /\ \E r \in Checked(c, Stored(c)) : calls' = Overtaking(c, r)
     ELSE /\ calls' = [calls EXCEPT ![c].pc = "insert"]
          /\ UNCHANGED rows
  /\ UNCHANGED <<now, monikers, lastScan, scans, changes>>

\* INSERT of SetCacheItemFormat: a duplicate key is swallowed.
InsertItem(c) ==
  /\ At(c, "insert")
  /\ IF rows[calls[c].key] = Never
     THEN /\ rows' = [rows EXCEPT ![calls[c].key] = NewRow(c)]
          /\ \E r \in Checked(c, Stored(c)) : calls' = Overtaking(c, r)
     ELSE /\ \E r \in Checked(c, Stored(c)) : calls' = [calls EXCEPT ![c] = r]
          /\ UNCHANGED rows
  /\ UNCHANGED <<now, monikers, lastScan, scans, changes>>

\* AddOrUpdateDependencyMonikersAsync: one command per moniker.
AddMoniker(c, m) ==
  /\ At(c, "list") /\ m \in calls[c].todo
  /\ monikers' = monikers \cup {<<m, calls[c].key>>}
  /\ calls' = [calls EXCEPT ![c].todo = @ \ {m}]
  /\ UNCHANGED <<now, rows, lastScan, scans, changes>>

\* History: the item that c stored, if it is still there.
Becomes(c, value) ==
  rows' = [k \in Keys |-> IF rows[k] # Never /\ rows[k].value = c
                         THEN [rows[k] EXCEPT !.value = value] ELSE rows[k]]

\* The call returns.
Return(c) ==
  /\ At(c, "list") /\ calls[c].todo = {}
  /\ calls' = [calls EXCEPT ![c] = Never]
  /\ Becomes(c, "settled")
  /\ UNCHANGED <<now, monikers, lastScan, scans, changes>>

\* A get without a factory that missed, a null from the factory, an exception of
\* it or of a command, or the end of the server: the rest is not done.
Fail(c) ==
  /\ ~Idle(c)
  /\ calls' = [calls EXCEPT ![c] = Never]
  /\ Becomes(c, "loose")
  /\ UNCHANGED <<now, monikers, lastScan, scans, changes>>

-----------------------------------------------------------------------------
(* Scans for expired items *)

\* Faulty variant: the first check is not repeated.
AlwaysDue == TRUE

\* The second check, under the lock.
StillDue == ScanIsDue

\* The region under the lock; Task.Run starts DeleteExpiredCacheItems.
ScanUnderLock(c) ==
  /\ At(c, "mutex")
  /\ IF StillDue
     THEN lastScan' = now /\ scans' = scans \cup {"items"}
     ELSE UNCHANGED <<lastScan, scans>>
  /\ calls' = [calls EXCEPT ![c] = Proceed(@)]
  /\ UNCHANGED <<now, rows, monikers, changes>>

\* DeleteExpiredCacheItems, its first command ...
DeleteExpiredItems ==
  /\ "items" \in scans
  /\ rows' = [k \in Keys |-> IF Live(rows[k], now) THEN rows[k] ELSE Never]
  /\ scans' = (scans \ {"items"}) \cup {"monikers"}
  /\ UNCHANGED <<now, monikers, calls, lastScan, changes>>

\* ... and its second one.
DeleteOrphans ==
  /\ "monikers" \in scans
  /\ monikers' = monikers \ Orphans
  /\ scans' = scans \ {"monikers"}
  /\ UNCHANGED <<now, rows, calls, lastScan, changes>>

\* The task ends with an exception; nobody awaits it.
ScanFails ==
  /\ \E pc \in scans : scans' = scans \ {pc}
  /\ UNCHANGED <<now, rows, monikers, calls, lastScan, changes>>

-----------------------------------------------------------------------------
(* NotifyChanged *)

\* The data behind the keys of m changes and NotifyChanged(trigger, m) begins;
\* the trigger's own item is not to be evicted.
NotifyChanged(trigger, m) ==
  /\ Cardinality(changes) < MaxChanges
  /\ changes' = changes \cup {[moniker |-> m, trigger |-> trigger, pc |-> "items"]}
  /\ calls' = [c \in Callers |->
       IF Idle(c) THEN Never ELSE [calls[c] EXCEPT !.calm = FALSE]]
  /\ rows' = [k \in Keys |->
       IF rows[k] = Never THEN Never
       ELSE [rows[k] EXCEPT !.value =
               IF @ \in Callers \/ k = trigger THEN "loose"
               ELSE IF @ = "settled" /\ m \in MonikersOf[k] THEN "outdated" ELSE @]]
  /\ UNCHANGED <<now, monikers, lastScan, scans>>

\* The rows of monikers that a NotifyChanged is for.
Listed(n) == {mk \in monikers : mk[1] = n.moniker /\ mk[2] # n.trigger}

EvictItems(n) ==
  /\ n.pc = "items"
  /\ rows' = [k \in Keys |-> IF <<n.moniker, k>> \in Listed(n) THEN Never ELSE rows[k]]
  /\ changes' = (changes \ {n}) \cup {[n EXCEPT !.pc = "monikers"]}
  /\ UNCHANGED <<now, monikers, calls, lastScan, scans>>

Unlist(n) ==
  /\ n.pc = "monikers"
  /\ monikers' = monikers \ Listed(n)
  /\ changes' = changes \ {n}
  /\ UNCHANGED <<now, rows, calls, lastScan, scans>>

-----------------------------------------------------------------------------
(* Specification *)

CallerStep(c) ==
  \/ \E k \in Keys :
       \/ GetOrCreateAsync(c, k)
       \/ RefreshAsync(c, k)
       \/ \E options \in Options : SetAsync(c, k, options)
       \/ RemoveAsync(c, k)
  \/ UpdateOnGet(c)
  \/ UpdateOnRefresh(c)
  \/ SelectValue(c)
  \/ \E options \in Options : Create(c, options)
  \/ UpdateItem(c)
  \/ InsertItem(c)
  \/ \E m \in Monikers : AddMoniker(c, m)
  \/ Return(c)
  \/ Fail(c)
  \/ ScanUnderLock(c)

Next ==
  \/ Tick
  \/ \E c \in Callers : CallerStep(c)
  \/ DeleteExpiredItems \/ DeleteOrphans \/ ScanFails
  \/ \E trigger \in NULL(Keys), m \in Monikers : NotifyChanged(trigger, m)
  \/ \E n \in changes : EvictItems(n) \/ Unlist(n)

Spec == Init /\ [][Next]_vars

-----------------------------------------------------------------------------
(* Properties *)

\* What the SELECT of c would return is not past its absolute expiration at the
\* time of the call, although storing an item with both expirations lets it live
\* longer: the UPDATE before the SELECT cuts it. Only an item that another call
\* stores between the two statements escapes.
NoReadPastAbsoluteExpiration ==
  \A c \in Callers :
    At(c, "select") /\ ~calls[c].overtaken =>
      LET r == rows[calls[c].key]
      IN  Live(r, calls[c].utcNow) /\ r.absolute # Never => calls[c].utcNow <= r.absolute

\* The duplicate key that SetCacheItem swallows is what its comment says it is:
\* another call stored an item under the key while this one did.
SwallowedOnlyForARival ==
  \A c \in Callers : At(c, "insert") /\ RowExists(c) => calls[c].overtaken

\* When no NotifyChanged is in progress, an item that was stored and listed with
\* none in progress is as new as the data behind it: changes reach every
\* such item, through expirations, scans, removals and races for its key.
ChangesReachSettledItems ==
  changes = {} =>
    \A k \in Keys : rows[k] # Never => rows[k].value # "outdated"

\* Scans begin more than an interval apart, however many threads find one due.
ScansAreSpaced ==
  [][lastScan' # lastScan /\ lastScan # Never =>
       lastScan' - lastScan > ExpiredItemsDeletionInterval]_vars
=============================================================================
