---------------------------- MODULE FasterStorage ----------------------------
(***************************************************************************)
(* The Faster storage service: clients update records under optimistic     *)
(* concurrency (ETags) and take locks that release themselves. The checks  *)
(* of CallbackFunctions run inside the operations of the FASTER store,     *)
(* which updates a record in place while it is in the mutable part of its  *)
(* log and makes a new one when it is not.                                 *)
(***************************************************************************)
EXTENDS Naturals

CONSTANTS
  Clients, Keys,
  UseLocks,  \* FasterOptions.UseLocks: ConcurrencyControlMode.RecordIsolation
  Ttl,       \* time to live of a lock, and of a record that has one
  Horizon,   \* bound of the clock
  MaxGuids,  \* bound: ETags and lock tokens created
  Star,       \* the ETag "*"
  None

ASSUME ConstantsAssumption ==
  /\ UseLocks \in BOOLEAN
  /\ Ttl \in Nat \ {0} /\ Horizon \in Nat /\ MaxGuids \in Nat
  /\ Star # None /\ {Star, None} \cap (Nat \cup Keys \cup Clients) = {}

VARIABLES
  now,       \* DateTime.UtcNow
  data,      \* the record of each key
  lease,     \* the record of each "$Lock_" key
  writing,   \* of each client: the write that its callback allowed
  seen,      \* of each client: the record it read last
  held,      \* of each client: its FasterLockToken
  guids,     \* Guid.NewGuid calls so far
  acked,     \* history: the updates that the record of a key stands for
  forgotten  \* history: tokens of locks the store dropped or moved out of reach

vars == <<now, data, lease, writing, seen, held, guids, acked, forgotten>>

Guid == 1..MaxGuids
Never == Horizon + Ttl + 1 \* 360 days
Time == 0..Never

Record == [value : SUBSET Guid, etag : Guid, expires : Time, mutable : BOOLEAN]
Lease == [token : Guid, expires : Time, mutable : BOOLEAN]
Upsert == [op : {"upsert"}, key : Keys, guid : Guid, value : SUBSET Guid, expires : Time,
           keeps : BOOLEAN]
Acquire == [op : {"acquire"}, key : Keys, guid : Guid, expires : Time]
Release == [op : {"release"}, key : Keys]
Seen == [key : Keys, value : SUBSET Guid, etag : Guid]
Lock == [key : Keys, token : Guid, expires : Time]

ASSUME NoneAssumption ==
  None \notin Record \cup Lease \cup Upsert \cup Acquire \cup Release \cup Seen \cup Lock

TypeOK ==
  /\ now \in 0..Horizon
  /\ data \in [Keys -> Record \cup {None}]
  /\ lease \in [Keys -> Lease \cup {None}]
  /\ writing \in [Clients -> Upsert \cup Acquire \cup Release \cup {None}]
  /\ seen \in [Clients -> Seen \cup {None}]
  /\ held \in [Clients -> Lock \cup {None}]
  /\ guids \in 0..MaxGuids
  /\ acked \in [Keys -> SUBSET Guid]
  /\ forgotten \subseteq Guid

Init ==
  /\ now = 0
  /\ data = [k \in Keys |-> None] /\ lease = [k \in Keys |-> None]
  /\ writing = [c \in Clients |-> None]
  /\ seen = [c \in Clients |-> None] /\ held = [c \in Clients |-> None]
  /\ guids = 0
  /\ acked = [k \in Keys |-> {}] /\ forgotten = {}

-----------------------------------------------------------------------------
(* The store *)

LockOps == {"acquire", "release"}

\* Nobody's callback is at work on the record of k, or records are not isolated.
DataFree(k) ==
  UseLocks => \A c \in Clients :
    writing[c] # None => writing[c].key # k \/ writing[c].op \in LockOps

LeaseFree(k) ==
  UseLocks => \A c \in Clients :
    writing[c] # None => writing[c].key # k \/ writing[c].op \notin LockOps

Idle(c) == writing[c] = None

Tick ==
  /\ now < Horizon
  /\ now' = now + 1
  /\ UNCHANGED <<data, lease, writing, seen, held, guids, acked, forgotten>>

Token(r) == IF r = None THEN {} ELSE {r.token}

\* A write updates the record in place, through the callback for that.
InPlace(r) == r # None /\ r.mutable

Moved(r) == IF r = None THEN r ELSE [r EXCEPT !.mutable = FALSE]

\* The log grows past the records of k: the next write makes a new record, with
\* no callback on the old one. Nobody is at work on them (epoch protection).
LogGrows(k) ==
  /\ \A c \in Clients : ~Idle(c) => writing[c].key # k
  /\ InPlace(data[k]) \/ InPlace(lease[k])
  /\ data' = [data EXCEPT ![k] = Moved(@)]
  /\ lease' = [lease EXCEPT ![k] = Moved(@)]
  /\ forgotten' = forgotten \cup Token(lease[k])
  /\ UNCHANGED <<now, writing, seen, held, guids, acked>>

\* StopAsync and StartAsync: PersistAsync checkpoints the index alone, and the
\* records are gone.
Restart ==
  /\ \A c \in Clients : Idle(c)
  /\ \E k \in Keys : data[k] # None \/ lease[k] # None
  /\ data' = [k \in Keys |-> None] /\ lease' = [k \in Keys |-> None]
  /\ acked' = [k \in Keys |-> {}]
  /\ forgotten' = forgotten \cup UNION {Token(lease[k]) : k \in Keys}
  /\ UNCHANGED <<now, writing, seen, held, guids>>

-----------------------------------------------------------------------------
(* Records *)

\* SingleReader and ConcurrentReader: an expired record reads as not found.
Readable(r) == r # None /\ r.expires >= now

GetAsync(c, k) ==
  /\ Idle(c) /\ DataFree(k)
  /\ seen' = [seen EXCEPT ![c] =
       IF Readable(data[k])
       THEN [key |-> k, value |-> data[k].value, etag |-> data[k].etag]
       ELSE None]
  /\ UNCHANGED <<now, data, lease, writing, held, guids, acked, forgotten>>

Matches(etag, r) == etag # None /\ etag = r.etag

\* Faulty variant: any ETag will do.
CanProceedWithETag(etag, r) ==
  InPlace(r) => etag # None \/ r.expires <= now

\* ConcurrentWriter for a record in place; SingleWriter, which asks nothing, for
\* one that is not there or not mutable.
CanProceed(etag, r) ==
  InPlace(r) => etag = Star \/ Matches(etag, r) \/ r.expires <= now

\* The ETags a client sends for k: that of the record it read, "*", or none. A
\* client that read the record adds its update to it.
ETagsOf(c, k) ==
  {Star, None} \cup IF seen[c] # None /\ seen[c].key = k THEN {seen[c].etag} ELSE {}

UpdatedValue(c, etag) ==
  (IF etag \in {Star, None} THEN {} ELSE seen[c].value) \cup {guids + 1}

\* UpsertAsync: the callback allows the write.
UpsertAsync(c, k, etag, ttl) ==
  /\ Idle(c) /\ DataFree(k)
  /\ etag \in ETagsOf(c, k)
  /\ CanProceed(etag, data[k])
  /\ guids < MaxGuids
  /\ guids' = guids + 1
  /\ writing' = [writing EXCEPT ![c] =
       [op |-> "upsert", key |-> k, guid |-> guids + 1, value |-> UpdatedValue(c, etag),
        expires |-> IF ttl = Never THEN Never ELSE now + ttl,
        keeps |-> InPlace(data[k]) /\ data[k].expires > now /\ etag # Star]]
  /\ UNCHANGED <<now, data, lease, seen, held, acked, forgotten>>

\* The record is written with a new ETag, and the client answered.
SetRecord(c) ==
  /\ ~Idle(c) /\ writing[c].op = "upsert"
  /\ LET w == writing[c]
     IN  /\ data' = [data EXCEPT ![w.key] = [value |-> w.value, etag |-> w.guid,
                       expires |-> w.expires, mutable |-> TRUE]]
         /\ acked' = [acked EXCEPT ![w.key] = (IF w.keeps THEN @ ELSE {}) \cup {w.guid}]
  /\ writing' = [writing EXCEPT ![c] = None]
  /\ seen' = [seen EXCEPT ![c] = None]
  /\ UNCHANGED <<now, lease, held, guids, forgotten>>

\* FasterConflictException: 409, and the client reads again.
UpsertConflicts(c, k, etag) ==
  /\ Idle(c) /\ DataFree(k)
  /\ etag \in ETagsOf(c, k)
  /\ ~CanProceed(etag, data[k])
  /\ seen' = [seen EXCEPT ![c] = None]
  /\ UNCHANGED <<now, data, lease, writing, held, guids, acked, forgotten>>

\* DeleteAsync looks at no ETag ...
DeleteAsync(k) ==
  /\ DataFree(k) /\ data[k] # None
  /\ data' = [data EXCEPT ![k] = None]
  /\ acked' = [acked EXCEPT ![k] = {}]
  /\ UNCHANGED <<now, lease, writing, seen, held, guids, forgotten>>

\* ... and takes a key that starts with '$', unlike the other operations.
DeleteLock(k) ==
  /\ LeaseFree(k) /\ lease[k] # None
  /\ lease' = [lease EXCEPT ![k] = None]
  /\ forgotten' = forgotten \cup Token(lease[k])
  /\ UNCHANGED <<now, data, writing, seen, held, guids, acked>>

-----------------------------------------------------------------------------
(* Locks *)

\* Faulty variant: the expiry of the request is looked at.
GrantableByInput(r) == InPlace(r) => r.expires < now + Ttl

\* InitialUpdater, InPlaceUpdater of an expired lock, or a new record that
\* SimpleFunctions fills with its input. In the other cases the operation is
\* cancelled and nothing changes.
Grantable(r) == InPlace(r) => r.expires < now

TryAcquireLockAsync(c, k) ==
  /\ Idle(c) /\ held[c] = None /\ LeaseFree(k)
  /\ Grantable(lease[k])
  /\ guids < MaxGuids
  /\ guids' = guids + 1
  /\ writing' = [writing EXCEPT ![c] =
       [op |-> "acquire", key |-> k, guid |-> guids + 1, expires |-> now + Ttl]]
  /\ UNCHANGED <<now, data, lease, seen, held, acked, forgotten>>

\* Faulty variant: the lock keeps the holder, not the token.
SetLockToHolder(c) ==
  /\ ~Idle(c) /\ writing[c].op = "acquire"
  /\ LET w == writing[c]
     IN  /\ lease' = [lease EXCEPT ![w.key] =
                        [token |-> c, expires |-> w.expires, mutable |-> TRUE]]
         /\ held' = [held EXCEPT ![c] =
                       [key |-> w.key, token |-> w.guid, expires |-> w.expires]]
  /\ writing' = [writing EXCEPT ![c] = None]
  /\ UNCHANGED <<now, data, seen, guids, acked, forgotten>>

SetLock(c) ==
  /\ ~Idle(c) /\ writing[c].op = "acquire"
  /\ LET w == writing[c]
     IN  /\ lease' = [lease EXCEPT ![w.key] =
                        [token |-> w.guid, expires |-> w.expires, mutable |-> TRUE]]
         /\ held' = [held EXCEPT ![c] =
                       [key |-> w.key, token |-> w.guid, expires |-> w.expires]]
  /\ writing' = [writing EXCEPT ![c] = None]
  /\ UNCHANGED <<now, data, seen, guids, acked, forgotten>>

\* Faulty variant: the tokens are not compared.
IsAnyHolder(r, token) == InPlace(r)

\* InPlaceUpdater compares the tokens, whether or not the lock has expired.
IsHolder(r, token) == InPlace(r) /\ r.token = token

ReleaseLockAsync(c) ==
  /\ Idle(c) /\ held[c] # None /\ LeaseFree(held[c].key)
  /\ IsHolder(lease[held[c].key], held[c].token)
  /\ writing' = [writing EXCEPT ![c] = [op |-> "release", key |-> held[c].key]]
  /\ UNCHANGED <<now, data, lease, seen, held, guids, acked, forgotten>>

\* RMWAction.ExpireAndStop removes the record.
RemoveLock(c) ==
  /\ ~Idle(c) /\ writing[c].op = "release"
  /\ lease' = [lease EXCEPT ![writing[c].key] = None]
  /\ held' = [held EXCEPT ![c] = None]
  /\ writing' = [writing EXCEPT ![c] = None]
  /\ UNCHANGED <<now, data, seen, guids, acked, forgotten>>

\* Another token, or none: cancelled, 409.
ReleaseCancelled(c) ==
  /\ Idle(c) /\ held[c] # None /\ LeaseFree(held[c].key)
  /\ LET r == lease[held[c].key] IN r # None => InPlace(r) /\ r.token # held[c].token
  /\ held' = [held EXCEPT ![c] = None]
  /\ UNCHANGED <<now, data, lease, writing, seen, guids, acked, forgotten>>

\* A record that is not mutable is replaced by the request, an expired lock.
ReleaseCopies(c) ==
  /\ Idle(c) /\ held[c] # None /\ LeaseFree(held[c].key)
  /\ LET r == lease[held[c].key] IN r # None /\ ~r.mutable
  /\ lease' = [lease EXCEPT ![held[c].key] =
                 [token |-> held[c].token, expires |-> 0, mutable |-> TRUE]]
  /\ held' = [held EXCEPT ![c] = None]
  /\ UNCHANGED <<now, data, writing, seen, guids, acked, forgotten>>

-----------------------------------------------------------------------------
ClientStep(c) ==
  \/ \E k \in Keys :
       \/ GetAsync(c, k) \/ TryAcquireLockAsync(c, k)
       \/ \E etag \in ETagsOf(c, k), ttl \in {Ttl, Never} : UpsertAsync(c, k, etag, ttl)
       \/ \E etag \in ETagsOf(c, k) : UpsertConflicts(c, k, etag)
  \/ SetRecord(c) \/ SetLock(c) \/ RemoveLock(c)
  \/ ReleaseLockAsync(c) \/ ReleaseCancelled(c) \/ ReleaseCopies(c)

Next ==
  \/ \E c \in Clients : ClientStep(c)
  \/ \E k \in Keys : DeleteAsync(k) \/ DeleteLock(k) \/ LogGrows(k)
  \/ Tick \/ Restart

Spec == Init /\ [][Next]_vars

-----------------------------------------------------------------------------
(* Properties *)

\* Conditional updates are not lost: the record holds every update acknowledged
\* since the last write that was allowed to ignore what was there ("*", an absent,
\* expired or moved record, a delete), whichever clients read and wrote it.
NoLostUpdate ==
  UseLocks => \A k \in Keys : data[k] # None => acked[k] \subseteq data[k].value

Holds(c) == held[c] # None /\ now < held[c].expires

\* Two clients do not both hold the lock of a key before it has released itself,
\* as long as the store has neither dropped nor moved its record.
LockExclusion ==
  UseLocks => \A c, d \in Clients :
    (Holds(c) /\ Holds(d) /\ held[c].key = held[d].key)
      => c = d \/ {held[c].token, held[d].token} \cap forgotten # {}

\* A lock that has not released itself is given up by its holder alone: a late
\* release by an earlier holder leaves it in place.
OnlyTheHolderReleases ==
  [][UseLocks => \A k \in Keys :
       LET r == lease[k]
       IN (r # None /\ now < r.expires /\ lease'[k] # r /\ r.token \notin forgotten') =>
            \E c \in Clients : held[c] # None /\ held[c].token = r.token /\ held'[c] = None]_vars
=============================================================================
