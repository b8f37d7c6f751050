------------------------- MODULE FasterStorageProofs -------------------------
(***************************************************************************)
(* The safety of the Faster storage service, for any number of clients,    *)
(* keys, ETags and tokens, any time to live and any horizon.               *)
(***************************************************************************)
EXTENDS FasterStorage, TLAPS

Doing(c, op) == writing[c] # None /\ writing[c].op = op

\* What the isolation of records gives: one write at a time on the record of a
\* key, and one operation at a time on its lock.
Isolation ==
  \A c, d \in Clients :
    (c # d /\ ~Idle(c) /\ ~Idle(d) /\ writing[c].key = writing[d].key)
      => (Doing(c, "upsert") <=> ~Doing(d, "upsert"))

\* An operation that has drawn a Guid and not yet written it.
Drawn(c) == Doing(c, "upsert") \/ Doing(c, "acquire")

\* A drawn Guid is not used anywhere until it is written; no two clients hold
\* the same token.
FreshGuids ==
  /\ \A k \in Keys : data[k] # None => data[k].etag <= guids
  /\ \A c \in Clients :
       /\ seen[c] # None => seen[c].etag <= guids
       /\ held[c] # None => held[c].token <= guids
       /\ Drawn(c) =>
            /\ writing[c].guid <= guids
            /\ \A k \in Keys : data[k] # None => data[k].etag # writing[c].guid
            /\ \A d \in Clients :
                 /\ seen[d] # None => seen[d].etag # writing[c].guid
                 /\ held[d] # None => held[d].token # writing[c].guid
                 /\ c # d /\ Drawn(d) => writing[d].guid # writing[c].guid
       /\ \A d \in Clients :
            c # d /\ held[c] # None /\ held[d] # None => held[c].token # held[d].token

\* An ETag stands for one value of a record, and an update that keeps what is
\* there was computed from it.
DataInv ==
  /\ \A c \in Clients :
       /\ (seen[c] # None /\ data[seen[c].key] # None
             /\ seen[c].etag = data[seen[c].key].etag)
            => seen[c].value = data[seen[c].key].value
       /\ Doing(c, "upsert") =>
            /\ writing[c].guid \in writing[c].value
            /\ writing[c].keeps => acked[writing[c].key] \subseteq writing[c].value
  /\ \A k \in Keys : data[k] # None => acked[k] \subseteq data[k].value

\* The lock that a client holds is the one in the store until it has expired, was
\* dropped or moved; an operation on a lock finds it as its callback did.
LeaseInv ==
  /\ \A k \in Keys : lease[k] # None /\ ~lease[k].mutable => lease[k].token \in forgotten
  /\ \A c \in Clients :
       /\ (held[c] # None /\ now <= held[c].expires /\ held[c].token \notin forgotten)
            => /\ lease[held[c].key] # None
               /\ lease[held[c].key].token = held[c].token
               /\ lease[held[c].key].expires = held[c].expires
       /\ Doing(c, "acquire") => Grantable(lease[writing[c].key])
       /\ Doing(c, "release") => /\ held[c] # None /\ held[c].key = writing[c].key
                                 /\ IsHolder(lease[writing[c].key], held[c].token)

IInv ==
  /\ TypeOK
  /\ FreshGuids
  /\ UseLocks => Isolation /\ DataInv /\ LeaseInv

-----------------------------------------------------------------------------
\* The inductive invariant holds initially.
LEMMA InitialState == Init => IInv
<1> SUFFICES ASSUME Init PROVE IInv
  OBVIOUS
<1>1. TypeOK
  BY ConstantsAssumption DEF Init, TypeOK
<1>2. FreshGuids
  BY DEF Init, FreshGuids, Drawn, Doing
<1>3. Isolation /\ DataInv /\ LeaseInv
  BY DEF Init, Isolation, DataInv, LeaseInv, Idle, Doing
<1>4. QED
  BY <1>1, <1>2, <1>3 DEF IInv

\* Every operation of the service keeps the state well typed.
LEMMA TypeStep == TypeOK /\ [Next]_vars => TypeOK'
<1> SUFFICES ASSUME TypeOK, [Next]_vars PROVE TypeOK'
  OBVIOUS
<1> USE DEF TypeOK
<1>1. ASSUME NEW c \in Clients, NEW k \in Keys, GetAsync(c, k) PROVE TypeOK'
  <2>1. Readable(data[k]) => [key |-> k, value |-> data[k].value, etag |-> data[k].etag] \in Seen
    BY DEF Readable, Record, Seen
  <2>2. seen' \in [Clients -> Seen \cup {None}]
    BY <1>1, <2>1 DEF GetAsync
  <2>3. QED
    BY <1>1, <2>2 DEF GetAsync
<1>2. ASSUME NEW c \in Clients, NEW k \in Keys, TryAcquireLockAsync(c, k) PROVE TypeOK'
  <2>1. guids + 1 \in Guid /\ now + Ttl \in Time
    BY <1>2, ConstantsAssumption DEF TryAcquireLockAsync, Guid, Time, Never
  <2>2. [op |-> "acquire", key |-> k, guid |-> guids + 1, expires |-> now + Ttl] \in Acquire
    BY <2>1 DEF Acquire
  <2>3. QED
    BY <1>2, <2>1, <2>2, ConstantsAssumption DEF TryAcquireLockAsync, Guid
<1>3. ASSUME NEW c \in Clients, NEW k \in Keys, NEW etag \in ETagsOf(c, k), NEW ttl \in {Ttl, Never},
             UpsertAsync(c, k, etag, ttl)
      PROVE TypeOK'
  <2> DEFINE w == [op |-> "upsert", key |-> k, guid |-> guids + 1, value |-> UpdatedValue(c, etag),
                   expires |-> IF ttl = Never THEN Never ELSE now + ttl,
                   keeps |-> InPlace(data[k]) /\ data[k].expires > now /\ etag # Star]
  <2>1. guids + 1 \in Guid /\ (IF ttl = Never THEN Never ELSE now + ttl) \in Time
    BY <1>3, ConstantsAssumption DEF UpsertAsync, Guid, Time, Never
  <2>2. UpdatedValue(c, etag) \in SUBSET Guid
    BY <2>1 DEF ETagsOf, UpdatedValue, Seen
  <2>3. w \in Upsert
    BY <2>1, <2>2 DEF Upsert
  <2>4. writing' = [writing EXCEPT ![c] = w] /\ guids' = guids + 1
    BY <1>3 DEF UpsertAsync
  <2> HIDE DEF w
  <2>5. QED
    BY <1>3, <2>1, <2>3, <2>4, ConstantsAssumption DEF UpsertAsync, Guid
<1>4. ASSUME NEW c \in Clients, NEW k \in Keys, NEW etag \in ETagsOf(c, k), UpsertConflicts(c, k, etag)
      PROVE TypeOK'
  BY <1>4 DEF UpsertConflicts
<1>5. ASSUME NEW c \in Clients, SetRecord(c) PROVE TypeOK'
  <2>1. writing[c] \in Upsert
    BY <1>5 DEF SetRecord, Idle, Acquire, Release
  <2>2. [value |-> writing[c].value, etag |-> writing[c].guid, expires |-> writing[c].expires,
         mutable |-> TRUE] \in Record
    BY <2>1 DEF Upsert, Record
  <2>3. writing[c].key \in Keys /\ writing[c].guid \in Guid
    BY <2>1 DEF Upsert
  <2>4. data' \in [Keys -> Record \cup {None}]
    BY <1>5, <2>2, <2>3 DEF SetRecord
  <2>5. acked' \in [Keys -> SUBSET Guid]
    BY <1>5, <2>3 DEF SetRecord
  <2>6. QED
    BY <1>5, <2>4, <2>5 DEF SetRecord
<1>6. ASSUME NEW c \in Clients, SetLock(c) PROVE TypeOK'
  <2>1. writing[c] \in Acquire
    BY <1>6 DEF SetLock, Idle, Upsert, Release
  <2>2. [token |-> writing[c].guid, expires |-> writing[c].expires, mutable |-> TRUE] \in Lease
    BY <2>1 DEF Acquire, Lease
  <2>3. [key |-> writing[c].key, token |-> writing[c].guid, expires |-> writing[c].expires] \in Lock
    BY <2>1 DEF Acquire, Lock
  <2>4. QED
    BY <1>6, <2>1, <2>2, <2>3 DEF SetLock, Acquire
<1>7. ASSUME NEW c \in Clients, RemoveLock(c) PROVE TypeOK'
  BY <1>7 DEF RemoveLock, Release
<1>8. ASSUME NEW c \in Clients, ReleaseLockAsync(c) PROVE TypeOK'
  <2>1. [op |-> "release", key |-> held[c].key] \in Release
    BY <1>8 DEF ReleaseLockAsync, Lock, Release
  <2>2. QED
    BY <1>8, <2>1 DEF ReleaseLockAsync
<1>9. ASSUME NEW c \in Clients, ReleaseCancelled(c) PROVE TypeOK'
  BY <1>9 DEF ReleaseCancelled
<1>10. ASSUME NEW c \in Clients, ReleaseCopies(c) PROVE TypeOK'
  <2>1. [token |-> held[c].token, expires |-> 0, mutable |-> TRUE] \in Lease
    BY <1>10, ConstantsAssumption DEF ReleaseCopies, Lock, Lease, Time, Never
  <2>2. QED
    BY <1>10, <2>1 DEF ReleaseCopies
<1>11. ASSUME NEW k \in Keys, DeleteAsync(k) PROVE TypeOK'
  BY <1>11 DEF DeleteAsync
<1>12. ASSUME NEW k \in Keys, DeleteLock(k) PROVE TypeOK'
  BY <1>12 DEF DeleteLock, Token, Lease
<1>13. ASSUME NEW k \in Keys, LogGrows(k) PROVE TypeOK'
  <2>1. Moved(data[k]) \in Record \cup {None}
    BY DEF Moved, Record
  <2>2. Moved(lease[k]) \in Lease \cup {None} /\ Token(lease[k]) \subseteq Guid
    BY DEF Moved, Token, Lease
  <2>3. QED
    BY <1>13, <2>1, <2>2 DEF LogGrows
<1>14. CASE Tick
  BY <1>14, ConstantsAssumption DEF Tick
<1>15. CASE Restart
  <2>1. UNION {Token(lease[k]) : k \in Keys} \subseteq Guid
    BY DEF Token, Lease
  <2>2. QED
    BY <1>15, <2>1 DEF Restart
<1>16. CASE UNCHANGED vars
  BY <1>16 DEF vars
<1>17. QED
  BY <1>1, <1>2, <1>3, <1>4, <1>5, <1>6, <1>7, <1>8, <1>9, <1>10, <1>11, <1>12, <1>13, <1>14, <1>15,
     <1>16 DEF Next, ClientStep

\* A Guid is drawn once: whatever the interleaving, the one that an operation
\* is about to write is new.
LEMMA FreshStep == TypeOK /\ FreshGuids /\ [Next]_vars => FreshGuids'
<1> SUFFICES ASSUME TypeOK, FreshGuids, [Next]_vars PROVE FreshGuids'
  OBVIOUS
<1> USE DEF TypeOK, FreshGuids, Drawn, Doing
<1>1. ASSUME NEW c \in Clients, NEW k \in Keys, GetAsync(c, k) PROVE FreshGuids'
  <2>1. Readable(data[k]) => data[k] # None
    BY DEF Readable
  <2>2. ASSUME NEW d \in Clients, seen'[d] # None
        PROVE seen'[d] = seen[d] \/ (data[k] # None /\ seen'[d].etag = data[k].etag)
    BY <1>1, <2>1, <2>2 DEF GetAsync
  <2>3. QED
    BY <1>1, <2>2 DEF GetAsync
<1>2. ASSUME NEW c \in Clients, guids' = guids + 1,
             writing'[c].guid = guids + 1,
             \A d \in Clients : d # c => writing'[d] = writing[d],
             UNCHANGED <<data, seen, held>>
      PROVE FreshGuids'
  <2>1. \A k \in Keys : data[k] # None => data[k].etag \in Nat /\ data[k].etag <= guids
    BY DEF Record, Guid
  <2>2. \A d \in Clients : seen[d] # None => seen[d].etag \in Nat /\ seen[d].etag <= guids
    BY DEF Seen, Guid
  <2>3. \A d \in Clients : held[d] # None => held[d].token \in Nat /\ held[d].token <= guids
    BY DEF Lock, Guid
  <2>4. \A d \in Clients : Drawn(d) => writing[d].guid \in Nat /\ writing[d].guid <= guids
    BY DEF Upsert, Acquire, Release, Guid
  <2> HIDE DEF TypeOK
  <2>5. guids \in Nat
    BY ConstantsAssumption DEF TypeOK
  <2>6. QED
    BY <1>2, <2>1, <2>2, <2>3, <2>4, <2>5
<1>3. ASSUME NEW c \in Clients, NEW k \in Keys, TryAcquireLockAsync(c, k) PROVE FreshGuids'
  BY <1>2, <1>3 DEF TryAcquireLockAsync
<1>4. ASSUME NEW c \in Clients, NEW k \in Keys, NEW etag \in ETagsOf(c, k), NEW ttl \in {Ttl, Never},
             UpsertAsync(c, k, etag, ttl)
      PROVE FreshGuids'
  BY <1>2, <1>4 DEF UpsertAsync
<1>5. ASSUME NEW c \in Clients, NEW k \in Keys, NEW etag \in ETagsOf(c, k), UpsertConflicts(c, k, etag)
      PROVE FreshGuids'
  BY <1>5 DEF UpsertConflicts
<1>6. ASSUME NEW c \in Clients, SetRecord(c) PROVE FreshGuids'
  <2>1. writing[c].key \in Keys /\ Drawn(c)
    BY <1>6 DEF SetRecord, Idle, Upsert, Acquire, Release
  <2>2. \A k \in Keys : data'[k] = data[k] \/ data'[k].etag = writing[c].guid
    BY <1>6, <2>1 DEF SetRecord
  <2>3. \A d \in Clients : /\ seen'[d] = IF d = c THEN None ELSE seen[d]
                           /\ writing'[d] = IF d = c THEN None ELSE writing[d]
    BY <1>6 DEF SetRecord
  <2>4. guids' = guids /\ held' = held
    BY <1>6 DEF SetRecord
  <2> HIDE DEF TypeOK
  <2>5. QED
    BY <2>1, <2>2, <2>3, <2>4
<1>7. ASSUME NEW c \in Clients, SetLock(c) PROVE FreshGuids'
  <2>1. Drawn(c)
    BY <1>7 DEF SetLock, Idle
  <2>2. \A d \in Clients : /\ d # c => held'[d] = held[d] /\ writing'[d] = writing[d]
                           /\ writing'[c] = None /\ held'[c].token = writing[c].guid
    BY <1>7 DEF SetLock
  <2>3. guids' = guids /\ data' = data /\ seen' = seen
    BY <1>7 DEF SetLock
  <2> HIDE DEF TypeOK
  <2>4. QED
    BY <2>1, <2>2, <2>3
<1>8. ASSUME NEW c \in Clients, RemoveLock(c) \/ ReleaseLockAsync(c) \/ ReleaseCancelled(c) \/ ReleaseCopies(c)
      PROVE FreshGuids'
  BY <1>8 DEF RemoveLock, ReleaseLockAsync, ReleaseCancelled, ReleaseCopies, Idle
<1>9. ASSUME NEW k \in Keys, DeleteAsync(k) \/ DeleteLock(k) PROVE FreshGuids'
  BY <1>9 DEF DeleteAsync, DeleteLock
<1>10. ASSUME NEW k \in Keys, LogGrows(k) PROVE FreshGuids'
  <2>1. \A q \in Keys : data'[q] # None => data[q] # None /\ data'[q].etag = data[q].etag
    BY <1>10 DEF LogGrows, Moved, Record
  <2>2. QED
    BY <1>10, <2>1 DEF LogGrows
<1>11. CASE Tick \/ Restart \/ UNCHANGED vars
  BY <1>11 DEF Tick, Restart, vars
<1>12. QED
  BY <1>1, <1>3, <1>4, <1>5, <1>6, <1>7, <1>8, <1>9, <1>10, <1>11 DEF Next, ClientStep

\* FasterOptions.UseLocks keeps the operations on a record apart.
LEMMA IsolationStep ==
  UseLocks /\ TypeOK /\ Isolation /\ [Next]_vars => Isolation'
<1> SUFFICES ASSUME UseLocks, TypeOK, Isolation, [Next]_vars PROVE Isolation'
  OBVIOUS
<1> USE DEF TypeOK, Isolation, Doing, Idle
<1>1. ASSUME NEW c \in Clients, NEW k \in Keys, TryAcquireLockAsync(c, k) PROVE Isolation'
  <2>1. \A d \in Clients : ~Idle(d) /\ writing[d].key = k => Doing(d, "upsert")
    BY <1>1 DEF TryAcquireLockAsync, LeaseFree, LockOps, Upsert, Acquire, Release
  <2>2. writing'[c].key = k /\ ~Doing(c, "upsert")'
    BY <1>1 DEF TryAcquireLockAsync
  <2>3. \A d \in Clients : d # c => writing'[d] = writing[d]
    BY <1>1 DEF TryAcquireLockAsync
  <2> HIDE DEF TypeOK
  <2>4. QED
    BY <2>1, <2>2, <2>3
<1>2. ASSUME NEW c \in Clients, NEW k \in Keys, NEW etag \in ETagsOf(c, k), NEW ttl \in {Ttl, Never},
             UpsertAsync(c, k, etag, ttl)
      PROVE Isolation'
  <2>1. \A d \in Clients : ~Idle(d) /\ writing[d].key = k => ~Doing(d, "upsert")
    BY <1>2 DEF UpsertAsync, DataFree, LockOps
  <2>2. writing'[c].key = k /\ writing'[c].op = "upsert"
    BY <1>2 DEF UpsertAsync
  <2>3. \A d \in Clients : d # c => writing'[d] = writing[d]
    BY <1>2 DEF UpsertAsync
  <2> HIDE DEF TypeOK
  <2>4. QED
    BY <2>1, <2>2, <2>3
<1>3. ASSUME NEW c \in Clients, ReleaseLockAsync(c) PROVE Isolation'
  <2>1. \A d \in Clients : ~Idle(d) /\ writing[d].key = held[c].key => Doing(d, "upsert")
    BY <1>3 DEF ReleaseLockAsync, LeaseFree, LockOps, Upsert, Acquire, Release
  <2>2. writing'[c].key = held[c].key /\ ~Doing(c, "upsert")'
    BY <1>3 DEF ReleaseLockAsync
  <2>3. \A d \in Clients : d # c => writing'[d] = writing[d]
    BY <1>3 DEF ReleaseLockAsync
  <2> HIDE DEF TypeOK
  <2>4. QED
    BY <2>1, <2>2, <2>3
<1>4. ASSUME NEW c \in Clients, SetRecord(c) \/ SetLock(c) \/ RemoveLock(c) PROVE Isolation'
  BY <1>4 DEF SetRecord, SetLock, RemoveLock
<1>5. ASSUME NEW c \in Clients, NEW k \in Keys,
             GetAsync(c, k) \/ \E etag \in ETagsOf(c, k) : UpsertConflicts(c, k, etag)
      PROVE Isolation'
  BY <1>5 DEF GetAsync, UpsertConflicts
<1>6. ASSUME NEW c \in Clients, ReleaseCancelled(c) \/ ReleaseCopies(c) PROVE Isolation'
  BY <1>6 DEF ReleaseCancelled, ReleaseCopies
<1>7. ASSUME NEW k \in Keys, DeleteAsync(k) \/ DeleteLock(k) \/ LogGrows(k) PROVE Isolation'
  BY <1>7 DEF DeleteAsync, DeleteLock, LogGrows
<1>8. CASE Tick \/ Restart \/ UNCHANGED vars
  BY <1>8 DEF Tick, Restart, vars
<1>9. QED
  BY <1>1, <1>2, <1>3, <1>4, <1>5, <1>6, <1>7, <1>8 DEF Next, ClientStep

\* An update that matched the ETag of a record was computed from all that is
\* acknowledged of it, and nothing is acknowledged between its check and its write.
LEMMA DataStep ==
  UseLocks /\ TypeOK /\ FreshGuids /\ Isolation /\ DataInv /\ [Next]_vars => DataInv'
<1> SUFFICES ASSUME UseLocks, TypeOK, FreshGuids, Isolation, DataInv, [Next]_vars PROVE DataInv'
  OBVIOUS
<1> USE DEF TypeOK, DataInv, Doing, Idle
<1>1. ASSUME NEW c \in Clients, NEW k \in Keys, GetAsync(c, k) PROVE DataInv'
  <2>1. /\ \A d \in Clients : d # c => seen'[d] = seen[d]
        /\ \/ seen'[c] = None
           \/ seen'[c].key = k /\ seen'[c].value = data[k].value
    BY <1>1 DEF GetAsync
  <2>2. UNCHANGED <<data, writing, acked>>
    BY <1>1 DEF GetAsync
  <2> HIDE DEF TypeOK
  <2>3. QED
    BY <2>1, <2>2
<1>2. ASSUME NEW c \in Clients, NEW k \in Keys, TryAcquireLockAsync(c, k) PROVE DataInv'
  BY <1>2 DEF TryAcquireLockAsync
<1>3. ASSUME NEW c \in Clients, NEW k \in Keys, NEW etag \in ETagsOf(c, k), NEW ttl \in {Ttl, Never},
             UpsertAsync(c, k, etag, ttl)
      PROVE DataInv'
  <2>1. /\ writing'[c].key = k /\ writing'[c].guid = guids + 1
        /\ writing'[c].value = UpdatedValue(c, etag)
        /\ writing'[c].keeps <=> InPlace(data[k]) /\ data[k].expires > now /\ etag # Star
    BY <1>3 DEF UpsertAsync
  <2>2. \A d \in Clients : d # c => writing'[d] = writing[d]
    BY <1>3 DEF UpsertAsync
  <2>3. UNCHANGED <<data, seen, acked>>
    BY <1>3 DEF UpsertAsync
  <2>4. ASSUME writing'[c].keeps PROVE acked[k] \subseteq UpdatedValue(c, etag)
    <3>1. data[k] # None /\ etag # Star /\ etag # None /\ etag = data[k].etag
      <4>1. InPlace(data[k]) /\ data[k].expires > now /\ etag # Star
        BY <2>1, <2>4
      <4>2. data[k] \in Record
        BY <4>1 DEF InPlace
      <4>3. ~(data[k].expires <= now)
        BY <4>1, <4>2, ConstantsAssumption DEF Record, Time, Never
      <4>4. QED
        BY <1>3, <4>1, <4>3 DEF UpsertAsync, CanProceed, Matches, InPlace
    <3>2. seen[c] # None /\ seen[c].key = k /\ seen[c].etag = etag
      BY <3>1 DEF ETagsOf
    <3>3. acked[k] \subseteq seen[c].value
      BY <3>1, <3>2
    <3>4. QED
      BY <3>1, <3>3 DEF UpdatedValue
  <2>5. guids + 1 \in UpdatedValue(c, etag)
    BY DEF UpdatedValue
  <2> HIDE DEF TypeOK
  <2>6. QED
    BY <2>1, <2>2, <2>3, <2>4, <2>5
<1>4. ASSUME NEW c \in Clients, NEW k \in Keys, NEW etag \in ETagsOf(c, k), UpsertConflicts(c, k, etag)
      PROVE DataInv'
  BY <1>4 DEF UpsertConflicts
<1>5. ASSUME NEW c \in Clients, SetRecord(c) PROVE DataInv'
  <2>1. Doing(c, "upsert") /\ writing[c].key \in Keys
    BY <1>5 DEF SetRecord, Upsert, Acquire, Release
  <2> DEFINE k == writing[c].key
  <2>2. \A q \in Keys : q # k => data'[q] = data[q] /\ acked'[q] = acked[q]
    BY <1>5, <2>1 DEF SetRecord
  <2>3. /\ data'[k].value = writing[c].value /\ data'[k].etag = writing[c].guid
        /\ acked'[k] = (IF writing[c].keeps THEN acked[k] ELSE {}) \cup {writing[c].guid}
    BY <1>5, <2>1 DEF SetRecord
  <2>4. /\ \A d \in Clients : d # c => seen'[d] = seen[d] /\ writing'[d] = writing[d]
        /\ seen'[c] = None /\ writing'[c] = None
    BY <1>5 DEF SetRecord
  <2>5. \A d \in Clients : d # c /\ Doing(d, "upsert") => writing[d].key # k
    BY <2>1 DEF Isolation
  <2>6. \A d \in Clients : seen[d] # None => seen[d].etag # writing[c].guid /\ seen[d].key \in Keys
    BY <2>1 DEF FreshGuids, Drawn, Seen
  <2>7. \A d \in Clients : Doing(d, "upsert") => writing[d].key \in Keys
    BY DEF Upsert, Acquire, Release
  <2>8. acked'[k] \subseteq data'[k].value
    BY <2>1, <2>3
  <2> HIDE DEF TypeOK, k
  <2>9. \A q \in Keys : data'[q] # None => acked'[q] \subseteq data'[q].value
    BY <2>2, <2>8
  <2>10. ASSUME NEW d \in Clients, Doing(d, "upsert")'
         PROVE /\ writing'[d].guid \in writing'[d].value
               /\ writing'[d].keeps => acked'[writing'[d].key] \subseteq writing'[d].value
    BY <2>2, <2>4, <2>5, <2>7, <2>10
  <2>11. ASSUME NEW d \in Clients, seen'[d] # None, data'[seen'[d].key] # None,
                seen'[d].etag = data'[seen'[d].key].etag
         PROVE seen'[d].value = data'[seen'[d].key].value
    BY <2>2, <2>3, <2>4, <2>6, <2>11
  <2>12. QED
    BY <2>9, <2>10, <2>11
<1>6. ASSUME NEW c \in Clients, SetLock(c) \/ RemoveLock(c) PROVE DataInv'
  BY <1>6 DEF SetLock, RemoveLock
<1>7. ASSUME NEW c \in Clients, ReleaseLockAsync(c) PROVE DataInv'
  BY <1>7 DEF ReleaseLockAsync
<1>8. ASSUME NEW c \in Clients, ReleaseCancelled(c) \/ ReleaseCopies(c) PROVE DataInv'
  BY <1>8 DEF ReleaseCancelled, ReleaseCopies
<1>9. ASSUME NEW k \in Keys, DeleteAsync(k) PROVE DataInv'
  <2>1. /\ data' = [data EXCEPT ![k] = None] /\ acked' = [acked EXCEPT ![k] = {}]
        /\ UNCHANGED <<seen, writing>>
    BY <1>9 DEF DeleteAsync
  <2>2. \A d \in Clients : seen[d] # None => seen[d].key \in Keys
    BY DEF Seen
  <2>3. \A d \in Clients : Doing(d, "upsert") => writing[d].key \in Keys
    BY DEF Upsert, Acquire, Release
  <2>4. QED
    BY <2>1, <2>2, <2>3
<1>10. ASSUME NEW k \in Keys, DeleteLock(k) PROVE DataInv'
  BY <1>10 DEF DeleteLock
<1>11. ASSUME NEW k \in Keys, LogGrows(k) PROVE DataInv'
  <2>1. \A q \in Keys : /\ data'[q] # None => data[q] # None
                        /\ data'[q] # None => data'[q].value = data[q].value
                        /\ data'[q] # None => data'[q].etag = data[q].etag
    BY <1>11 DEF LogGrows, Moved, Record
  <2>2. UNCHANGED <<seen, writing, acked>>
    BY <1>11 DEF LogGrows
  <2>3. \A d \in Clients : seen[d] # None => seen[d].key \in Keys
    BY DEF Seen
  <2> HIDE DEF TypeOK
  <2>4. QED
    BY <2>1, <2>2, <2>3
<1>12. CASE Restart
  <2>1. \A q \in Keys : data'[q] = None
    BY <1>12 DEF Restart
  <2>2. UNCHANGED <<seen, writing>> /\ \A d \in Clients : writing[d] = None
    BY <1>12 DEF Restart
  <2>3. \A d \in Clients : seen[d] # None => seen[d].key \in Keys
    BY DEF Seen
  <2>4. QED
    BY <2>1, <2>2, <2>3
<1>13. CASE Tick \/ UNCHANGED vars
  BY <1>13 DEF Tick, vars
<1>14. QED
  BY <1>1, <1>2, <1>3, <1>4, <1>5, <1>6, <1>7, <1>8, <1>9, <1>10, <1>11, <1>12, <1>13
  DEF Next, ClientStep

\* A lock leaves the store by its release, its expiry, or a step that puts its
\* token among the forgotten ones.
LEMMA LeaseStep ==
  UseLocks /\ TypeOK /\ FreshGuids /\ Isolation /\ LeaseInv /\ [Next]_vars => LeaseInv'
<1> SUFFICES ASSUME UseLocks, TypeOK, FreshGuids, Isolation, LeaseInv, [Next]_vars PROVE LeaseInv'
  OBVIOUS
<1> USE DEF TypeOK, LeaseInv, Doing, Idle
<1>a. \A d \in Clients : held[d] # None => held[d].key \in Keys /\ held[d].expires \in Nat
  BY ConstantsAssumption DEF Lock, Time, Never
<1>b. \A d \in Clients : Doing(d, "acquire") \/ Doing(d, "release") => writing[d].key \in Keys
  BY DEF Upsert, Acquire, Release
<1>c. \A k \in Keys : lease[k] # None => lease[k].expires \in Nat /\ lease[k].mutable \in BOOLEAN
  BY ConstantsAssumption DEF Lease, Time, Never
<1>d. now \in Nat
  BY ConstantsAssumption
<1>1. ASSUME NEW c \in Clients, NEW k \in Keys,
             GetAsync(c, k) \/ \E etag \in ETagsOf(c, k) : UpsertConflicts(c, k, etag)
      PROVE LeaseInv'
  BY <1>1 DEF GetAsync, UpsertConflicts, Grantable, InPlace, IsHolder
<1>2. ASSUME NEW c \in Clients, NEW k \in Keys, TryAcquireLockAsync(c, k) PROVE LeaseInv'
  <2>1. writing'[c].key = k /\ writing'[c].op = "acquire" /\ Grantable(lease[k])
    BY <1>2 DEF TryAcquireLockAsync
  <2>2. \A d \in Clients : d # c => writing'[d] = writing[d]
    BY <1>2 DEF TryAcquireLockAsync
  <2>3. UNCHANGED <<now, lease, held, forgotten>>
    BY <1>2 DEF TryAcquireLockAsync
  <2> HIDE DEF TypeOK
  <2>4. QED
    BY <2>1, <2>2, <2>3 DEF Grantable, InPlace, IsHolder
<1>3. ASSUME NEW c \in Clients, NEW k \in Keys, NEW etag \in ETagsOf(c, k), NEW ttl \in {Ttl, Never},
             UpsertAsync(c, k, etag, ttl)
      PROVE LeaseInv'
  <2>1. writing'[c].op = "upsert"
    BY <1>3 DEF UpsertAsync
  <2>2. \A d \in Clients : d # c => writing'[d] = writing[d]
    BY <1>3 DEF UpsertAsync
  <2>3. UNCHANGED <<now, lease, held, forgotten>>
    BY <1>3 DEF UpsertAsync
  <2> HIDE DEF TypeOK
  <2>4. QED
    BY <2>1, <2>2, <2>3 DEF Grantable, InPlace, IsHolder
<1>4. ASSUME NEW c \in Clients, SetRecord(c) PROVE LeaseInv'
  BY <1>4 DEF SetRecord, Grantable, InPlace, IsHolder
<1>5. ASSUME NEW c \in Clients, SetLock(c) PROVE LeaseInv'
  <2>1. Doing(c, "acquire") /\ writing[c].key \in Keys
    BY <1>5, <1>b DEF SetLock
  <2> DEFINE k == writing[c].key
             new == [token |-> writing[c].guid, expires |-> writing[c].expires, mutable |-> TRUE]
  <2>2. \A q \in Keys : lease'[q] = IF q = k THEN new ELSE lease[q]
    BY <1>5, <2>1 DEF SetLock
  <2>3. new # None
    <3>1. writing[c] \in Acquire
      BY <2>1 DEF Upsert, Release
    <3>2. new \in Lease
      BY <3>1 DEF Acquire, Lease
    <3>3. QED
      BY <3>2, NoneAssumption
  <2>4. /\ \A d \in Clients : d # c => held'[d] = held[d] /\ writing'[d] = writing[d]
        /\ writing'[c] = None
    BY <1>5 DEF SetLock
  <2>5. held'[c].key = k /\ held'[c].token = new.token /\ held'[c].expires = new.expires
    BY <1>5 DEF SetLock
  <2>6. \A d \in Clients : d # c /\ (Doing(d, "acquire") \/ Doing(d, "release")) => writing[d].key # k
    BY <2>1 DEF Isolation
  <2>7. Grantable(lease[k])
    BY <2>1
  <2>8. \A d \in Clients : (held[d] # None /\ held[d].key = k /\ now <= held[d].expires)
                             => held[d].token \in forgotten
    BY <2>1, <2>7, <1>c, <1>d DEF Grantable, InPlace
  <2>9. now' = now /\ forgotten' = forgotten
    BY <1>5 DEF SetLock
  <2>10. new.mutable
    OBVIOUS
  <2> HIDE DEF TypeOK, k, new
  <2>11. \A q \in Keys : lease'[q] # None /\ ~lease'[q].mutable => lease'[q].token \in forgotten'
    BY <2>2, <2>9, <2>10
  <2>12. ASSUME NEW d \in Clients, Doing(d, "acquire")' PROVE Grantable(lease[writing[d].key])'
    BY <2>2, <2>4, <2>6, <2>9, <2>12, <1>b DEF Grantable, InPlace
  <2>13. ASSUME NEW d \in Clients, Doing(d, "release")'
         PROVE /\ held'[d] # None /\ held'[d].key = writing'[d].key
               /\ IsHolder(lease[writing[d].key], held[d].token)'
    BY <2>2, <2>4, <2>6, <2>13, <1>b DEF IsHolder, InPlace
  <2>14. ASSUME NEW d \in Clients, held'[d] # None, now' <= held'[d].expires,
                held'[d].token \notin forgotten'
         PROVE /\ lease'[held'[d].key] # None
               /\ lease'[held'[d].key].token = held'[d].token
               /\ lease'[held'[d].key].expires = held'[d].expires
    <3>1. CASE d = c
      BY <3>1, <2>1, <2>2, <2>3, <2>5 DEF k
    <3>2. CASE d # c
      BY <3>2, <2>2, <2>4, <2>8, <2>9, <2>14, <1>a
    <3>3. QED
      BY <3>1, <3>2
  <2>15. QED
    BY <2>11, <2>12, <2>13, <2>14
<1>6. ASSUME NEW c \in Clients, RemoveLock(c) PROVE LeaseInv'
  <2>1. Doing(c, "release") /\ writing[c].key \in Keys
    BY <1>6, <1>b DEF RemoveLock
  <2> DEFINE k == writing[c].key
  <2>2. \A q \in Keys : lease'[q] = IF q = k THEN None ELSE lease[q]
    BY <1>6, <2>1 DEF RemoveLock
  <2>3. /\ \A d \in Clients : d # c => held'[d] = held[d] /\ writing'[d] = writing[d]
        /\ writing'[c] = None /\ held'[c] = None
    BY <1>6 DEF RemoveLock
  <2>4. now' = now /\ forgotten' = forgotten
    BY <1>6 DEF RemoveLock
  <2>5. held[c] # None /\ lease[k].token = held[c].token
    BY <2>1 DEF IsHolder
  <2>6. \A d \in Clients : d # c /\ (Doing(d, "acquire") \/ Doing(d, "release")) => writing[d].key # k
    BY <2>1 DEF Isolation
  <2>7. \A d \in Clients : (d # c /\ held[d] # None /\ held[d].key = k /\ now <= held[d].expires)
                             => held[d].token \in forgotten
    BY <2>5 DEF FreshGuids
  <2> HIDE DEF TypeOK, k
  <2>8. QED
    BY <2>2, <2>3, <2>4, <2>6, <2>7, <1>a, <1>b DEF Grantable, InPlace, IsHolder
<1>7. ASSUME NEW c \in Clients, ReleaseLockAsync(c) PROVE LeaseInv'
  <2>1. /\ writing'[c].key = held[c].key /\ writing'[c].op = "release"
        /\ held[c] # None /\ IsHolder(lease[held[c].key], held[c].token)
    BY <1>7 DEF ReleaseLockAsync
  <2>2. \A d \in Clients : d # c => writing'[d] = writing[d]
    BY <1>7 DEF ReleaseLockAsync
  <2>3. UNCHANGED <<now, lease, held, forgotten>>
    BY <1>7 DEF ReleaseLockAsync
  <2> HIDE DEF TypeOK
  <2>4. QED
    BY <2>1, <2>2, <2>3 DEF Grantable, InPlace, IsHolder
<1>8. ASSUME NEW c \in Clients, ReleaseCancelled(c) PROVE LeaseInv'
  <2>1. /\ \A d \in Clients : d # c => held'[d] = held[d]
        /\ held'[c] = None /\ writing[c] = None
    BY <1>8 DEF ReleaseCancelled
  <2>2. UNCHANGED <<now, lease, writing, forgotten>>
    BY <1>8 DEF ReleaseCancelled
  <2> HIDE DEF TypeOK
  <2>3. QED
    BY <2>1, <2>2 DEF Grantable, InPlace, IsHolder
<1>9. ASSUME NEW c \in Clients, ReleaseCopies(c) PROVE LeaseInv'
  <2> DEFINE k == held[c].key
             new == [token |-> held[c].token, expires |-> 0, mutable |-> TRUE]
  <2>1. k \in Keys /\ held[c] # None /\ lease[k] # None /\ ~lease[k].mutable
    BY <1>9, <1>a DEF ReleaseCopies
  <2>2. \A q \in Keys : lease'[q] = IF q = k THEN new ELSE lease[q]
    BY <1>9, <2>1 DEF ReleaseCopies
  <2>3. /\ \A d \in Clients : d # c => held'[d] = held[d]
        /\ held'[c] = None /\ writing[c] = None
    BY <1>9 DEF ReleaseCopies
  <2>4. now' = now /\ forgotten' = forgotten /\ writing' = writing
    BY <1>9 DEF ReleaseCopies
  <2>5. \A d \in Clients : Doing(d, "acquire") \/ Doing(d, "release") => writing[d].key # k
    BY <1>9 DEF ReleaseCopies, LeaseFree, LockOps
  <2>6. \A d \in Clients : (held[d] # None /\ held[d].key = k /\ now <= held[d].expires)
                             => held[d].token \in forgotten
    BY <2>1
  <2>7. new.mutable
    OBVIOUS
  <2> HIDE DEF TypeOK, k, new
  <2>8. QED
    BY <2>2, <2>3, <2>4, <2>5, <2>6, <2>7, <1>a, <1>b DEF Grantable, InPlace, IsHolder
<1>10. ASSUME NEW k \in Keys, DeleteAsync(k) PROVE LeaseInv'
  BY <1>10 DEF DeleteAsync, Grantable, InPlace, IsHolder
<1>11. ASSUME NEW k \in Keys, DeleteLock(k) PROVE LeaseInv'
  <2>1. \A q \in Keys : lease'[q] = IF q = k THEN None ELSE lease[q]
    BY <1>11 DEF DeleteLock
  <2>2. now' = now /\ held' = held /\ writing' = writing
    BY <1>11 DEF DeleteLock
  <2>3. lease[k] # None /\ forgotten' = forgotten \cup {lease[k].token}
    BY <1>11 DEF DeleteLock, Token
  <2>4. \A d \in Clients : Doing(d, "acquire") \/ Doing(d, "release") => writing[d].key # k
    BY <1>11 DEF DeleteLock, LeaseFree, LockOps
  <2> HIDE DEF TypeOK
  <2>5. QED
    BY <2>1, <2>2, <2>3, <2>4, <1>a, <1>b DEF Grantable, InPlace, IsHolder
<1>12. ASSUME NEW k \in Keys, LogGrows(k) PROVE LeaseInv'
  <2>1. \A q \in Keys : lease'[q] = IF q = k THEN Moved(lease[k]) ELSE lease[q]
    BY <1>12 DEF LogGrows
  <2>2. now' = now /\ held' = held /\ writing' = writing
    BY <1>12 DEF LogGrows
  <2>3. /\ forgotten \subseteq forgotten'
        /\ lease[k] # None => lease[k].token \in forgotten'
    BY <1>12 DEF LogGrows, Token
  <2>4. \A d \in Clients : Doing(d, "acquire") \/ Doing(d, "release") => writing[d].key # k
    BY <1>12 DEF LogGrows
  <2>5. Moved(lease[k]) # None => lease[k] # None /\ Moved(lease[k]).token = lease[k].token
    BY DEF Moved, Lease
  <2> HIDE DEF TypeOK
  <2>6. QED
    BY <2>1, <2>2, <2>3, <2>4, <2>5, <1>a, <1>b DEF Grantable, InPlace, IsHolder
<1>13. CASE Restart
  <2>1. \A q \in Keys : lease'[q] = None
    BY <1>13 DEF Restart
  <2>2. UNCHANGED <<now, held, writing>> /\ \A d \in Clients : writing[d] = None
    BY <1>13 DEF Restart
  <2>3. ASSUME NEW q \in Keys, lease[q] # None PROVE lease[q].token \in forgotten'
    BY <1>13, <2>3 DEF Restart, Token
  <2>4. forgotten \subseteq forgotten'
    BY <1>13 DEF Restart
  <2> HIDE DEF TypeOK
  <2>5. QED
    BY <2>1, <2>2, <2>3, <2>4, <1>a
<1>14. CASE Tick
  <2>1. now' = now + 1 /\ UNCHANGED <<lease, held, writing, forgotten>>
    BY <1>14 DEF Tick
  <2> HIDE DEF TypeOK
  <2>2. QED
    BY <2>1, <1>a, <1>b, <1>c, <1>d DEF Grantable, InPlace, IsHolder
<1>15. CASE UNCHANGED vars
  BY <1>15 DEF vars, Grantable, InPlace, IsHolder
<1>16. QED
  BY <1>1, <1>2, <1>3, <1>4, <1>5, <1>6, <1>7, <1>8, <1>9, <1>10, <1>11, <1>12, <1>13, <1>14, <1>15
  DEF Next, ClientStep

-----------------------------------------------------------------------------
\* The inductive invariant holds in every reachable state.
THEOREM Invariant == Spec => []IInv
<1>1. IInv /\ [Next]_vars => IInv'
  <2>1. UseLocks' = UseLocks
    OBVIOUS
  <2>2. QED
    BY TypeStep, FreshStep, IsolationStep, DataStep, LeaseStep DEF IInv
<1>2. QED
  BY InitialState, <1>1, PTL DEF Spec

\* The state stays well typed.
THEOREM TypeCorrect == Spec => []TypeOK
<1>1. IInv => TypeOK
  BY DEF IInv
<1>2. QED
  BY Invariant, <1>1, PTL

\* A conditional update loses no acknowledged update of its record, however many
\* clients read and write it.
THEOREM UpdatesAreKept == Spec => []NoLostUpdate
<1>1. IInv => NoLostUpdate
  BY DEF IInv, DataInv, NoLostUpdate
<1>2. QED
  BY Invariant, <1>1, PTL

\* Two clients never both hold a lock that has not released itself, was not
\* dropped and did not move.
THEOREM LocksExclude == Spec => []LockExclusion
<1>1. IInv => LockExclusion
  <2> SUFFICES ASSUME IInv, UseLocks, NEW c \in Clients, NEW d \in Clients,
                      Holds(c), Holds(d), held[c].key = held[d].key,
                      held[c].token \notin forgotten, held[d].token \notin forgotten
               PROVE c = d
    BY DEF LockExclusion
  <2>1. now <= held[c].expires /\ now <= held[d].expires
    BY ConstantsAssumption DEF Holds, IInv, TypeOK, Lock, Time, Never
  <2>2. held[c].token = held[d].token
    BY <2>1 DEF IInv, LeaseInv, Holds
  <2>3. QED
    BY <2>2 DEF IInv, FreshGuids, Holds
<1>2. QED
  BY Invariant, <1>1, PTL

\* The lock that a step takes out of the store before its time, without forgetting
\* it, is the one its holder gives up in that step.
THEOREM HolderReleases == Spec => OnlyTheHolderReleases
<1> DEFINE Kept == UseLocks => \A k \in Keys :
             LET r == lease[k]
             IN (r # None /\ now < r.expires /\ lease'[k] # r /\ r.token \notin forgotten') =>
                  \E c \in Clients : held[c] # None /\ held[c].token = r.token /\ held'[c] = None
<1>1. IInv /\ [Next]_vars => [Kept]_vars
  <2> SUFFICES ASSUME IInv, [Next]_vars, UseLocks, NEW k \in Keys,
                      lease[k] # None, now < lease[k].expires, lease'[k] # lease[k],
                      lease[k].token \notin forgotten'
               PROVE \E c \in Clients : held[c] # None /\ held[c].token = lease[k].token /\ held'[c] = None
    OBVIOUS
  <2> USE DEF IInv, TypeOK, LeaseInv
  <2>1. CASE \E c \in Clients, q \in Keys :
          \/ GetAsync(c, q) \/ TryAcquireLockAsync(c, q)
          \/ \E etag \in ETagsOf(c, q), ttl \in {Ttl, Never} : UpsertAsync(c, q, etag, ttl)
          \/ \E etag \in ETagsOf(c, q) : UpsertConflicts(c, q, etag)
    BY <2>1 DEF GetAsync, TryAcquireLockAsync, UpsertAsync, UpsertConflicts
  <2>2. CASE \E c \in Clients : SetRecord(c) \/ ReleaseLockAsync(c) \/ ReleaseCancelled(c)
    BY <2>2 DEF SetRecord, ReleaseLockAsync, ReleaseCancelled
  <2>3. ASSUME NEW c \in Clients, SetLock(c) PROVE FALSE
    <3>1. k = writing[c].key /\ Doing(c, "acquire") /\ forgotten' = forgotten
      BY <2>3 DEF SetLock, Doing, Idle
    <3>2. lease[k].expires \in Nat /\ now \in Nat /\ lease[k].mutable \in BOOLEAN
      BY ConstantsAssumption DEF Lease, Time, Never
    <3>3. lease[k].mutable
      BY <3>1, <3>2
    <3>4. lease[k].expires < now
      BY <3>1, <3>3 DEF Grantable, InPlace
    <3>5. QED
      BY <3>2, <3>4
  <2>4. ASSUME NEW c \in Clients, RemoveLock(c)
        PROVE held[c] # None /\ held[c].token = lease[k].token /\ held'[c] = None
    <3>1. k = writing[c].key /\ Doing(c, "release")
      BY <2>4 DEF RemoveLock, Doing, Idle
    <3>2. QED
      BY <2>4, <3>1 DEF RemoveLock, IsHolder
  <2>5. ASSUME NEW c \in Clients, ReleaseCopies(c) PROVE FALSE
    BY <2>5 DEF ReleaseCopies
  <2>6. CASE \E q \in Keys : DeleteAsync(q) \/ DeleteLock(q) \/ LogGrows(q)
    BY <2>6 DEF DeleteAsync, DeleteLock, LogGrows, Token
  <2>7. CASE Restart
    BY <2>7 DEF Restart, Token
  <2>8. CASE Tick \/ UNCHANGED vars
    BY <2>8 DEF Tick, vars
  <2>9. QED
    BY <2>1, <2>2, <2>3, <2>4, <2>5, <2>6, <2>7, <2>8 DEF Next, ClientStep
<1>2. QED
  BY Invariant, <1>1, PTL DEF Spec, OnlyTheHolderReleases

=============================================================================
