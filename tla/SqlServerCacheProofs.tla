------------------------ MODULE SqlServerCacheProofs ------------------------
(***************************************************************************)
(* The safety of SqlServerCache, for any number of threads, keys and       *)
(* monikers, any expirations, any number of changes of the data.           *)
(***************************************************************************)
EXTENDS SqlServerCache, TLAPS

\* An item without a sliding expiration lives as long as its absolute one.
ExpirationInv ==
  \A k \in Keys :
    rows[k] # Never /\ rows[k].sliding = Never => rows[k].expires = rows[k].absolute

\* The item of key k that a call of c stored and has still to list.
IsListing(c, k) ==
  /\ At(c, "list") \/ (At(c, "mutex") /\ calls[c].next = "list")
  /\ calls[c].key = k
  /\ \A m \in MonikersOf[k] : m \in calls[c].todo \/ <<m, k>> \in monikers

\* A call that found the data calm has all its monikers before it: it is on its
\* way to the factory, or to listing the item that it is about to store.
CalmInv ==
  \A c \in Callers : calls[c] # Never /\ calls[c].calm =>
    /\ calls[c].todo = MonikersOf[calls[c].key]
    /\ IF calls[c].pc \in {"update", "insert"} THEN calls[c].next = "list"
       ELSE calls[c].pc \in {"get", "select", "mutex", "factory"} /\ calls[c].next = "factory"

\* An item on its way to "settled" belongs to the call that lists it.
ListingInv ==
  \A k \in Keys : rows[k] # Never =>
    \A c \in Callers : rows[k].value = c => IsListing(c, k)

\* A settled item is listed under all its monikers, and stays so when it is
\* outdated.
Dated(k) == rows[k] # Never /\ rows[k].value \in {"settled", "outdated"}

ListedInv == \A k \in Keys : Dated(k) => \A m \in MonikersOf[k] : <<m, k>> \in monikers

\* While a NotifyChanged is in progress nothing is calm, an item it is for is not
\* settled, and it is outdated only while there are evictions to come.
ChangeInv ==
  /\ changes # {} =>
       /\ \A c \in Callers : calls[c] # Never => ~calls[c].calm
       /\ \A k \in Keys : rows[k] # Never => rows[k].value \notin Callers
  /\ \A n \in changes, k \in Keys : Dated(k) =>
       /\ n.trigger # k
       /\ n.moniker \in MonikersOf[k] => rows[k].value = "outdated" /\ n.pc = "items"
  /\ \A k \in Keys : rows[k] # Never /\ rows[k].value = "outdated" =>
       \E n \in changes : n.moniker \in MonikersOf[k] /\ n.pc = "items"

IInv ==
  /\ TypeOK
  /\ ExpirationInv /\ NoReadPastAbsoluteExpiration
  /\ SwallowedOnlyForARival
  /\ CalmInv /\ ListingInv /\ ListedInv /\ ChangeInv

-----------------------------------------------------------------------------
(* The operators of the model *)

\* A call that has none of the data of its commands yet.
LEMMA DoingIsACall ==
  ASSUME NEW pc \in Pc, NEW k \in Keys
  PROVE  /\ Doing(pc, k) \in Call /\ Doing(pc, k) # Never
         /\ Doing(pc, k).pc = pc /\ Doing(pc, k).key = k /\ Doing(pc, k).next = "done"
         /\ ~Doing(pc, k).calm
<1>1. 0 \in Time
  BY ConstantsAssumption DEF Time
<1>2. Doing(pc, k) \in Call
  BY <1>1 DEF Doing, Call
<1>3. QED
  BY <1>2, NeverAssumption DEF Doing

\* A call that goes on keeps its key, its monikers and what it will do next.
LEMMA GoesOn ==
  ASSUME TypeOK, NEW c \in Callers, calls[c] # Never, NEW pc \in Pc
  PROVE  /\ Goes(c, pc) \in Call
         /\ Goes(c, pc).pc = pc /\ Goes(c, pc).key = calls[c].key
         /\ Goes(c, pc).next = calls[c].next /\ Goes(c, pc).todo = calls[c].todo
         /\ Goes(c, pc).calm = calls[c].calm
<1>1. calls[c] \in Call
  BY DEF TypeOK, NULL
<1>2. 0 \in Time
  BY ConstantsAssumption DEF Time
<1>3. QED
  BY <1>1, <1>2 DEF Goes, Doing, Call

\* A call that stored its item goes to check whether a scan is due, no longer calm.
LEMMA StoredCall ==
  ASSUME TypeOK, NEW c \in Callers, calls[c] # Never
  PROVE  /\ Stored(c) \in Call
         /\ Stored(c).pc = "mutex" /\ Stored(c).key = calls[c].key
         /\ Stored(c).next = calls[c].next /\ Stored(c).todo = calls[c].todo
         /\ ~Stored(c).calm
<1>1. Goes(c, "mutex") \in Call /\ "mutex" \in Pc
  BY GoesOn DEF Pc
<1> DEFINE g == Goes(c, "mutex")
<1>2. /\ g.pc = "mutex" /\ g.key = calls[c].key
      /\ g.next = calls[c].next /\ g.todo = calls[c].todo
  BY <1>1, GoesOn
<1>3. Stored(c) = [g EXCEPT !.calm = FALSE]
  BY DEF Stored
<1> HIDE DEF g
<1>4. g \in Call
  BY <1>1 DEF g
<1>5. QED
  BY <1>2, <1>3, <1>4 DEF Call

\* Whether or not a thread goes to scan for expired items, its call goes on from
\* there to what comes next.
LEMMA CheckedCall ==
  ASSUME NEW c \in Callers, NEW call \in Call, call.pc = "mutex", NEW r \in Checked(c, call)
  PROVE  \/ r = Never /\ call.next = "done"
         \/ /\ r \in Call
            /\ r.pc = "mutex" \/ (r.pc = call.next /\ call.next # "done")
            /\ r.key = call.key /\ r.next = call.next /\ r.todo = call.todo
            /\ r.calm = call.calm
<1>1. r = [call EXCEPT !.pc = "mutex"] \/ r = Proceed(call)
  BY DEF Checked
<1>2. QED
  BY <1>1 DEF Proceed, Call, Pc

\* A stored row; one without a sliding expiration ends with its absolute one.
LEMMA NewRows ==
  ASSUME TypeOK, NEW c \in Callers, calls[c] # Never
  PROVE  /\ NewRow(c) \in Row /\ NewRow(c) # Never
         /\ NewRow(c).sliding = Never => NewRow(c).expires = NewRow(c).absolute
         /\ NewRow(c).value = IF calls[c].calm THEN c ELSE "loose"
<1> DEFINE s == calls[c].options.sliding
           a == calls[c].options.absolute
           t == calls[c].utcNow
<1>1. t \in Nat
  BY ConstantsAssumption DEF TypeOK, NULL, Call, Time
<1>2. s \in NULL(Nat) /\ a \in NULL(Nat)
  <2>1. calls[c].options \in Options \cup {NoOptions}
    BY DEF TypeOK, NULL, Call
  <2>2. QED
    BY <2>1, ConstantsAssumption DEF NULL, NoOptions
<1>3. Never \notin Nat /\ DefaultSlidingExpiration \in Nat
  BY ConstantsAssumption
<1>4. NewRow(c).value = IF calls[c].calm THEN c ELSE "loose"
  BY DEF NewRow
<1> DEFINE sliding == IF s = Never /\ a = Never THEN DefaultSlidingExpiration ELSE s
           absolute == IF a = Never THEN Never ELSE t + a
           expires == t + IF sliding = Never THEN a ELSE sliding
<1>5. NewRow(c) = [sliding |-> sliding, absolute |-> absolute, expires |-> expires,
                   value |-> IF calls[c].calm THEN c ELSE "loose"]
  BY DEF NewRow
<1> HIDE DEF s, a, t
<1>6. sliding \in NULL(Nat) /\ absolute \in NULL(Nat) /\ expires \in Nat
  BY <1>1, <1>2, <1>3 DEF NULL
<1>7. sliding = Never => expires = absolute
  BY <1>1, <1>2, <1>3 DEF NULL
<1> HIDE DEF sliding, absolute, expires
<1>8. NewRow(c) \in Row
  BY <1>5, <1>6 DEF Row
<1>9. QED
  BY <1>4, <1>5, <1>7, <1>8, NeverAssumption

\* A prolonged row lives no longer than its absolute expiration.
LEMMA SlidRows ==
  ASSUME NEW r \in Row, NEW t \in Nat, r.sliding # Never
  PROVE  /\ Slid(r, t) \in Row /\ Slid(r, t) # Never
         /\ Slid(r, t).sliding = r.sliding /\ Slid(r, t).absolute = r.absolute
         /\ Slid(r, t).value = r.value
         /\ r.absolute # Never => Slid(r, t).expires <= r.absolute
<1>1. r.sliding \in Nat /\ r.absolute \in NULL(Nat)
  BY DEF Row, NULL
<1> DEFINE e == IF r.absolute # Never /\ r.absolute - t <= r.sliding THEN r.absolute ELSE t + r.sliding
<1>2. e \in Nat
  BY <1>1 DEF NULL
<1>3. r.absolute # Never => e <= r.absolute
  BY <1>1 DEF NULL
<1>4. Slid(r, t) = [r EXCEPT !.expires = e]
  BY DEF Slid
<1> HIDE DEF e
<1>5. Slid(r, t) \in Row /\ Slid(r, t).expires = e
  BY <1>2, <1>4 DEF Row
<1>6. QED
  BY <1>3, <1>4, <1>5, NeverAssumption DEF Row

\* The UPDATE of a get or a refresh changes the expiration of a live sliding item.
LEMMA UpdatedRows ==
  ASSUME TypeOK, NEW k \in Keys, NEW t \in Nat, UpdateCacheItem(k, t)
  PROVE  /\ rows' \in [Keys -> NULL(Row)]
         /\ \A q \in Keys : q # k => rows'[q] = rows[q]
         /\ rows[k] = Never <=> rows'[k] = Never
         /\ rows[k] # Never => /\ rows'[k].sliding = rows[k].sliding
                               /\ rows'[k].absolute = rows[k].absolute
                               /\ rows'[k].value = rows[k].value
         /\ \/ rows'[k] = rows[k]
            \/ rows[k].sliding # Never
               /\ (rows[k].absolute # Never => rows'[k].expires <= rows[k].absolute)
<1> DEFINE updated == Live(rows[k], t) /\ rows[k].sliding # Never /\ rows[k].absolute # rows[k].expires
<1>1. CASE updated
  <2>1. rows[k] \in Row /\ rows[k].sliding # Never /\ rows[k] # Never
    BY <1>1 DEF Live, TypeOK, NULL
  <2>2. rows' = [rows EXCEPT ![k] = Slid(rows[k], t)]
    BY <1>1 DEF UpdateCacheItem
  <2>3. rows'[k] = Slid(rows[k], t)
    BY <2>2 DEF TypeOK
  <2>4. Slid(rows[k], t) \in Row
    BY <2>1, SlidRows
  <2>5. rows' \in [Keys -> NULL(Row)] /\ \A q \in Keys : q # k => rows'[q] = rows[q]
    BY <2>2, <2>4 DEF TypeOK, NULL
  <2>6. QED
    BY <2>1, <2>3, <2>5, SlidRows
<1>2. CASE ~updated
  BY <1>2 DEF UpdateCacheItem, TypeOK
<1>3. QED
  BY <1>1, <1>2

\* The end of a call changes what the value of its item stands for, if anything.
LEMMA BecomingRows ==
  ASSUME TypeOK, NEW c \in Callers, NEW v \in {"settled", "loose"}, Becomes(c, v)
  PROVE  /\ rows' \in [Keys -> NULL(Row)]
         /\ \A k \in Keys :
              /\ rows[k] = Never <=> rows'[k] = Never
              /\ rows[k] # Never =>
                   /\ rows'[k].sliding = rows[k].sliding /\ rows'[k].absolute = rows[k].absolute
                   /\ rows'[k].expires = rows[k].expires
                   /\ rows'[k].value = IF rows[k].value = c THEN v ELSE rows[k].value
<1> SUFFICES ASSUME NEW k \in Keys
             PROVE /\ rows'[k] \in NULL(Row)
                   /\ rows[k] = Never <=> rows'[k] = Never
                   /\ rows[k] # Never =>
                        /\ rows'[k].sliding = rows[k].sliding /\ rows'[k].absolute = rows[k].absolute
                        /\ rows'[k].expires = rows[k].expires
                        /\ rows'[k].value = IF rows[k].value = c THEN v ELSE rows[k].value
  BY DEF Becomes
<1>1. CASE rows[k] # Never /\ rows[k].value = c
  <2>1. rows[k] \in Row
    BY <1>1 DEF TypeOK, NULL
  <2>2. rows'[k] = [rows[k] EXCEPT !.value = v]
    BY <1>1 DEF Becomes
  <2>3. rows'[k] \in Row
    BY <2>1, <2>2 DEF Row
  <2>4. QED
    BY <1>1, <2>1, <2>2, <2>3, NeverAssumption DEF Row, NULL
<1>2. CASE ~(rows[k] # Never /\ rows[k].value = c)
  BY <1>2 DEF Becomes, TypeOK
<1>3. QED
  BY <1>1, <1>2

\* A change of the data outdates the settled items behind it.
LEMMA ChangedRows ==
  ASSUME TypeOK, NEW trigger \in NULL(Keys), NEW m \in Monikers, NotifyChanged(trigger, m)
  PROVE  /\ rows' \in [Keys -> NULL(Row)]
         /\ \A k \in Keys :
              /\ rows[k] = Never <=> rows'[k] = Never
              /\ rows[k] # Never =>
                   /\ rows'[k].sliding = rows[k].sliding /\ rows'[k].absolute = rows[k].absolute
                   /\ rows'[k].expires = rows[k].expires
                   /\ rows'[k].value = IF rows[k].value \in Callers \/ k = trigger THEN "loose"
                                       ELSE IF rows[k].value = "settled" /\ m \in MonikersOf[k]
                                            THEN "outdated" ELSE rows[k].value
<1> DEFINE value(k) == IF rows[k].value \in Callers \/ k = trigger THEN "loose"
                       ELSE IF rows[k].value = "settled" /\ m \in MonikersOf[k]
                            THEN "outdated" ELSE rows[k].value
<1>1. rows' = [k \in Keys |-> IF rows[k] = Never THEN Never ELSE [rows[k] EXCEPT !.value = value(k)]]
  BY DEF NotifyChanged
<1>2. ASSUME NEW k \in Keys, rows[k] # Never
      PROVE rows[k] \in Row /\ value(k) \in Callers \cup {"settled", "outdated", "loose"}
  BY <1>2 DEF TypeOK, NULL, Row
<1> HIDE DEF value
<1>3. ASSUME NEW k \in Keys, rows[k] # Never
      PROVE /\ rows'[k] \in Row /\ rows'[k].value = value(k)
            /\ rows'[k].sliding = rows[k].sliding /\ rows'[k].absolute = rows[k].absolute
            /\ rows'[k].expires = rows[k].expires
  BY <1>1, <1>2, <1>3 DEF Row
<1>4. QED
  BY <1>1, <1>3, NeverAssumption DEF NULL, value

\* The calls while an item is stored: those between two statements on its key are
\* overtaken, and nothing else of them changes.
LEMMA OvertakenCalls ==
  ASSUME TypeOK, NEW c \in Callers, NEW r \in NULL(Call), calls' = Overtaking(c, r)
  PROVE  /\ calls' \in [Callers -> NULL(Call)]
         /\ calls'[c] = r
         /\ \A d \in Callers : d # c =>
              /\ calls[d] = Never <=> calls'[d] = Never
              /\ calls[d] # Never =>
                   /\ calls'[d].pc = calls[d].pc /\ calls'[d].key = calls[d].key
                   /\ calls'[d].utcNow = calls[d].utcNow /\ calls'[d].next = calls[d].next
                   /\ calls'[d].todo = calls[d].todo /\ calls'[d].calm = calls[d].calm
                   /\ calls[d].overtaken => calls'[d].overtaken
                   /\ (calls[d].pc \in {"select", "insert"} /\ calls[d].key = calls[c].key)
                        => calls'[d].overtaken
<1>1. calls'[c] = r
  BY DEF Overtaking
<1>2. ASSUME NEW d \in Callers, d # c
      PROVE /\ calls'[d] \in NULL(Call)
            /\ calls[d] = Never <=> calls'[d] = Never
            /\ calls[d] # Never =>
                 /\ calls'[d].pc = calls[d].pc /\ calls'[d].key = calls[d].key
                 /\ calls'[d].utcNow = calls[d].utcNow /\ calls'[d].next = calls[d].next
                 /\ calls'[d].todo = calls[d].todo /\ calls'[d].calm = calls[d].calm
                 /\ calls[d].overtaken => calls'[d].overtaken
                 /\ (calls[d].pc \in {"select", "insert"} /\ calls[d].key = calls[c].key)
                      => calls'[d].overtaken
  <2> DEFINE hit == (At(d, "select") \/ At(d, "insert")) /\ calls[d].key = calls[c].key
  <2>1. CASE hit
    <3>1. calls[d] \in Call /\ calls[d] # Never
      BY <2>1 DEF At, TypeOK, NULL
    <3>2. calls'[d] = [calls[d] EXCEPT !.overtaken = TRUE]
      BY <1>2, <2>1 DEF Overtaking
    <3>3. calls'[d] \in Call /\ calls'[d] # Never
      <4>1. calls'[d] \in Call
        BY <3>1, <3>2 DEF Call
      <4>2. QED
        BY <4>1, NeverAssumption
    <3>4. QED
      BY <3>1, <3>2, <3>3 DEF Call, NULL
  <2>2. CASE ~hit
    <3>1. calls'[d] = calls[d]
      BY <1>2, <2>2 DEF Overtaking
    <3>2. calls[d] \in NULL(Call)
      BY DEF TypeOK
    <3>3. QED
      BY <2>2, <3>1, <3>2 DEF At
  <2>3. QED
    BY <2>1, <2>2
<1>3. calls' \in [Callers -> NULL(Call)]
  <2>1. \A d \in Callers : calls'[d] \in NULL(Call)
    BY <1>1, <1>2
  <2>2. QED
    BY <2>1 DEF Overtaking
<1>4. QED
  BY <1>1, <1>2, <1>3

-----------------------------------------------------------------------------
(* What the steps of a call change *)

\* A command of c that stores nothing: c goes on to r.
GoesTo(c, r) == calls' = [calls EXCEPT ![c] = r]

\* A command of c that leaves the tables alone: c goes on to r. A call is calm from
\* its beginning on or not at all.
QuietStep(c) ==
  /\ UNCHANGED <<now, rows, monikers, changes>>
  /\ \E r \in NULL(Call) :
       /\ GoesTo(c, r)
       /\ r # Never => r.pc # "select"
       /\ (r # Never /\ r.pc = "insert") =>
            calls[c] # Never /\ r.key = calls[c].key /\ rows[r.key] = Never
       /\ (r # Never /\ r.calm) =>
            /\ calls[c] = Never =>
                 changes = {} /\ r.todo = MonikersOf[r.key] /\ r.pc = "get" /\ r.next = "factory"
            /\ calls[c] # Never =>
                 /\ calls[c].calm /\ r.key = calls[c].key /\ r.todo = calls[c].todo
                 /\ \/ /\ calls[c].pc \notin {"update", "insert"}
                       /\ r.pc \in {"mutex", calls[c].next} /\ r.next = calls[c].next
                    \/ r.pc = "update" /\ r.next = "list"
                    \/ r.pc = "insert" /\ calls[c].pc = "update" /\ r.next = calls[c].next
       /\ (At(c, "list") \/ (At(c, "mutex") /\ calls[c].next = "list")) =>
            r # Never /\ r.pc = "list" /\ r.key = calls[c].key /\ r.todo = calls[c].todo

\* The commands of a call that leave the tables alone.
LEMMA QuietSteps ==
  ASSUME TypeOK, NEW c \in Callers,
         \/ \E k \in Keys : GetOrCreateAsync(c, k) \/ RefreshAsync(c, k)
         \/ \E k \in Keys, options \in Options : SetAsync(c, k, options)
         \/ SelectValue(c) \/ ScanUnderLock(c)
         \/ \E options \in Options : Create(c, options)
         \/ UpdateItem(c) /\ ~RowExists(c)
         \/ InsertItem(c) /\ RowExists(c)
  PROVE  QuietStep(c)
<1>0. now \in Time /\ {"get", "refresh", "update", "mutex", "insert"} \subseteq Pc /\ (changes = {}) \in BOOLEAN
  BY DEF TypeOK, Pc
<1>c. calls[c] # Never => calls[c] \in Call
  BY DEF TypeOK, NULL
<1>1. ASSUME NEW k \in Keys, GetOrCreateAsync(c, k) PROVE QuietStep(c)
  <2> DEFINE d == Doing("get", k)
             r == [d EXCEPT !.utcNow = now, !.next = "factory", !.todo = MonikersOf[k], !.calm = (changes = {})]
  <2>1. d \in Call /\ d.pc = "get" /\ d.key = k
    BY <1>0, DoingIsACall
  <2> HIDE DEF d
  <2>2. MonikersOf[k] \in SUBSET Monikers
    BY ConstantsAssumption
  <2>3. r \in Call /\ r.pc = "get" /\ r.key = k /\ r.todo = MonikersOf[k]
        /\ r.next = "factory" /\ r.calm = (changes = {})
    BY <1>0, <2>1, <2>2, ZenonT(30) DEF Call
  <2>4. calls' = [calls EXCEPT ![c] = r] /\ calls[c] = Never /\ UNCHANGED <<now, rows, monikers, changes>>
    BY <1>1 DEF GetOrCreateAsync, Idle, d
  <2> HIDE DEF r
  <2>5. QED
    BY <2>3, <2>4 DEF QuietStep, GoesTo, At, NULL
<1>2. ASSUME NEW k \in Keys, RefreshAsync(c, k) PROVE QuietStep(c)
  <2> DEFINE d == Doing("refresh", k)
             r == [d EXCEPT !.utcNow = now]
  <2>1. d \in Call /\ d.pc = "refresh" /\ ~d.calm
    BY <1>0, DoingIsACall
  <2> HIDE DEF d
  <2>2. r \in Call /\ r.pc = "refresh" /\ ~r.calm
    BY <1>0, <2>1 DEF Call
  <2>3. calls' = [calls EXCEPT ![c] = r] /\ calls[c] = Never /\ UNCHANGED <<now, rows, monikers, changes>>
    BY <1>2 DEF RefreshAsync, Idle, d
  <2> HIDE DEF r
  <2>4. QED
    BY <2>2, <2>3 DEF QuietStep, GoesTo, At, NULL
<1>3. ASSUME NEW k \in Keys, NEW options \in Options, SetAsync(c, k, options) PROVE QuietStep(c)
  <2> DEFINE d == Doing("update", k)
             r == [d EXCEPT !.utcNow = now, !.options = options]
  <2>1. d \in Call /\ d.pc = "update" /\ ~d.calm
    BY <1>0, DoingIsACall
  <2> HIDE DEF d
  <2>2. r \in Call /\ r.pc = "update" /\ ~r.calm
    BY <1>0, <2>1 DEF Call
  <2>3. calls' = [calls EXCEPT ![c] = r] /\ calls[c] = Never /\ UNCHANGED <<now, rows, monikers, changes>>
    BY <1>3 DEF SetAsync, Idle, d
  <2> HIDE DEF r
  <2>4. QED
    BY <2>2, <2>3 DEF QuietStep, GoesTo, At, NULL
<1>4. CASE SelectValue(c)
  <2>1. calls[c] # Never /\ calls[c].pc = "select" /\ calls[c].key \in Keys
    BY <1>4, <1>c DEF SelectValue, At, Call
  <2> DEFINE call == IF Live(rows[calls[c].key], calls[c].utcNow)
                     THEN Doing("mutex", calls[c].key) ELSE Goes(c, "mutex")
  <2>2. PICK r \in Checked(c, call) : calls' = [calls EXCEPT ![c] = r]
    BY <1>4 DEF SelectValue
  <2>3. /\ call \in Call /\ call.pc = "mutex"
        /\ call.calm => /\ calls[c].calm /\ call.key = calls[c].key /\ call.todo = calls[c].todo
                        /\ call.next = calls[c].next
    BY <2>1, <1>0, DoingIsACall, GoesOn
  <2> HIDE DEF call
  <2>4. \/ r = Never
        \/ /\ r \in Call
           /\ r.pc = "mutex" \/ (r.pc = call.next /\ call.next # "done")
           /\ r.key = call.key /\ r.next = call.next /\ r.todo = call.todo /\ r.calm = call.calm
    BY <2>3, CheckedCall
  <2>5. call.next \in {"factory", "list", "done"}
    BY <2>3 DEF Call
  <2>6. UNCHANGED <<now, rows, monikers, changes>>
    BY <1>4 DEF SelectValue
  <2>7. /\ r \in NULL(Call)
        /\ r # Never => /\ r.pc \in {"mutex", "factory", "list"}
                        /\ r.calm => /\ calls[c].calm /\ r.key = calls[c].key /\ r.todo = calls[c].todo
                                     /\ r.pc \in {"mutex", calls[c].next} /\ r.next = calls[c].next
    BY <2>3, <2>4, <2>5 DEF NULL
  <2>8. QED
    BY <2>1, <2>2, <2>6, <2>7 DEF QuietStep, GoesTo, At
<1>5. CASE ScanUnderLock(c)
  <2>1. calls[c] \in Call /\ calls[c] # Never /\ calls[c].pc = "mutex"
    BY <1>5, <1>c DEF ScanUnderLock, At
  <2> DEFINE r == Proceed(calls[c])
  <2>2. calls' = [calls EXCEPT ![c] = r] /\ UNCHANGED <<now, rows, monikers, changes>>
    BY <1>5 DEF ScanUnderLock
  <2>3. \/ r = Never /\ calls[c].next = "done"
        \/ /\ r \in Call /\ r.pc = calls[c].next /\ r.pc \in {"factory", "list"}
           /\ r.key = calls[c].key /\ r.next = calls[c].next /\ r.todo = calls[c].todo
           /\ r.calm = calls[c].calm
    BY <2>1 DEF Proceed, Call, Pc
  <2> HIDE DEF r
  <2>4. r \in NULL(Call)
    BY <2>3 DEF NULL
  <2>5. QED
    BY <2>1, <2>2, <2>3, <2>4, NeverAssumption DEF QuietStep, GoesTo, At
<1>6. ASSUME NEW options \in Options, Create(c, options) PROVE QuietStep(c)
  <2>1. calls[c] # Never /\ calls[c].pc = "factory"
    BY <1>6 DEF Create, At
  <2> DEFINE g == Goes(c, "update")
             r == [g EXCEPT !.options = options, !.utcNow = now, !.next = "list"]
  <2>2. /\ g \in Call /\ g.pc = "update" /\ g.key = calls[c].key /\ g.todo = calls[c].todo
        /\ g.calm = calls[c].calm
    BY <2>1, <1>0, GoesOn
  <2> HIDE DEF g
  <2>3. /\ r \in Call /\ r.pc = "update" /\ r.key = calls[c].key /\ r.todo = calls[c].todo
        /\ r.calm = calls[c].calm /\ r.next = "list"
    BY <1>0, <2>2 DEF Call
  <2>4. calls' = [calls EXCEPT ![c] = r] /\ UNCHANGED <<now, rows, monikers, changes>>
    BY <1>6 DEF Create, g
  <2> HIDE DEF r
  <2>5. QED
    BY <2>1, <2>3, <2>4 DEF QuietStep, GoesTo, At, NULL
<1>7. CASE UpdateItem(c) /\ ~RowExists(c)
  <2> DEFINE r == [calls[c] EXCEPT !.pc = "insert"]
  <2>1. calls[c] \in Call /\ calls[c] # Never /\ calls[c].pc = "update" /\ rows[calls[c].key] = Never
    BY <1>7, <1>c DEF UpdateItem, At, RowExists
  <2>2. calls' = [calls EXCEPT ![c] = r] /\ UNCHANGED <<now, rows, monikers, changes>>
    BY <1>7 DEF UpdateItem
  <2>3. /\ r \in Call /\ r.pc = "insert" /\ r.key = calls[c].key /\ r.todo = calls[c].todo
        /\ r.calm = calls[c].calm /\ r.next = calls[c].next
    BY <2>1, <1>0 DEF Call
  <2> HIDE DEF r
  <2>4. QED
    BY <2>1, <2>2, <2>3 DEF QuietStep, GoesTo, At, NULL
<1>8. CASE InsertItem(c) /\ RowExists(c)
  <2>1. calls[c] # Never /\ calls[c].pc = "insert" /\ rows[calls[c].key] # Never
    BY <1>8 DEF InsertItem, At, RowExists
  <2>2. PICK r \in Checked(c, Stored(c)) : calls' = [calls EXCEPT ![c] = r]
    BY <1>8, <2>1 DEF InsertItem
  <2>3. Stored(c) \in Call /\ Stored(c).pc = "mutex" /\ ~Stored(c).calm
    BY <2>1, StoredCall
  <2>4. r = Never \/ (r \in Call /\ ~r.calm /\ r.pc \in {"mutex", "factory", "list"})
    BY <2>3, CheckedCall DEF Call
  <2>5. UNCHANGED <<now, rows, monikers, changes>>
    BY <1>8, <2>1 DEF InsertItem
  <2>6. QED
    BY <2>1, <2>2, <2>4, <2>5 DEF QuietStep, GoesTo, At, NULL
<1>9. QED
  BY <1>1, <1>2, <1>3, <1>4, <1>5, <1>6, <1>7, <1>8

\* The command of c that stores the item of its key: c goes on to r.
StoreStep(c) ==
  /\ calls[c] # Never /\ calls[c].pc \in {"update", "insert"}
  /\ UNCHANGED <<now, monikers, changes>>
  /\ rows' = [rows EXCEPT ![calls[c].key] = NewRow(c)]
  /\ \E r \in NULL(Call) :
       /\ calls' = Overtaking(c, r)
       /\ r # Never => /\ r.pc \in {"mutex", "factory", "list"} /\ ~r.calm
                       /\ r.key = calls[c].key /\ r.todo = calls[c].todo
       /\ calls[c].next = "list" =>
            r # Never /\ (r.pc = "list" \/ (r.pc = "mutex" /\ r.next = "list"))

\* The commands of a call that store an item.
LEMMA StoreSteps ==
  ASSUME TypeOK, NEW c \in Callers,
         \/ UpdateItem(c) /\ RowExists(c)
         \/ InsertItem(c) /\ ~RowExists(c)
  PROVE  StoreStep(c)
<1>1. calls[c] # Never /\ calls[c].pc \in {"update", "insert"}
  BY DEF UpdateItem, InsertItem, At
<1>2. PICK r \in Checked(c, Stored(c)) : calls' = Overtaking(c, r)
  BY DEF UpdateItem, InsertItem, RowExists
<1>3. rows' = [rows EXCEPT ![calls[c].key] = NewRow(c)] /\ UNCHANGED <<now, monikers, changes>>
  BY DEF UpdateItem, InsertItem, RowExists
<1>4. /\ Stored(c) \in Call /\ Stored(c).pc = "mutex" /\ ~Stored(c).calm
      /\ Stored(c).key = calls[c].key /\ Stored(c).next = calls[c].next
      /\ Stored(c).todo = calls[c].todo
  BY <1>1, StoredCall
<1>5. Stored(c).next \in {"factory", "list", "done"}
  BY <1>4 DEF Call
<1>6. \/ r = Never /\ Stored(c).next = "done"
      \/ /\ r \in Call
         /\ r.pc = "mutex" \/ (r.pc = Stored(c).next /\ Stored(c).next # "done")
         /\ r.key = Stored(c).key /\ r.next = Stored(c).next /\ r.todo = Stored(c).todo
         /\ r.calm = Stored(c).calm
  BY <1>4, CheckedCall
<1>7. /\ r \in NULL(Call)
      /\ r # Never => /\ r.pc \in {"mutex", "factory", "list"} /\ ~r.calm
                      /\ r.key = calls[c].key /\ r.todo = calls[c].todo
      /\ calls[c].next = "list" =>
           r # Never /\ (r.pc = "list" \/ (r.pc = "mutex" /\ r.next = "list"))
  BY <1>4, <1>5, <1>6, NeverAssumption DEF NULL
<1>8. QED
  BY <1>1, <1>2, <1>3, <1>7 DEF StoreStep

\* A refresh or the first statement of a get: c goes on to r.
ProlongStep(c) ==
  /\ calls[c] # Never /\ calls[c].pc \in {"get", "refresh"}
  /\ UNCHANGED <<now, monikers, changes>>
  /\ UpdateCacheItem(calls[c].key, calls[c].utcNow)
  /\ \E r \in NULL(Call) :
       /\ GoesTo(c, r)
       /\ (r # Never /\ r.pc = "select") =>
            r.key = calls[c].key /\ r.utcNow = calls[c].utcNow
       /\ r # Never => r.pc \in {"select", "mutex", "factory", "list"}
       /\ (r # Never /\ r.calm) =>
            /\ calls[c].calm /\ r.key = calls[c].key /\ r.todo = calls[c].todo
            /\ r.next = calls[c].next /\ r.pc \in {"select", "mutex", r.next}

\* The commands that prolong a sliding item.
LEMMA ProlongSteps ==
  ASSUME TypeOK, NEW c \in Callers, UpdateOnGet(c) \/ UpdateOnRefresh(c)
  PROVE  ProlongStep(c)
<1>1. calls[c] # Never /\ calls[c] \in Call /\ calls[c].pc \in {"get", "refresh"}
  BY DEF UpdateOnGet, UpdateOnRefresh, At, TypeOK, NULL
<1>2. UNCHANGED <<now, monikers, changes>> /\ UpdateCacheItem(calls[c].key, calls[c].utcNow)
  BY DEF UpdateOnGet, UpdateOnRefresh
<1>3. CASE UpdateOnGet(c)
  <2> DEFINE r == [calls[c] EXCEPT !.pc = "select"]
  <2>1. calls' = [calls EXCEPT ![c] = r]
    BY <1>3 DEF UpdateOnGet
  <2>2. /\ r \in Call /\ r.pc = "select" /\ r.key = calls[c].key /\ r.utcNow = calls[c].utcNow
        /\ r.calm = calls[c].calm /\ r.todo = calls[c].todo /\ r.next = calls[c].next
    BY <1>1 DEF Call, Pc
  <2> HIDE DEF r
  <2>3. QED
    BY <1>1, <1>2, <2>1, <2>2 DEF ProlongStep, GoesTo, NULL
<1>4. CASE UpdateOnRefresh(c)
  <2> DEFINE g == Goes(c, "mutex")
  <2>1. PICK r \in Checked(c, g) : calls' = [calls EXCEPT ![c] = r]
    BY <1>4 DEF UpdateOnRefresh
  <2>2. /\ g \in Call /\ g.pc = "mutex" /\ g.key = calls[c].key /\ g.todo = calls[c].todo
        /\ g.calm = calls[c].calm /\ g.next = calls[c].next
    BY <1>1, GoesOn DEF Pc
  <2> HIDE DEF g
  <2>3. \/ r = Never
        \/ /\ r \in Call
           /\ r.pc = "mutex" \/ (r.pc = g.next /\ g.next # "done")
           /\ r.key = g.key /\ r.next = g.next /\ r.todo = g.todo /\ r.calm = g.calm
    BY <2>2, CheckedCall
  <2>4. g.next \in {"factory", "list", "done"}
    BY <2>2 DEF Call
  <2>5. /\ r \in NULL(Call)
        /\ r # Never => /\ r.pc \in {"mutex", "factory", "list"} /\ r.calm = calls[c].calm
                        /\ r.key = calls[c].key /\ r.todo = calls[c].todo
                        /\ r.next = calls[c].next /\ r.pc \in {"mutex", r.next}
    BY <2>2, <2>3, <2>4 DEF NULL
  <2>6. QED
    BY <1>1, <1>2, <2>1, <2>5 DEF ProlongStep, GoesTo
<1>5. QED
  BY <1>3, <1>4

\* What a step of the system is, seen from the tables and the calls.
LEMMA Steps ==
  ASSUME TypeOK, [Next]_vars
  PROVE  \/ \E c \in Callers :
              \/ QuietStep(c) \/ StoreStep(c) \/ ProlongStep(c)
              \/ \E k \in Keys : RemoveAsync(c, k)
              \/ \E m \in Monikers : AddMoniker(c, m)
              \/ Return(c) \/ Fail(c)
         \/ Tick \/ DeleteExpiredItems \/ DeleteOrphans \/ ScanFails
         \/ \E trigger \in NULL(Keys), m \in Monikers : NotifyChanged(trigger, m)
         \/ \E n \in changes : EvictItems(n) \/ Unlist(n)
         \/ UNCHANGED vars
<1>1. ASSUME NEW c \in Callers, CallerStep(c)
      PROVE \/ QuietStep(c) \/ StoreStep(c) \/ ProlongStep(c)
            \/ \E k \in Keys : RemoveAsync(c, k)
            \/ \E m \in Monikers : AddMoniker(c, m)
            \/ Return(c) \/ Fail(c)
  <2>1. CASE (\E k \in Keys : GetOrCreateAsync(c, k) \/ RefreshAsync(c, k))
             \/ (\E k \in Keys, options \in Options : SetAsync(c, k, options))
             \/ SelectValue(c) \/ ScanUnderLock(c)
             \/ (\E options \in Options : Create(c, options))
    BY <2>1, QuietSteps
  <2>2. CASE UpdateItem(c) \/ InsertItem(c)
    BY <2>2, QuietSteps, StoreSteps
  <2>3. CASE UpdateOnGet(c) \/ UpdateOnRefresh(c)
    BY <2>3, ProlongSteps
  <2>4. QED
    BY <1>1, <2>1, <2>2, <2>3 DEF CallerStep
<1>2. QED
  BY <1>1 DEF Next

\* A removal: c goes on to r, which has nothing left to do.
LEMMA Removal ==
  ASSUME TypeOK, NEW c \in Callers, NEW k \in Keys, RemoveAsync(c, k)
  PROVE  /\ calls[c] = Never /\ rows' = [rows EXCEPT ![k] = Never]
         /\ UNCHANGED <<now, monikers, lastScan, scans, changes>>
         /\ \E r \in NULL(Call) : GoesTo(c, r) /\ (r # Never => r.pc = "mutex" /\ ~r.calm)
<1> DEFINE call == Doing("mutex", k)
<1>1. PICK r \in Checked(c, call) : calls' = [calls EXCEPT ![c] = r]
  BY DEF RemoveAsync
<1>2. call \in Call /\ call.pc = "mutex" /\ call.next = "done" /\ ~call.calm
  BY DoingIsACall DEF Pc
<1> HIDE DEF call
<1>3. r = Never \/ (r \in Call /\ r.pc = "mutex" /\ ~r.calm)
  BY <1>2, CheckedCall
<1>4. calls[c] = Never /\ rows' = [rows EXCEPT ![k] = Never]
  BY DEF RemoveAsync, Idle
<1>5. UNCHANGED <<now, monikers, lastScan, scans, changes>>
  BY DEF RemoveAsync
<1>6. QED
  BY <1>1, <1>3, <1>4, <1>5 DEF GoesTo, NULL

\* The inductive invariant holds initially.
LEMMA InitialState == Init => IInv
<1> SUFFICES ASSUME Init PROVE IInv
  OBVIOUS
<1>1. TypeOK
  BY ConstantsAssumption DEF Init, TypeOK, Time, NULL
<1>2. ExpirationInv /\ NoReadPastAbsoluteExpiration /\ SwallowedOnlyForARival
  BY DEF Init, ExpirationInv, NoReadPastAbsoluteExpiration, SwallowedOnlyForARival, At
<1>3. CalmInv /\ ListingInv /\ ListedInv /\ ChangeInv
  BY DEF Init, CalmInv, ListingInv, ListedInv, ChangeInv, Dated
<1>4. QED
  BY <1>1, <1>2, <1>3 DEF IInv

\* Scans keep their part of the state well typed.
LEMMA ScanTypeStep ==
  TypeOK /\ [Next]_vars => lastScan' \in NULL(Time) /\ scans' \subseteq {"items", "monikers"}
<1> SUFFICES ASSUME TypeOK, [Next]_vars
             PROVE lastScan' \in NULL(Time) /\ scans' \subseteq {"items", "monikers"}
  OBVIOUS
<1> USE DEF TypeOK
<1>1. ASSUME NEW c \in Callers, ScanUnderLock(c)
      PROVE lastScan' \in NULL(Time) /\ scans' \subseteq {"items", "monikers"}
  BY <1>1 DEF ScanUnderLock, NULL
<1>2. ASSUME NEW c \in Callers, CallerStep(c), ~ScanUnderLock(c)
      PROVE UNCHANGED <<lastScan, scans>>
  BY <1>2 DEF CallerStep, GetOrCreateAsync, RefreshAsync, SetAsync, RemoveAsync, UpdateOnGet,
       UpdateOnRefresh, SelectValue, Create, UpdateItem, InsertItem, AddMoniker, Return, Fail
<1>3. CASE Tick \/ DeleteExpiredItems \/ DeleteOrphans \/ ScanFails
  BY <1>3 DEF Tick, DeleteExpiredItems, DeleteOrphans, ScanFails
<1>4. ASSUME NEW trigger \in NULL(Keys), NEW m \in Monikers, NotifyChanged(trigger, m)
      PROVE UNCHANGED <<lastScan, scans>>
  BY <1>4 DEF NotifyChanged
<1>5. ASSUME NEW n \in changes, EvictItems(n) \/ Unlist(n) PROVE UNCHANGED <<lastScan, scans>>
  BY <1>5 DEF EvictItems, Unlist
<1>6. CASE UNCHANGED vars
  BY <1>6 DEF vars
<1>7. QED
  BY <1>1, <1>2, <1>3, <1>4, <1>5, <1>6 DEF Next

\* Every command keeps the tables and the calls well typed.
LEMMA TypeStep == TypeOK /\ [Next]_vars => TypeOK'
<1> SUFFICES ASSUME TypeOK, [Next]_vars PROVE TypeOK'
  OBVIOUS
<1> DEFINE Typed == /\ now' \in Time /\ rows' \in [Keys -> NULL(Row)]
                    /\ monikers' \subseteq Monikers \X Keys
                    /\ calls' \in [Callers -> NULL(Call)]
                    /\ changes' \subseteq [moniker : Monikers, trigger : NULL(Keys), pc : {"items", "monikers"}]
<1> SUFFICES Typed
  BY ScanTypeStep DEF TypeOK
<1>1. ASSUME NEW c \in Callers, QuietStep(c) PROVE Typed
  BY <1>1 DEF TypeOK, QuietStep, GoesTo
<1>2. ASSUME NEW c \in Callers, StoreStep(c) PROVE Typed
  <2>1. calls[c] # Never /\ UNCHANGED <<now, monikers, changes>>
    BY <1>2 DEF StoreStep
  <2>2. calls' \in [Callers -> NULL(Call)]
    BY <1>2, OvertakenCalls DEF StoreStep
  <2>3. rows' = [rows EXCEPT ![calls[c].key] = NewRow(c)] /\ NewRow(c) \in Row
    BY <1>2, NewRows DEF StoreStep
  <2>4. rows' \in [Keys -> NULL(Row)]
    BY <2>3 DEF TypeOK, NULL
  <2>5. QED
    BY <2>1, <2>2, <2>4 DEF TypeOK
<1>3. ASSUME NEW c \in Callers, ProlongStep(c) PROVE Typed
  <2>1. calls[c] \in Call /\ UpdateCacheItem(calls[c].key, calls[c].utcNow)
    BY <1>3 DEF ProlongStep, TypeOK, NULL
  <2>2. calls[c].key \in Keys /\ calls[c].utcNow \in Nat
    BY <2>1, ConstantsAssumption DEF Call, Time
  <2>3. rows' \in [Keys -> NULL(Row)]
    BY <2>1, <2>2, UpdatedRows
  <2>4. QED
    BY <1>3, <2>3 DEF TypeOK, ProlongStep, GoesTo
<1>4. ASSUME NEW c \in Callers, NEW k \in Keys, RemoveAsync(c, k) PROVE Typed
  <2>1. rows' \in [Keys -> NULL(Row)]
    BY <1>4, Removal DEF TypeOK, NULL
  <2>2. QED
    BY <1>4, <2>1, Removal DEF TypeOK, GoesTo
<1>5. ASSUME NEW c \in Callers, NEW m \in Monikers, AddMoniker(c, m) PROVE Typed
  <2>1. calls[c] \in Call /\ calls[c].key \in Keys
    BY <1>5 DEF AddMoniker, At, TypeOK, NULL, Call
  <2>2. [calls[c] EXCEPT !.todo = @ \ {m}] \in Call
    BY <2>1 DEF Call
  <2>3. calls' = [calls EXCEPT ![c] = [calls[c] EXCEPT !.todo = @ \ {m}]]
    BY <1>5 DEF AddMoniker
  <2>4. calls' \in [Callers -> NULL(Call)]
    BY <2>2, <2>3 DEF TypeOK, NULL
  <2>5. QED
    BY <1>5, <2>1, <2>4 DEF TypeOK, AddMoniker
<1>6. ASSUME NEW c \in Callers, Return(c) \/ Fail(c) PROVE Typed
  <2>1. rows' \in [Keys -> NULL(Row)]
    BY <1>6, BecomingRows DEF Return, Fail
  <2>2. calls' = [calls EXCEPT ![c] = Never] /\ UNCHANGED <<now, monikers, changes>>
    BY <1>6 DEF Return, Fail
  <2>3. QED
    BY <2>1, <2>2 DEF TypeOK, NULL
<1>7. CASE Tick
  BY <1>7, ConstantsAssumption DEF Tick, TypeOK, Time
<1>8. CASE DeleteExpiredItems
  BY <1>8 DEF DeleteExpiredItems, TypeOK, NULL
<1>9. CASE DeleteOrphans \/ ScanFails
  BY <1>9 DEF DeleteOrphans, ScanFails, TypeOK
<1>10. ASSUME NEW trigger \in NULL(Keys), NEW m \in Monikers, NotifyChanged(trigger, m) PROVE Typed
  <2>1. rows' \in [Keys -> NULL(Row)]
    BY <1>10, ChangedRows
  <2>2. \A c \in Callers : calls[c] # Never => [calls[c] EXCEPT !.calm = FALSE] \in Call
    BY ZenonT(30) DEF TypeOK, NULL, Call
  <2>3. calls' \in [Callers -> NULL(Call)]
    BY <1>10, <2>2 DEF NotifyChanged, Idle, NULL
  <2>4. QED
    BY <1>10, <2>1, <2>3 DEF NotifyChanged, TypeOK
<1>11. ASSUME NEW n \in changes, EvictItems(n) \/ Unlist(n) PROVE Typed
  <2>1. [n EXCEPT !.pc = "monikers"] \in [moniker : Monikers, trigger : NULL(Keys), pc : {"items", "monikers"}]
    BY DEF TypeOK
  <2>2. CASE EvictItems(n)
    BY <2>1, <2>2 DEF EvictItems, TypeOK, NULL
  <2>3. CASE Unlist(n)
    BY <2>3 DEF Unlist, TypeOK
  <2>4. QED
    BY <1>11, <2>2, <2>3
<1>12. CASE UNCHANGED vars
  BY <1>12 DEF vars, TypeOK
<1> HIDE DEF Typed
<1>13. QED
  BY <1>1, <1>2, <1>3, <1>4, <1>5, <1>6, <1>7, <1>8, <1>9, <1>10, <1>11, <1>12, Steps

\* The expiration of an item, and what a SELECT may find between the statements
\* of other calls.
LEMMA ExpirationStep ==
  TypeOK /\ ExpirationInv /\ NoReadPastAbsoluteExpiration /\ [Next]_vars
    => ExpirationInv' /\ NoReadPastAbsoluteExpiration'
<1> SUFFICES ASSUME TypeOK, ExpirationInv, NoReadPastAbsoluteExpiration, [Next]_vars
             PROVE ExpirationInv' /\ NoReadPastAbsoluteExpiration'
  OBVIOUS
<1> DEFINE Claim == ExpirationInv' /\ NoReadPastAbsoluteExpiration'
           Selects(c) == At(c, "select") /\ ~calls[c].overtaken
           Cut(r, t) == Live(r, t) /\ r.absolute # Never => t <= r.absolute
           Expiring(r) == r # Never /\ r.sliding = Never => r.expires = r.absolute
<1> SUFFICES Claim
  OBVIOUS
<1>a. \A c \in Callers : calls[c] # Never => calls[c].key \in Keys /\ calls[c].utcNow \in Nat
  BY ConstantsAssumption DEF TypeOK, NULL, Call, Time
<1>b. \A k \in Keys : rows[k] # Never => rows[k].expires \in Nat /\ rows[k].absolute \in NULL(Nat)
  BY DEF TypeOK, NULL, Row
<1>c. /\ \A k \in Keys : Expiring(rows[k])
      /\ \A c \in Callers : Selects(c) => Cut(rows[calls[c].key], calls[c].utcNow)
  BY DEF ExpirationInv, NoReadPastAbsoluteExpiration
<1>d. ASSUME \A k \in Keys : \/ rows'[k] = rows[k] \/ rows'[k] = Never
                             \/ /\ rows[k] # Never /\ rows'[k].sliding = rows[k].sliding
                                /\ rows'[k].absolute = rows[k].absolute
                                /\ rows'[k].expires = rows[k].expires,
             \A c \in Callers : Selects(c)' =>
                Selects(c) /\ calls'[c].key = calls[c].key /\ calls'[c].utcNow = calls[c].utcNow
      PROVE Claim
  <2>1. \A k \in Keys : Expiring(rows[k])'
    BY <1>c, <1>d
  <2>2. ASSUME NEW c \in Callers, Selects(c)' PROVE Cut(rows[calls[c].key], calls[c].utcNow)'
    BY <1>a, <1>c, <1>d, <2>2 DEF Live, At
  <2>3. QED
    BY <2>1, <2>2 DEF ExpirationInv, NoReadPastAbsoluteExpiration
<1>1. ASSUME NEW c \in Callers, QuietStep(c) PROVE Claim
  <2>1. rows' = rows
    BY <1>1 DEF QuietStep
  <2>2. \A d \in Callers : Selects(d)' => calls'[d] = calls[d]
    BY <1>1 DEF QuietStep, GoesTo, At, TypeOK
  <2>3. QED
    BY <1>d, <2>1, <2>2 DEF At
<1>2. ASSUME NEW c \in Callers, StoreStep(c) PROVE Claim
  <2>1. calls[c] # Never /\ calls[c].key \in Keys
    BY <1>2, <1>a DEF StoreStep
  <2>2. rows' = [rows EXCEPT ![calls[c].key] = NewRow(c)]
    BY <1>2 DEF StoreStep
  <2>3. /\ rows'[calls[c].key] = NewRow(c)
        /\ \A k \in Keys : k # calls[c].key => rows'[k] = rows[k]
    BY <2>1, <2>2 DEF TypeOK
  <2>4. \A k \in Keys : Expiring(rows[k])'
    BY <1>c, <2>1, <2>3, NewRows
  <2>5. PICK r \in NULL(Call) : calls' = Overtaking(c, r) /\ (r # Never => r.pc # "select")
    BY <1>2 DEF StoreStep
  <2>6. ASSUME NEW d \in Callers, Selects(d)' PROVE Cut(rows[calls[d].key], calls[d].utcNow)'
    <3>1. d # c
      BY <2>5, <2>6, OvertakenCalls DEF At
    <3>2. Selects(d) /\ calls'[d].key = calls[d].key /\ calls'[d].utcNow = calls[d].utcNow
          /\ calls[d].key # calls[c].key
      BY <2>5, <2>6, <3>1, OvertakenCalls DEF At
    <3>3. rows'[calls'[d].key] = rows[calls[d].key]
      BY <1>a, <2>3, <3>2 DEF At
    <3>4. QED
      BY <1>c, <3>2, <3>3 DEF Live
  <2>7. QED
    BY <2>4, <2>6 DEF ExpirationInv, NoReadPastAbsoluteExpiration
<1>3. ASSUME NEW c \in Callers, ProlongStep(c) PROVE Claim
  <2> DEFINE k == calls[c].key
             t == calls[c].utcNow
  <2>1. calls[c] # Never /\ k \in Keys /\ t \in Nat /\ UpdateCacheItem(k, t)
    BY <1>3, <1>a DEF ProlongStep
  <2>2. /\ \A q \in Keys : q # k => rows'[q] = rows[q]
        /\ rows[k] = Never <=> rows'[k] = Never
        /\ rows[k] # Never => rows'[k].sliding = rows[k].sliding /\ rows'[k].absolute = rows[k].absolute
        /\ \/ rows'[k] = rows[k]
           \/ /\ rows[k].sliding # Never
              /\ rows[k].absolute # Never => rows'[k].expires <= rows[k].absolute
    BY <2>1, UpdatedRows
  <2>3. \A q \in Keys : Expiring(rows[q])'
    BY <1>c, <2>2
  <2>4. PICK r \in NULL(Call) :
           /\ GoesTo(c, r)
           /\ (r # Never /\ r.pc = "select") => r.key = k /\ r.utcNow = t
    BY <1>3 DEF ProlongStep
  <2>5. \A d \in Callers : Selects(d)' =>
           IF d = c THEN calls'[d].key = k /\ calls'[d].utcNow = t
           ELSE calls'[d] = calls[d] /\ Selects(d)
    <3>1. calls'[c] = r /\ \A d \in Callers : d # c => calls'[d] = calls[d]
      BY <2>4 DEF GoesTo, TypeOK
    <3>2. QED
      BY <2>4, <3>1 DEF At
  <2>6. rows'[k] # Never => rows'[k].expires \in Nat
    <3>1. rows' \in [Keys -> NULL(Row)]
      BY <2>1, UpdatedRows
    <3>2. QED
      BY <2>1, <3>1 DEF NULL, Row
  <2>7. ASSUME NEW u \in Nat, rows'[k] # rows[k] PROVE Cut(rows'[k], u)
    BY <1>b, <2>1, <2>2, <2>6, <2>7 DEF Live, NULL
  <2>8. ASSUME rows'[k] = rows[k] PROVE Cut(rows[k], t)
    <3>1. CASE ~Live(rows[k], t) \/ rows[k].absolute = Never
      BY <3>1
    <3>2. CASE Live(rows[k], t) /\ rows[k].absolute # Never
      <4>1. rows[k] # Never /\ t <= rows[k].expires
        BY <3>2 DEF Live
      <4>2. CASE rows[k].sliding = Never \/ rows[k].absolute = rows[k].expires
        BY <1>c, <2>1, <4>1, <4>2
      <4>3. CASE rows[k].sliding # Never /\ rows[k].absolute # rows[k].expires
        <5>1. rows'[k] = Slid(rows[k], t)
          BY <2>1, <3>2, <4>3 DEF UpdateCacheItem, TypeOK
        <5>2. rows[k] \in Row
          BY <2>1, <4>1 DEF TypeOK, NULL
        <5>3. rows[k].expires <= rows[k].absolute
          BY <2>1, <2>8, <3>2, <4>3, <5>1, <5>2, SlidRows
        <5>4. QED
          BY <1>b, <2>1, <3>2, <4>1, <5>3 DEF NULL
      <4>4. QED
        BY <4>2, <4>3
    <3>3. QED
      BY <3>1, <3>2
  <2> HIDE DEF k, t
  <2>9. ASSUME NEW d \in Callers, Selects(d)' PROVE Cut(rows[calls[d].key], calls[d].utcNow)'
    <3>1. CASE d = c
      <4>1. calls'[d].key = k /\ calls'[d].utcNow = t
        BY <2>5, <2>9, <3>1
      <4>2. Cut(rows'[k], t)
        BY <2>1, <2>7, <2>8
      <4>3. QED
        BY <4>1, <4>2 DEF Live
    <3>2. CASE d # c
      <4>1. calls'[d] = calls[d] /\ Selects(d) /\ calls[d].key \in Keys /\ calls[d].utcNow \in Nat
        BY <1>a, <2>5, <2>9, <3>2 DEF At
      <4>2. Cut(rows'[calls[d].key], calls[d].utcNow)
        BY <1>c, <2>2, <2>7, <4>1
      <4>3. QED
        BY <4>1, <4>2 DEF Live
    <3>3. QED
      BY <3>1, <3>2
  <2>10. QED
    BY <2>3, <2>9 DEF ExpirationInv, NoReadPastAbsoluteExpiration
<1>4. ASSUME NEW c \in Callers, NEW k \in Keys, RemoveAsync(c, k) PROVE Claim
  <2>1. rows' = [rows EXCEPT ![k] = Never]
    BY <1>4, Removal
  <2>2. \A d \in Callers : Selects(d)' => calls'[d] = calls[d]
    BY <1>4, Removal DEF GoesTo, At, TypeOK
  <2>3. \A q \in Keys : rows'[q] = rows[q] \/ rows'[q] = Never
    BY <2>1 DEF TypeOK
  <2>4. QED
    BY <1>d, <2>2, <2>3 DEF At
<1>5. ASSUME NEW c \in Callers, NEW m \in Monikers, AddMoniker(c, m) PROVE Claim
  <2>1. rows' = rows /\ calls' = [calls EXCEPT ![c] = [calls[c] EXCEPT !.todo = @ \ {m}]]
    BY <1>5 DEF AddMoniker
  <2>2. calls[c] \in Call /\ calls[c].pc = "list"
    BY <1>5 DEF AddMoniker, At, TypeOK, NULL
  <2>3. calls'[c].pc # "select" /\ \A d \in Callers : d # c => calls'[d] = calls[d]
    BY <2>1, <2>2 DEF TypeOK, Call
  <2>4. QED
    BY <1>d, <2>1, <2>3 DEF At
<1>6. ASSUME NEW c \in Callers, Return(c) \/ Fail(c) PROVE Claim
  <2>1. \A k \in Keys : \/ rows'[k] = Never
                        \/ /\ rows[k] # Never /\ rows'[k].sliding = rows[k].sliding
                           /\ rows'[k].absolute = rows[k].absolute /\ rows'[k].expires = rows[k].expires
    BY <1>6, BecomingRows DEF Return, Fail
  <2>2. \A d \in Callers : d # c => calls'[d] = calls[d]
    BY <1>6 DEF Return, Fail, TypeOK
  <2>3. calls'[c] = Never
    BY <1>6 DEF Return, Fail, TypeOK
  <2>4. QED
    BY <1>d, <2>1, <2>2, <2>3 DEF At
<1>7. CASE Tick \/ DeleteOrphans \/ ScanFails \/ UNCHANGED vars
  <2>1. UNCHANGED <<rows, calls>>
    BY <1>7 DEF Tick, DeleteOrphans, ScanFails, vars
  <2>2. QED
    BY <1>d, <2>1 DEF At
<1>8. CASE DeleteExpiredItems
  <2>1. calls' = calls /\ \A k \in Keys : rows'[k] = rows[k] \/ rows'[k] = Never
    BY <1>8 DEF DeleteExpiredItems
  <2>2. QED
    BY <1>d, <2>1 DEF At
<1>9. ASSUME NEW trigger \in NULL(Keys), NEW m \in Monikers, NotifyChanged(trigger, m) PROVE Claim
  <2>1. \A k \in Keys : \/ rows'[k] = Never
                        \/ /\ rows[k] # Never /\ rows'[k].sliding = rows[k].sliding
                           /\ rows'[k].absolute = rows[k].absolute /\ rows'[k].expires = rows[k].expires
    BY <1>9, ChangedRows
  <2>2. \A d \in Callers : calls'[d] = IF calls[d] = Never THEN Never ELSE [calls[d] EXCEPT !.calm = FALSE]
    BY <1>9 DEF NotifyChanged, Idle
  <2>3. \A d \in Callers : calls[d] # Never => calls[d] \in Call
    BY DEF TypeOK, NULL
  <2>4. \A d \in Callers : calls[d] # Never =>
           /\ calls'[d].pc = calls[d].pc /\ calls'[d].key = calls[d].key
           /\ calls'[d].utcNow = calls[d].utcNow /\ calls'[d].overtaken = calls[d].overtaken
    BY <2>2, <2>3 DEF Call
  <2>5. QED
    BY <1>d, <2>1, <2>2, <2>4 DEF At
<1>10. ASSUME NEW n \in changes, EvictItems(n) \/ Unlist(n) PROVE Claim
  <2>1. calls' = calls /\ \A k \in Keys : rows'[k] = rows[k] \/ rows'[k] = Never
    BY <1>10 DEF EvictItems, Unlist
  <2>2. QED
    BY <1>d, <2>1 DEF At
<1> HIDE DEF Claim
<1>11. QED
  BY <1>1, <1>2, <1>3, <1>4, <1>5, <1>6, <1>7, <1>8, <1>9, <1>10, Steps

\* The calls when a moniker of c is added, and when the data changes.
LEMMA ListingCalls ==
  ASSUME TypeOK, NEW c \in Callers, NEW m \in Monikers, AddMoniker(c, m)
  PROVE  /\ calls[c] # Never /\ calls[c].pc = "list"
         /\ calls'[c] # Never /\ calls'[c].pc = "list" /\ calls'[c].key = calls[c].key
         /\ calls'[c].todo = calls[c].todo \ {m} /\ calls'[c].calm = calls[c].calm
         /\ \A d \in Callers : d # c => calls'[d] = calls[d]
<1>1. calls' = [calls EXCEPT ![c] = [calls[c] EXCEPT !.todo = @ \ {m}]]
  BY DEF AddMoniker
<1>2. calls[c] \in Call /\ calls[c] # Never /\ calls[c].pc = "list"
  BY DEF AddMoniker, At, TypeOK, NULL
<1>3. [calls[c] EXCEPT !.todo = @ \ {m}] \in Call
  BY <1>2 DEF Call
<1>4. QED
  BY <1>1, <1>2, <1>3, NeverAssumption DEF TypeOK, Call

\* A notification leaves every call where it is, but no longer calm.
LEMMA ChangedCalls ==
  ASSUME TypeOK, NEW trigger \in NULL(Keys), NEW m \in Monikers, NotifyChanged(trigger, m)
  PROVE  \A d \in Callers :
           /\ calls[d] = Never <=> calls'[d] = Never
           /\ calls[d] # Never =>
                /\ calls'[d].pc = calls[d].pc /\ calls'[d].key = calls[d].key
                /\ calls'[d].next = calls[d].next /\ calls'[d].todo = calls[d].todo
                /\ calls'[d].overtaken = calls[d].overtaken /\ ~calls'[d].calm
<1>1. \A d \in Callers : calls'[d] = IF calls[d] = Never THEN Never ELSE [calls[d] EXCEPT !.calm = FALSE]
  BY DEF NotifyChanged, Idle
<1>2. \A d \in Callers : calls[d] # Never => calls[d] \in Call
  BY DEF TypeOK, NULL
<1>3. \A d \in Callers : calls[d] # Never => [calls[d] EXCEPT !.calm = FALSE] \in Call
  BY <1>2 DEF Call
<1>4. \A d \in Callers : calls[d] # Never => calls'[d] # Never /\ ~calls'[d].calm
  <2>1. ASSUME NEW d \in Callers, calls[d] # Never PROVE calls'[d] # Never /\ ~calls'[d].calm
    <3>1. calls'[d] = [calls[d] EXCEPT !.calm = FALSE] /\ calls[d] \in Call
      BY <1>1, <1>2, <2>1
    <3>2. calls'[d] \in Call /\ ~calls'[d].calm
      BY <3>1 DEF Call
    <3>3. QED
      BY <3>2, NeverAssumption
  <2>2. QED
    BY <2>1
<1>5. ASSUME NEW d \in Callers, calls[d] # Never
      PROVE  /\ calls'[d].pc = calls[d].pc /\ calls'[d].key = calls[d].key
             /\ calls'[d].next = calls[d].next /\ calls'[d].todo = calls[d].todo
             /\ calls'[d].overtaken = calls[d].overtaken
  <2>1. calls'[d] = [calls[d] EXCEPT !.calm = FALSE] /\ calls[d] \in Call
    BY <1>1, <1>2, <1>5
  <2>2. QED
    BY <2>1 DEF Call
<1>6. QED
  BY <1>1, <1>4, <1>5

\* Whoever stores an item overtakes the calls that found none under its key.
LEMMA RivalStep == TypeOK /\ SwallowedOnlyForARival /\ [Next]_vars => SwallowedOnlyForARival'
<1> SUFFICES ASSUME TypeOK, SwallowedOnlyForARival, [Next]_vars PROVE SwallowedOnlyForARival'
  OBVIOUS
<1> USE DEF SwallowedOnlyForARival, At, RowExists
<1>a. \A c \in Callers : calls[c] # Never => calls[c].key \in Keys
  BY DEF TypeOK, NULL, Call
<1>b. ASSUME \A k \in Keys : rows'[k] # Never => rows[k] # Never,
             \A c \in Callers : (calls'[c] # Never /\ calls'[c].pc = "insert") =>
               /\ calls[c] # Never /\ calls[c].pc = "insert" /\ calls'[c].key = calls[c].key
               /\ calls[c].overtaken => calls'[c].overtaken
      PROVE SwallowedOnlyForARival'
  BY <1>a, <1>b
<1>1. ASSUME NEW c \in Callers, QuietStep(c) PROVE SwallowedOnlyForARival'
  <2>1. PICK r \in NULL(Call) :
           /\ GoesTo(c, r)
           /\ (r # Never /\ r.pc = "insert") =>
                calls[c] # Never /\ r.key = calls[c].key /\ rows[r.key] = Never
    BY <1>1 DEF QuietStep
  <2>2. calls'[c] = r /\ \A d \in Callers : d # c => calls'[d] = calls[d]
    BY <2>1 DEF GoesTo, TypeOK
  <2>3. rows' = rows
    BY <1>1 DEF QuietStep
  <2>4. QED
    BY <2>1, <2>2, <2>3
<1>2. ASSUME NEW c \in Callers, StoreStep(c) PROVE SwallowedOnlyForARival'
  <2>1. calls[c] # Never /\ rows' = [rows EXCEPT ![calls[c].key] = NewRow(c)]
    BY <1>2 DEF StoreStep
  <2>2. \A k \in Keys : k # calls[c].key => rows'[k] = rows[k]
    BY <2>1 DEF TypeOK
  <2>3. PICK r \in NULL(Call) :
           calls' = Overtaking(c, r) /\ (r # Never => r.pc \in {"mutex", "factory", "list"})
    BY <1>2 DEF StoreStep
  <2>4. ASSUME NEW d \in Callers, calls'[d] # Never, calls'[d].pc = "insert",
               rows'[calls'[d].key] # Never
        PROVE calls'[d].overtaken
    <3>1. d # c
      BY <2>3, <2>4, OvertakenCalls
    <3>2. /\ calls[d] # Never /\ calls[d].pc = "insert" /\ calls'[d].key = calls[d].key
          /\ calls[d].overtaken => calls'[d].overtaken
          /\ calls[d].key = calls[c].key => calls'[d].overtaken
      BY <2>3, <2>4, <3>1, OvertakenCalls
    <3>3. QED
      BY <1>a, <2>2, <2>4, <3>2
  <2>5. QED
    BY <2>4
<1>3. ASSUME NEW c \in Callers, ProlongStep(c) PROVE SwallowedOnlyForARival'
  <2>1. calls[c] # Never /\ calls[c] \in Call /\ UpdateCacheItem(calls[c].key, calls[c].utcNow)
    BY <1>3 DEF ProlongStep, TypeOK, NULL
  <2>2. calls[c].key \in Keys /\ calls[c].utcNow \in Nat
    BY <2>1, ConstantsAssumption DEF Call, Time
  <2>3. \A k \in Keys : rows'[k] # Never => rows[k] # Never
    BY <2>1, <2>2, UpdatedRows
  <2>4. PICK r \in NULL(Call) : GoesTo(c, r) /\ (r # Never => r.pc \in {"select", "mutex", "factory", "list"})
    BY <1>3 DEF ProlongStep
  <2>5. calls'[c] = r /\ \A d \in Callers : d # c => calls'[d] = calls[d]
    BY <2>4 DEF GoesTo, TypeOK
  <2>6. QED
    BY <1>b, <2>3, <2>4, <2>5
<1>4. ASSUME NEW c \in Callers, NEW k \in Keys, RemoveAsync(c, k) PROVE SwallowedOnlyForARival'
  <2>1. \A q \in Keys : rows'[q] # Never => rows[q] # Never
    BY <1>4, Removal DEF TypeOK
  <2>2. PICK r \in NULL(Call) : GoesTo(c, r) /\ (r # Never => r.pc = "mutex")
    BY <1>4, Removal
  <2>3. calls'[c] = r /\ \A d \in Callers : d # c => calls'[d] = calls[d]
    BY <2>2 DEF GoesTo, TypeOK
  <2>4. QED
    BY <1>b, <2>1, <2>2, <2>3
<1>5. ASSUME NEW c \in Callers, NEW m \in Monikers, AddMoniker(c, m) PROVE SwallowedOnlyForARival'
  <2>1. rows' = rows
    BY <1>5 DEF AddMoniker
  <2>2. QED
    BY <1>5, <1>b, <2>1, ListingCalls
<1>6. ASSUME NEW c \in Callers, Return(c) \/ Fail(c) PROVE SwallowedOnlyForARival'
  <2>1. \A k \in Keys : rows'[k] # Never => rows[k] # Never
    BY <1>6, BecomingRows DEF Return, Fail
  <2>2. calls'[c] = Never /\ \A d \in Callers : d # c => calls'[d] = calls[d]
    BY <1>6 DEF Return, Fail, TypeOK
  <2>3. QED
    BY <1>b, <2>1, <2>2
<1>7. CASE Tick \/ DeleteOrphans \/ ScanFails \/ UNCHANGED vars
  BY <1>7 DEF Tick, DeleteOrphans, ScanFails, vars
<1>8. CASE DeleteExpiredItems
  BY <1>8, <1>b DEF DeleteExpiredItems
<1>9. ASSUME NEW trigger \in NULL(Keys), NEW m \in Monikers, NotifyChanged(trigger, m)
      PROVE SwallowedOnlyForARival'
  <2>1. \A k \in Keys : rows'[k] # Never => rows[k] # Never
    BY <1>9, ChangedRows
  <2>2. QED
    BY <1>9, <1>b, <2>1, ChangedCalls
<1>10. ASSUME NEW n \in changes, EvictItems(n) \/ Unlist(n) PROVE SwallowedOnlyForARival'
  BY <1>10, <1>b DEF EvictItems, Unlist
<1> HIDE DEF SwallowedOnlyForARival
<1>11. QED
  BY <1>1, <1>2, <1>3, <1>4, <1>5, <1>6, <1>7, <1>8, <1>9, <1>10, Steps

\* A call is calm with all its monikers before it.
LEMMA CalmStep == TypeOK /\ CalmInv /\ [Next]_vars => CalmInv'
<1> SUFFICES ASSUME TypeOK, CalmInv, [Next]_vars PROVE CalmInv'
  OBVIOUS
<1> USE DEF CalmInv
<1>1. ASSUME NEW c \in Callers, QuietStep(c) PROVE CalmInv'
  <2>1. PICK r \in NULL(Call) :
           /\ GoesTo(c, r)
           /\ (r # Never /\ r.calm) =>
                /\ calls[c] = Never => r.todo = MonikersOf[r.key] /\ r.pc = "get" /\ r.next = "factory"
                /\ calls[c] # Never =>
                     /\ calls[c].calm /\ r.key = calls[c].key /\ r.todo = calls[c].todo
                     /\ \/ /\ calls[c].pc \notin {"update", "insert"}
                           /\ r.pc \in {"mutex", calls[c].next} /\ r.next = calls[c].next
                        \/ r.pc = "update" /\ r.next = "list"
                        \/ r.pc = "insert" /\ calls[c].pc = "update" /\ r.next = calls[c].next
    BY <1>1 DEF QuietStep
  <2>2. calls'[c] = r /\ \A d \in Callers : d # c => calls'[d] = calls[d]
    BY <2>1 DEF GoesTo, TypeOK
  <2>3. QED
    BY <2>1, <2>2
<1>2. ASSUME NEW c \in Callers, StoreStep(c) PROVE CalmInv'
  <2>1. PICK r \in NULL(Call) : calls' = Overtaking(c, r) /\ (r # Never => ~r.calm)
    BY <1>2 DEF StoreStep
  <2>2. QED
    BY <2>1, OvertakenCalls
<1>3. ASSUME NEW c \in Callers, ProlongStep(c) PROVE CalmInv'
  <2>1. PICK r \in NULL(Call) :
           /\ GoesTo(c, r)
           /\ r # Never => r.pc \in {"select", "mutex", "factory", "list"}
           /\ (r # Never /\ r.calm) =>
                /\ calls[c].calm /\ r.key = calls[c].key /\ r.todo = calls[c].todo
                /\ r.next = calls[c].next /\ r.pc \in {"select", "mutex", r.next}
    BY <1>3 DEF ProlongStep
  <2>2. calls'[c] = r /\ \A d \in Callers : d # c => calls'[d] = calls[d]
    BY <2>1 DEF GoesTo, TypeOK
  <2>3. QED
    BY <1>3, <2>1, <2>2 DEF ProlongStep
<1>4. ASSUME NEW c \in Callers, NEW k \in Keys, RemoveAsync(c, k) PROVE CalmInv'
  <2>1. PICK r \in NULL(Call) : GoesTo(c, r) /\ (r # Never => ~r.calm)
    BY <1>4, Removal
  <2>2. calls'[c] = r /\ \A d \in Callers : d # c => calls'[d] = calls[d]
    BY <2>1 DEF GoesTo, TypeOK
  <2>3. QED
    BY <2>1, <2>2
<1>5. ASSUME NEW c \in Callers, NEW m \in Monikers, AddMoniker(c, m) PROVE CalmInv'
  BY <1>5, ListingCalls
<1>6. ASSUME NEW c \in Callers, Return(c) \/ Fail(c) PROVE CalmInv'
  BY <1>6 DEF Return, Fail, TypeOK
<1>7. CASE Tick \/ DeleteExpiredItems \/ DeleteOrphans \/ ScanFails \/ UNCHANGED vars
  BY <1>7 DEF Tick, DeleteExpiredItems, DeleteOrphans, ScanFails, vars
<1>8. ASSUME NEW trigger \in NULL(Keys), NEW m \in Monikers, NotifyChanged(trigger, m) PROVE CalmInv'
  BY <1>8, ChangedCalls
<1>9. ASSUME NEW n \in changes, EvictItems(n) \/ Unlist(n) PROVE CalmInv'
  BY <1>9 DEF EvictItems, Unlist
<1> HIDE DEF CalmInv
<1>10. QED
  BY <1>1, <1>2, <1>3, <1>4, <1>5, <1>6, <1>7, <1>8, <1>9, Steps

\* The way of an item from the call that stores it to "settled", and from there to
\* the NotifyChanged that evicts it.
LEMMA ListStep ==
  TypeOK /\ CalmInv /\ ListingInv /\ ListedInv /\ ChangeInv /\ [Next]_vars
    => ListingInv' /\ ListedInv' /\ ChangeInv'
<1> SUFFICES ASSUME TypeOK, CalmInv, ListingInv, ListedInv, ChangeInv, [Next]_vars
             PROVE ListingInv' /\ ListedInv' /\ ChangeInv'
  OBVIOUS
<1> DEFINE Claim == ListingInv' /\ ListedInv' /\ ChangeInv'
           Lists(c) == calls[c] # Never /\ (calls[c].pc = "list" \/ (calls[c].pc = "mutex" /\ calls[c].next = "list"))
<1> SUFFICES Claim
  OBVIOUS
<1>a. \A c \in Callers : c \notin {"settled", "outdated", "loose"}
  BY ConstantsAssumption
<1>b. \A c \in Callers : calls[c] # Never => calls[c].key \in Keys
  BY DEF TypeOK, NULL, Call
<1>c. \A c \in Callers, k \in Keys : IsListing(c, k) <=>
        /\ Lists(c) /\ calls[c].key = k
        /\ \A m \in MonikersOf[k] : m \in calls[c].todo \/ <<m, k>> \in monikers
  BY DEF IsListing, At
\* Steps that take items away, or prolong them, and let the calls go on.
<1>d. ASSUME changes' = changes,
             \A k \in Keys : rows'[k] # Never =>
               /\ rows[k] # Never /\ rows'[k].value = rows[k].value
               /\ \A m \in Monikers : <<m, k>> \in monikers => <<m, k>> \in monikers',
             \A c \in Callers :
               /\ (changes # {} /\ calls'[c] # Never /\ calls'[c].calm) => calls[c] # Never /\ calls[c].calm
               /\ Lists(c) => /\ Lists(c)' /\ calls'[c].key = calls[c].key
                              /\ \A m \in calls[c].todo :
                                   m \in calls'[c].todo \/ <<m, calls[c].key>> \in monikers'
      PROVE Claim
  <2>1. \A k \in Keys : MonikersOf[k] \subseteq Monikers
    BY ConstantsAssumption
  <2>2. ListingInv'
    <3> SUFFICES ASSUME NEW k \in Keys, rows'[k] # Never, NEW c \in Callers, rows'[k].value = c
                 PROVE IsListing(c, k)'
      BY DEF ListingInv
    <3>1. IsListing(c, k)
      BY <1>d DEF ListingInv
    <3>2. Lists(c)' /\ calls'[c].key = k
      BY <1>c, <1>d, <3>1
    <3>3. \A m \in MonikersOf[k] : m \in calls'[c].todo \/ <<m, k>> \in monikers'
      BY <1>c, <1>d, <2>1, <3>1
    <3>4. QED
      BY <3>2, <3>3 DEF IsListing, At
  <2>3. ListedInv'
    BY <1>d, <2>1 DEF ListedInv, Dated
  <2>4. ChangeInv'
    BY <1>d DEF ChangeInv, Dated
  <2>5. QED
    BY <2>2, <2>3, <2>4
<1>1. ASSUME NEW c \in Callers, QuietStep(c) PROVE Claim
  <2>1. PICK r \in NULL(Call) :
           /\ GoesTo(c, r)
           /\ (r # Never /\ r.calm) =>
                /\ calls[c] = Never => changes = {}
                /\ calls[c] # Never => calls[c].calm
           /\ Lists(c) => r # Never /\ r.pc = "list" /\ r.key = calls[c].key /\ r.todo = calls[c].todo
    BY <1>1 DEF QuietStep, At
  <2>2. calls'[c] = r /\ \A d \in Callers : d # c => calls'[d] = calls[d]
    BY <2>1 DEF GoesTo, TypeOK
  <2>3. UNCHANGED <<rows, monikers, changes>>
    BY <1>1 DEF QuietStep
  <2>4. QED
    BY <1>d, <2>1, <2>2, <2>3
<1>2. ASSUME NEW c \in Callers, StoreStep(c) PROVE Claim
  <2> DEFINE k == calls[c].key
  <2>1. /\ calls[c] # Never /\ calls[c].pc \in {"update", "insert"} /\ k \in Keys
        /\ changes' = changes /\ monikers' = monikers
    BY <1>2, <1>b DEF StoreStep
  <2>2. rows' = [rows EXCEPT ![k] = NewRow(c)]
    BY <1>2 DEF StoreStep
  <2>3. /\ rows'[k].value = IF calls[c].calm THEN c ELSE "loose"
        /\ \A q \in Keys : q # k => rows'[q] = rows[q]
    BY <2>1, <2>2, NewRows DEF TypeOK
  <2>4. PICK r \in NULL(Call) :
           /\ calls' = Overtaking(c, r)
           /\ r # Never => /\ r.pc \in {"mutex", "factory", "list"} /\ ~r.calm
                           /\ r.key = calls[c].key /\ r.todo = calls[c].todo
           /\ calls[c].next = "list" =>
                r # Never /\ (r.pc = "list" \/ (r.pc = "mutex" /\ r.next = "list"))
    BY <1>2 DEF StoreStep
  <2>5. calls'[c] = r
    BY <2>1, <2>4, OvertakenCalls
  <2>6. \A d \in Callers : d # c =>
          /\ calls[d] = Never <=> calls'[d] = Never
          /\ calls[d] # Never =>
               /\ calls'[d].pc = calls[d].pc /\ calls'[d].key = calls[d].key
               /\ calls'[d].next = calls[d].next /\ calls'[d].todo = calls[d].todo
               /\ calls'[d].calm = calls[d].calm
    BY <2>1, <2>4, OvertakenCalls
  <2>7. calls[c].calm => calls[c].next = "list" /\ calls[c].todo = MonikersOf[k] /\ changes = {}
    BY <2>1 DEF CalmInv, ChangeInv
  <2>8. ~Lists(c)
    BY <2>1
  <2> HIDE DEF k
  <2>9. ListingInv'
    <3> SUFFICES ASSUME NEW q \in Keys, rows'[q] # Never, NEW d \in Callers, rows'[q].value = d
                 PROVE IsListing(d, q)'
      BY DEF ListingInv
    <3>1. CASE q = k
      <4>1. calls[c].calm /\ d = c
        BY <1>a, <2>3, <3>1
      <4>2. Lists(c)' /\ calls'[c].key = k /\ calls'[c].todo = MonikersOf[k]
        BY <2>4, <2>5, <2>7, <4>1 DEF k
      <4>3. QED
        BY <3>1, <4>1, <4>2 DEF IsListing, At
    <3>2. CASE q # k
      <4>1. IsListing(d, q)
        BY <2>3, <3>2 DEF ListingInv
      <4>2. d # c
        BY <1>c, <2>8, <4>1
      <4>3. QED
        BY <2>1, <2>6, <4>1, <4>2 DEF IsListing, At
    <3>3. QED
      BY <3>1, <3>2
  <2>10. \A q \in Keys : Dated(q)' => q # k /\ rows'[q] = rows[q] /\ Dated(q)
    BY <1>a, <2>3 DEF Dated
  <2>11. ListedInv'
    BY <2>1, <2>10 DEF ListedInv
  <2>12. ChangeInv'
    <3>1. ASSUME changes' # {}
          PROVE /\ \A d \in Callers : calls'[d] # Never => ~calls'[d].calm
                /\ \A q \in Keys : rows'[q] # Never => rows'[q].value \notin Callers
      BY <1>a, <2>1, <2>3, <2>4, <2>5, <2>6, <2>7, <3>1 DEF ChangeInv
    <3>2. \A n \in changes', q \in Keys : Dated(q)' =>
            n.trigger # q /\ (n.moniker \in MonikersOf[q] => rows'[q].value = "outdated" /\ n.pc = "items")
      BY <2>1, <2>10 DEF ChangeInv
    <3>3. \A q \in Keys : rows'[q] # Never /\ rows'[q].value = "outdated" =>
            \E n \in changes' : n.moniker \in MonikersOf[q] /\ n.pc = "items"
      BY <2>1, <2>10 DEF ChangeInv, Dated
    <3>4. QED
      BY <3>1, <3>2, <3>3 DEF ChangeInv
  <2>13. QED
    BY <2>9, <2>11, <2>12
<1>3. ASSUME NEW c \in Callers, ProlongStep(c) PROVE Claim
  <2>1. calls[c] # Never /\ calls[c] \in Call /\ UpdateCacheItem(calls[c].key, calls[c].utcNow)
    BY <1>3 DEF ProlongStep, TypeOK, NULL
  <2>2. calls[c].key \in Keys /\ calls[c].utcNow \in Nat
    BY <2>1, ConstantsAssumption DEF Call, Time
  <2>3. \A k \in Keys : rows'[k] # Never => rows[k] # Never /\ rows'[k].value = rows[k].value
    BY <2>1, <2>2, UpdatedRows
  <2>4. PICK r \in NULL(Call) : GoesTo(c, r) /\ ((r # Never /\ r.calm) => calls[c].calm)
    BY <1>3 DEF ProlongStep
  <2>5. calls'[c] = r /\ \A d \in Callers : d # c => calls'[d] = calls[d]
    BY <2>4 DEF GoesTo, TypeOK
  <2>6. changes' = changes /\ monikers' = monikers /\ ~Lists(c)
    BY <1>3 DEF ProlongStep
  <2>7. QED
    BY <1>d, <2>1, <2>3, <2>4, <2>5, <2>6
<1>4. ASSUME NEW c \in Callers, NEW k \in Keys, RemoveAsync(c, k) PROVE Claim
  <2>1. PICK r \in NULL(Call) : GoesTo(c, r) /\ (r # Never => ~r.calm)
    BY <1>4, Removal
  <2>2. calls'[c] = r /\ \A d \in Callers : d # c => calls'[d] = calls[d]
    BY <2>1 DEF GoesTo, TypeOK
  <2>3. /\ calls[c] = Never /\ changes' = changes /\ monikers' = monikers
        /\ \A q \in Keys : rows'[q] = rows[q] \/ rows'[q] = Never
    BY <1>4, Removal DEF TypeOK
  <2>4. QED
    BY <1>d, <2>1, <2>2, <2>3
<1>5. ASSUME NEW c \in Callers, NEW m \in Monikers, AddMoniker(c, m) PROVE Claim
  <2>1. rows' = rows /\ changes' = changes /\ monikers' = monikers \cup {<<m, calls[c].key>>}
    BY <1>5 DEF AddMoniker
  <2>2. QED
    BY <1>5, <1>d, <2>1, ListingCalls
<1>6. ASSUME NEW c \in Callers, Return(c) \/ Fail(c) PROVE Claim
  <2>1. PICK v \in {"settled", "loose"} : Becomes(c, v) /\ (v = "settled" => Return(c))
    BY <1>6 DEF Return, Fail
  <2>2. \A k \in Keys : rows'[k] # Never =>
           rows[k] # Never /\ rows'[k].value = IF rows[k].value = c THEN v ELSE rows[k].value
    BY <2>1, BecomingRows
  <2>3. calls'[c] = Never /\ \A d \in Callers : d # c => calls'[d] = calls[d]
    BY <1>6 DEF Return, Fail, TypeOK
  <2>4. changes' = changes /\ monikers' = monikers
    BY <1>6 DEF Return, Fail
  <2>5. ListingInv'
    <3> SUFFICES ASSUME NEW k \in Keys, rows'[k] # Never, NEW d \in Callers, rows'[k].value = d
                 PROVE IsListing(d, k)'
      BY DEF ListingInv
    <3>1. d # c /\ rows[k] # Never /\ rows[k].value = d
      BY <1>a, <2>2
    <3>2. IsListing(d, k)
      BY <3>1 DEF ListingInv
    <3>3. QED
      BY <2>3, <2>4, <3>1, <3>2 DEF IsListing, At
  <2>6. ASSUME NEW k \in Keys, Dated(k)'
        PROVE \/ Dated(k) /\ rows'[k].value = rows[k].value
              \/ /\ rows[k] # Never /\ rows[k].value = c /\ rows'[k].value = "settled"
                 /\ \A m \in MonikersOf[k] : <<m, k>> \in monikers
    <3>1. CASE rows[k].value # c
      BY <2>2, <2>6, <3>1 DEF Dated
    <3>2. CASE rows[k].value = c
      <4>1. rows[k] # Never /\ rows'[k].value = v /\ v = "settled"
        BY <2>2, <2>6, <3>2 DEF Dated
      <4>2. IsListing(c, k)
        BY <3>2, <4>1 DEF ListingInv
      <4>3. calls[c].todo = {}
        BY <2>1, <4>1 DEF Return
      <4>4. QED
        BY <3>2, <4>1, <4>2, <4>3 DEF IsListing
    <3>3. QED
      BY <3>1, <3>2
  <2>7. ListedInv'
    BY <2>4, <2>6 DEF ListedInv
  <2>8. changes # {} => \A k \in Keys : rows[k] # Never => rows[k].value # c
    BY DEF ChangeInv
  <2>9. ChangeInv'
    <3>1. ASSUME changes' # {}
          PROVE /\ \A d \in Callers : calls'[d] # Never => ~calls'[d].calm
                /\ \A q \in Keys : rows'[q] # Never => rows'[q].value \notin Callers
      BY <2>2, <2>3, <2>4, <2>8, <3>1 DEF ChangeInv
    <3>2. \A n \in changes', q \in Keys : Dated(q)' =>
            n.trigger # q /\ (n.moniker \in MonikersOf[q] => rows'[q].value = "outdated" /\ n.pc = "items")
      BY <2>4, <2>6, <2>8 DEF ChangeInv
    <3>3. \A q \in Keys : rows'[q] # Never /\ rows'[q].value = "outdated" =>
            \E n \in changes' : n.moniker \in MonikersOf[q] /\ n.pc = "items"
      BY <2>4, <2>6 DEF ChangeInv, Dated
    <3>4. QED
      BY <3>1, <3>2, <3>3 DEF ChangeInv
  <2>10. QED
    BY <2>5, <2>7, <2>9
<1>7. CASE Tick \/ ScanFails \/ UNCHANGED vars
  <2>1. UNCHANGED <<rows, calls, monikers, changes>>
    BY <1>7 DEF Tick, ScanFails, vars
  <2>2. QED
    BY <1>d, <2>1
<1>8. CASE DeleteExpiredItems
  <2>1. /\ UNCHANGED <<calls, monikers, changes>>
        /\ \A k \in Keys : rows'[k] = rows[k] \/ rows'[k] = Never
    BY <1>8 DEF DeleteExpiredItems
  <2>2. QED
    BY <1>d, <2>1
<1>9. CASE DeleteOrphans
  <2>1. UNCHANGED <<rows, calls, changes>> /\ monikers' = monikers \ Orphans
    BY <1>9 DEF DeleteOrphans
  <2>2. \A k \in Keys, m \in Monikers : rows[k] # Never => <<m, k>> \notin Orphans
    BY DEF Orphans
  <2>3. QED
    BY <1>d, <2>1, <2>2
<1>10. ASSUME NEW trigger \in NULL(Keys), NEW m \in Monikers, NotifyChanged(trigger, m) PROVE Claim
  <2>1. /\ \A k \in Keys :
             /\ rows'[k] # Never => rows[k] # Never
             /\ rows[k] # Never =>
                  rows'[k].value = IF rows[k].value \in Callers \/ k = trigger THEN "loose"
                                   ELSE IF rows[k].value = "settled" /\ m \in MonikersOf[k]
                                        THEN "outdated" ELSE rows[k].value
    BY <1>10, ChangedRows
  <2> DEFINE new == [moniker |-> m, trigger |-> trigger, pc |-> "items"]
  <2>2. changes' = changes \cup {new} /\ monikers' = monikers
    BY <1>10 DEF NotifyChanged
  <2>3. new.moniker = m /\ new.trigger = trigger /\ new.pc = "items" /\ new \in changes'
    BY <2>2
  <2> HIDE DEF new
  <2>4. \A k \in Keys : rows'[k] # Never => rows[k] # Never /\ rows'[k].value \notin Callers
    BY <1>a, <2>1
  <2>5. ListingInv'
    BY <2>4 DEF ListingInv
  <2>6. ASSUME NEW k \in Keys, Dated(k)'
        PROVE /\ Dated(k) /\ k # trigger
              /\ \/ rows'[k].value = rows[k].value /\ ~(rows[k].value = "settled" /\ m \in MonikersOf[k])
                 \/ rows'[k].value = "outdated" /\ rows[k].value = "settled" /\ m \in MonikersOf[k]
    BY <2>1, <2>6 DEF Dated
  <2>7. ListedInv'
    BY <2>2, <2>6 DEF ListedInv
  <2>8. ChangeInv'
    <3>1. \A d \in Callers : calls'[d] # Never => ~calls'[d].calm
      BY <1>10, ChangedCalls
    <3>2. ASSUME NEW n \in changes', NEW q \in Keys, Dated(q)'
          PROVE n.trigger # q /\ (n.moniker \in MonikersOf[q] => rows'[q].value = "outdated" /\ n.pc = "items")
      <4>1. CASE n = new
        BY <2>3, <2>6, <3>2, <4>1 DEF Dated
      <4>2. CASE n \in changes
        BY <2>6, <3>2, <4>2 DEF ChangeInv
      <4>3. QED
        BY <2>2, <4>1, <4>2
    <3>3. ASSUME NEW q \in Keys, rows'[q] # Never, rows'[q].value = "outdated"
          PROVE \E n \in changes' : n.moniker \in MonikersOf[q] /\ n.pc = "items"
      <4>1. Dated(q)'
        BY <3>3 DEF Dated
      <4>2. CASE rows[q].value = "outdated"
        BY <2>2, <2>6, <4>1, <4>2 DEF ChangeInv, Dated
      <4>3. CASE rows[q].value # "outdated"
        BY <2>3, <2>6, <3>3, <4>1, <4>3
      <4>4. QED
        BY <4>2, <4>3
    <3>4. QED
      BY <2>4, <3>1, <3>2, <3>3 DEF ChangeInv
  <2>9. QED
    BY <2>5, <2>7, <2>8
<1>11. ASSUME NEW n \in changes, EvictItems(n) PROVE Claim
  <2> DEFINE new == [n EXCEPT !.pc = "monikers"]
  <2>1. /\ n.pc = "items" /\ changes' = (changes \ {n}) \cup {new}
        /\ UNCHANGED <<calls, monikers>>
        /\ \A k \in Keys : rows'[k] = IF <<n.moniker, k>> \in Listed(n) THEN Never ELSE rows[k]
    BY <1>11 DEF EvictItems
  <2>2. new.moniker = n.moniker /\ new.trigger = n.trigger /\ new.pc = "monikers"
    BY DEF TypeOK
  <2> HIDE DEF new
  <2>3. ASSUME NEW k \in Keys, Dated(k)' PROVE Dated(k) /\ rows'[k] = rows[k] /\ n.moniker \notin MonikersOf[k]
    <3>1. rows'[k] = rows[k] /\ Dated(k) /\ <<n.moniker, k>> \notin Listed(n)
      BY <2>1, <2>3 DEF Dated
    <3>2. n.trigger # k
      BY <3>1 DEF ChangeInv
    <3>3. <<n.moniker, k>> \notin monikers
      BY <3>1, <3>2 DEF Listed
    <3>4. QED
      BY <3>1, <3>3 DEF ListedInv
  <2>4. ListingInv'
    <3>1. \A k \in Keys : rows'[k] # Never => rows'[k] = rows[k]
      BY <2>1
    <3>2. \A c \in Callers, k \in Keys : IsListing(c, k) => IsListing(c, k)'
      BY <2>1 DEF IsListing, At
    <3>3. QED
      BY <3>1, <3>2 DEF ListingInv
  <2>5. ListedInv'
    BY <2>1, <2>3 DEF ListedInv
  <2>6. ChangeInv'
    <3>1. /\ \A d \in Callers : calls'[d] # Never => ~calls'[d].calm
          /\ \A q \in Keys : rows'[q] # Never => rows'[q].value \notin Callers
      BY <2>1 DEF ChangeInv
    <3>2. ASSUME NEW o \in changes', NEW q \in Keys, Dated(q)'
          PROVE o.trigger # q /\ (o.moniker \in MonikersOf[q] => rows'[q].value = "outdated" /\ o.pc = "items")
      BY <2>1, <2>2, <2>3, <3>2 DEF ChangeInv
    <3>3. ASSUME NEW q \in Keys, rows'[q] # Never, rows'[q].value = "outdated"
          PROVE \E o \in changes' : o.moniker \in MonikersOf[q] /\ o.pc = "items"
      <4>1. Dated(q)'
        BY <3>3 DEF Dated
      <4>2. rows[q] # Never /\ rows[q].value = "outdated" /\ n.moniker \notin MonikersOf[q]
        BY <2>3, <3>3, <4>1
      <4>3. PICK o \in changes : o.moniker \in MonikersOf[q] /\ o.pc = "items"
        BY <4>2 DEF ChangeInv
      <4>4. QED
        BY <2>1, <4>2, <4>3
    <3>4. QED
      BY <3>1, <3>2, <3>3 DEF ChangeInv
  <2>7. QED
    BY <2>4, <2>5, <2>6
<1>12. ASSUME NEW n \in changes, Unlist(n) PROVE Claim
  <2>1. /\ n.pc = "monikers" /\ changes' = changes \ {n} /\ monikers' = monikers \ Listed(n)
        /\ UNCHANGED <<rows, calls>>
    BY <1>12 DEF Unlist
  <2>2. \A k \in Keys : rows[k] # Never => rows[k].value \notin Callers
    BY DEF ChangeInv
  <2>3. ListingInv'
    BY <2>1, <2>2 DEF ListingInv
  <2>4. \A k \in Keys : Dated(k) => n.moniker \notin MonikersOf[k]
    BY <2>1 DEF ChangeInv
  <2>5. ListedInv'
    BY <2>1, <2>4 DEF ListedInv, Dated, Listed
  <2>6. ChangeInv'
    BY <2>1 DEF ChangeInv, Dated
  <2>7. QED
    BY <2>3, <2>5, <2>6
<1> HIDE DEF Claim
<1>13. QED
  BY <1>1, <1>2, <1>3, <1>4, <1>5, <1>6, <1>7, <1>8, <1>9, <1>10, <1>11, <1>12, Steps

-----------------------------------------------------------------------------
\* The inductive invariant holds in every reachable state.
THEOREM Invariant == Spec => []IInv
<1>1. IInv /\ [Next]_vars => IInv'
  BY TypeStep, ExpirationStep, RivalStep, CalmStep, ListStep DEF IInv
<1>2. QED
  BY InitialState, <1>1, PTL DEF Spec

\* The state stays well typed.
THEOREM TypeCorrect == Spec => []TypeOK
<1>1. IInv => TypeOK
  BY DEF IInv
<1>2. QED
  BY Invariant, <1>1, PTL

\* What a call that no other call overtook would return is not past its absolute
\* expiration.
THEOREM ReadsAreFresh == Spec => []NoReadPastAbsoluteExpiration
<1>1. IInv => NoReadPastAbsoluteExpiration
  BY DEF IInv
<1>2. QED
  BY Invariant, <1>1, PTL

\* A duplicate key that a call swallows is another call's.
THEOREM DuplicatesAreRivals == Spec => []SwallowedOnlyForARival
<1>1. IInv => SwallowedOnlyForARival
  BY DEF IInv
<1>2. QED
  BY Invariant, <1>1, PTL

\* No item that was stored and listed in calm outlives the change of its data.
THEOREM ChangesArrive == Spec => []ChangesReachSettledItems
<1>1. IInv => ChangesReachSettledItems
  BY DEF IInv, ChangeInv, ChangesReachSettledItems
<1>2. QED
  BY Invariant, <1>1, PTL

\* However many threads find a scan due, the check under the lock lets one of them
\* begin it.
THEOREM ScansKeepTheirInterval == Spec => ScansAreSpaced
<1> DEFINE Spaced == lastScan' # lastScan /\ lastScan # Never =>
                       lastScan' - lastScan > ExpiredItemsDeletionInterval
<1>1. [Next]_vars => [Spaced]_vars
  <2> SUFFICES ASSUME [Next]_vars, lastScan' # lastScan, lastScan # Never
               PROVE lastScan' - lastScan > ExpiredItemsDeletionInterval
    OBVIOUS
  <2>1. ASSUME NEW c \in Callers, CallerStep(c), ~ScanUnderLock(c) PROVE FALSE
    BY <2>1 DEF CallerStep, GetOrCreateAsync, RefreshAsync, SetAsync, RemoveAsync, UpdateOnGet,
         UpdateOnRefresh, SelectValue, Create, UpdateItem, InsertItem, AddMoniker, Return, Fail
  <2>2. ~(Tick \/ DeleteExpiredItems \/ DeleteOrphans \/ ScanFails \/ UNCHANGED vars)
    BY DEF Tick, DeleteExpiredItems, DeleteOrphans, ScanFails, vars
  <2>3. ASSUME NEW trigger \in NULL(Keys), NEW m \in Monikers, NotifyChanged(trigger, m) PROVE FALSE
    BY <2>3 DEF NotifyChanged
  <2>4. ASSUME NEW n \in changes, EvictItems(n) \/ Unlist(n) PROVE FALSE
    BY <2>4 DEF EvictItems, Unlist
  <2>5. PICK c \in Callers : ScanUnderLock(c)
    BY <2>1, <2>2, <2>3, <2>4 DEF Next
  <2>6. QED
    BY <2>5 DEF ScanUnderLock, StillDue, ScanIsDue
<1>2. QED
  BY <1>1, PTL DEF Spec, ScansAreSpaced

=============================================================================
