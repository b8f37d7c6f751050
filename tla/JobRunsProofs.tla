---------------------------- MODULE JobRunsProofs ----------------------------
(***************************************************************************)
(* For any jobs, any number of runs, any bound on failures and each kind   *)
(* of lock: what keeps the runs of a singleton apart, and what can come    *)
(* between.                                                                *)
(***************************************************************************)
EXTENDS JobRuns, TLAPS

\* No instance is at work in the initial state.
LEMMA InitialState == Init => IInv
  BY ConstantsAssumption DEF Init, IInv, TypeOK, LockOwnerLives, ExecutesUnderLock,
     HoldersKeepTheLock

\* Every step of RunItemAsync keeps the types, and an id is taken while its run is
\* in progress.
LEMMA TypeStep == TypeOK /\ [Next]_vars => TypeOK'
<1> SUFFICES ASSUME TypeOK, [Next]_vars
             PROVE  TypeOK'
  OBVIOUS
<1> USE ConstantsAssumption DEF TypeOK, Active, InFinally, lockVars
<1>1. ASSUME NEW i \in Instances, NEW j \in Jobs, BeginRun(i, j)
      PROVE  TypeOK'
  BY <1>1 DEF BeginRun
<1>2. ASSUME NEW i \in Instances, NEW from, NEW to \in Active \cup {"free", "leaked"},
             from # "free", Moves(i, from, to), UNCHANGED <<lockVars, failures>>
      PROVE  TypeOK'
  BY <1>2 DEF Moves
<1>3. ASSUME NEW i \in Instances, AcquireLock(i)
      PROVE  TypeOK'
  BY <1>3 DEF AcquireLock, Moves, Grants
<1>4. ASSUME NEW i \in Instances, AcquireThrows(i)
      PROVE  TypeOK'
  BY <1>4 DEF AcquireThrows, Moves, Grants
<1>5. ASSUME NEW i \in Instances, ReleaseLock(i)
      PROVE  TypeOK'
  BY <1>5 DEF ReleaseLock, Frees, Moves
<1>6. ASSUME NEW i \in Instances, FinallyThrows(i)
      PROVE  TypeOK'
  BY <1>6 DEF FinallyThrows, Moves
<1>7. ASSUME NEW i \in Instances, RunStep(i)
      PROVE  TypeOK'
  BY <1>7, <1>2, <1>3, <1>4, <1>5, <1>6
     DEF RunStep, CreateOwner, CreateFails, AcquireFails, RunSucceeds, RunThrows,
         Rethrow, DisposeOwner
<1>8. CASE UNCHANGED vars
  BY <1>8 DEF vars
<1> QED
  BY <1>1, <1>7, <1>8 DEF Next

\* The lock of a job stays with a run of that job in progress: a run leaves the
\* phases in which it may hold the lock only through its release or as leaked.
LEMMA OwnerStep == IInv /\ [Next]_vars => LockOwnerLives'
<1> SUFFICES ASSUME IInv, [Next]_vars
             PROVE  LockOwnerLives'
  OBVIOUS
<1> USE ConstantsAssumption DEF IInv, TypeOK, LockOwnerLives, InFinally, lockVars
<1>1. ASSUME NEW i \in Instances, NEW j \in Jobs, BeginRun(i, j)
      PROVE  LockOwnerLives'
  BY <1>1 DEF BeginRun
<1>2. ASSUME NEW i \in Instances,
             CreateOwner(i) \/ CreateFails(i) \/ AcquireFails(i) \/ RunSucceeds(i)
               \/ RunThrows(i) \/ Rethrow(i) \/ DisposeOwner(i)
      PROVE  LockOwnerLives'
  BY <1>2 DEF CreateOwner, CreateFails, AcquireFails, RunSucceeds, RunThrows, Rethrow,
              DisposeOwner, Moves
<1>3. ASSUME NEW i \in Instances, AcquireLock(i)
      PROVE  LockOwnerLives'
  BY <1>3 DEF AcquireLock, Moves, Grants
<1>4. ASSUME NEW i \in Instances, AcquireThrows(i)
      PROVE  LockOwnerLives'
  BY <1>4 DEF AcquireThrows, Moves, Grants
<1>5. ASSUME NEW i \in Instances, ReleaseLock(i)
      PROVE  LockOwnerLives'
  BY <1>5 DEF ReleaseLock, Frees, Moves
<1>6. ASSUME NEW i \in Instances, FinallyThrows(i)
      PROVE  LockOwnerLives'
  BY <1>6 DEF FinallyThrows, Moves
<1>7. CASE UNCHANGED vars
  BY <1>7 DEF vars
<1> QED
  BY <1>1, <1>2, <1>3, <1>4, <1>5, <1>6, <1>7 DEF Next, RunStep

\* A singleton's method starts under the lock, and no other run can take the lock
\* away while the method executes.
LEMMA ExecutionStep == IInv /\ [Next]_vars => ExecutesUnderLock'
<1> SUFFICES ASSUME IInv, [Next]_vars
             PROVE  ExecutesUnderLock'
  OBVIOUS
<1> USE ConstantsAssumption DEF IInv, TypeOK, ExecutesUnderLock, InFinally, lockVars
<1>1. ASSUME NEW i \in Instances, NEW j \in Jobs, BeginRun(i, j)
      PROVE  ExecutesUnderLock'
  BY <1>1 DEF BeginRun
<1>2. ASSUME NEW i \in Instances,
             CreateOwner(i) \/ CreateFails(i) \/ AcquireFails(i) \/ RunSucceeds(i)
               \/ RunThrows(i) \/ Rethrow(i) \/ DisposeOwner(i)
      PROVE  ExecutesUnderLock'
  BY <1>2 DEF CreateOwner, CreateFails, AcquireFails, RunSucceeds, RunThrows, Rethrow,
              DisposeOwner, Moves
<1>3. ASSUME NEW i \in Instances, AcquireLock(i)
      PROVE  ExecutesUnderLock'
  BY <1>3 DEF AcquireLock, Moves, Grants
<1>4. ASSUME NEW i \in Instances, AcquireThrows(i)
      PROVE  ExecutesUnderLock'
  BY <1>4 DEF AcquireThrows, Moves, Grants
<1>5. ASSUME NEW i \in Instances, ReleaseLock(i)
      PROVE  ExecutesUnderLock'
  BY <1>5 DEF ReleaseLock, Frees, Moves
<1>6. ASSUME NEW i \in Instances, FinallyThrows(i)
      PROVE  ExecutesUnderLock'
  BY <1>6 DEF FinallyThrows, Moves
<1>7. CASE UNCHANGED vars
  BY <1>7 DEF vars
<1> QED
  BY <1>1, <1>2, <1>3, <1>4, <1>5, <1>6, <1>7 DEF Next, RunStep

\* Under a lock that looks at the holder, the holder's own release alone frees it.
LEMMA RobbedStep == IInv /\ [Next]_vars => HoldersKeepTheLock'
<1> SUFFICES ASSUME IInv, [Next]_vars
             PROVE  HoldersKeepTheLock'
  OBVIOUS
<1> USE DEF IInv, HoldersKeepTheLock, lockVars
<1>1. CASE UNCHANGED lockVars
  BY <1>1
<1>2. ASSUME NEW i \in Instances, AcquireLock(i) \/ AcquireThrows(i)
      PROVE  HoldersKeepTheLock'
  BY <1>2 DEF AcquireLock, AcquireThrows
<1>3. ASSUME NEW i \in Instances, ReleaseLock(i)
      PROVE  HoldersKeepTheLock'
  BY <1>3 DEF ReleaseLock, Frees
<1>4. ASSUME NEW i \in Instances, FinallyThrows(i)
      PROVE  HoldersKeepTheLock'
  BY <1>4 DEF FinallyThrows
<1> QED
  BY <1>1, <1>2, <1>3, <1>4
     DEF Next, RunStep, BeginRun, CreateOwner, CreateFails, AcquireFails, RunSucceeds,
         RunThrows, Rethrow, DisposeOwner, vars

\* The inductive invariant holds in every reachable state.
LEMMA Inductive == Spec => []IInv
<1>1. IInv /\ [Next]_vars => IInv'
  BY TypeStep, OwnerStep, ExecutionStep, RobbedStep DEF IInv
<1> QED
  BY <1>1, InitialState, PTL DEF Spec

\* RunItemAsync keeps its types: see TypeOK.
THEOREM TypeCorrect == Spec => []TypeOK
  BY Inductive, PTL DEF IInv

\* With any lock registered, two runs of a singleton execute its method at the same
\* time only after another run's release freed the lock of one of them, and never
\* under a lock that looks at the holder, however many runs there are.
THEOREM Exclusion == Spec => []SingletonExclusion
<1>1. IInv => SingletonExclusion
  BY DEF IInv, ExecutesUnderLock, HoldersKeepTheLock, SingletonExclusion
<1> QED
  BY <1>1, Inductive, PTL

\* A held lock belongs to a run in progress or to one whose finally block threw.
THEOREM OwnerLives == Spec => []LockOwnerLives
  BY Inductive, PTL DEF IInv
=============================================================================
