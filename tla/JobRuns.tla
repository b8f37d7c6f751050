------------------------------- MODULE JobRuns -------------------------------
(***************************************************************************)
(* RunItemAsync of the Worker: any number of runs of a job, started by the *)
(* timer or by hand, take the worker lock when the job is a singleton,     *)
(* execute its method, dispose of its owner and release the lock.  The     *)
(* Worker declares IWorkerLock and leaves it to the application: the kinds *)
(* of lock below are what one may register, and no part of this code.      *)
(***************************************************************************)
EXTENDS Naturals

CONSTANTS
  Jobs,           \* the scheduled items
  Singletons,     \* those with IsSingleton
  Instances,      \* instance ids; an id is used again once its run ended cleanly
  MaxFailures,    \* bound: exceptions that make a run skip the release
  None

ASSUME ConstantsAssumption ==
  /\ Singletons \subseteq Jobs
  /\ MaxFailures \in Nat
  /\ None \notin Jobs \cup Instances

VARIABLES
  workerLock, \* the IWorkerLock of the services, NullLock when there is none
  phase,      \* where each instance is in RunItemAsync
  job,        \* its ScheduledItem
  lock,       \* what the lock keeps: the instance that holds each job
  robbed,     \* history: runs whose lock was freed by the release of another run
  failures    \* exceptions that skipped a release so far

lockVars == <<workerLock, lock, robbed>>
vars == <<lockVars, phase, job, failures>>

\* NullLock grants every run and keeps nothing. An interface cannot say what a
\* release does for an instance that does not hold the job: an application's lock
\* may look at the holder, or free the job whoever asks.
LockKinds == {"NullLock", "checksHolder", "freesTheJob"}

InFinally == {"disposing", "releasing"}
Active == {"creating", "acquiring", "running", "failing"} \cup InFinally

TypeOK ==
  /\ workerLock \in LockKinds
  /\ phase \in [Instances -> Active \cup {"free", "leaked"}]
  /\ job \in [Instances -> Jobs \cup {None}]
  /\ \A i \in Instances : job[i] = None <=> phase[i] = "free"
  /\ lock \in [Jobs -> Instances \cup {None}]
  /\ robbed \subseteq Instances
  /\ failures \in 0..MaxFailures

Init ==
  /\ workerLock \in LockKinds
  /\ phase = [i \in Instances |-> "free"]
  /\ job = [i \in Instances |-> None]
  /\ lock = [j \in Jobs |-> None] /\ robbed = {}
  /\ failures = 0

-----------------------------------------------------------------------------
\* OnTimerElapsed or RunAsync starts a run under a new instance id.
BeginRun(i, j) ==
  /\ phase[i] = "free"
  /\ phase' = [phase EXCEPT ![i] = "creating"]
  /\ job' = [job EXCEPT ![i] = j]
  /\ UNCHANGED <<lockVars, failures>>

Moves(i, from, to) ==
  /\ phase[i] = from
  /\ phase' = [phase EXCEPT ![i] = to]
  /\ job' = IF to = "free" THEN [job EXCEPT ![i] = None] ELSE job

\* The owner and the parameters; only a singleton asks for the lock.
CreateOwner(i) ==
  /\ \/ job[i] \in Singletons /\ Moves(i, "creating", "acquiring")
     \/ job[i] \notin Singletons /\ Moves(i, "creating", "running")
  /\ UNCHANGED <<lockVars, failures>>

\* They are created before the try block: an exception there ends the run.
CreateFails(i) ==
  /\ Moves(i, "creating", "free")
  /\ UNCHANGED <<lockVars, failures>>

\* Faulty variant: the arguments jobId and instanceId are swapped.
GrantsSwapped(i) ==
  /\ lock[job[i]] = None
  /\ lock' = [lock EXCEPT ![job[i]] = job[i]]

\* A registered lock grants a job that nobody holds.
Grants(i) ==
  /\ lock[job[i]] = None
  /\ lock' = [lock EXCEPT ![job[i]] = i]

\* Faulty variant: HasLock is not looked at.
AcquireLockUnchecked(i) ==
  /\ Moves(i, "acquiring", "running")
  /\ lock' = [lock EXCEPT ![job[i]] = IF @ = None THEN i ELSE @]
  /\ UNCHANGED <<workerLock, robbed, failures>>

\* AcquireLockAsync with a zero timeout: HasLock.
AcquireLock(i) ==
  /\ Moves(i, "acquiring", "running")
  /\ IF workerLock = "NullLock" THEN UNCHANGED lock ELSE Grants(i)
  /\ UNCHANGED <<workerLock, robbed, failures>>

\* Somebody holds the job: "return lockStatus", through the finally block.
AcquireFails(i) ==
  /\ Moves(i, "acquiring", "disposing")
  /\ workerLock # "NullLock" /\ lock[job[i]] # None
  /\ UNCHANGED <<lockVars, failures>>

\* Faulty variant: the lock is acquired before the try block.
AcquireThrowsOutsideTry(i) ==
  /\ Moves(i, "acquiring", "free")
  /\ workerLock # "NullLock"
  /\ Grants(i) \/ UNCHANGED lock
  /\ UNCHANGED <<workerLock, robbed, failures>>

\* The lock throws: whether it granted the job first is not known.
AcquireThrows(i) ==
  /\ Moves(i, "acquiring", "failing")
  /\ workerLock # "NullLock"
  /\ Grants(i) \/ UNCHANGED lock
  /\ UNCHANGED <<workerLock, robbed, failures>>

\* ExecutingAsync, the method and ExecutedAsync(null) return.
RunSucceeds(i) ==
  /\ Moves(i, "running", "disposing")
  /\ UNCHANGED <<lockVars, failures>>

\* One of them throws: the catch block calls ExecutedAsync(error).
RunThrows(i) ==
  /\ Moves(i, "running", "failing")
  /\ UNCHANGED <<lockVars, failures>>

\* Faulty variant: the catch block runs the method again.
RetryForever(i) ==
  /\ Moves(i, "failing", "running")
  /\ UNCHANGED <<lockVars, failures>>

\* ExecutedAsync throws or the catch block rethrows: finally, either way.
Rethrow(i) ==
  /\ Moves(i, "failing", "disposing")
  /\ UNCHANGED <<lockVars, failures>>

DisposeOwner(i) ==
  /\ Moves(i, "disposing", "releasing")
  /\ UNCHANGED <<lockVars, failures>>

\* What the lock does for ReleaseLockAsync(jobId, instanceId).
Frees(i) == lock[job[i]] = i \/ workerLock = "freesTheJob"

\* finally: the release is called whether or not this run acquired, that of a
\* refused run or of a job that is no singleton as well.
ReleaseLock(i) ==
  /\ Moves(i, "releasing", "free")
  /\ lock' = IF Frees(i) THEN [lock EXCEPT ![job[i]] = None] ELSE lock
  /\ robbed' = (robbed \cup {k \in Instances : Frees(i) /\ k = lock[job[i]]}) \ {i}
  /\ UNCHANGED <<workerLock, failures>>

\* Dispose or ReleaseLockAsync throws in the finally block: what this instance
\* holds is never released.
FinallyThrows(i) ==
  /\ failures < MaxFailures
  /\ failures' = failures + 1
  /\ \E from \in InFinally : Moves(i, from, IF lock[job[i]] = i THEN "leaked" ELSE "free")
  /\ robbed' = robbed \ {i}
  /\ UNCHANGED <<workerLock, lock>>

RunStep(i) ==
  \/ CreateOwner(i) \/ CreateFails(i)
  \/ AcquireLock(i) \/ AcquireFails(i) \/ AcquireThrows(i)
  \/ RunSucceeds(i) \/ RunThrows(i) \/ Rethrow(i)
  \/ DisposeOwner(i) \/ ReleaseLock(i) \/ FinallyThrows(i)

Next == \E i \in Instances : RunStep(i) \/ \E j \in Jobs : BeginRun(i, j)

Spec == Init /\ [][Next]_vars

\* Job methods, events and the lock's calls complete; nobody has to start a run.
FairSpec == Spec /\ \A i \in Instances : WF_vars(RunStep(i))

-----------------------------------------------------------------------------
(* Properties *)

\* With any lock registered, two runs of a singleton execute its method at the
\* same time only when the lock of one of them was freed by the release that some
\* other run, refused or late, makes in its finally block: under a lock that looks
\* at the holder, never.
SingletonExclusion ==
  workerLock # "NullLock" =>
    \A i, k \in Instances :
      (phase[i] = "running" /\ phase[k] = "running" /\ job[i] = job[k]
        /\ job[i] \in Singletons /\ i # k)
        => workerLock # "checksHolder" /\ {i, k} \cap robbed # {}

\* The lock of a job is held by a run of that job which is still in progress: one
\* that ended keeps it only after an exception in its finally block.
LockOwnerLives ==
  \A j \in Jobs : lock[j] # None =>
    /\ job[lock[j]] = j
    /\ phase[lock[j]] \in {"running", "failing", "leaked"} \cup InFinally

\* However a run ends, by refusal, return or exception, the lock it holds becomes
\* free, unless its finally block threw.
LockIsReleased ==
  \A i \in Instances, j \in Jobs :
    (lock[j] = i) ~> (lock[j] # i \/ phase[i] = "leaked")

\* Why exclusion holds: a singleton's method executes under the lock until another
\* run frees it, which a lock that looks at the holder does not allow.
ExecutesUnderLock ==
  workerLock # "NullLock" =>
    \A i \in Instances :
      (phase[i] = "running" /\ job[i] \in Singletons /\ i \notin robbed)
        => lock[job[i]] = i

HoldersKeepTheLock == workerLock = "checksHolder" => robbed = {}

IInv == TypeOK /\ LockOwnerLives /\ ExecutesUnderLock /\ HoldersKeepTheLock
=============================================================================
