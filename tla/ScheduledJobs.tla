---------------------------- MODULE ScheduledJobs ----------------------------
(***************************************************************************)
(* ScheduledJobsHost of the Worker: a timer scans the scheduled items and  *)
(* starts the due ones, while the host starts and stops the service. A run *)
(* is seen from the timer only: its synchronous part occupies the timer's  *)
(* callback, the rest of it goes on alone (JobRuns has its steps).         *)
(***************************************************************************)
EXTENDS Integers

CONSTANTS
  Jobs,        \* the scheduled items
  Expressions, \* schedule expressions, each the set of its occurrences
  Period,      \* of the timer and of the rounding of dates: 5 s in the code
  Horizon,     \* bound of the clock
  MaxRuns,     \* bound: runs in progress outside the timer's callback
  MaxDue,      \* bound: timer callbacks queued on the thread pool
  None

ASSUME ConstantsAssumption ==
  /\ \A e \in Expressions : e \subseteq Nat
  /\ Period \in Nat /\ Period % 2 = 1
  /\ Horizon \in Nat /\ MaxRuns \in Nat
  /\ MaxDue \in Nat \ {0}
  /\ None \notin Nat \cup Jobs

VARIABLES
  expression, \* ScheduledItem.Expression
  onStartup,  \* ScheduledItem.ShouldRunOnStartup
  ready,      \* ScheduledItem.IsReadyToRun
  next,       \* ScheduledItem.NextScheduledDate
  lastRun,    \* history: the NextScheduledDate of the item's last launch
  now,        \* DateTime.Now
  execute,    \* ExecuteAsync: waiting for a multiple of Period, or done
  timerOn,    \* the timer's period is set
  due,        \* the timer callbacks queued on the thread pool
  scanning,   \* TimerElapseCheck
  unscanned,  \* the items the current callback has still to look at
  inline,     \* the job whose run occupies the timer's callback
  running,    \* the number of runs in progress outside it
  stop,       \* StopAsync
  stoppedEarly, \* history: StopAsync was called while ExecuteAsync was waiting
  crashed     \* an exception left the timer callback

itemVars == <<expression, onStartup, ready, next, lastRun>>
timerVars == <<now, execute, timerOn, due>>
scanVars == <<scanning, unscanned>>
runVars == <<inline, running>>
stopVars == <<stop, stoppedEarly>>
vars == <<itemVars, timerVars, scanVars, runVars, stopVars, crashed>>

Date == Nat \cup {None}

TypeOK ==
  /\ expression \in [Jobs -> Expressions]
  /\ onStartup \in [Jobs -> BOOLEAN] /\ ready \in [Jobs -> BOOLEAN]
  /\ next \in [Jobs -> Date] /\ lastRun \in [Jobs -> Date]
  /\ \A j \in Jobs : ready[j] /\ ~crashed => next[j] # None
  /\ now \in 0..Horizon
  /\ execute \in {"aligning", "done"}
  /\ timerOn \in BOOLEAN /\ due \in 0..MaxDue
  /\ scanning \in BOOLEAN /\ unscanned \in SUBSET Jobs
  /\ inline \in Jobs \cup {None} /\ running \in 0..MaxRuns
  /\ stop \in {"no", "stopping", "returned", "disposed"}
  /\ stoppedEarly \in BOOLEAN /\ crashed \in BOOLEAN

\* Items as base.ExecuteAsync builds them from the ScheduleAttributes.
Init ==
  /\ expression \in [Jobs -> Expressions]
  /\ onStartup \in [Jobs -> BOOLEAN]
  /\ ready = [j \in Jobs |-> FALSE]
  /\ next = [j \in Jobs |-> None] /\ lastRun = [j \in Jobs |-> None]
  /\ now = 0
  /\ execute = "aligning" /\ timerOn = FALSE /\ due = 0
  /\ scanning = FALSE /\ unscanned = {}
  /\ inline = None /\ running = 0
  /\ stop = "no" /\ stoppedEarly = FALSE
  /\ crashed = FALSE

-----------------------------------------------------------------------------
(* The clock and the timer *)

Elapses == due' = IF due < MaxDue THEN due + 1 ELSE due

\* One second passes; an enabled timer elapses at every multiple of Period and
\* queues a callback. At the horizon the clock stands still and the timer goes on.
ClockTicks ==
  /\ now' = IF now < Horizon THEN now + 1 ELSE now
  /\ IF timerOn /\ (now = Horizon \/ now' % Period = 0) THEN Elapses ELSE UNCHANGED due
  /\ UNCHANGED <<execute, timerOn, itemVars, scanVars, runVars, stopVars, crashed>>

\* ExecuteAsync polls for a multiple of Period, whatever its stoppingToken says,
\* and starts the timer with no initial delay, unless it was disposed meanwhile.
ExecuteAsync ==
  /\ execute = "aligning"
  /\ now % Period = 0
  /\ execute' = "done"
  /\ timerOn' = (stop # "disposed")
  /\ IF timerOn' THEN Elapses ELSE UNCHANGED due
  /\ UNCHANGED <<now, itemVars, scanVars, runVars, stopVars, crashed>>

\* OnTimerElapsed, on a thread of the pool: CompareExchange lets one callback scan,
\* the others return. It does not ask whether the host is stopping.
OnTimerElapsed ==
  /\ due > 0
  /\ due' = due - 1
  /\ scanning' = TRUE
  /\ unscanned' = IF scanning THEN unscanned ELSE Jobs
  /\ UNCHANGED <<now, execute, timerOn, itemVars, runVars, stopVars, crashed>>

-----------------------------------------------------------------------------
(* The scan *)

\* 5 * Math.Round(second / 5): the nearest multiple of Period (odd: no ties).
RoundToPeriod(s) == ((2 * s + Period) \div (2 * Period)) * Period

\* Faulty variant: the first occurrence not before `from`.
GetNextInclusive(from, e) ==
  LET later == {s \in e : s >= from}
  IN  IF later = {} THEN None
      ELSE RoundToPeriod(CHOOSE s \in later : \A o \in later : s <= o)

\* CronExpressionParser.GetNext: the first occurrence after `from`, rounded.
GetNext(from, e) ==
  LET later == {s \in e : s > from}
  IN  IF later = {} THEN None
      ELSE RoundToPeriod(CHOOSE s \in later : \A o \in later : s <= o)

\* NextScheduledDate of item j once the first lock block of the loop body ran.
PreparedDate(j) ==
  CASE onStartup[j] -> now
    [] ~onStartup[j] /\ ready[j] -> next[j]
    [] OTHER -> GetNext(IF next[j] = None THEN now ELSE next[j], expression[j])

\* The loop is at item j: not inside the run of an item before it.
Scans(j) ==
  /\ scanning /\ inline = None
  /\ j \in unscanned
  /\ unscanned' = unscanned \ {j}
  /\ next' = [next EXCEPT ![j] = PreparedDate(j)]
  /\ onStartup' = [onStartup EXCEPT ![j] = FALSE]
  /\ UNCHANGED <<expression, scanning, running, timerVars, stopVars>>

\* The item is not due yet: its date is kept for a later scan.
ScanNotDue(j) ==
  /\ Scans(j)
  /\ PreparedDate(j) # None /\ PreparedDate(j) > now
  /\ ready' = [ready EXCEPT ![j] = TRUE]
  /\ UNCHANGED <<lastRun, inline, crashed>>

\* The item is due: RunItemAsync is called inside the item's lock; IsReadyToRun
\* is reset when the call returns.
ScanDue(j) ==
  /\ Scans(j)
  /\ PreparedDate(j) # None /\ PreparedDate(j) <= now
  /\ inline' = j
  /\ lastRun' = [lastRun EXCEPT ![j] = PreparedDate(j)]
  /\ ready' = [ready EXCEPT ![j] = TRUE]
  /\ UNCHANGED crashed

\* Faulty variant: the date is logged without .Value.
ScanReadiesNoDate(j) ==
  /\ Scans(j)
  /\ PreparedDate(j) = None
  /\ ready' = [ready EXCEPT ![j] = TRUE]
  /\ UNCHANGED <<lastRun, inline, crashed>>

\* No further occurrence: NextScheduledDate.Value throws in the timer callback,
\* where nobody catches it, and the process ends.
ScanThrows(j) ==
  /\ Scans(j)
  /\ PreparedDate(j) = None
  /\ ready' = [ready EXCEPT ![j] = TRUE]
  /\ crashed' = TRUE
  /\ UNCHANGED <<lastRun, inline>>

\* The synchronous part of the run is over, with the run itself or at an await:
\* RunItemAsync returns its task, which the callback drops.
RunItemAsyncReturns ==
  /\ inline # None
  /\ inline' = None
  /\ ready' = [ready EXCEPT ![inline] = FALSE]
  /\ running' \in {running, running + 1} \cap 0..MaxRuns
  /\ UNCHANGED <<expression, onStartup, next, lastRun, scanVars, timerVars, stopVars, crashed>>

\* Faulty variant: TimerElapseCheck is not reset.
ScanNeverEnds ==
  /\ scanning /\ inline = None /\ unscanned = {}
  /\ UNCHANGED vars

\* finally: TimerElapseCheck is reset.
ScanEnds ==
  /\ scanning /\ inline = None /\ unscanned = {}
  /\ scanning' = FALSE
  /\ UNCHANGED <<unscanned, itemVars, timerVars, runVars, stopVars, crashed>>

\* RunAsync(methodInfo): a run outside the schedule.
RunAsync ==
  /\ running < MaxRuns
  /\ running' = running + 1
  /\ UNCHANGED <<inline, itemVars, timerVars, scanVars, stopVars, crashed>>

RunEnds ==
  /\ running > 0
  /\ running' = running - 1
  /\ UNCHANGED <<inline, itemVars, timerVars, scanVars, stopVars, crashed>>

-----------------------------------------------------------------------------
(* Shutdown *)

\* Faulty variant: the timer is left to Dispose.
StopKeepsTimer ==
  /\ stop = "no"
  /\ stop' = "stopping"
  /\ stoppedEarly' = (execute = "aligning")
  /\ UNCHANGED <<timerVars, itemVars, scanVars, runVars, crashed>>

\* Timer.Change(Infinite), which withdraws no callback that is queued; cancel the
\* token of the jobs, base.StopAsync.
StopAsync ==
  /\ stop = "no"
  /\ stop' = "stopping"
  /\ stoppedEarly' = (execute = "aligning")
  /\ timerOn' = FALSE
  /\ UNCHANGED <<now, execute, due, itemVars, scanVars, runVars, crashed>>

\* Interlocked.Read(ref RunningItemCount): no statement ever increments it.
RunningItemCount == 0

\* base.StopAsync waited for ExecuteAsync or until the host lost patience;
\* SpinUntil then sees no running item.
StopReturns ==
  /\ stop = "stopping"
  /\ RunningItemCount = 0
  /\ stop' = "returned"
  /\ UNCHANGED <<stoppedEarly, itemVars, timerVars, scanVars, runVars, crashed>>

\* Timer.Dispose: a queued callback may still come.
Dispose ==
  /\ stop = "returned"
  /\ stop' = "disposed"
  /\ timerOn' = FALSE
  /\ UNCHANGED <<now, execute, due, stoppedEarly, itemVars, scanVars, runVars, crashed>>

-----------------------------------------------------------------------------
ScanStep == ScanEnds \/ \E j \in Jobs : ScanNotDue(j) \/ ScanDue(j) \/ ScanThrows(j)

\* What the thread of the scanning callback does next.
CallbackStep == ScanStep \/ RunItemAsyncReturns

Next ==
  /\ ~crashed
  /\ \/ ClockTicks \/ ExecuteAsync \/ OnTimerElapsed \/ CallbackStep
     \/ RunAsync \/ RunEnds
     \/ StopAsync \/ StopReturns \/ Dispose

Spec == Init /\ [][Next]_vars

\* The clock and the thread pool go on, and the synchronous part of a job ends:
\* nothing is assumed of the rest of a run, of manual runs or of the host's stop.
Fairness ==
  /\ WF_vars(~crashed /\ ClockTicks)
  /\ WF_vars(~crashed /\ ExecuteAsync)
  /\ WF_vars(~crashed /\ OnTimerElapsed)
  /\ WF_vars(~crashed /\ CallbackStep)

FairSpec == Spec /\ Fairness

-----------------------------------------------------------------------------
(* Properties *)

\* An occurrence rounded down below itself is found again, with the same date, by
\* the next GetNext: such a job runs at every scan. The schedules kept are the others.
RoundsForward(e) == \A s \in e : RoundToPeriod(s) >= s

\* A scheduled date starts its job once: each launch has a later date than the
\* one before, however late the scans are, unless rounding moves dates back.
NoOccurrenceRunsTwice ==
  [][\A j \in Jobs :
       (inline = None /\ inline' = j /\ lastRun[j] # None /\ RoundsForward(expression[j]))
         => lastRun'[j] > lastRun[j]]_vars

\* The timer keeps every schedule: an occurrence that lies ahead of a prepared
\* item is launched or passed over by a later launch, whatever the other jobs do
\* on the timer's thread and however many scans they delay, until the host stops.
EveryOccurrenceIsServed ==
  \A j \in Jobs : \A s \in {o \in UNION Expressions : RoundToPeriod(o) <= Horizon} :
    (timerOn /\ ~crashed /\ ready[j] /\ RoundsForward(expression[j]) /\ s \in expression[j]
      /\ next[j] <= s)
      ~> ((lastRun[j] # None /\ lastRun[j] >= s) \/ stop # "no" \/ crashed)

\* After a stop a scan begins only in a callback that the timer had queued before,
\* and none is queued any more, unless StopAsync was called before ExecuteAsync had
\* started the timer.
StopQueuesNoScan ==
  [][(stop # "no" /\ ~stoppedEarly) =>
       due' <= due /\ (~scanning /\ scanning' => due' < due)]_vars

\* So a stopped host falls silent: the callbacks that were queued come and go, with
\* their runs' synchronous parts, and from then on no scan is in progress.
StoppedHostFallsSilent ==
  (stop # "no" /\ ~stoppedEarly) ~> (crashed \/ [](~scanning /\ due = 0))

\* ScheduledJobsHost.StopAsync spins until "0 == RunningItemCount": no run is in
\* progress when it returns.
StopWaitsForRunningItems ==
  [][stop = "stopping" /\ stop' = "returned" => (inline = None /\ running = 0)]_vars
=============================================================================
