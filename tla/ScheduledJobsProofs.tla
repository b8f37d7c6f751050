------------------------- MODULE ScheduledJobsProofs -------------------------
(***************************************************************************)
(* The safety of ScheduledJobsHost, for any jobs, any schedules, any odd   *)
(* rounding period and any horizon.                                        *)
(***************************************************************************)
EXTENDS ScheduledJobs, WellFoundedInduction, TLAPS

\* An item that was launched keeps the date of the launch until a scan prepares
\* it again, with a later date unless rounding moves dates back.
LaunchInv ==
  ~crashed => \A j \in Jobs : lastRun[j] # None =>
    /\ ~onStartup[j]
    /\ IF ready[j] /\ inline # j
       THEN RoundsForward(expression[j]) => next[j] > lastRun[j]
       ELSE next[j] = lastRun[j]

\* Stopping a service whose ExecuteAsync is over leaves nothing that would start
\* its timer again; callbacks may be queued.
StopInv == (stop # "no" /\ ~stoppedEarly) => (execute = "done" /\ ~timerOn)

IInv == TypeOK /\ LaunchInv /\ StopInv

-----------------------------------------------------------------------------
\* A set of numbers that is not empty has a least element: the CHOOSE of GetNext
\* finds the first occurrence.
LEMMA LeastOccurrence ==
  ASSUME NEW T \in SUBSET Nat, T # {}
  PROVE  \E s \in T : \A o \in T : s <= o
<1>1. PICK s \in T : \A o \in T : ~(<<o, s>> \in OpToRel(<, Nat))
  BY NatLessThanWellFounded, WFMin, Zenon
<1>2. ASSUME NEW o \in T PROVE s <= o
  <2>1. <<o, s>> \in Nat \X Nat /\ ~(o < s)
    BY <1>1 DEF OpToRel
  <2>2. QED
    BY <2>1
<1>3. QED
  BY <1>2

\* Rounded dates are dates.
LEMMA RoundedDate == \A s \in Nat : RoundToPeriod(s) \in Nat
<1> SUFFICES ASSUME NEW s \in Nat PROVE RoundToPeriod(s) \in Nat
  OBVIOUS
<1> DEFINE q == (2 * s + Period) \div (2 * Period)
<1>1. Period \in Nat /\ Period > 0
  BY ConstantsAssumption
<1>2. q \in Nat
  BY <1>1
<1> HIDE DEF q
<1>3. q * Period \in Nat
  BY <1>1, <1>2
<1>4. QED
  BY <1>3 DEF RoundToPeriod, q

\* GetNext returns no date or, where rounding moves none back, one after `from`.
LEMMA NextIsLater ==
  ASSUME NEW from \in Nat, NEW e \in Expressions
  PROVE  /\ GetNext(from, e) \in Nat \cup {None}
         /\ RoundsForward(e) /\ GetNext(from, e) # None => GetNext(from, e) > from
<1> DEFINE later == {s \in e : s > from}
           first == CHOOSE s \in later : \A o \in later : s <= o
<1>1. e \subseteq Nat
  BY ConstantsAssumption
<1>2. CASE later = {}
  BY <1>2 DEF GetNext
<1>3. CASE later # {}
  <2>1. first \in later
    <3>1. \E s \in later : \A o \in later : s <= o
      BY <1>1, <1>3, LeastOccurrence
    <3>2. QED
      BY <3>1
  <2>2. GetNext(from, e) = RoundToPeriod(first)
    BY <1>3 DEF GetNext
  <2> HIDE DEF first
  <2>3. first \in Nat /\ first > from /\ first \in e
    BY <1>1, <2>1
  <2>4. RoundToPeriod(first) \in Nat
    BY <2>3, RoundedDate
  <2>5. RoundsForward(e) => RoundToPeriod(first) >= first
    BY <2>3 DEF RoundsForward
  <2>6. QED
    BY <2>2, <2>3, <2>4, <2>5
<1>4. QED
  BY <1>2, <1>3

\* The date that a scan prepares.
LEMMA PreparedDates ==
  ASSUME TypeOK, NEW j \in Jobs PROVE PreparedDate(j) \in Date
<1>1. next[j] # None => next[j] \in Nat
  BY DEF TypeOK, Date
<1>2. now \in Nat
  BY ConstantsAssumption DEF TypeOK
<1>3. CASE onStartup[j]
  BY <1>2, <1>3 DEF PreparedDate, Date
<1>4. CASE ~onStartup[j] /\ ready[j]
  BY <1>4 DEF PreparedDate, TypeOK
<1>5. CASE ~onStartup[j] /\ ~ready[j]
  <2>1. (IF next[j] = None THEN now ELSE next[j]) \in Nat /\ expression[j] \in Expressions
    BY <1>1, <1>2 DEF TypeOK
  <2>2. GetNext(IF next[j] = None THEN now ELSE next[j], expression[j]) \in Date
    BY <2>1, NextIsLater DEF Date
  <2>3. QED
    BY <1>5, <2>2 DEF PreparedDate
<1>6. QED
  BY <1>3, <1>4, <1>5 DEF TypeOK

\* The inductive invariant holds initially.
LEMMA InitialState == Init => IInv
<1> SUFFICES ASSUME Init PROVE IInv
  OBVIOUS
<1>1. TypeOK
  <2>1. now \in 0..Horizon /\ running \in 0..MaxRuns /\ due \in 0..MaxDue
    BY ConstantsAssumption DEF Init
  <2>2. /\ next \in [Jobs -> Date] /\ lastRun \in [Jobs -> Date] /\ ready \in [Jobs -> BOOLEAN]
        /\ \A j \in Jobs : ~ready[j]
    BY DEF Init, Date
  <2>3. QED
    BY <2>1, <2>2 DEF Init, TypeOK
<1>2. LaunchInv /\ StopInv
  BY DEF Init, LaunchInv, StopInv
<1>3. QED
  BY <1>1, <1>2 DEF IInv

\* Every step of the host keeps the state well typed.
LEMMA TypeStep == TypeOK /\ [Next]_vars => TypeOK'
<1> SUFFICES ASSUME TypeOK, [Next]_vars PROVE TypeOK'
  OBVIOUS
<1> USE DEF TypeOK, itemVars, timerVars, scanVars, runVars, stopVars
<1>0. Elapses \/ UNCHANGED due => due' \in 0..MaxDue
  BY ConstantsAssumption DEF Elapses
<1>1. CASE ClockTicks
  <2>1. now' \in 0..Horizon
    BY <1>1, ConstantsAssumption DEF ClockTicks
  <2>2. due' \in 0..MaxDue
    BY <1>0, <1>1 DEF ClockTicks
  <2>3. QED
    BY <1>1, <2>1, <2>2 DEF ClockTicks
<1>2. CASE ExecuteAsync
  <2>1. due' \in 0..MaxDue
    BY <1>0, <1>2 DEF ExecuteAsync
  <2>2. QED
    BY <1>2, <2>1 DEF ExecuteAsync
<1>13. CASE OnTimerElapsed
  <2>1. due' \in 0..MaxDue
    BY <1>13, ConstantsAssumption DEF OnTimerElapsed
  <2>2. QED
    BY <1>13, <2>1 DEF OnTimerElapsed
<1>3. CASE ScanEnds
  BY <1>3 DEF ScanEnds
<1>4. ASSUME NEW j \in Jobs, Scans(j), ~crashed
      PROVE /\ onStartup' \in [Jobs -> BOOLEAN] /\ next' \in [Jobs -> Date] /\ unscanned' \in SUBSET Jobs
            /\ next'[j] = PreparedDate(j) /\ \A o \in Jobs : ready[o] /\ o # j => next'[o] # None
  BY <1>4, PreparedDates DEF Scans
<1>5. ASSUME NEW j \in Jobs, ScanNotDue(j), ~crashed PROVE TypeOK'
  <2>1. ready' = [ready EXCEPT ![j] = TRUE] /\ PreparedDate(j) # None
    BY <1>5 DEF ScanNotDue
  <2>2. Scans(j) /\ UNCHANGED <<lastRun, inline, crashed>>
    BY <1>5 DEF ScanNotDue
  <2>3. QED
    BY <1>4, <1>5, <2>1, <2>2 DEF Scans
<1>6. ASSUME NEW j \in Jobs, ScanDue(j), ~crashed PROVE TypeOK'
  <2>1. ready' = [ready EXCEPT ![j] = TRUE] /\ PreparedDate(j) # None
    BY <1>6 DEF ScanDue
  <2>2. Scans(j) /\ inline' = j /\ crashed' = crashed
    BY <1>6 DEF ScanDue
  <2>3. lastRun' \in [Jobs -> Date]
    BY <1>6, PreparedDates DEF ScanDue
  <2>4. QED
    BY <1>4, <1>6, <2>1, <2>2, <2>3 DEF Scans
<1>7. ASSUME NEW j \in Jobs, ScanThrows(j), ~crashed PROVE TypeOK'
  <2>1. Scans(j) /\ ready' = [ready EXCEPT ![j] = TRUE] /\ crashed' = TRUE /\ UNCHANGED <<lastRun, inline>>
    BY <1>7 DEF ScanThrows
  <2>2. QED
    BY <1>4, <1>7, <2>1 DEF Scans
<1>8. CASE RunItemAsyncReturns
  BY <1>8 DEF RunItemAsyncReturns
<1>9. CASE RunAsync \/ RunEnds
  <2>1. running' \in 0..MaxRuns
    BY <1>9, ConstantsAssumption DEF RunAsync, RunEnds
  <2>2. QED
    BY <1>9, <2>1 DEF RunAsync, RunEnds
<1>10. CASE StopAsync \/ StopReturns \/ Dispose
  BY <1>10 DEF StopAsync, StopReturns, Dispose
<1>11. CASE UNCHANGED vars
  BY <1>11 DEF vars
<1>12. QED
  BY <1>1, <1>2, <1>13, <1>3, <1>5, <1>6, <1>7, <1>8, <1>9, <1>10, <1>11
     DEF Next, CallbackStep, ScanStep

\* The date that a scan prepares for a launched item is later than its launch.
LEMMA PreparedIsLater ==
  ASSUME TypeOK, LaunchInv, ~crashed, NEW j \in Jobs, inline = None, lastRun[j] # None,
         RoundsForward(expression[j]), PreparedDate(j) # None
  PROVE  PreparedDate(j) > lastRun[j]
<1>1. ~onStartup[j] /\ inline # j
  BY ConstantsAssumption DEF LaunchInv
<1>2. CASE ready[j]
  BY <1>1, <1>2 DEF LaunchInv, PreparedDate
<1>3. CASE ~ready[j]
  <2>1. next[j] = lastRun[j]
    BY <1>3 DEF LaunchInv
  <2>2. lastRun[j] \in Nat /\ expression[j] \in Expressions
    BY DEF TypeOK, Date
  <2>3. PreparedDate(j) = GetNext(lastRun[j], expression[j])
    BY <1>1, <1>3, <2>1 DEF PreparedDate
  <2>4. QED
    BY <2>2, <2>3, NextIsLater
<1>4. QED
  BY <1>2, <1>3 DEF TypeOK

\* A launch moves the date of its item forward, and only a scan moves it again.
LEMMA LaunchStep == TypeOK /\ LaunchInv /\ [Next]_vars => LaunchInv'
<1> SUFFICES ASSUME TypeOK, LaunchInv, [Next]_vars PROVE LaunchInv'
  OBVIOUS
<1> USE DEF itemVars, timerVars, scanVars, runVars, stopVars
<1>1. CASE ClockTicks \/ ExecuteAsync \/ OnTimerElapsed \/ ScanEnds \/ RunAsync \/ RunEnds
           \/ StopAsync \/ StopReturns \/ Dispose
  BY <1>1 DEF LaunchInv, ClockTicks, ExecuteAsync, OnTimerElapsed, ScanEnds, RunAsync, RunEnds,
       StopAsync, StopReturns, Dispose
<1>2. ASSUME NEW j \in Jobs, Scans(j)
      PROVE /\ next'[j] = PreparedDate(j) /\ ~onStartup'[j] /\ inline = None
            /\ \A o \in Jobs : o # j => next'[o] = next[o] /\ onStartup'[o] = onStartup[o]
            /\ expression' = expression
  BY <1>2 DEF Scans, TypeOK
<1>3. ASSUME NEW j \in Jobs, ScanNotDue(j), ~crashed PROVE LaunchInv'
  <2>1. /\ Scans(j) /\ PreparedDate(j) # None
        /\ ready'[j] /\ \A o \in Jobs : o # j => ready'[o] = ready[o]
        /\ UNCHANGED <<lastRun, inline, crashed>>
    BY <1>3 DEF ScanNotDue, TypeOK
  <2>2. inline # j /\ inline' # j
    BY <1>2, <2>1, ConstantsAssumption
  <2>3. lastRun[j] # None /\ RoundsForward(expression[j]) => PreparedDate(j) > lastRun[j]
    BY <1>2, <1>3, <2>1, PreparedIsLater
  <2>4. QED
    BY <1>2, <1>3, <2>1, <2>2, <2>3 DEF LaunchInv, RoundsForward
<1>4. ASSUME NEW j \in Jobs, ScanDue(j), ~crashed PROVE LaunchInv'
  <2>1. /\ Scans(j) /\ inline' = j /\ crashed' = crashed
        /\ lastRun'[j] = PreparedDate(j)
        /\ \A o \in Jobs : o # j => ready'[o] = ready[o] /\ lastRun'[o] = lastRun[o]
    BY <1>4 DEF ScanDue, TypeOK
  <2>2. \A o \in Jobs : inline # o
    BY <1>2, <2>1, ConstantsAssumption
  <2>3. QED
    BY <1>2, <1>4, <2>1, <2>2 DEF LaunchInv, RoundsForward
<1>5. ASSUME NEW j \in Jobs, ScanThrows(j) PROVE LaunchInv'
  BY <1>5 DEF ScanThrows, LaunchInv
<1>6. CASE RunItemAsyncReturns
  <2>1. /\ inline \in Jobs /\ inline' = None /\ ready' = [ready EXCEPT ![inline] = FALSE]
        /\ UNCHANGED <<expression, onStartup, next, lastRun, crashed>>
    BY <1>6 DEF RunItemAsyncReturns, TypeOK
  <2>2. \A j \in Jobs : inline' # j
    BY <2>1, ConstantsAssumption
  <2>3. ~ready'[inline] /\ \A j \in Jobs : j # inline => ready'[j] = ready[j]
    BY <2>1 DEF TypeOK
  <2>4. QED
    BY <2>1, <2>2, <2>3 DEF LaunchInv, RoundsForward
<1>7. CASE UNCHANGED vars
  BY <1>7 DEF vars, LaunchInv
<1>8. QED
  BY <1>1, <1>3, <1>4, <1>5, <1>6, <1>7 DEF Next, CallbackStep, ScanStep

\* StopAsync disables the timer, and nothing enables it again.
LEMMA StopStep == TypeOK /\ StopInv /\ [Next]_vars => StopInv'
<1> SUFFICES ASSUME TypeOK, StopInv, [Next]_vars PROVE StopInv'
  OBVIOUS
<1> USE DEF StopInv, itemVars, timerVars, scanVars, runVars, stopVars
<1>1. CASE ClockTicks
  BY <1>1 DEF ClockTicks
<1>2. CASE ExecuteAsync \/ OnTimerElapsed
  BY <1>2 DEF ExecuteAsync, OnTimerElapsed
<1>3. CASE ScanEnds \/ RunItemAsyncReturns \/ RunAsync \/ RunEnds
  BY <1>3 DEF ScanEnds, RunItemAsyncReturns, RunAsync, RunEnds
<1>4. ASSUME NEW j \in Jobs, ScanNotDue(j) \/ ScanDue(j) \/ ScanThrows(j) PROVE StopInv'
  BY <1>4 DEF ScanNotDue, ScanDue, ScanThrows, Scans
<1>5. CASE StopAsync
  BY <1>5 DEF StopAsync, TypeOK
<1>6. CASE StopReturns \/ Dispose
  BY <1>6 DEF StopReturns, Dispose
<1>7. CASE UNCHANGED vars
  BY <1>7 DEF vars
<1>8. QED
  BY <1>1, <1>2, <1>3, <1>4, <1>5, <1>6, <1>7 DEF Next, CallbackStep, ScanStep

-----------------------------------------------------------------------------
\* The inductive invariant holds in every reachable state.
THEOREM Invariant == Spec => []IInv
<1>1. IInv /\ [Next]_vars => IInv'
  BY TypeStep, LaunchStep, StopStep DEF IInv
<1>2. QED
  BY InitialState, <1>1, PTL DEF Spec

\* The state stays well typed.
THEOREM TypeCorrect == Spec => []TypeOK
<1>1. IInv => TypeOK
  BY DEF IInv
<1>2. QED
  BY Invariant, <1>1, PTL

\* Where rounding moves no date back, each launch of a job has a later date than
\* the launch before it.
THEOREM LaunchesMoveOn == Spec => NoOccurrenceRunsTwice
<1> DEFINE Later == \A j \in Jobs :
             (inline = None /\ inline' = j /\ lastRun[j] # None /\ RoundsForward(expression[j]))
               => lastRun'[j] > lastRun[j]
<1>1. IInv /\ [Next]_vars => [Later]_vars
  <2> SUFFICES ASSUME IInv, [Next]_vars, NEW j \in Jobs, inline = None, inline' = j,
                      lastRun[j] # None, RoundsForward(expression[j])
               PROVE lastRun'[j] > lastRun[j]
    OBVIOUS
  <2>1. j # None
    BY ConstantsAssumption
  <2>2. ScanDue(j) /\ ~crashed
    <3>1. inline' # inline
      BY <2>1
    <3>2. ~(ClockTicks \/ ExecuteAsync \/ OnTimerElapsed \/ ScanEnds \/ RunItemAsyncReturns
              \/ RunAsync \/ RunEnds \/ StopAsync \/ StopReturns \/ Dispose \/ UNCHANGED vars)
      BY <3>1 DEF ClockTicks, ExecuteAsync, OnTimerElapsed, ScanEnds, RunItemAsyncReturns, RunAsync,
           RunEnds, StopAsync, StopReturns, Dispose, runVars, vars
    <3>3. \A o \in Jobs : ~ScanNotDue(o) /\ ~ScanThrows(o)
      BY <3>1 DEF ScanNotDue, ScanThrows
    <3>4. PICK o \in Jobs : ScanDue(o) /\ ~crashed
      BY <3>2, <3>3 DEF Next, CallbackStep, ScanStep
    <3>5. o = j
      BY <3>4 DEF ScanDue
    <3>6. QED
      BY <3>4, <3>5
  <2>3. lastRun'[j] = PreparedDate(j) /\ PreparedDate(j) # None
    BY <2>2 DEF ScanDue, IInv, TypeOK
  <2>4. QED
    BY <2>2, <2>3, PreparedIsLater DEF IInv
<1>2. QED
  BY Invariant, <1>1, PTL DEF Spec, NoOccurrenceRunsTwice

\* After a stop that did not overtake ExecuteAsync the timer queues no callback, and
\* each scan that still begins uses up one that was queued before.
THEOREM StoppedTimersStaySilent == Spec => StopQueuesNoScan
<1> DEFINE Silent == (stop # "no" /\ ~stoppedEarly) =>
                       due' <= due /\ (~scanning /\ scanning' => due' < due)
<1>1. IInv /\ [Next]_vars => [Silent]_vars
  <2> SUFFICES ASSUME IInv, Next, stop # "no", ~stoppedEarly
               PROVE  due' <= due /\ (~scanning /\ scanning' => due' < due)
    OBVIOUS
  <2>1. execute = "done" /\ ~timerOn /\ due \in Nat
    BY ConstantsAssumption DEF IInv, StopInv, TypeOK
  <2>2. CASE ClockTicks \/ ExecuteAsync
    BY <2>1, <2>2 DEF ClockTicks, ExecuteAsync, scanVars
  <2>3. CASE OnTimerElapsed
    BY <2>1, <2>3 DEF OnTimerElapsed
  <2>4. CASE CallbackStep
    <3>1. due' = due /\ (scanning' => scanning)
      BY <2>4 DEF CallbackStep, ScanStep, ScanEnds, RunItemAsyncReturns, ScanNotDue, ScanDue,
           ScanThrows, Scans, timerVars, scanVars
    <3>2. QED
      BY <2>1, <3>1
  <2>5. CASE RunAsync \/ RunEnds \/ StopAsync \/ StopReturns \/ Dispose
    BY <2>1, <2>5 DEF RunAsync, RunEnds, StopAsync, StopReturns, Dispose, timerVars, scanVars
  <2>6. QED
    BY <2>2, <2>3, <2>4, <2>5 DEF Next
<1>2. QED
  BY Invariant, <1>1, PTL DEF Spec, StopQueuesNoScan

=============================================================================
