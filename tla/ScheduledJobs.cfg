\* Two jobs on schedules that fall together or apart, over two periods.
SPECIFICATION FairSpec
CONSTANTS
  Jobs = {j1, j2}
  Expressions <- SomeExpressions
  Period = 3
  Horizon = 6
  MaxRuns = 1
  MaxDue = 2
  None = None
INVARIANTS TypeOK
PROPERTIES NoOccurrenceRunsTwice EveryOccurrenceIsServed StopQueuesNoScan
  StoppedHostFallsSilent
\* The process ends with an exception that leaves the timer callback.
CHECK_DEADLOCK FALSE
