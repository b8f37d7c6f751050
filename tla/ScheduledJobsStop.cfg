\* The host stops the service while runs are in progress.
SPECIFICATION Spec
CONSTANTS
  Jobs = {j1, j2}
  Expressions <- SomeExpressions
  Period = 3
  Horizon = 6
  MaxRuns = 1
  MaxDue = 2
  None = None
PROPERTY StopWaitsForRunningItems
\* The process ends with an exception that leaves the timer callback.
CHECK_DEADLOCK FALSE
