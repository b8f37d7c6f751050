\* The repository may take for ever: does StorageTimeout end the call?
SPECIFICATION SchedulerSpec
CONSTANTS
  Requests = {r1}
  Processors = {p1}
  BufferCapacity = 1
  MaxItems = 2
PROPERTY StorageTimeoutApplies
CHECK_DEADLOCK FALSE
