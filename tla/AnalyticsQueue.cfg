\* Two requests yielding three items race two processors with a two-item buffer.
SPECIFICATION FairSpec
CONSTANTS
  Requests = {r1, r2}
  Processors = {p1, p2}
  BufferCapacity = 2
  MaxItems = 3
INVARIANTS TypeOK ItemConservation DrainedAtStop
PROPERTIES AcceptedIsSettled StopCompletes DeliverySpec
\* A stopped service takes no further step.
CHECK_DEADLOCK FALSE
