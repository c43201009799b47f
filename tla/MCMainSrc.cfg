\* A pool of two buffers, num-buffers=3, and every fault.
SPECIFICATION FlowingSpec
CONSTANTS
  Buffers = {b1, b2}
  Dangling = Dangling
  NoBuffer = NoBuffer
  NumBuffers = 3
  Faults = {"lost", "start", "caps", "pool"}
INVARIANTS PoolHolds
PROPERTIES StreamLives
CHECK_DEADLOCK FALSE
