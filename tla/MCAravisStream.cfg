\* Three buffers in two overlapping pools.
SPECIFICATION Spec
CONSTANTS
  Buffers = {b1, b2, b3}
  Pools = {{b1, b2}, {b2, b3}}
  NoBuffer = NoBuffer
  CallbackWork = {"requeue", "property"}
  Faults = {"start", "stop"}
INVARIANTS StreamIsSafe
PROPERTIES ImplementsBufferLoop StopReturnsOrBlocks
CHECK_DEADLOCK FALSE
