SPECIFICATION Spec
CONSTANTS
  b1 = b1
  b2 = b2
  b3 = b3
  NoBuffer = NoBuffer
  Buffers <- MCBuffers
  Pools <- MCPools
INVARIANTS BuffersOwned
PROPERTIES ImplementsBufferLoop StopReturns
