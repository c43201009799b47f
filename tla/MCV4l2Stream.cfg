SPECIFICATION Spec
CONSTANTS
  b1 = b1
  b2 = b2
  b3 = b3
  Buffers <- MCBuffers
  Pools <- MCPools
  MaxIndex <- MCMaxIndex
INVARIANTS BuffersExclusive
PROPERTIES ImplementsBufferLoop StopReturns
