\* Nothing fails; the callback needs the mutex of stop_stream.
SPECIFICATION Spec
CONSTANTS
  Buffers = {b1, b2, b3}
  Pools = {{b1, b2}, {b2, b3}}
  NoBuffer = NoBuffer
  CallbackWork = {"requeue", "property"}
  Faults = {}
PROPERTIES StopReturns
CHECK_DEADLOCK FALSE
