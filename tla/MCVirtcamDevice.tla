-------------------------- MODULE MCVirtcamDevice ---------------------------
(* VirtcamDevice with three buffers and two pools that share one of them,  *)
(* so that a buffer of an old pool can come back after a reconfiguration.  *)
EXTENDS VirtcamDevice

CONSTANTS b1, b2, b3

MCBuffers == {b1, b2, b3}
MCPools == {<<b1, b2>>, <<b2, b3>>}
=============================================================================
