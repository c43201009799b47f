---------------------------- MODULE MCV4l2Stream ----------------------------
(* V4l2Stream with three buffers and two pools of different length: a      *)
(* buffer of one can come back while the stream runs with the other.       *)
EXTENDS V4l2Stream

CONSTANTS b1, b2, b3

MCBuffers == {b1, b2, b3}
MCPools == {<<b1, b2>>, <<b3>>}
MCMaxIndex == 2
=============================================================================
