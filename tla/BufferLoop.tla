----------------------------- MODULE BufferLoop -----------------------------
(***************************************************************************)
(* What a capture backend (a DeviceInterface, which is an                  *)
(* IImageBufferPool) promises about the image buffers it is given.  The    *)
(* device writes into the buffers it has, the owner of the sink reads the  *)
(* ones that were delivered to it, and no buffer is with both: the sink    *)
(* never sees an image being overwritten, and never gets a buffer again    *)
(* before it returned it.                                                  *)
(***************************************************************************)

CONSTANT Buffers    \* every ImageBuffer a pool may own

VARIABLES device,   \* buffers the device may write into
          sink      \* buffers delivered and not yet returned

TypeOK == device \subseteq Buffers /\ sink \subseteq Buffers

(* The promise.                                                            *)
Exclusive == device \cap sink = {}

Init == device = {} /\ sink = {}

(* initialize_buffers: the buffers S of a pool replace the ones it had.    *)
Register(S) ==
  /\ S \cap sink = {}
  /\ device' = S
  /\ UNCHANGED sink

(* release_buffers and stop_stream may drop buffers.                       *)
Release(S) ==
  /\ device' = device \ S
  /\ UNCHANGED sink

(* push_image: one of the device's buffers goes to the sink.               *)
Deliver(b) ==
  /\ b \in device
  /\ device' = device \ {b}
  /\ sink' = sink \cup {b}

(* requeue_buffer: the device takes the buffer back, or knows it no more.  *)
Return(b) ==
  /\ b \in sink
  /\ sink' = sink \ {b}
  /\ device' = device \/ device' = device \cup {b}

Next ==
  \/ \E S \in SUBSET Buffers : Register(S) \/ Release(S)
  \/ \E b \in Buffers : Deliver(b) \/ Return(b)

Spec == Init /\ [][Next]_<<device, sink>>

=============================================================================
