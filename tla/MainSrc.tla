------------------------------ MODULE MainSrc -------------------------------
(***************************************************************************)
(* The GStreamer source element tcammainsrc with its buffer pool           *)
(* (gstreamer-1.0/tcamsrc/gsttcammainsrc.cpp, gsttcambufferpool.cpp,       *)
(* mainsrc_device_state.cpp).  Five threads take steps:                    *)
(*   - the thread that changes the state of the element (change_state),    *)
(*   - the streaming thread of GstBaseSrc (negotiate, create, push),       *)
(*   - the capture thread of the device, in the callback of the sink,      *)
(*   - downstream, which releases buffers to the pool,                     *)
(*   - the thread that reports that the device is lost.                    *)
(*                                                                         *)
(* GstBaseSrc is external: it calls create with its live lock held, and    *)
(* takes that lock to clear live_running when a live source is paused and  *)
(* to set the flushing flag when its pad is deactivated.                   *)
(***************************************************************************)
EXTENDS Integers, Sequences, FiniteSets, Functions

CONSTANTS Buffers,     \* the buffers of the pool (camera-buffers of them)
          Dangling,    \* a buffer whose memory the pool has deleted
          NoBuffer,
          NumBuffers,  \* num-buffers; -1 is unlimited
          Faults       \* what goes wrong: "lost" device, failing "start"
                       \* of the device, "caps" it does not accept, a "pool"
                       \* without memory

ASSUME ConstantsAssumption ==
  /\ Dangling \notin Buffers /\ NoBuffer \notin Buffers /\ Dangling # NoBuffer
  /\ NumBuffers \in Nat \cup {-1}
  /\ Faults \subseteq {"lost", "start", "caps", "pool"}

VARIABLES
  gstState,     \* current state of the element
  change,       \* program point of change_state, "none" when not running
  isStreaming,  \* device_state::is_streaming_
  queue,        \* device_state::queue
  sink,         \* device_state::sink is set
  pool,         \* the buffer pool of the element: "none", "active", "stopped"
  deviceOn,     \* the device streams
  backend,      \* buffers the device may fill
  capture,      \* program point of the capture thread
  capBuf,       \* the buffer it is delivering
  task,         \* program point of the streaming thread
  taskBuf,      \* the buffer it acquired
  live,         \* GstBaseSrc: live_running
  flushing,     \* GstBaseSrc: flushing
  delivered,    \* n_buffers_delivered_
  downstream,   \* buffers in the pipeline
  pushed,       \* ghost: buffers pushed since READY if they are limited
  eos,          \* create returned GST_FLOW_EOS
  lost          \* progress of the device-lost notification

stateVars == <<gstState, change>>
poolVars == <<queue, sink, pool>>
deviceVars == <<deviceOn, backend>>
captureVars == <<capture, capBuf>>
taskVars == <<task, taskBuf>>
baseVars == <<live, flushing>>
countVars == <<delivered, pushed, eos>>
vars == <<stateVars, isStreaming, poolVars, deviceVars, captureVars, taskVars,
          baseVars, countVars, downstream, lost>>

TypeOK ==
  /\ gstState \in {"NULL", "READY", "PAUSED", "PLAYING"}
  /\ change \in {"none", "play", "pause", "paused", "flush", "stoptask",
                 "stopdevice", "delete"}
  /\ isStreaming \in BOOLEAN /\ sink \in BOOLEAN /\ deviceOn \in BOOLEAN
  /\ queue \in Seq(Buffers \cup {Dangling})
  /\ pool \in {"none", "active", "stopped"}
  /\ backend \subseteq Buffers \cup {Dangling}
  /\ capture \in {"idle", "callback", "lock"}
  /\ capBuf \in Buffers \cup {NoBuffer, Dangling}
  /\ task \in {"off", "setcaps", "allocate", "loop", "create", "acquire", "checked",
               "waiting", "push", "paused"}
  /\ taskBuf \in Buffers \cup {NoBuffer, Dangling}
  /\ task = "push" => taskBuf # NoBuffer
  /\ live \in BOOLEAN /\ flushing \in BOOLEAN /\ eos \in BOOLEAN
  /\ delivered \in 0..(NumBuffers + 1) /\ pushed \in 0..(NumBuffers + 1)
  /\ downstream \subseteq Buffers \cup {Dangling}
  /\ lost \in {"no", "gone", "ignored", "reported", "cleared"}

Init ==
  /\ gstState = "NULL" /\ change = "none"
  /\ isStreaming = FALSE
  /\ queue = <<>> /\ sink = FALSE /\ pool = "none"
  /\ deviceOn = FALSE /\ backend = {}
  /\ capture = "idle" /\ capBuf = NoBuffer
  /\ task = "off" /\ taskBuf = NoBuffer
  /\ live = FALSE /\ flushing = TRUE
  /\ delivered = 0 /\ pushed = 0 /\ eos = FALSE
  /\ downstream = {}
  /\ lost = "no"

(* The streaming thread is in create, with the live lock of GstBaseSrc.    *)
InCreate == task \in {"create", "acquire", "checked", "waiting"}

(* stream_mtx_ is held across steps only between the test of acquire_buffer *)
(* and its wait.                                                            *)
MutexFree == task # "checked"

(* stream_cv_.notify_all: a waiting acquire_buffer runs its loop again.     *)
WakeTask == task' = IF task = "waiting" THEN "acquire" ELSE task

(* stop_stream of the device: the capture thread is joined, so it is not    *)
(* inside the callback.                                                     *)
DeviceStopped == capture = "idle"

(* What the device has after stop_and_clear: the buffers in the queue go    *)
(* back through the sink; the device may know them no more and ignore them. *)
BackendAfterClear ==
  {backend} \cup (IF sink THEN {backend \cup Range(queue)} ELSE {})

-----------------------------------------------------------------------------
(* The state-changing thread.                                              *)

(* NULL to READY opens the camera; when that fails the state stays.         *)
NullToReady ==
  /\ change = "none" /\ gstState = "NULL"
  /\ gstState' = "READY"
  /\ UNCHANGED <<change, isStreaming, poolVars, deviceVars, captureVars,
                 taskVars, baseVars, countVars, downstream, lost>>

(* READY to PAUSED: GstBaseSrc activates the pad and starts its task.       *)
ReadyToPaused ==
  /\ change = "none" /\ gstState = "READY"
  /\ gstState' = "PAUSED"
  /\ delivered' = 0 /\ pushed' = 0 /\ eos' = FALSE
  /\ flushing' = FALSE
  /\ task' = "setcaps"
  /\ UNCHANGED <<change, isStreaming, poolVars, deviceVars, captureVars,
                 taskBuf, live, downstream, lost>>

(* PAUSED to PLAYING, before and in the parent's change_state, which starts *)
(* a paused task again.                                                     *)
PausedToPlaying ==
  /\ change = "none" /\ gstState = "PAUSED"
  /\ isStreaming' = TRUE
  /\ WakeTask
  /\ change' = "play"
  /\ UNCHANGED <<gstState, poolVars, deviceVars, captureVars, taskBuf,
                 baseVars, countVars, downstream, lost>>

Play ==
  /\ change = "play" /\ ~InCreate
  /\ live' = TRUE
  /\ task' = IF task = "paused" THEN "loop" ELSE task
  /\ gstState' = "PLAYING"
  /\ change' = "none"
  /\ UNCHANGED <<isStreaming, poolVars, deviceVars, captureVars, taskBuf,
                 flushing, countVars, downstream, lost>>

(* PLAYING to PAUSED: the parent's change_state comes first.                *)
PlayingToPaused ==
  /\ change = "none" /\ gstState = "PLAYING"
  /\ change' = "pause"
  /\ UNCHANGED <<gstState, isStreaming, poolVars, deviceVars, captureVars,
                 taskVars, baseVars, countVars, downstream, lost>>

Pause ==
  /\ change = "pause" /\ ~InCreate
  /\ live' = FALSE
  /\ change' = "paused"
  /\ UNCHANGED <<gstState, isStreaming, poolVars, deviceVars, captureVars,
                 taskVars, flushing, countVars, downstream, lost>>

ClearStreaming ==
  /\ change = "paused"
  /\ isStreaming' = FALSE
  /\ WakeTask
  /\ gstState' = "PAUSED"
  /\ change' = "none"
  /\ UNCHANGED <<poolVars, deviceVars, captureVars, taskBuf, baseVars,
                 countVars, downstream, lost>>

(* PAUSED to READY.  The parent deactivates the pad: it sets the flushing   *)
(* flag under the live lock, ...                                            *)
PausedToReady ==
  /\ change = "none" /\ gstState = "PAUSED"
  /\ change' = "flush"
  /\ UNCHANGED <<gstState, isStreaming, poolVars, deviceVars, captureVars,
                 taskVars, baseVars, countVars, downstream, lost>>

Flush ==
  /\ change = "flush" /\ ~InCreate
  /\ flushing' = TRUE
  /\ change' = "stoptask"
  /\ UNCHANGED <<gstState, isStreaming, poolVars, deviceVars, captureVars,
                 taskVars, live, countVars, downstream, lost>>

(* ... waits for the streaming thread and deactivates the pool.  The        *)
(* elements downstream are in READY by now and have returned every buffer,  *)
(* so gst_tcam_buffer_pool_stop runs: it stops the device if is_streaming_. *)
StopTask ==
  /\ change = "stoptask" /\ task = "paused" /\ downstream = {}
  /\ isStreaming => DeviceStopped
  /\ deviceOn' = (deviceOn /\ ~isStreaming)
  /\ isStreaming' = (isStreaming /\ pool = "none")
  /\ pool' = IF pool = "active" THEN "stopped" ELSE pool
  /\ task' = "off"
  /\ change' = "stopdevice"
  /\ UNCHANGED <<gstState, queue, sink, backend, captureVars, taskBuf,
                 baseVars, countVars, downstream, lost>>

(* The element then stops the device in any case, ...                       *)
StopDevice ==
  /\ change = "stopdevice" /\ DeviceStopped
  /\ deviceOn' = FALSE
  /\ change' = "delete"
  /\ UNCHANGED <<gstState, isStreaming, poolVars, backend, captureVars,
                 taskVars, baseVars, countVars, downstream, lost>>

(* ... deletes the buffers of the pool and frees the stream.  What is left  *)
(* in the queue refers to deleted buffers.                                  *)
DeleteBuffers ==
  /\ change = "delete"
  /\ queue' = [i \in DOMAIN queue |-> Dangling]
  /\ backend' = {}
  /\ pool' = "none"
  /\ gstState' = "READY"
  /\ change' = "none"
  /\ UNCHANGED <<isStreaming, sink, deviceOn, captureVars, taskVars, baseVars,
                 countVars, downstream, lost>>

(* READY to NULL: close() stops the device, returns what is in the queue    *)
(* and forgets device and sink.  A device-lost callback under way goes on.  *)
ReadyToNull ==
  /\ change = "none" /\ gstState = "READY"
  /\ DeviceStopped
  /\ gstState' = "NULL"
  /\ deviceOn' = FALSE /\ queue' = <<>> /\ sink' = FALSE
  /\ backend' = {}
  /\ lost' = IF lost \in {"ignored", "cleared"} THEN "no" ELSE lost
  /\ UNCHANGED <<change, isStreaming, pool, captureVars, taskVars, baseVars,
                 countVars, downstream>>

ChangeState ==
  Play \/ Pause \/ ClearStreaming \/ Flush \/ StopTask \/ StopDevice
    \/ DeleteBuffers

-----------------------------------------------------------------------------
(* The streaming thread.                                                   *)

(* Whether negotiation goes on: not when the device refuses the format; on  *)
(* a pad that is being deactivated it may fail.                             *)
AfterSetCaps ==
  {"allocate"} \cup (IF "caps" \in Faults \/ change \in {"flush", "stoptask"}
                      THEN {"paused"} ELSE {})

(* Mutant: set_caps does not empty the queue.                               *)
SetCapsKeepQueue ==
  /\ task = "setcaps"
  /\ sink' = FALSE
  /\ task' \in AfterSetCaps
  /\ UNCHANGED <<stateVars, isStreaming, queue, pool, deviceVars, captureVars,
                 taskBuf, baseVars, countVars, downstream, lost>>

(* set_caps: stop_and_clear empties the queue, and the sink is dropped.     *)
SetCaps ==
  /\ task = "setcaps"
  /\ isStreaming => DeviceStopped
  /\ deviceOn' = (deviceOn /\ ~isStreaming)
  /\ backend' \in BackendAfterClear
  /\ queue' = <<>> /\ sink' = FALSE
  /\ task' \in AfterSetCaps
  /\ UNCHANGED <<stateVars, isStreaming, pool, captureVars, taskBuf, baseVars,
                 countVars, downstream, lost>>

(* gst_tcam_buffer_pool_start configures and starts the device; a device    *)
(* that does not start is not noticed.  When the buffers are not to be had  *)
(* it returns before there is a sink: a pool that is not activated is as    *)
(* good as none, and the negotiation fails.                                 *)
PoolStart ==
  \/ /\ pool' = "active" /\ sink' = TRUE
     /\ backend' = Buffers
     /\ deviceOn' \in {TRUE} \cup (IF "start" \in Faults THEN {FALSE} ELSE {})
     /\ task' = "loop"
  \/ /\ "pool" \in Faults
     /\ task' = "paused"
     /\ UNCHANGED <<sink, pool, deviceVars>>

(* decide_allocation makes a new pool and activates it.                     *)
DecideAllocation ==
  /\ task = "allocate"
  /\ isStreaming' = TRUE
  /\ PoolStart
  /\ UNCHANGED <<stateVars, queue, captureVars, taskBuf, baseVars, countVars,
                 downstream, lost>>

(* A pass of GstBaseSrc's loop; a live source waits for PLAYING.            *)
Loop ==
  /\ task = "loop"
  /\ \/ flushing /\ task' = "paused"
     \/ ~flushing /\ pool = "none" /\ task' = "setcaps"
     \/ ~flushing /\ pool # "none" /\ live /\ task' = "create"
  /\ UNCHANGED <<stateVars, isStreaming, poolVars, deviceVars, captureVars,
                 taskBuf, baseVars, countVars, downstream, lost>>

(* create: count the buffer, or end the stream.                             *)
Create ==
  /\ task = "create"
  /\ \/ /\ NumBuffers # -1 /\ delivered >= NumBuffers
        /\ eos' = TRUE
        /\ task' = "paused"
        /\ UNCHANGED delivered
     \/ /\ NumBuffers = -1 \/ delivered < NumBuffers
        /\ delivered' = IF NumBuffers = -1 THEN 0 ELSE delivered + 1
        /\ task' = "acquire"
        /\ UNCHANGED eos
  /\ UNCHANGED <<stateVars, isStreaming, poolVars, deviceVars, captureVars,
                 taskBuf, baseVars, pushed, downstream, lost>>

(* acquire_buffer: the queue and the flag are tested under stream_mtx_, but *)
(* the flag is written without it.                                          *)
Acquire ==
  /\ task = "acquire"
  /\ \/ /\ isStreaming /\ queue = <<>>
        /\ task' = "checked"
        /\ UNCHANGED <<queue, taskBuf>>
     \/ /\ ~isStreaming
        /\ task' = "paused"
        /\ UNCHANGED <<queue, taskBuf>>
     \/ /\ isStreaming /\ queue # <<>>
        /\ taskBuf' = Head(queue)
        /\ queue' = Tail(queue)
        /\ task' = "push"
  /\ UNCHANGED <<stateVars, isStreaming, sink, pool, deviceVars, captureVars,
                 baseVars, countVars, downstream, lost>>

Wait ==
  /\ task = "checked"
  /\ task' = "waiting"
  /\ UNCHANGED <<stateVars, isStreaming, poolVars, deviceVars, captureVars,
                 taskBuf, baseVars, countVars, downstream, lost>>

(* GstBaseSrc pushes the buffer.                                            *)
Push ==
  /\ task = "push"
  /\ downstream' = downstream \cup {taskBuf}
  /\ taskBuf' = NoBuffer
  /\ pushed' = IF NumBuffers = -1 THEN 0 ELSE pushed + 1
  /\ task' = "loop"
  /\ UNCHANGED <<stateVars, isStreaming, poolVars, deviceVars, captureVars,
                 baseVars, delivered, eos, lost>>

StreamingThread ==
  SetCaps \/ DecideAllocation \/ Loop \/ Create \/ Acquire \/ Wait \/ Push

-----------------------------------------------------------------------------
(* The capture thread.                                                     *)

(* The device has filled a buffer and calls the sink.                       *)
Image ==
  /\ deviceOn /\ capture = "idle"
  /\ \E b \in backend :
       /\ capBuf' = b
       /\ backend' = backend \ {b}
  /\ capture' = "callback"
  /\ UNCHANGED <<stateVars, isStreaming, poolVars, deviceOn, taskVars,
                 baseVars, countVars, downstream, lost>>

(* sh_callback: an element that does not stream gives the buffer back.      *)
Callback ==
  /\ capture = "callback"
  /\ \/ /\ ~isStreaming
        /\ backend' = backend \cup {capBuf}
        /\ capBuf' = NoBuffer
        /\ capture' = "idle"
     \/ /\ isStreaming
        /\ capture' = "lock"
        /\ UNCHANGED <<backend, capBuf>>
  /\ UNCHANGED <<stateVars, isStreaming, poolVars, deviceOn, taskVars,
                 baseVars, countVars, downstream, lost>>

(* Mutant: the queue is filled without a notification.                      *)
CallbackWithoutNotify ==
  /\ capture = "lock" /\ MutexFree
  /\ queue' = Append(queue, capBuf)
  /\ capBuf' = NoBuffer
  /\ capture' = "idle"
  /\ UNCHANGED <<stateVars, isStreaming, sink, pool, deviceVars, taskVars,
                 baseVars, countVars, downstream, lost>>

CallbackPush ==
  /\ capture = "lock" /\ MutexFree
  /\ queue' = Append(queue, capBuf)
  /\ capBuf' = NoBuffer
  /\ capture' = "idle"
  /\ WakeTask
  /\ UNCHANGED <<stateVars, isStreaming, sink, pool, deviceVars, taskBuf,
                 baseVars, countVars, downstream, lost>>

-----------------------------------------------------------------------------
(* release_buffer: downstream drops its last reference to a buffer.         *)
Release(b) ==
  /\ b \in downstream /\ MutexFree
  /\ downstream' = downstream \ {b}
  /\ backend' = IF sink THEN backend \cup {b} ELSE backend
  /\ UNCHANGED <<stateVars, isStreaming, poolVars, deviceOn, captureVars,
                 taskVars, baseVars, countVars, lost>>

-----------------------------------------------------------------------------
(* The device disappears: no more images, and device_lost_callback runs in  *)
(* a thread of the backend or of the device index.                          *)
LoseDevice ==
  /\ "lost" \in Faults /\ deviceOn /\ lost = "no"
  /\ deviceOn' = FALSE
  /\ lost' = "gone"
  /\ UNCHANGED <<stateVars, isStreaming, poolVars, backend, captureVars,
                 taskVars, baseVars, countVars, downstream>>

(* The error is posted unless the element is in NULL or not streaming.      *)
ReportLost ==
  /\ lost = "gone"
  /\ lost' = IF isStreaming /\ gstState # "NULL" THEN "reported"
                                                ELSE "ignored"
  /\ UNCHANGED <<stateVars, isStreaming, poolVars, deviceVars, captureVars,
                 taskVars, baseVars, countVars, downstream>>

ClearLost ==
  /\ lost = "reported"
  /\ isStreaming' = FALSE
  /\ lost' = "cleared"
  /\ UNCHANGED <<stateVars, poolVars, deviceVars, captureVars, taskVars,
                 baseVars, countVars, downstream>>

Next ==
  \/ NullToReady \/ ReadyToPaused \/ PausedToPlaying \/ PlayingToPaused
  \/ PausedToReady \/ ReadyToNull \/ ChangeState
  \/ StreamingThread
  \/ Image \/ Callback \/ CallbackPush
  \/ \E b \in Buffers \cup {Dangling} : Release(b)
  \/ LoseDevice \/ ReportLost \/ ClearLost

(* Threads that can run do run; the live lock is free whenever a buffer is  *)
(* being pushed, and the thread waiting for it gets it eventually.          *)
Fairness ==
  /\ WF_vars(StreamingThread)
  /\ WF_vars(Callback \/ CallbackPush)
  /\ SF_vars(ChangeState)
  /\ WF_vars(ReportLost \/ ClearLost)
  /\ \A b \in Buffers : SF_vars(Release(b))

Spec == Init /\ [][Next]_vars /\ Fairness

(* The camera is free-running: it keeps filling the buffers it has.         *)
FlowingSpec == Spec /\ SF_vars(Image)

-----------------------------------------------------------------------------
(* No buffer of an active pool is lost or in two places: the device can     *)
(* fill it, or it is on its way to the queue, in the queue, in create or    *)
(* downstream (sh_callback, acquire_buffer, release_buffer).                *)
BuffersAccounted ==
  pool = "active" =>
    /\ Buffers = backend \cup Range(queue) \cup downstream
                    \cup ({capBuf, taskBuf} \ {NoBuffer})
    /\ IsInjective(queue)
    /\ backend \cap (Range(queue) \cup downstream) = {}
    /\ Range(queue) \cap downstream = {}
    /\ {capBuf, taskBuf} \cap (backend \cup Range(queue) \cup downstream) = {}
    /\ capBuf = taskBuf => capBuf = NoBuffer

(* A buffer of a deleted pool never leaves the queue to the pipeline, even  *)
(* though PAUSED to READY leaves such buffers in it.                        *)
NoDanglingAcquired == taskBuf # Dangling /\ Dangling \notin downstream

(* The device does not stream when the pool's buffers are deleted.          *)
NoStreamWithoutPool == deviceOn => pool # "none" /\ gstState # "NULL"

(* num-buffers: unless the device gets lost the stream ends after exactly   *)
(* that many buffers (n_buffers_delivered_ in create counts before it has   *)
(* the buffer).                                                             *)
EosAfterNumBuffers ==
  eos /\ lost = "no" /\ gstState \in {"PAUSED", "PLAYING"} => pushed = NumBuffers

(* What the buffer pool of tcammainsrc owes the pipeline.                   *)
PoolHolds ==
  TypeOK /\ BuffersAccounted /\ NoDanglingAcquired /\ NoStreamWithoutPool
    /\ EosAfterNumBuffers

(* A state change that begins while the device streams is completed, unless *)
(* the device gets lost.                                                    *)
FlowingChangeReturns ==
  (change # "none" /\ deviceOn /\ lost = "no") ~> (change = "none" \/ lost # "no")

(* A playing element whose device streams goes on pushing images, until it  *)
(* ends the stream, its state changes or a device is lost.                  *)
PlayingDelivers ==
  (gstState = "PLAYING" /\ change = "none" /\ deviceOn /\ lost = "no")
    ~> (task = "push" \/ eos \/ change # "none" \/ lost # "no")

(* While the camera sends images neither a state change nor the stream      *)
(* stalls.                                                                  *)
StreamLives == FlowingChangeReturns /\ PlayingDelivers

=============================================================================
