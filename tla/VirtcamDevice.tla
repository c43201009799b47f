--------------------------- MODULE VirtcamDevice ----------------------------
(***************************************************************************)
(* The virtual camera backend (src/virtcam/virtcam_device.cpp) as it runs  *)
(* behind CaptureDeviceImpl and an ImageSink.  Three kinds of threads take *)
(* steps: the control thread (configure, start, stop, free), the stream    *)
(* thread, and the owner of the sink, which returns buffers and sets the   *)
(* trigger properties at any time.                                         *)
(*                                                                         *)
(* stream_thread_mutex_ is held by the stream thread exactly in the        *)
(* program points InMutex.                                                 *)
(***************************************************************************)
EXTENDS Naturals, Sequences, Functions

CONSTANTS Buffers,     \* every ImageBuffer
          Pools,       \* the buffer lists a BufferPool may have allocated
          NoBuffer     \* an empty shared_ptr

ASSUME PoolsAssumption ==
  Pools \subseteq {p \in Seq(Buffers) : IsInjective(p)}

ASSUME NoBufferAssumption == NoBuffer \notin Buffers

VARIABLES
  bufferQueue,    \* buffer_queue_: buffers the stream thread may fill
  streamThread,   \* program point of stream_thread_main; "none": not joinable
  sendImage,      \* local send_image
  buf,            \* local buf
  threadEnded,    \* stream_thread_ended_
  triggerMode,    \* trigger_mode_
  triggerNext,    \* trigger_next_image_
  control,        \* "idle", or the call waiting in stream_thread_.join()
  configured,     \* CaptureDeviceImpl::sink_ is set
  held            \* buffers the owner of the sink has not returned yet

threadVars == <<streamThread, sendImage, buf>>
triggerVars == <<triggerMode, triggerNext>>
vars == <<bufferQueue, threadVars, threadEnded, triggerVars, control,
          configured, held>>

ThreadPoints == {"none", "top", "wait", "check", "consume", "fetch", "push",
                 "returned"}
InMutex == {"check", "consume"}

TypeOK ==
  /\ bufferQueue \in Seq(Buffers)
  /\ streamThread \in ThreadPoints
  /\ sendImage \in BOOLEAN
  /\ buf \in Buffers \cup {NoBuffer}
  /\ threadEnded \in BOOLEAN
  /\ triggerMode \in BOOLEAN
  /\ triggerNext \in BOOLEAN
  /\ control \in {"idle", "stop", "start"}
  /\ configured \in BOOLEAN
  /\ held \subseteq Buffers

Init ==
  /\ bufferQueue = <<>>
  /\ streamThread = "none"
  /\ sendImage = FALSE
  /\ buf = NoBuffer
  /\ threadEnded = FALSE
  /\ triggerMode = FALSE
  /\ triggerNext = FALSE
  /\ control = "idle"
  /\ configured = FALSE
  /\ held = {}

-----------------------------------------------------------------------------
(* The control thread.                                                     *)

(* CaptureDeviceImpl::configure_stream: a freshly allocated pool becomes   *)
(* the whole queue.  mainsrc configures a stopped device only.             *)
Configure ==
  /\ control = "idle" /\ streamThread = "none"
  /\ \E pool \in Pools :
       /\ Range(pool) \cap held = {}
       /\ bufferQueue' = pool
  /\ configured' = TRUE
  /\ UNCHANGED <<threadVars, threadEnded, triggerVars, control, held>>

(* CaptureDeviceImpl::free_stream.                                         *)
Free ==
  /\ control = "idle" /\ streamThread = "none"
  /\ bufferQueue' = <<>>
  /\ configured' = FALSE
  /\ UNCHANGED <<threadVars, threadEnded, triggerVars, control, held>>

(* The thread is created.                                                  *)
LaunchThread ==
  /\ threadEnded' = FALSE
  /\ streamThread' = "top"

(* Mutant: stop_stream notifies the thread but leaves the flag alone.      *)
RequestEndWithoutFlag(call) ==
  /\ streamThread # "none" /\ streamThread \notin InMutex
  /\ control' = call
  /\ UNCHANGED <<threadVars, threadEnded>>

(* stop_stream with a joinable thread: set the flag under the mutex,       *)
(* notify, then wait in join() on behalf of call.                          *)
RequestEnd(call) ==
  /\ streamThread # "none" /\ streamThread \notin InMutex
  /\ threadEnded' = TRUE
  /\ control' = call
  /\ UNCHANGED threadVars

(* start_stream begins with stop_stream.                                   *)
StartStream ==
  /\ control = "idle" /\ configured
  /\ \/ /\ streamThread = "none"
        /\ LaunchThread
        /\ UNCHANGED <<sendImage, buf, control>>
     \/ RequestEnd("start")
  /\ UNCHANGED <<bufferQueue, triggerVars, configured, held>>

StopStream ==
  /\ control = "idle"
  /\ RequestEnd("stop")
  /\ UNCHANGED <<bufferQueue, triggerVars, configured, held>>

(* join() returns; a pending start_stream goes on.                         *)
Join ==
  /\ control # "idle" /\ streamThread = "returned"
  /\ control' = "idle"
  /\ \/ /\ control = "start"
        /\ LaunchThread
     \/ /\ control = "stop"
        /\ streamThread' = "none"
        /\ UNCHANGED threadEnded
  /\ UNCHANGED <<bufferQueue, sendImage, buf, triggerVars, configured, held>>

-----------------------------------------------------------------------------
(* stream_thread_main.                                                     *)

GoTo(point) == streamThread' = point

(* Lock the mutex; wait_until releases it again unless the end was asked.  *)
ThreadTop ==
  /\ streamThread = "top"
  /\ GoTo(IF threadEnded THEN "returned" ELSE "wait")
  /\ sendImage' = FALSE
  /\ UNCHANGED <<bufferQueue, buf, threadEnded, triggerVars, control,
                 configured, held>>

(* wait_until returns: by timeout, or notified (stop_stream, spuriously).  *)
ThreadWake ==
  /\ streamThread = "wait"
  /\ \E timeout \in BOOLEAN : sendImage' = timeout
  /\ GoTo("check")
  /\ UNCHANGED <<bufferQueue, buf, threadEnded, triggerVars, control,
                 configured, held>>

(* First test of the trigger flags: no trigger, no image.                  *)
ThreadCheckTrigger ==
  /\ streamThread = "check"
  /\ sendImage' = (sendImage /\ ~(triggerMode /\ ~triggerNext))
  /\ GoTo("consume")
  /\ UNCHANGED <<bufferQueue, buf, threadEnded, triggerVars, control,
                 configured, held>>

(* Second test of the same flags, and the end of the critical section.     *)
ThreadConsumeTrigger ==
  /\ streamThread = "consume"
  /\ triggerNext' = (triggerNext /\ ~triggerMode)
  /\ GoTo(CASE threadEnded -> "returned"
            [] ~threadEnded /\ sendImage -> "fetch"
            [] OTHER -> "top")
  /\ UNCHANGED <<bufferQueue, sendImage, buf, threadEnded, triggerMode,
                 control, configured, held>>

(* Mutant: fetch_free_buffer does not erase the buffer it returns.         *)
FetchWithoutErase ==
  /\ streamThread = "fetch" /\ bufferQueue # <<>>
  /\ buf' = Head(bufferQueue)
  /\ GoTo("push")
  /\ UNCHANGED <<bufferQueue, sendImage, threadEnded, triggerVars, control,
                 configured, held>>

(* fetch_free_buffer, under buffer_queue_mutex_; without a buffer the      *)
(* image is dropped.                                                       *)
FetchFreeBuffer ==
  /\ streamThread = "fetch"
  /\ \/ /\ bufferQueue = <<>>
        /\ GoTo("top")
        /\ UNCHANGED <<bufferQueue, buf>>
     \/ /\ bufferQueue # <<>>
        /\ buf' = Head(bufferQueue)
        /\ bufferQueue' = Tail(bufferQueue)
        /\ GoTo("push")
  /\ UNCHANGED <<sendImage, threadEnded, triggerVars, control, configured,
                 held>>

(* CaptureDeviceImpl::push_image, ImageSink::push_image and its callback.  *)
PushImage ==
  /\ streamThread = "push"
  /\ held' = held \cup {buf}
  /\ buf' = NoBuffer
  /\ GoTo("top")
  /\ UNCHANGED <<bufferQueue, sendImage, threadEnded, triggerVars, control,
                 configured>>

StreamThread ==
  ThreadTop \/ ThreadWake \/ ThreadCheckTrigger \/ ThreadConsumeTrigger
    \/ FetchFreeBuffer \/ PushImage

-----------------------------------------------------------------------------
(* The owner of the sink, any thread.                                      *)

(* Mutant: the callback requeues the buffer and its owner still uses it.   *)
RequeueAndKeep(b) ==
  /\ b \in held
  /\ bufferQueue' = Append(bufferQueue, b)
  /\ UNCHANGED <<threadVars, threadEnded, triggerVars, control, configured,
                 held>>

(* ImageSink::requeue_buffer and VirtcamDevice::requeue_buffer.            *)
RequeueBuffer(b) ==
  /\ b \in held
  /\ held' = held \ {b}
  /\ bufferQueue' = Append(bufferQueue, b)
  /\ UNCHANGED <<threadVars, threadEnded, triggerVars, control, configured>>

(* TriggerMode On / Off.                                                   *)
SetTriggerMode ==
  /\ \E mode \in BOOLEAN : triggerMode' = mode
  /\ UNCHANGED <<bufferQueue, threadVars, threadEnded, triggerNext, control,
                 configured, held>>

(* TriggerSoftware.  The lock that TriggerMode Off puts on the property is  *)
(* tested by the property wrapper of mainsrc before the call, not here.     *)
ExecuteTrigger ==
  /\ triggerNext' = TRUE
  /\ UNCHANGED <<bufferQueue, threadVars, threadEnded, triggerMode, control,
                 configured, held>>

Next ==
  \/ Configure \/ Free \/ StartStream \/ StopStream \/ Join
  \/ StreamThread
  \/ \E b \in Buffers : RequeueBuffer(b)
  \/ SetTriggerMode \/ ExecuteTrigger

(* The scheduler runs the stream thread and the joining thread; nothing is *)
(* assumed of the callers.                                                 *)
Fairness == WF_vars(StreamThread) /\ WF_vars(Join)

Spec == Init /\ [][Next]_vars /\ Fairness

-----------------------------------------------------------------------------
(* No buffer is in two places: the queue lists a buffer once, the buffer   *)
(* the thread is filling is neither queued nor with the sink, and a buffer *)
(* the sink holds is not queued (fetch_free_buffer, requeue_buffer).       *)
OwnedOnce ==
  /\ IsInjective(bufferQueue)
  /\ Range(bufferQueue) \cap held = {}
  /\ buf \notin Range(bufferQueue) \cup held
  /\ buf # NoBuffer <=> streamThread = "push"

(* The variables keep their types and every buffer has one owner.          *)
BuffersOwned == TypeOK /\ OwnedOnce

(* BufferLoop sees the buffer being filled as the device's.                *)
deviceBuffers == Range(bufferQueue) \cup ({buf} \cap Buffers)

Loop == INSTANCE BufferLoop WITH device <- deviceBuffers, sink <- held

(* The backend implements BufferLoop: an image is delivered only into a    *)
(* buffer the device owns.                                                 *)
ImplementsBufferLoop == Loop!Spec

(* stop_stream, and the stop_stream inside start_stream, return: a thread  *)
(* that waits for the next image or for a trigger sees the end flag.       *)
StopReturns == control # "idle" ~> control = "idle"

=============================================================================
