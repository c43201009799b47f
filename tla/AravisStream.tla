---------------------------- MODULE AravisStream ----------------------------
(***************************************************************************)
(* Streaming with an Aravis camera (src/aravis/AravisDeviceStream.cpp).    *)
(* The stream object of the library runs a thread that fills the buffers   *)
(* pushed to it and calls aravis_new_buffer_callback; other threads return *)
(* buffers with requeue_buffer, and the control thread configures, starts, *)
(* stops and frees the stream.                                             *)
(*                                                                         *)
(* Two locks matter: arv_camera_access_mutex_, and the one inside the      *)
(* stream that is held while the signal is emitted and taken by            *)
(* arv_stream_set_emit_signals (external).  buffer_list_mtx_ is never held *)
(* across a step of the model.                                             *)
(***************************************************************************)
EXTENDS Naturals, FiniteSets

CONSTANTS
  Buffers,       \* every ImageBuffer
  Pools,         \* the sets of buffers a BufferPool may have allocated
  NoBuffer,
  CallbackWork,  \* what a callback does under arv_camera_access_mutex_:
                 \* "requeue" the image, set a "property"
  Faults         \* "start" and "stop" of the acquisition may fail

ASSUME PoolsAssumption ==
  /\ NoBuffer \notin Buffers
  /\ Pools \subseteq SUBSET Buffers
  /\ CallbackWork \subseteq {"requeue", "property"}
  /\ Faults \subseteq {"start", "stop"}

VARIABLES
  list,        \* buffer_list_: the buffers with an ArvBuffer
  stream,      \* stream_ is set
  emit,        \* emit_signals of the stream
  acquiring,   \* the camera sends images
  inStream,    \* buffers whose ArvBuffer the stream owns
  callback,    \* program point of the stream's thread in the callback
  cbBuf,       \* the buffer of that callback
  held,        \* buffers delivered and not yet returned
  access,      \* owner of arv_camera_access_mutex_
  control,     \* program point of stop_stream
  stopFailed,  \* arv_camera_stop_acquisition has failed once
  freedTwice   \* an ArvBuffer of the stream was released behind its back

streamVars == <<stream, emit, acquiring, inStream>>
callbackVars == <<callback, cbBuf>>
controlVars == <<access, control>>
historyVars == <<stopFailed, freedTwice>>
vars == <<list, streamVars, callbackVars, held, controlVars, historyVars>>

TypeOK ==
  /\ list \subseteq Buffers /\ inStream \subseteq Buffers
  /\ held \subseteq Buffers
  /\ stream \in BOOLEAN /\ emit \in BOOLEAN /\ acquiring \in BOOLEAN
  /\ callback \in {"none", "complete", "property", "deliver", "requeue"}
  /\ cbBuf \in Buffers \cup {NoBuffer}
  /\ (callback = "none") = (cbBuf = NoBuffer)
  /\ access \in {"free", "control"}
  /\ control \in {"idle", "stop", "emit", "acquisition", "unref"}
  /\ stopFailed \in BOOLEAN /\ freedTwice \in BOOLEAN

Init ==
  /\ list = {} /\ inStream = {} /\ held = {}
  /\ stream = FALSE /\ emit = FALSE /\ acquiring = FALSE
  /\ callback = "none" /\ cbBuf = NoBuffer
  /\ access = "free" /\ control = "idle"
  /\ stopFailed = FALSE /\ freedTwice = FALSE

(* The signal is emitted with the lock of the stream.                       *)
EmitLockFree == callback = "none"

Idle == control = "idle" /\ access = "free"

-----------------------------------------------------------------------------
(* The control thread.                                                     *)

(* initialize_buffers.  A new pool has none of the buffers still held.      *)
Initialize ==
  /\ Idle /\ ~acquiring
  /\ \E pool \in Pools : pool \cap (held \cup inStream) = {} /\ list' = pool
  /\ UNCHANGED <<streamVars, callbackVars, held, controlVars, historyVars>>

(* start_stream: the stream takes every buffer, then the camera starts.     *)
StartStream ==
  /\ Idle /\ ~stream /\ Cardinality(list) >= 2
  /\ stream' = TRUE /\ emit' = TRUE /\ acquiring' = TRUE
  /\ inStream' = list
  /\ UNCHANGED <<list, callbackVars, held, controlVars, historyVars>>

(* It returns false: an old stream is there, the stream could not be made   *)
(* or the camera refused a command.  CaptureDeviceImpl then stops.          *)
StartFails ==
  /\ "start" \in Faults /\ Idle /\ ~acquiring
  /\ \/ UNCHANGED streamVars
     \/ /\ ~stream /\ Cardinality(list) >= 2
        /\ stream' = TRUE /\ emit' = TRUE
        /\ inStream' = list
        /\ UNCHANGED acquiring
  /\ control' = "stop"
  /\ UNCHANGED <<list, callbackVars, held, access, historyVars>>

StopCalled ==
  /\ control = "idle" /\ stream
  /\ control' = "stop"
  /\ UNCHANGED <<list, streamVars, callbackVars, held, access, historyVars>>

(* stop_stream takes the mutex and keeps it to its end.                     *)
LockStop ==
  /\ control = "stop" /\ access = "free"
  /\ access' = "control"
  /\ control' = "emit"
  /\ UNCHANGED <<list, streamVars, callbackVars, held, historyVars>>

DisableSignals ==
  /\ control = "emit" /\ (stream => EmitLockFree)
  /\ emit' = FALSE
  /\ control' = "acquisition"
  /\ UNCHANGED <<list, stream, acquiring, inStream, callbackVars, held, access,
                 historyVars>>

(* Mutant: a failure leaves the mutex locked.                               *)
StopAcquisitionKeepLock ==
  /\ control = "acquisition"
  /\ acquiring' = FALSE
  /\ \/ control' = "unref" /\ UNCHANGED <<access, stopFailed>>
     \/ /\ "stop" \in Faults /\ stopFailed' = TRUE
        /\ control' = "idle" /\ UNCHANGED access
  /\ UNCHANGED <<list, stream, emit, inStream, callbackVars, held, freedTwice>>

(* When the camera does not answer stop_stream returns here.                *)
StopAcquisition ==
  /\ control = "acquisition"
  /\ acquiring' = FALSE
  /\ \/ control' = "unref" /\ UNCHANGED <<access, stopFailed>>
     \/ /\ "stop" \in Faults /\ stopFailed' = TRUE
        /\ control' = "idle" /\ access' = "free"
  /\ UNCHANGED <<list, stream, emit, inStream, callbackVars, held, freedTwice>>

(* Mutant: the buffers of the stream stay in the list.                      *)
UnrefKeepList ==
  /\ control = "unref" /\ callback = "none"
  /\ stream' = FALSE
  /\ inStream' = {}
  /\ control' = "idle" /\ access' = "free"
  /\ UNCHANGED <<list, emit, acquiring, callbackVars, held, historyVars>>

(* The stream ends its thread and frees the buffers it owns; release_buffers *)
(* frees the others and clears the list.                                     *)
UnrefStream ==
  /\ control = "unref" /\ callback = "none"
  /\ stream' = FALSE
  /\ inStream' = {}
  /\ list' = {}
  /\ control' = "idle" /\ access' = "free"
  /\ UNCHANGED <<emit, acquiring, callbackVars, held, historyVars>>

(* free_stream, after stop_stream: release_buffers frees every ArvBuffer    *)
(* that is still in the list.                                               *)
Free ==
  /\ Idle /\ ~acquiring
  /\ freedTwice' = (freedTwice \/ list \cap inStream # {})
  /\ list' = {}
  /\ UNCHANGED <<streamVars, callbackVars, held, controlVars, stopFailed>>

StopStream == LockStop \/ DisableSignals \/ StopAcquisition \/ UnrefStream

-----------------------------------------------------------------------------
(* aravis_new_buffer_callback in the thread of the stream.                 *)

Image ==
  /\ stream /\ emit /\ acquiring /\ EmitLockFree
  /\ \E b \in inStream :
       /\ cbBuf' = b
       /\ inStream' = inStream \ {b}
  /\ callback' = "complete"
  /\ UNCHANGED <<list, stream, emit, acquiring, held, controlVars, historyVars>>

(* A damaged image goes back to the stream; a complete one passes the       *)
(* software properties on its way to the sink.                              *)
Complete ==
  /\ callback = "complete"
  /\ \/ /\ inStream' = inStream \cup {cbBuf}
        /\ callback' = "none" /\ cbBuf' = NoBuffer
     \/ /\ callback' \in {"deliver"} \cup (CallbackWork \cap {"property"})
        /\ UNCHANGED <<inStream, cbBuf>>
  /\ UNCHANGED <<list, stream, emit, acquiring, held, controlVars, historyVars>>

(* The automatic exposure writes a property of the camera.                  *)
SetProperty ==
  /\ callback = "property" /\ access = "free"
  /\ callback' = "deliver"
  /\ UNCHANGED <<list, streamVars, cbBuf, held, controlVars, historyVars>>

(* Mutant: the image is delivered and given back to the stream.             *)
DeliverAndPush ==
  /\ callback = "deliver"
  /\ held' = held \cup {cbBuf}
  /\ inStream' = inStream \cup {cbBuf}
  /\ callback' = "none" /\ cbBuf' = NoBuffer
  /\ UNCHANGED <<list, stream, emit, acquiring, controlVars, historyVars>>

(* push_image: the sink keeps the image, or returns it because the element  *)
(* is not playing.  Without a sink it is requeued too.                      *)
Deliver ==
  /\ callback = "deliver"
  /\ \/ /\ held' = held \cup {cbBuf}
        /\ callback' = "none" /\ cbBuf' = NoBuffer
     \/ /\ "requeue" \in CallbackWork
        /\ callback' = "requeue"
        /\ UNCHANGED <<held, cbBuf>>
  /\ UNCHANGED <<list, streamVars, controlVars, historyVars>>

RequeueInCallback ==
  /\ callback = "requeue" /\ access = "free"
  /\ inStream' = inStream \cup ({cbBuf} \cap list)
  /\ callback' = "none" /\ cbBuf' = NoBuffer
  /\ UNCHANGED <<list, stream, emit, acquiring, held, controlVars, historyVars>>

StreamThread == Complete \/ SetProperty \/ Deliver \/ RequeueInCallback

(* requeue_buffer by the owner of the sink: a buffer that is no longer in   *)
(* the list is dropped.                                                     *)
RequeueBuffer(b) ==
  /\ b \in held /\ access = "free"
  /\ held' = held \ {b}
  /\ inStream' = inStream \cup ({b} \cap list)
  /\ UNCHANGED <<list, stream, emit, acquiring, callbackVars, controlVars,
                 historyVars>>

-----------------------------------------------------------------------------
Next ==
  \/ Initialize \/ StartStream \/ StartFails \/ StopCalled \/ StopStream \/ Free
  \/ Image \/ StreamThread
  \/ \E b \in Buffers : RequeueBuffer(b)

(* Threads that are not blocked run on.  The mutex is free or held by       *)
(* stop_stream, so waiting for it is waiting for stop_stream to finish.     *)
Fairness == SF_vars(StopStream) /\ WF_vars(StreamThread)

Spec == Init /\ [][Next]_vars /\ Fairness

-----------------------------------------------------------------------------
(* requeue_buffer pushes to a stream that exists, and the list never names  *)
(* an ArvBuffer that was freed with the stream (stop_stream clears it).     *)
PushedToStream == inStream # {} => stream

(* The buffers the backend works on.                                        *)
deviceBuffers == inStream \cup ({cbBuf} \cap Buffers)

Loop == INSTANCE BufferLoop WITH device <- deviceBuffers, sink <- held

(* The Aravis backend implements BufferLoop.                                *)
ImplementsBufferLoop == Loop!Spec

(* No image is delivered once stop_stream has switched the signals off:     *)
(* the callback is not running when the stream is destroyed.                *)
NoCallbackAfterDisable ==
  control \in {"acquisition", "unref"} => callback = "none"

(* stop_stream returns, unless a callback waits for the mutex it holds.     *)
StopReturnsOrBlocks ==
  control # "idle" ~> (control = "idle" \/ callback \in {"property", "requeue"})

(* stop_stream returns ("stop stream guards against this by killing all     *)
(* callbacks before removing the stream variable").                         *)
StopReturns == control # "idle" ~> control = "idle"

(* "these get partially freed by the arv_stream, partially here": no        *)
(* ArvBuffer is freed by release_buffers while the stream owns it, unless   *)
(* stop_stream gave up because the camera did not answer.                   *)
FreedByOne == freedTwice => stopFailed

(* What keeps the buffers of an Aravis stream valid.                        *)
StreamIsSafe == TypeOK /\ PushedToStream /\ NoCallbackAfterDisable /\ FreedByOne

=============================================================================
