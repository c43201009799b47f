----------------------------- MODULE V4l2Stream -----------------------------
(***************************************************************************)
(* Streaming with a V4L2 device (src/v4l2/V4l2Device.cpp): the work thread *)
(* stream() takes filled buffers from the driver and delivers them, while  *)
(* other threads return buffers with requeue_buffer and the control thread *)
(* configures, starts, stops and frees the stream.  A buffer is known by   *)
(* its index in m_buffers; the driver (videobuf2) keeps a state per index. *)
(*                                                                         *)
(* No lock protects buffer_info::is_queued, so requeue_buffer is modelled  *)
(* by its three steps: test the flag, VIDIOC_QBUF, set the flag.           *)
(***************************************************************************)
EXTENDS Naturals, Sequences, Functions

CONSTANTS Buffers,     \* every ImageBuffer
          Pools,       \* the buffer lists a BufferPool may have allocated
          MaxIndex     \* length of the longest pool

ASSUME PoolsAssumption ==
  /\ MaxIndex \in Nat
  /\ Pools \subseteq {p \in Seq(Buffers) : IsInjective(p) /\ Len(p) <= MaxIndex}

Indices == 1..MaxIndex

VARIABLES
  slots,       \* m_buffers: the buffer of each index
  isQueued,    \* buffer_info::is_queued of each index
  driver,      \* external: "idle", "queued" or "done" per index
  driverOn,    \* external: between VIDIOC_STREAMON and VIDIOC_STREAMOFF
  isStreamOn,  \* m_is_stream_on
  thread,      \* program point of stream(); "none": not joinable
  index,       \* buf.index of the frame in get_frame
  control,     \* what the control thread is in the middle of
  fresh,       \* configure_stream was called and start_stream not yet
  listener,    \* m_listener can be locked
  held,        \* buffers delivered and not yet returned
  returning    \* for each buffer: where its requeue_buffer call is

driverVars == <<driver, driverOn>>
threadVars == <<thread, index>>
sinkVars == <<held, returning>>
controlVars == <<control, fresh, listener>>
vars == <<slots, isQueued, driverVars, isStreamOn, threadVars, controlVars,
          sinkVars>>

ThreadPoints == {"none", "select", "dequeue", "mark", "deliver", "requeue",
                 "qbuf", "set", "returned"}
InGetFrame == {"mark", "deliver", "requeue", "qbuf", "set"}

TypeOK ==
  /\ slots \in Seq(Buffers) /\ Len(slots) <= MaxIndex
  /\ isQueued \in [Indices -> BOOLEAN]
  /\ driver \in [Indices -> {"idle", "queued", "done"}]
  /\ driverOn \in BOOLEAN
  /\ isStreamOn \in BOOLEAN
  /\ thread \in ThreadPoints
  /\ index \in Indices \cup {0}
  /\ control \in {"idle", "streamoff", "join"}
  /\ fresh \in BOOLEAN
  /\ listener \in BOOLEAN
  /\ held \subseteq Buffers
  /\ returning \in [Buffers -> {"no", "qbuf", "set"}]

allIdle == [i \in Indices |-> "idle"]
noneQueued == [i \in Indices |-> FALSE]

Init ==
  /\ slots = <<>> /\ isQueued = noneQueued
  /\ driver = allIdle /\ driverOn = FALSE
  /\ isStreamOn = FALSE
  /\ thread = "none" /\ index = 0
  /\ control = "idle" /\ fresh = FALSE /\ listener = FALSE
  /\ held = {} /\ returning = [b \in Buffers |-> "no"]

-----------------------------------------------------------------------------
(* requeue_buffer, as every thread runs it for index i.                    *)

(* The buffer is in m_buffers and not marked as queued.                    *)
Requeueable(b, i) == i \in DOMAIN slots /\ slots[i] = b /\ ~isQueued[i]

(* queue_userptr, queue_mmap: the driver refuses an index it already has,  *)
(* and anything once the device is gone.                                   *)
Qbuf(i, ok) ==
  /\ ok => driver[i] = "idle"
  /\ driver' = IF ok THEN [driver EXCEPT ![i] = "queued"] ELSE driver

IndexOf(b) == CHOOSE i \in DOMAIN slots : slots[i] = b

(* Mutant: the buffer is queued again and its owner goes on using it.      *)
ReturnAndKeep(b) ==
  /\ b \in held /\ returning[b] = "no"
  /\ returning' = [returning EXCEPT
       ![b] = IF \E i \in Indices : Requeueable(b, i) THEN "qbuf" ELSE "no"]
  /\ UNCHANGED <<slots, isQueued, driverVars, isStreamOn, threadVars,
                 controlVars, held>>

(* The owner of the sink returns a buffer; one that is not requeueable is  *)
(* ignored.  The sink serialises the returns of one buffer.                *)
ReturnBuffer(b) ==
  /\ b \in held /\ returning[b] = "no"
  /\ held' = held \ {b}
  /\ returning' = [returning EXCEPT
       ![b] = IF \E i \in Indices : Requeueable(b, i) THEN "qbuf" ELSE "no"]
  /\ UNCHANGED <<slots, isQueued, driverVars, isStreamOn, threadVars,
                 controlVars>>

ReturnQueue(b) ==
  /\ returning[b] = "qbuf"
  /\ \E ok \in BOOLEAN :
       /\ Qbuf(IndexOf(b), ok)
       /\ returning' = [returning EXCEPT ![b] = IF ok THEN "set" ELSE "no"]
  /\ UNCHANGED <<slots, isQueued, driverOn, isStreamOn, threadVars,
                 controlVars, held>>

ReturnSet(b) ==
  /\ returning[b] = "set"
  /\ isQueued' = [isQueued EXCEPT ![IndexOf(b)] = TRUE]
  /\ returning' = [returning EXCEPT ![b] = "no"]
  /\ UNCHANGED <<slots, driverVars, isStreamOn, threadVars, controlVars, held>>

-----------------------------------------------------------------------------
(* The control thread.                                                     *)

(* configure_stream.  initialize_buffers rebuilds m_buffers without a lock, *)
(* so the model lets it run only when no requeue_buffer call walks over     *)
(* the old list.                                                            *)
Configure ==
  /\ control = "idle" /\ ~isStreamOn
  /\ \A b \in Buffers : returning[b] = "no"
  /\ \E pool \in Pools :
       /\ Range(pool) \cap held = {}
       /\ slots' = pool
  /\ isQueued' = noneQueued
  /\ fresh' = TRUE
  /\ UNCHANGED <<driverVars, isStreamOn, threadVars, control, listener,
                 sinkVars>>

(* init_userptr_buffers, init_mmap_buffers: the driver starts with an empty *)
(* list (VIDIOC_REQBUFS, in the allocator for mmap) and takes the indices Q *)
(* of those it is offered; with user pointers the first refusal is the last *)
(* offer.                                                                   *)
InitBuffers(Q) ==
  /\ driver' = [i \in Indices |-> IF i \in Q THEN "queued" ELSE "idle"]
  /\ isQueued' = [i \in Indices |-> i \in Q]

(* start_stream; the buffer pool calls it right after configure_stream.     *)
(* When VIDIOC_STREAMON fails the caller's stop_stream returns at once.     *)
StartStream ==
  /\ control = "idle" /\ ~isStreamOn /\ fresh
  /\ \E Q \in SUBSET DOMAIN slots : InitBuffers(Q)
  /\ \E ok \in BOOLEAN :
       /\ driverOn' = ok
       /\ isStreamOn' = ok
       /\ listener' = ok
       /\ thread' = IF ok THEN "select" ELSE thread
  /\ fresh' = FALSE
  /\ UNCHANGED <<slots, index, control, sinkVars>>

(* stop_stream up to VIDIOC_STREAMOFF: the driver writes no more and has no *)
(* buffer (nor has it when the device is gone and the call fails).  The     *)
(* destructor of the capture device stops the stream when its weak pointer  *)
(* has already expired.                                                     *)
StreamOff ==
  /\ control = "idle" /\ isStreamOn
  /\ driver' = allIdle /\ driverOn' = FALSE
  /\ listener' \in {listener, FALSE}
  /\ control' = "streamoff"
  /\ UNCHANGED <<slots, isQueued, isStreamOn, threadVars, fresh, sinkVars>>

(* Mutant: the flag is left set before the join.                            *)
KeepStreamOn ==
  /\ control = "streamoff"
  /\ control' = "join"
  /\ UNCHANGED <<slots, isQueued, driverVars, isStreamOn, threadVars, fresh,
                 listener, sinkVars>>

ClearStreamOn ==
  /\ control = "streamoff"
  /\ isStreamOn' = FALSE
  /\ control' = "join"
  /\ UNCHANGED <<slots, isQueued, driverVars, threadVars, fresh, listener,
                 sinkVars>>

Join ==
  /\ control = "join" /\ thread = "returned"
  /\ thread' = "none"
  /\ listener' = FALSE
  /\ control' = "idle"
  /\ UNCHANGED <<slots, isQueued, driverVars, isStreamOn, index, fresh,
                 sinkVars>>

(* free_stream: VIDIOC_REQBUFS with count 0.                                *)
Free ==
  /\ control = "idle" /\ ~isStreamOn
  /\ \A b \in Buffers : returning[b] = "no"
  /\ slots' = <<>>
  /\ fresh' = FALSE
  /\ driver' = allIdle
  /\ UNCHANGED <<isQueued, driverOn, isStreamOn, threadVars, control,
                 listener, sinkVars>>

-----------------------------------------------------------------------------
(* The driver fills a queued buffer.                                       *)
Fill(i) ==
  /\ driverOn /\ driver[i] = "queued"
  /\ driver' = [driver EXCEPT ![i] = "done"]
  /\ UNCHANGED <<slots, isQueued, driverOn, isStreamOn, threadVars,
                 controlVars, sinkVars>>

-----------------------------------------------------------------------------
(* stream() and get_frame.                                                 *)

GoTo(point) == thread' = point

(* select() returns: an event (a filled buffer, or an error condition once *)
(* the driver is off), a timeout or a signal, or it fails for good.  The   *)
(* flag is tested before anything else.                                    *)
SelectReturns ==
  /\ thread = "select"
  /\ \/ isStreamOn /\ (~driverOn \/ "done" \in Range(driver)) /\ GoTo("dequeue")
     \/ isStreamOn /\ GoTo("select")
     \/ GoTo("returned")
  /\ UNCHANGED <<slots, isQueued, driverVars, isStreamOn, index, controlVars,
                 sinkVars>>

(* VIDIOC_DQBUF.                                                           *)
Dequeue ==
  /\ thread = "dequeue"
  /\ \/ \E i \in Indices :
          /\ driver[i] = "done"
          /\ driver' = [driver EXCEPT ![i] = "idle"]
          /\ index' = i
          /\ GoTo("mark")
     \/ /\ "done" \notin Range(driver)
        /\ GoTo("select")
        /\ UNCHANGED <<driver, index>>
  /\ UNCHANGED <<slots, isQueued, driverOn, isStreamOn, controlVars, sinkVars>>

(* is_queued is cleared; a frame of the wrong size goes back to the driver. *)
MarkDequeued ==
  /\ thread = "mark"
  /\ isQueued' = [isQueued EXCEPT ![index] = FALSE]
  /\ GoTo("deliver") \/ GoTo("requeue")
  /\ UNCHANGED <<slots, driverVars, isStreamOn, index, controlVars, sinkVars>>

(* Mutant: a frame is delivered and queued again.                          *)
DeliverAndRequeue ==
  /\ thread = "deliver"
  /\ held' = held \cup {slots[index]}
  /\ GoTo("requeue")
  /\ UNCHANGED <<slots, isQueued, driverVars, isStreamOn, index, controlVars,
                 returning>>

(* push_image: the sink keeps the buffer, or its callback returns it at     *)
(* once because the element is not playing; without a listener the frame    *)
(* is dropped.                                                              *)
Deliver ==
  /\ thread = "deliver"
  /\ \/ /\ listener
        /\ held' = held \cup {slots[index]}
        /\ GoTo("select")
     \/ /\ listener
        /\ GoTo("requeue")
        /\ UNCHANGED held
     \/ /\ ~listener
        /\ GoTo("select")
        /\ UNCHANGED held
  /\ UNCHANGED <<slots, isQueued, driverVars, isStreamOn, index, controlVars,
                 returning>>

(* requeue_buffer run by the work thread.                                  *)
ThreadRequeue ==
  /\ thread = "requeue"
  /\ GoTo(IF Requeueable(slots[index], index) THEN "qbuf" ELSE "select")
  /\ UNCHANGED <<slots, isQueued, driverVars, isStreamOn, index, controlVars,
                 sinkVars>>

ThreadQueue ==
  /\ thread = "qbuf"
  /\ \E ok \in BOOLEAN : Qbuf(index, ok) /\ GoTo(IF ok THEN "set" ELSE "select")
  /\ UNCHANGED <<slots, isQueued, driverOn, isStreamOn, index, controlVars,
                 sinkVars>>

ThreadSet ==
  /\ thread = "set"
  /\ isQueued' = [isQueued EXCEPT ![index] = TRUE]
  /\ GoTo("select")
  /\ UNCHANGED <<slots, driverVars, isStreamOn, index, controlVars, sinkVars>>

WorkThread ==
  SelectReturns \/ Dequeue \/ MarkDequeued \/ Deliver \/ ThreadRequeue
    \/ ThreadQueue \/ ThreadSet

Next ==
  \/ Configure \/ StartStream \/ StreamOff \/ ClearStreamOn \/ Join \/ Free
  \/ WorkThread
  \/ \E b \in Buffers : ReturnBuffer(b) \/ ReturnQueue(b) \/ ReturnSet(b)
  \/ \E i \in Indices : Fill(i)

(* The scheduler runs the work thread (select returns after two seconds at *)
(* the latest) and a stop_stream call that has begun.                      *)
Fairness == WF_vars(WorkThread) /\ WF_vars(ClearStreamOn \/ Join)

Spec == Init /\ [][Next]_vars /\ Fairness

-----------------------------------------------------------------------------
(* The index of a frame in get_frame is one of m_buffers, so that          *)
(* m_buffers.at does not throw in the work thread; and the buffer there is *)
(* neither with the sink nor in the driver before it is requeued.          *)
FrameIsExclusive ==
  thread \in InGetFrame =>
    /\ index \in DOMAIN slots
    /\ slots[index] \notin held
    /\ thread # "set" => driver[index] = "idle"

(* The driver never writes into a buffer the sink reads.                   *)
DriverBuffersNotHeld ==
  driverOn => \A i \in Indices :
    driver[i] # "idle" => i \in DOMAIN slots /\ slots[i] \notin held

(* A buffer is in one place although is_queued is read and written without  *)
(* a lock.                                                                  *)
BuffersExclusive == TypeOK /\ FrameIsExclusive /\ DriverBuffersNotHeld

(* The buffers the backend works on: in the running driver, in get_frame,  *)
(* or about to be queued again.                                            *)
deviceBuffers ==
  {slots[i] : i \in {j \in DOMAIN slots :
                      \/ driverOn /\ driver[j] # "idle"
                      \/ thread \in InGetFrame /\ index = j
                      \/ returning[slots[j]] = "qbuf"}}

Loop == INSTANCE BufferLoop WITH device <- deviceBuffers, sink <- held

(* The V4L2 backend implements BufferLoop.                                 *)
ImplementsBufferLoop == Loop!Spec

(* stop_stream returns: the work thread sees m_is_stream_on cleared.       *)
StopReturns == control # "idle" ~> control = "idle"

(* "requeue the buffer so that the backend does not run out": a buffer of  *)
(* the running stream that comes back is queued in the driver, not ignored. *)
ReturnedBufferIsQueued ==
  [][\A b \in held \ held' :
       driverOn /\ b \in Range(slots) => returning'[b] = "qbuf"]_vars

=============================================================================
