------------------------- MODULE V4l2Stream_proofs --------------------------
(***************************************************************************)
(* For every set of buffers and every family of pools: although is_queued  *)
(* is not protected by a lock, the driver never writes into a buffer the   *)
(* sink reads, get_frame works on a buffer of its own, and the V4L2        *)
(* backend implements BufferLoop.                                          *)
(***************************************************************************)
EXTENDS V4l2Stream, TLAPS

(* The flags, the thread and the driver agree on whether a stream runs.    *)
Phases ==
  /\ driverOn => isStreamOn /\ control = "idle"
  /\ control = "streamoff" => isStreamOn
  /\ control = "join" => ~isStreamOn
  /\ control = "idle" /\ ~isStreamOn => thread = "none"
  /\ fresh => control = "idle" /\ ~isStreamOn
  /\ \A i \in Indices : driver[i] = "done" => driverOn

(* A buffer about to be queued by requeue_buffer is one of the list, and   *)
(* the flag is_queued is only ever set for one.                            *)
Returning ==
  /\ \A b \in Buffers : returning[b] # "no" => b \in Range(slots)
  /\ \A b \in Buffers : returning[b] = "qbuf" => b \notin held

(* Until start_stream none of the buffers is in use.                       *)
FreshUnused ==
  fresh => /\ Range(slots) \cap held = {}
           /\ \A b \in Buffers : returning[b] = "no"

(* What the running driver has is not with the sink nor on its way back.   *)
DriverOwns ==
  driverOn => \A i \in Indices : driver[i] # "idle" =>
    /\ i \in DOMAIN slots
    /\ slots[i] \notin held
    /\ returning[slots[i]] # "qbuf"

(* So is the frame in get_frame.                                           *)
FrameOwned ==
  thread \in InGetFrame =>
    /\ index \in DOMAIN slots
    /\ slots[index] \notin held
    /\ returning[slots[index]] # "qbuf"
    /\ thread # "set" => driver[index] = "idle"

Inv ==
  /\ TypeOK /\ IsInjective(slots)
  /\ Phases /\ Returning /\ FreshUnused /\ DriverOwns /\ FrameOwned

(* The index requeue_buffer finds for a buffer of the list.                *)
LEMMA IndexOfBuffer ==
  ASSUME TypeOK, NEW b \in Range(slots)
  PROVE  IndexOf(b) \in DOMAIN slots /\ slots[IndexOf(b)] = b
<1>1. \E i \in DOMAIN slots : slots[i] = b
  BY DEF Range
<1> QED BY <1>1 DEF IndexOf

(* The list of buffers is a function on some of the indices.               *)
LEMMA SlotsFunction ==
  ASSUME TypeOK
  PROVE  /\ DOMAIN slots \subseteq Indices
         /\ \A i \in DOMAIN slots : slots[i] \in Buffers /\ slots[i] \in Range(slots)
BY PoolsAssumption DEF TypeOK, Indices, Range

(* A device that has not streamed satisfies the invariant.                *)
LEMMA InitInv == Init => Inv
<1> SUFFICES ASSUME Init PROVE Inv
  OBVIOUS
<1>1. <<>> \in Seq(Buffers) /\ Len(<<>>) = 0 /\ DOMAIN <<>> = {}
  OBVIOUS
<1>2. TypeOK
  <2>1. isQueued \in [Indices -> BOOLEAN]
    BY DEF Init, noneQueued
  <2>2. slots \in Seq(Buffers) /\ Len(slots) <= MaxIndex
    BY <1>1, PoolsAssumption DEF Init
  <2>3. /\ driver \in [Indices -> {"idle", "queued", "done"}]
        /\ returning \in [Buffers -> {"no", "qbuf", "set"}]
    BY DEF Init, allIdle
  <2> QED BY <2>1, <2>2, <2>3 DEF Init, TypeOK, ThreadPoints
<1>3. IsInjective(slots) /\ Range(slots) = {}
  BY <1>1 DEF Init, IsInjective, Range
<1>4. Phases
  BY DEF Init, Phases, allIdle
<1> QED
  BY <1>2, <1>3, <1>4
  DEF Init, Inv, Returning, FreshUnused, DriverOwns, FrameOwned, InGetFrame

(* Every step of every thread and of the driver preserves the invariant.   *)
LEMMA NextInv == Inv /\ [Next]_vars => Inv'
<1> SUFFICES ASSUME Inv, [Next]_vars PROVE Inv'
  OBVIOUS
<1> USE DEF Inv, TypeOK, Phases, Returning, FreshUnused, DriverOwns, FrameOwned,
            InGetFrame, ThreadPoints, GoTo, driverVars, threadVars, sinkVars,
            controlVars
<1>0. /\ DOMAIN slots \subseteq Indices
      /\ \A i \in DOMAIN slots : slots[i] \in Buffers /\ slots[i] \in Range(slots)
  BY SlotsFunction
<1>1. CASE Configure
  <2>1. PICK pool \in Pools : Range(pool) \cap held = {} /\ slots' = pool
    BY <1>1 DEF Configure
  <2>2. slots' \in Seq(Buffers) /\ Len(slots') <= MaxIndex /\ IsInjective(slots')
    BY <2>1, PoolsAssumption
  <2> QED BY <1>1, <2>1, <2>2 DEF Configure, noneQueued
<1>2. CASE StartStream
  <2>1. PICK Q \in SUBSET DOMAIN slots : InitBuffers(Q)
    BY <1>2 DEF StartStream
  <2>2. isQueued' \in [Indices -> BOOLEAN]
    BY <2>1 DEF InitBuffers
  <2>3. /\ driver' \in [Indices -> {"idle", "queued", "done"}]
        /\ \A i \in Indices : driver'[i] # "done"
        /\ \A i \in Indices : driver'[i] # "idle" => i \in DOMAIN slots
    BY <2>1 DEF InitBuffers
  <2>4. /\ control = "idle" /\ ~isStreamOn /\ fresh /\ fresh' = FALSE
        /\ UNCHANGED <<slots, index, control, held, returning>>
    BY <1>2 DEF StartStream
  <2>5. CASE /\ driverOn' = TRUE /\ isStreamOn' = TRUE /\ listener' = TRUE
             /\ thread' = "select"
    BY <1>0, <2>2, <2>3, <2>4, <2>5
  <2>6. CASE /\ driverOn' = FALSE /\ isStreamOn' = FALSE /\ listener' = FALSE
             /\ thread' = thread
    BY <2>2, <2>3, <2>4, <2>6
  <2> QED BY <1>2, <2>5, <2>6 DEF StartStream
<1>3. CASE StreamOff
  BY <1>0, <1>3 DEF StreamOff, allIdle
<1>4. CASE ClearStreamOn
  BY <1>4 DEF ClearStreamOn
<1>5. CASE Join
  BY <1>5 DEF Join
<1>6. CASE Free
  <2>1. /\ slots' \in Seq(Buffers) /\ Len(slots') <= MaxIndex
        /\ IsInjective(slots') /\ Range(slots') = {}
    BY <1>6, PoolsAssumption DEF Free, IsInjective, Range
  <2> QED BY <1>6, <2>1 DEF Free, allIdle
<1>7. CASE SelectReturns
  BY <1>7 DEF SelectReturns
<1>8. CASE Dequeue
  BY <1>0, <1>8 DEF Dequeue
<1>9. CASE MarkDequeued
  BY <1>9 DEF MarkDequeued
<1>10. CASE Deliver
  BY <1>0, <1>10 DEF Deliver, IsInjective
<1>11. CASE ThreadRequeue
  BY <1>11 DEF ThreadRequeue
<1>12. CASE ThreadQueue
  BY <1>0, <1>12 DEF ThreadQueue, Qbuf
<1>13. CASE ThreadSet
  BY <1>13 DEF ThreadSet
<1>14. ASSUME NEW b \in Buffers, ReturnBuffer(b) PROVE Inv'
  BY <1>0, <1>14 DEF ReturnBuffer, Requeueable
<1>15. ASSUME NEW b \in Buffers, ReturnQueue(b) PROVE Inv'
  BY <1>0, <1>15, IndexOfBuffer DEF ReturnQueue, Qbuf, IsInjective
<1>16. ASSUME NEW b \in Buffers, ReturnSet(b) PROVE Inv'
  BY <1>0, <1>16 DEF ReturnSet
<1>17. ASSUME NEW i \in Indices, Fill(i) PROVE Inv'
  BY <1>17 DEF Fill
<1>18. CASE UNCHANGED vars
  BY <1>18 DEF vars
<1> QED
  BY <1>1, <1>2, <1>3, <1>4, <1>5, <1>6, <1>7, <1>8, <1>9, <1>10, <1>11,
     <1>12, <1>13, <1>14, <1>15, <1>16, <1>17, <1>18
  DEF Next, WorkThread

(* Type correctness of the V4L2 stream, for any buffers and pools.         *)
THEOREM TypeCorrect == Spec => []TypeOK
<1>1. Inv => TypeOK
  BY DEF Inv
<1> QED BY <1>1, InitInv, NextInv, PTL DEF Spec

(* get_frame works on an existing index, whose buffer is with nobody else. *)
THEOREM FramesExclusive == Spec => []FrameIsExclusive
<1>1. Inv => FrameIsExclusive
  BY DEF Inv, FrameOwned, FrameIsExclusive
<1> QED BY <1>1, InitInv, NextInv, PTL DEF Spec

(* The driver never writes into a buffer the sink reads, whatever the      *)
(* races on is_queued.                                                     *)
THEOREM DriverKeepsOut == Spec => []DriverBuffersNotHeld
<1>1. Inv => DriverBuffersNotHeld
  BY DEF Inv, DriverOwns, DriverBuffersNotHeld
<1> QED BY <1>1, InitInv, NextInv, PTL DEF Spec

(* Both together: a buffer is in one place, whatever the unlocked is_queued *)
(* flags do.                                                                *)
THEOREM OnePlace == Spec => []BuffersExclusive
<1>1. TypeOK /\ FrameIsExclusive /\ DriverBuffersNotHeld <=> BuffersExclusive
  BY DEF BuffersExclusive
<1> QED BY <1>1, TypeCorrect, FramesExclusive, DriverKeepsOut, PTL

-----------------------------------------------------------------------------
(* The index i of the list counts for deviceBuffers.                       *)
Used(i) ==
  \/ driverOn /\ driver[i] # "idle"
  \/ thread \in InGetFrame /\ index = i
  \/ returning[slots[i]] = "qbuf"

(* Membership in the refinement mapping, by index.                         *)
LEMMA DeviceBuffer ==
  ASSUME Inv
  PROVE  \A i \in DOMAIN slots : slots[i] \in deviceBuffers <=> Used(i)
BY DEF Inv, deviceBuffers, Used, IsInjective

(* Each step of the backend is a step of BufferLoop or changes neither of  *)
(* the two sets.                                                           *)
LEMMA StepRefines ==
  Inv /\ Inv' /\ [Next]_vars => [Loop!Next]_<<deviceBuffers, held>>
<1> SUFFICES ASSUME Inv, Inv', [Next]_vars
             PROVE  [Loop!Next]_<<deviceBuffers, held>>
  OBVIOUS
<1> USE DEF Inv, driverVars, threadVars, sinkVars, controlVars, InGetFrame, GoTo
<1>0. /\ DOMAIN slots \subseteq Indices
      /\ \A i \in DOMAIN slots : slots[i] \in Buffers /\ slots[i] \in Range(slots)
  BY SlotsFunction
<1>1. ASSUME deviceBuffers' \subseteq deviceBuffers, held' = held
      PROVE  Loop!Next
  <2>1. deviceBuffers \ deviceBuffers' \in SUBSET Buffers
    BY <1>0 DEF deviceBuffers
  <2>2. Loop!Release(deviceBuffers \ deviceBuffers')
    BY <1>1 DEF Loop!Release
  <2> QED BY <2>1, <2>2 DEF Loop!Next
<1>2. ASSUME UNCHANGED <<slots, held>>, \A i \in DOMAIN slots : Used(i)' => Used(i)
      PROVE  Loop!Next
  BY <1>1, <1>2 DEF deviceBuffers, Used
<1>3. ASSUME control = "idle", ~isStreamOn, \A b \in Buffers : returning[b] = "no"
      PROVE  deviceBuffers = {}
  BY <1>0, <1>3 DEF Phases, deviceBuffers
<1>4. CASE Configure \/ Free
  <2>1. deviceBuffers = {}
    BY <1>3, <1>4 DEF Configure, Free
  <2>2. \A i \in DOMAIN slots' : slots'[i] \in Buffers
    BY DEF TypeOK
  <2>3. deviceBuffers' = {} /\ held' = held
    BY <1>4, <2>2 DEF Configure, Free, Phases, deviceBuffers
  <2> QED BY <2>1, <2>3
<1>5. CASE StartStream
  <2>1. deviceBuffers = {} /\ UNCHANGED <<slots, held, returning>>
          /\ Range(slots) \cap held = {}
    BY <1>3, <1>5 DEF StartStream, FreshUnused
  <2>2. deviceBuffers' \in SUBSET Buffers /\ deviceBuffers' \cap held = {}
    BY <1>0, <2>1 DEF deviceBuffers
  <2>3. Loop!Register(deviceBuffers')
    BY <2>1, <2>2 DEF Loop!Register
  <2> QED BY <2>2, <2>3 DEF Loop!Next
<1>6. CASE StreamOff \/ ClearStreamOn \/ Join \/ SelectReturns
  BY <1>2, <1>6 DEF StreamOff, ClearStreamOn, Join, SelectReturns, Used
<1>7. CASE Dequeue
  <2>1. \A i \in DOMAIN slots : Used(i)' => Used(i)
    BY <1>0, <1>7 DEF Dequeue, Used, Phases, TypeOK
  <2> QED BY <1>2, <1>7, <2>1 DEF Dequeue
<1>8. CASE MarkDequeued \/ ThreadRequeue \/ ThreadSet
  BY <1>2, <1>8 DEF MarkDequeued, ThreadRequeue, ThreadSet, Used
<1>9. CASE ThreadQueue
  <2>1. \A i \in DOMAIN slots : Used(i)' => Used(i)
    BY <1>0, <1>9 DEF ThreadQueue, Qbuf, Used, TypeOK
  <2> QED BY <1>2, <1>9, <2>1 DEF ThreadQueue
<1>10. CASE Deliver
  <2>1. CASE held' = held
    BY <1>2, <1>10, <2>1 DEF Deliver, Used
  <2>2. CASE held' = held \cup {slots[index]} /\ thread' = "select"
    <3> DEFINE b == slots[index]
    <3>1. /\ index \in DOMAIN slots /\ b \in Buffers /\ Used(index)
          /\ UNCHANGED <<slots, driver, driverOn, index, returning>>
          /\ thread = "deliver"
      BY <1>0, <1>10 DEF Deliver, FrameOwned, Used
    <3>2. ~Used(index)' /\ \A i \in DOMAIN slots \ {index} : Used(i)' <=> Used(i)
      BY <2>2, <3>1 DEF FrameOwned, Used
    <3>3. deviceBuffers' = deviceBuffers \ {b}
      BY <3>1, <3>2 DEF deviceBuffers, Used, IsInjective
    <3>4. Loop!Deliver(b)
      BY <2>2, <3>1, <3>3, DeviceBuffer DEF Loop!Deliver
    <3> QED BY <3>1, <3>4 DEF Loop!Next
  <2> QED BY <1>10, <2>1, <2>2 DEF Deliver
<1>11. ASSUME NEW b \in Buffers, ReturnBuffer(b) PROVE Loop!Next
  <2>1. /\ b \in held /\ held' = held \ {b} /\ returning[b] = "no"
        /\ UNCHANGED <<slots, driver, driverOn, thread, index>>
    BY <1>11 DEF ReturnBuffer
  <2>2. \A c \in Buffers \ {b} : returning'[c] = returning[c]
    BY <1>11 DEF ReturnBuffer, TypeOK
  <2>3. CASE returning'[b] = "qbuf"
    <3>1. b \in Range(slots)
      BY <2>1, <2>3 DEF Returning
    <3>2. deviceBuffers' = deviceBuffers \cup {b}
      BY <1>0, <2>1, <2>2, <2>3, <3>1 DEF deviceBuffers, Range
    <3>3. Loop!Return(b)
      BY <2>1, <3>2 DEF Loop!Return
    <3> QED BY <3>3 DEF Loop!Next
  <2>4. CASE returning'[b] # "qbuf"
    <3>1. deviceBuffers' = deviceBuffers
      BY <1>0, <2>1, <2>2, <2>4 DEF deviceBuffers
    <3>2. Loop!Return(b)
      BY <2>1, <3>1 DEF Loop!Return
    <3> QED BY <3>2 DEF Loop!Next
  <2> QED BY <2>3, <2>4
<1>12. ASSUME NEW b \in Buffers, ReturnQueue(b) PROVE Loop!Next
  <2>1. IndexOf(b) \in DOMAIN slots /\ slots[IndexOf(b)] = b
    BY <1>12, IndexOfBuffer DEF ReturnQueue, Returning
  <2>2. \A i \in DOMAIN slots : Used(i)' => Used(i)
    BY <1>0, <1>12, <2>1 DEF ReturnQueue, Qbuf, Used, TypeOK
  <2> QED BY <1>2, <1>12, <2>2 DEF ReturnQueue
<1>13. ASSUME NEW b \in Buffers, ReturnSet(b) PROVE Loop!Next
  <2>1. \A i \in DOMAIN slots : Used(i)' => Used(i)
    BY <1>0, <1>13 DEF ReturnSet, Used, TypeOK
  <2> QED BY <1>2, <1>13, <2>1 DEF ReturnSet
<1>14. ASSUME NEW i \in Indices, Fill(i) PROVE Loop!Next
  <2>1. \A j \in DOMAIN slots : Used(j)' => Used(j)
    BY <1>0, <1>14 DEF Fill, Used, TypeOK
  <2> QED BY <1>2, <1>14, <2>1 DEF Fill
<1>15. CASE UNCHANGED vars
  BY <1>15 DEF vars, deviceBuffers
<1> QED
  BY <1>4, <1>5, <1>6, <1>7, <1>8, <1>9, <1>10, <1>11, <1>12, <1>13, <1>14,
     <1>15
  DEF Next, WorkThread

(* The V4L2 backend implements BufferLoop.                                 *)
THEOREM Refinement == Spec => ImplementsBufferLoop
<1>1. Init => Loop!Init
  BY DEF Init, Loop!Init, deviceBuffers
<1> QED
  BY <1>1, InitInv, NextInv, StepRefines, PTL
  DEF Spec, ImplementsBufferLoop, Loop!Spec

=============================================================================
