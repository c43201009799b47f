----------------------------- MODULE Gst_proofs -----------------------------
(***************************************************************************)
(* The GStreamer plugins.  For every number of buffers and every value of  *)
(* num-buffers: the pool of tcammainsrc accounts for its buffers and is    *)
(* not deleted while it is used.  For every set of sources, cameras and    *)
(* settings: the converter balances an image once, the device provider     *)
(* announces a camera once, and tcamsrc opens what was asked for.          *)
(***************************************************************************)
EXTENDS MainSrc, TcamConvert, DeviceProvider, TcamSrc, WellFoundedInduction, TLAPS

(* Where change_state can be in each state of the element.                 *)
Changes ==
  /\ change \in {"play", "flush", "stoptask", "stopdevice", "delete"}
       => gstState = "PAUSED"
  /\ change \in {"pause", "paused"} => gstState = "PLAYING"

(* The task of the pad runs between READY to PAUSED and StopTask.          *)
TaskRuns ==
  task = "off" <=> \/ gstState \in {"NULL", "READY"}
                   \/ change \in {"stopdevice", "delete"}

(* The program points of the threads and the buffers they hold.            *)
Holders ==
  /\ capture = "idle" <=> capBuf = NoBuffer
  /\ task = "push" <=> taskBuf # NoBuffer

(* Without a pool nothing is in use; a queue left behind and what it gave  *)
(* back to the device is emptied before there is a pool again.             *)
NoPoolNoUse ==
  /\ pool = "none" => /\ task \in {"off", "setcaps", "allocate", "loop", "paused"}
                      /\ ~deviceOn /\ capture = "idle" /\ downstream = {}
  /\ pool # "none" => /\ task \notin {"setcaps", "allocate"}
                      /\ gstState \in {"PAUSED", "PLAYING"}
  /\ task = "allocate" => queue = <<>>

(* The phases of PAUSED to READY.                                          *)
Stopping ==
  /\ pool = "stopped" => change \in {"stopdevice", "delete"}
  /\ change \in {"stopdevice", "delete"} => pool # "active" /\ downstream = {}
  /\ change = "delete" => ~deviceOn /\ capture = "idle"

(* An active pool has a sink, and the partition BuffersAccounted speaks    *)
(* of.                                                                     *)
PoolInUse == pool = "active" => sink

(* A buffer counted by create and not yet pushed.                          *)
InFlight == task \in {"acquire", "checked", "waiting", "push"}

(* Every buffer counted by create is pushed, unless the wait was aborted   *)
(* because the device got lost.                                            *)
Counts ==
  /\ NumBuffers = -1 => delivered = 0 /\ pushed = 0
  /\ NumBuffers # -1 => /\ pushed <= delivered /\ delivered <= NumBuffers
                        /\ InFlight => pushed < delivered
  /\ lost = "no" /\ gstState \in {"PAUSED", "PLAYING"} /\ NumBuffers # -1 =>
       pushed = IF InFlight THEN delivered - 1 ELSE delivered
  /\ eos /\ lost = "no" /\ gstState \in {"PAUSED", "PLAYING"} =>
       NumBuffers # -1 /\ delivered = NumBuffers /\ ~InFlight

(* The streaming thread is in create only in PLAYING, where only the loss  *)
(* of the device clears is_streaming_.                                     *)
CreateInPlaying ==
  /\ InCreate => live
  /\ live => gstState = "PLAYING" /\ change # "paused"
  /\ lost = "no" /\ (gstState = "PLAYING" \/ change = "play") => isStreaming

Control ==
  Changes /\ TaskRuns /\ Holders /\ NoPoolNoUse /\ Stopping /\ PoolInUse
Buffered == BuffersAccounted /\ NoDanglingAcquired
Counted == Counts /\ CreateInPlaying
Inv == TypeOK /\ Control /\ Buffered /\ Counted

(* The counters start within their range, also for num-buffers = -1.      *)
LEMMA Zero == 0 \in 0..(NumBuffers + 1)
  BY ConstantsAssumption

(* Taking the head off a queue that lists no buffer twice removes exactly  *)
(* that buffer (acquire_buffer).                                           *)
LEMMA FetchFromQueue ==
  ASSUME NEW S, NEW q \in Seq(S), q # <<>>, IsInjective(q)
  PROVE  /\ Head(q) \in S /\ Head(q) \in Range(q)
         /\ Tail(q) \in Seq(S) /\ IsInjective(Tail(q))
         /\ Range(Tail(q)) = Range(q) \ {Head(q)}
<1>1. /\ Len(q) \in Nat \ {0} /\ DOMAIN q = 1..Len(q)
      /\ Tail(q) \in Seq(S) /\ DOMAIN Tail(q) = 1..(Len(q) - 1)
      /\ Head(q) = q[1] /\ \A i \in 1..(Len(q) - 1) : Tail(q)[i] = q[i + 1]
  OBVIOUS
<1>2. Head(q) \in S /\ Head(q) \in Range(q)
  BY <1>1 DEF Range
<1>3. IsInjective(Tail(q))
  BY <1>1 DEF IsInjective
<1>4. ASSUME NEW x \in Range(q) \ {Head(q)} PROVE x \in Range(Tail(q))
  <2>1. PICK i \in 2..Len(q) : x = q[i]
    BY <1>1 DEF Range
  <2>2. i - 1 \in 1..(Len(q) - 1) /\ Tail(q)[i - 1] = x
    BY <2>1, <1>1
  <2> QED BY <2>2, <1>1 DEF Range
<1>5. ASSUME NEW x \in Range(Tail(q)) PROVE x \in Range(q) \ {Head(q)}
  <2>1. PICK i \in 1..(Len(q) - 1) : x = q[i + 1]
    BY <1>1 DEF Range
  <2>2. i + 1 \in DOMAIN q /\ 1 \in DOMAIN q /\ i + 1 # 1
    BY <2>1, <1>1
  <2> QED BY <2>1, <2>2, <1>1 DEF Range, IsInjective
<1> QED BY <1>1, <1>2, <1>3, <1>4, <1>5

(* Appending a buffer that is not queued keeps the queue free of repeats   *)
(* (the callback of the sink).                                             *)
LEMMA AppendToQueue ==
  ASSUME NEW S, NEW q \in Seq(S), NEW b \in S, IsInjective(q),
         b \notin Range(q)
  PROVE  /\ Append(q, b) \in Seq(S) /\ IsInjective(Append(q, b))
         /\ Range(Append(q, b)) = Range(q) \cup {b}
<1> DEFINE r == Append(q, b)
<1>1. /\ Len(q) \in Nat /\ DOMAIN q = 1..Len(q)
      /\ r \in Seq(S) /\ DOMAIN r = 1..(Len(q) + 1)
      /\ r[Len(q) + 1] = b /\ \A i \in 1..Len(q) : r[i] = q[i]
  OBVIOUS
<1> HIDE DEF r
<1>2. IsInjective(r)
  BY <1>1 DEF IsInjective, Range
<1>3. Range(r) = Range(q) \cup {b}
  BY <1>1 DEF Range
<1> QED BY <1>1, <1>2, <1>3 DEF r

(* The queue after stop_and_clear.                                        *)
LEMMA EmptyQueue ==
  /\ <<>> \in Seq(Buffers \cup {Dangling})
  /\ Range(<<>>) = {} /\ IsInjective(<<>>)
  BY DEF Range, IsInjective

(* An element in NULL satisfies the invariant.                            *)
LEMMA InitInv == Init => Inv
<1> SUFFICES ASSUME Init PROVE Inv
  OBVIOUS
<1>1. TypeOK
  BY Zero, EmptyQueue DEF Init, TypeOK
<1> QED
  BY <1>1, ConstantsAssumption
  DEF Init, Inv, Control, Buffered, Counted, TypeOK, Changes, TaskRuns, Holders, NoPoolNoUse, Stopping,
      PoolInUse, BuffersAccounted, NoDanglingAcquired, Counts, InFlight,
      CreateInPlaying, InCreate

(* The types after every step; Counts bounds the counters.                *)
LEMMA TypeNext == Inv /\ [Next]_vars => TypeOK'
<1> SUFFICES ASSUME Inv, [Next]_vars PROVE TypeOK'
  OBVIOUS
<1> USE ConstantsAssumption
    DEF Inv, TypeOK, stateVars, poolVars, deviceVars, captureVars, taskVars, baseVars,
        countVars, WakeTask
<1>1. CASE NullToReady
  BY <1>1 DEF NullToReady
<1>2. CASE ReadyToPaused
  <2>0. flushing' \in BOOLEAN /\ eos' \in BOOLEAN
    BY <1>2 DEF ReadyToPaused
  <2> QED
    BY <1>2, Zero, <2>0 DEF ReadyToPaused
<1>3. CASE PausedToPlaying
  BY <1>3 DEF PausedToPlaying
<1>4. CASE Play
  BY <1>4 DEF Play
<1>5. CASE PlayingToPaused
  BY <1>5 DEF PlayingToPaused
<1>6. CASE Pause
  <2>0. live' \in BOOLEAN
    BY <1>6 DEF Pause
  <2> QED
    BY <1>6, <2>0 DEF Pause
<1>7. CASE ClearStreaming
  <2>0. isStreaming' \in BOOLEAN
    BY <1>7 DEF ClearStreaming
  <2> QED
    BY <1>7, <2>0 DEF ClearStreaming
<1>8. CASE PausedToReady
  BY <1>8 DEF PausedToReady
<1>9. CASE Flush
  BY <1>9 DEF Flush
<1>10. CASE StopTask
  BY <1>10 DEF StopTask
<1>11. CASE StopDevice
  <2>0. deviceOn' \in BOOLEAN
    BY <1>11 DEF StopDevice
  <2> QED
    BY <1>11, <2>0 DEF StopDevice
<1>12. CASE DeleteBuffers
  BY <1>12 DEF DeleteBuffers
<1>13. CASE ReadyToNull
  <2>0. deviceOn' \in BOOLEAN /\ sink' \in BOOLEAN
    BY <1>13 DEF ReadyToNull
  <2> QED
    BY <1>13, EmptyQueue, <2>0 DEF ReadyToNull
<1>14. CASE SetCaps
  <2>0. deviceOn' \in BOOLEAN /\ sink' \in BOOLEAN
    BY <1>14 DEF SetCaps
  <2>1. Range(queue) \subseteq Buffers \cup {Dangling}
    BY DEF Range
  <2>2. backend' \subseteq Buffers \cup {Dangling}
    BY <1>14, <2>1 DEF SetCaps, BackendAfterClear
  <2>3. task' \in {"allocate", "paused"}
    BY <1>14 DEF SetCaps, AfterSetCaps
  <2> QED
    BY <1>14, <2>2, <2>3, EmptyQueue, <2>0 DEF SetCaps
<1>15. CASE DecideAllocation
  <2>0. isStreaming' \in BOOLEAN /\ sink' \in BOOLEAN /\ deviceOn' \in BOOLEAN
    BY <1>15 DEF DecideAllocation, PoolStart
  <2>1. /\ pool' \in {"none", "active", "stopped"} /\ task' \in {"loop", "paused"}
        /\ backend' \subseteq Buffers \cup {Dangling}
    BY <1>15, Zenon DEF DecideAllocation, PoolStart
  <2> QED
    BY <1>15, <2>0, <2>1 DEF DecideAllocation, PoolStart
<1>16. CASE Loop
  BY <1>16 DEF Loop
<1>17. CASE Create
  <2>0. eos' \in BOOLEAN
    BY <1>17 DEF Create
  <2>1. delivered' \in 0..(NumBuffers + 1)
    BY <1>17 DEF Create
  <2> QED
    BY <1>17, <2>1, <2>0 DEF Create
<1>18. CASE Acquire
  <2>1. queue # <<>> => /\ Head(queue) \in Buffers \cup {Dangling}
                        /\ Tail(queue) \in Seq(Buffers \cup {Dangling})
    OBVIOUS
  <2> QED
    BY <1>18, <2>1 DEF Acquire
<1>19. CASE Wait
  BY <1>19 DEF Wait
<1>20. CASE Push
  <2>1. pushed' \in 0..(NumBuffers + 1)
    BY <1>20 DEF Push, Counted, Counts, InFlight
  <2> QED
    BY <1>20, <2>1 DEF Push
<1>21. CASE Image
  BY <1>21 DEF Image
<1>22. CASE Callback
  BY <1>22 DEF Callback, Control, Holders
<1>23. CASE CallbackPush
  <2>1. capBuf \in Buffers \cup {Dangling}
    BY <1>23 DEF CallbackPush, Control, Holders
  <2> QED
    BY <1>23, <2>1 DEF CallbackPush
<1>24. CASE LoseDevice
  <2>0. deviceOn' \in BOOLEAN
    BY <1>24 DEF LoseDevice
  <2> QED
    BY <1>24, <2>0 DEF LoseDevice
<1>25. CASE ReportLost
  BY <1>25 DEF ReportLost
<1>26. CASE ClearLost
  <2>0. isStreaming' \in BOOLEAN
    BY <1>26 DEF ClearLost
  <2> QED
    BY <1>26, <2>0 DEF ClearLost
<1>27. ASSUME NEW b \in Buffers \cup {Dangling}, Release(b) PROVE TypeOK'
  BY <1>27 DEF Release
<1>28. CASE UNCHANGED vars
  BY <1>28 DEF vars
<1> QED
  BY <1>1, <1>2, <1>3, <1>4, <1>5, <1>6, <1>7, <1>8, <1>9, <1>10, <1>11,
     <1>12, <1>13, <1>14, <1>15, <1>16, <1>17, <1>18, <1>19, <1>20, <1>21,
     <1>22, <1>23, <1>24, <1>25, <1>26, <1>27, <1>28
  DEF Next, ChangeState, StreamingThread

(* Where the threads are and what they hold, after every step.            *)
LEMMA ControlNext == Inv /\ [Next]_vars => Control'
<1> SUFFICES ASSUME Inv, [Next]_vars PROVE Control'
  OBVIOUS
<1> USE ConstantsAssumption
    DEF Inv, Control, TypeOK, Changes, TaskRuns, Holders, NoPoolNoUse, Stopping,
        PoolInUse, InCreate, MutexFree, DeviceStopped, WakeTask,
        stateVars, poolVars, deviceVars, captureVars, taskVars, baseVars, countVars
<1>1. CASE NullToReady
  BY <1>1 DEF NullToReady
<1>2. CASE ReadyToPaused
  BY <1>2 DEF ReadyToPaused
<1>3. CASE PausedToPlaying
  BY <1>3 DEF PausedToPlaying
<1>4. CASE Play
  BY <1>4 DEF Play
<1>5. CASE PlayingToPaused
  BY <1>5 DEF PlayingToPaused
<1>6. CASE Pause
  BY <1>6 DEF Pause
<1>7. CASE ClearStreaming
  BY <1>7 DEF ClearStreaming
<1>8. CASE PausedToReady
  BY <1>8 DEF PausedToReady
<1>9. CASE Flush
  BY <1>9 DEF Flush
<1>10. CASE StopTask
  BY <1>10 DEF StopTask
<1>11. CASE StopDevice
  BY <1>11 DEF StopDevice
<1>12. CASE DeleteBuffers
  BY <1>12 DEF DeleteBuffers
<1>13. CASE ReadyToNull
  BY <1>13 DEF ReadyToNull
<1>14. CASE SetCaps
  BY <1>14 DEF SetCaps, AfterSetCaps
<1>15. CASE DecideAllocation
  <2>1. CASE pool' = "active"
    BY <1>15, <2>1 DEF DecideAllocation, PoolStart
  <2>2. CASE task' = "paused" /\ UNCHANGED pool
    BY <1>15, <2>2 DEF DecideAllocation, PoolStart
  <2> QED BY <1>15, <2>1, <2>2 DEF DecideAllocation, PoolStart
<1>16. CASE Loop
  BY <1>16 DEF Loop
<1>17. CASE Create
  BY <1>17 DEF Create
<1>18. CASE Acquire
  BY <1>18 DEF Acquire
<1>19. CASE Wait
  BY <1>19 DEF Wait
<1>20. CASE Push
  BY <1>20 DEF Push
<1>21. CASE Image
  BY <1>21 DEF Image
<1>22. CASE Callback
  BY <1>22 DEF Callback
<1>23. CASE CallbackPush
  BY <1>23 DEF CallbackPush
<1>24. CASE LoseDevice
  BY <1>24 DEF LoseDevice
<1>25. CASE ReportLost
  BY <1>25 DEF ReportLost
<1>26. CASE ClearLost
  BY <1>26 DEF ClearLost
<1>27. ASSUME NEW b \in Buffers \cup {Dangling}, Release(b) PROVE Control'
  BY <1>27 DEF Release
<1>28. CASE UNCHANGED vars
  BY <1>28 DEF vars
<1> QED
  BY <1>1, <1>2, <1>3, <1>4, <1>5, <1>6, <1>7, <1>8, <1>9, <1>10, <1>11,
     <1>12, <1>13, <1>14, <1>15, <1>16, <1>17, <1>18, <1>19, <1>20, <1>21,
     <1>22, <1>23, <1>24, <1>25, <1>26, <1>27, <1>28
  DEF Next, ChangeState, StreamingThread

(* The places of the buffers of an active pool, after every step.         *)
LEMMA BuffersNext == Inv /\ [Next]_vars => Buffered'
<1> SUFFICES ASSUME Inv, [Next]_vars PROVE Buffered'
  OBVIOUS
<1> USE ConstantsAssumption
    DEF Inv, Control, Buffered, BuffersAccounted, NoDanglingAcquired, stateVars, poolVars, deviceVars, captureVars, taskVars, baseVars,
        countVars
<1>1. CASE UNCHANGED <<pool, backend, queue, downstream, capBuf, taskBuf>>
  BY <1>1
<1>2. CASE DeleteBuffers
  BY <1>2 DEF DeleteBuffers
<1>3. CASE ReadyToNull
  BY <1>3 DEF ReadyToNull, NoPoolNoUse
<1>4. CASE SetCaps
  BY <1>4 DEF SetCaps, NoPoolNoUse
<1>5. CASE DecideAllocation
  BY <1>5, EmptyQueue DEF DecideAllocation, PoolStart, NoPoolNoUse, Holders
<1>6. CASE Acquire
  <2>1. pool = "active" /\ taskBuf = NoBuffer
    BY <1>6 DEF Acquire, TypeOK, NoPoolNoUse, Stopping, TaskRuns, Holders
  <2>2. CASE UNCHANGED <<queue, taskBuf>>
    BY <1>6, <2>2 DEF Acquire
  <2>3. CASE queue # <<>> /\ taskBuf' = Head(queue) /\ queue' = Tail(queue)
    <3>1. /\ Head(queue) \in Range(queue) /\ IsInjective(Tail(queue))
          /\ Range(Tail(queue)) = Range(queue) \ {Head(queue)}
      BY <2>1, <2>3, FetchFromQueue DEF TypeOK
    <3>2. UNCHANGED <<pool, backend, capBuf, downstream>>
      BY <1>6 DEF Acquire
    <3> QED
      BY <2>1, <2>3, <3>1, <3>2
  <2> QED
    BY <1>6, <2>2, <2>3 DEF Acquire
<1>7. CASE Push
  BY <1>7 DEF Push, TypeOK, NoPoolNoUse, Stopping, TaskRuns
<1>8. CASE Image
  <2>1. PICK b \in backend : capBuf' = b /\ backend' = backend \ {b}
    BY <1>8 DEF Image
  <2> QED
    BY <1>8, <2>1 DEF Image, Holders
<1>9. CASE Callback
  BY <1>9 DEF Callback, TypeOK, Holders
<1>10. CASE CallbackPush
  <2>1. CASE pool # "active"
    BY <1>10, <2>1 DEF CallbackPush
  <2>2. CASE pool = "active"
    <3>1. capBuf \in Buffers \cup {Dangling} /\ capBuf \notin Range(queue)
      BY <1>10, <2>2 DEF CallbackPush, TypeOK, Holders
    <3>2. /\ IsInjective(Append(queue, capBuf))
          /\ Range(Append(queue, capBuf)) = Range(queue) \cup {capBuf}
      BY <2>2, <3>1, AppendToQueue DEF TypeOK
    <3>3. NoBuffer \notin Range(queue) \cup {capBuf}
      BY <2>2, <3>1
    <3>4. /\ queue' = Append(queue, capBuf) /\ capBuf' = NoBuffer
          /\ UNCHANGED <<pool, backend, taskBuf, downstream>>
      BY <1>10 DEF CallbackPush
    <3> QED
      BY <2>2, <3>1, <3>2, <3>3, <3>4
  <2> QED
    BY <2>1, <2>2
<1>11. CASE StopTask
  BY <1>11 DEF StopTask
<1>12. ASSUME NEW b \in Buffers \cup {Dangling}, Release(b) PROVE Buffered'
  BY <1>12 DEF Release, PoolInUse
<1>13. CASE UNCHANGED vars
  BY <1>13, <1>1 DEF vars
<1> QED
  BY <1>1, <1>2, <1>3, <1>4, <1>5, <1>6, <1>7, <1>8, <1>9, <1>10, <1>11,
     <1>12, <1>13
  DEF Next, ChangeState, StreamingThread, NullToReady, ReadyToPaused,
      PausedToPlaying, Play, PlayingToPaused, Pause, ClearStreaming,
      PausedToReady, Flush, StopDevice, Loop, Create, Wait, LoseDevice,
      ReportLost, ClearLost

(* The counters and the flag, after every step.                           *)
LEMMA CountsNext == Inv /\ [Next]_vars => Counted'
<1> SUFFICES ASSUME Inv, [Next]_vars PROVE Counted'
  OBVIOUS
<1> USE ConstantsAssumption
    DEF Inv, Control, Counted, TypeOK, Changes, TaskRuns, Counts, InFlight,
        CreateInPlaying, InCreate, WakeTask,
        stateVars, poolVars, deviceVars, captureVars, taskVars, baseVars, countVars
<1>1. CASE NullToReady
  BY <1>1 DEF NullToReady
<1>2. CASE ReadyToPaused
  BY <1>2 DEF ReadyToPaused
<1>3. CASE PausedToPlaying
  BY <1>3 DEF PausedToPlaying
<1>4. CASE Play
  BY <1>4 DEF Play
<1>5. CASE PlayingToPaused
  BY <1>5 DEF PlayingToPaused
<1>6. CASE Pause
  BY <1>6 DEF Pause
<1>7. CASE ClearStreaming
  BY <1>7 DEF ClearStreaming
<1>8. CASE PausedToReady
  BY <1>8 DEF PausedToReady
<1>9. CASE Flush
  BY <1>9 DEF Flush
<1>10. CASE StopTask
  BY <1>10 DEF StopTask
<1>11. CASE StopDevice
  BY <1>11 DEF StopDevice
<1>12. CASE DeleteBuffers
  BY <1>12 DEF DeleteBuffers
<1>13. CASE ReadyToNull
  BY <1>13 DEF ReadyToNull
<1>14. CASE SetCaps
  BY <1>14 DEF SetCaps, AfterSetCaps
<1>15. CASE DecideAllocation
  BY <1>15 DEF DecideAllocation, PoolStart
<1>16. CASE Loop
  BY <1>16 DEF Loop
<1>17. CASE Create
  BY <1>17 DEF Create
<1>18. CASE Acquire
  BY <1>18 DEF Acquire
<1>19. CASE Wait
  BY <1>19 DEF Wait
<1>20. CASE Push
  BY <1>20 DEF Push
<1>21. CASE Image
  BY <1>21 DEF Image
<1>22. CASE Callback
  BY <1>22 DEF Callback
<1>23. CASE CallbackPush
  BY <1>23 DEF CallbackPush
<1>24. CASE LoseDevice
  BY <1>24 DEF LoseDevice
<1>25. CASE ReportLost
  BY <1>25 DEF ReportLost
<1>26. CASE ClearLost
  BY <1>26 DEF ClearLost
<1>27. ASSUME NEW b \in Buffers \cup {Dangling}, Release(b) PROVE Counted'
  BY <1>27 DEF Release
<1>28. CASE UNCHANGED vars
  BY <1>28 DEF vars
<1> QED
  BY <1>1, <1>2, <1>3, <1>4, <1>5, <1>6, <1>7, <1>8, <1>9, <1>10, <1>11,
     <1>12, <1>13, <1>14, <1>15, <1>16, <1>17, <1>18, <1>19, <1>20, <1>21,
     <1>22, <1>23, <1>24, <1>25, <1>26, <1>27, <1>28
  DEF Next, ChangeState, StreamingThread

(* Every step of every thread preserves the invariant.                    *)
LEMMA NextInv == Inv /\ [Next]_vars => Inv'
  BY TypeNext, ControlNext, BuffersNext, CountsNext DEF Inv

(* The invariant holds in every reachable state.                           *)
THEOREM Invariance == Spec => []Inv
  BY InitInv, NextInv, PTL DEF Spec

(* Every variable of tcammainsrc keeps its type.                           *)
THEOREM TypeCorrect == Spec => []TypeOK
<1>1. Inv => TypeOK
  BY DEF Inv, Buffered
<1> QED
  BY <1>1, Invariance, PTL

(* sh_callback, acquire_buffer and release_buffer hand every buffer of an  *)
(* active pool round without losing or doubling one, however many buffers  *)
(* there are and whatever fails.                                           *)
THEOREM PoolAccounted == Spec => []BuffersAccounted
<1>1. Inv => BuffersAccounted
  BY DEF Inv, Buffered
<1> QED
  BY <1>1, Invariance, PTL

(* acquire_buffer never hands out a buffer that PAUSED to READY deleted.   *)
THEOREM DeletedNeverAcquired == Spec => []NoDanglingAcquired
<1>1. Inv => NoDanglingAcquired
  BY DEF Inv, Buffered
<1> QED
  BY <1>1, Invariance, PTL

(* The device is stopped before the buffers it fills are deleted and       *)
(* before the element is in NULL.                                          *)
THEOREM StoppedBeforeDelete == Spec => []NoStreamWithoutPool
<1>1. Inv => NoStreamWithoutPool
  BY DEF Inv, Control, NoPoolNoUse, NoStreamWithoutPool
<1> QED
  BY <1>1, Invariance, PTL

(* create ends the stream after exactly num-buffers buffers.               *)
THEOREM EosCounted == Spec => []EosAfterNumBuffers
<1>1. Inv => EosAfterNumBuffers
  BY DEF Inv, Counted, Counts, EosAfterNumBuffers
<1> QED
  BY <1>1, Invariance, PTL

(* All of it together: what the buffer pool of tcammainsrc owes the         *)
(* pipeline, for every pool, every num-buffers and whatever fails.          *)
THEOREM PoolCorrect == Spec => []PoolHolds
<1>1. TypeOK /\ BuffersAccounted /\ NoDanglingAcquired /\ NoStreamWithoutPool
        /\ EosAfterNumBuffers <=> PoolHolds
  BY DEF PoolHolds
<1> QED
  BY <1>1, TypeCorrect, PoolAccounted, DeletedNeverAcquired, StoppedBeforeDelete,
     EosCounted, PTL

(* The minimum of a set of natural numbers that is not empty.              *)
LEMMA MinOfNaturals ==
  ASSUME NEW S \in SUBSET Nat, S # {}
  PROVE  Min(S) \in S /\ \A y \in S : Min(S) <= y
<1> DEFINE R == OpToRel(<, Nat)
<1>1. IsWellFoundedOn(R, Nat)
  BY NatLessThanWellFounded, Zenon
<1>2. \E x \in S : \A y \in S : <<y, x>> \notin R
  <2> HIDE DEF R
  <2> QED BY <1>1, WFMin, Zenon
<1>3. \A x, y \in S : <<y, x>> \notin R => x <= y
  BY DEF OpToRel
<1>4. \E x \in S : \A y \in S : x <= y
  BY <1>2, <1>3, Zenon
<1> QED BY <1>4, Zenon DEF Min

-----------------------------------------------------------------------------
(* TcamConvert *)

CamType == [open : Nat, ready : BOOLEAN, lost : BOOLEAN, has : BOOLEAN, claimed : BOOLEAN,
            init : {"none", "absent", "applied", "refused", "no handles"}]
ContextType == [src_element_ptr : Sources \cup {"none"}, apply : BOOLEAN, wb : Nat,
                factors : Nat, init_done : BOOLEAN]

ConvertTypes ==
  /\ cvUp \in Sources \cup {"none"} /\ cvLinked \in BOOLEAN
  /\ cv \in ContextType /\ cam \in [Sources -> CamType] /\ cvOpens \in Nat

(* A converter that is not linked is attached to nothing, and one that is  *)
(* attached to nothing is not initialised.                                 *)
AttachedWhenLinked ==
  /\ ~cvLinked => cvUp = "none" /\ cv.src_element_ptr = "none"
  /\ cv.src_element_ptr # "none" => cvUp # "none"
  /\ cv.src_element_ptr = "none" => ~cv.init_done

(* The property handles are those of the opening the source is in, and     *)
(* only a camera that has the property is claimed.                         *)
HandlesAreTheCameras ==
  /\ cv.wb # 0 => cv.src_element_ptr # "none" /\ cv.wb = cam[cv.src_element_ptr].open
  /\ \A s \in Sources : cam[s].claimed => cam[s].has

ConvertInv == ConvertTypes /\ AttachedWhenLinked /\ AppliesWhatIsClaimed /\ HandlesAreTheCameras

(* A converter that is not linked is connected to nothing.                 *)
LEMMA ConvertInit == cvInit => ConvertInv
<1> SUFFICES ASSUME cvInit PROVE ConvertInv
  OBVIOUS
<1>1. cv \in ContextType /\ cv.src_element_ptr = "none" /\ cv.wb = 0 /\ ~cv.init_done
  BY DEF cvInit, tcamconvert_context_base, ContextType
<1>2. cam \in [Sources -> CamType] /\ \A s \in Sources : ~cam[s].claimed
  BY DEF cvInit, Closed, CamType
<1> QED BY <1>1, <1>2, Zenon DEF cvInit, ConvertInv, ConvertTypes, AttachedWhenLinked,
                          AppliesWhatIsClaimed, HandlesAreTheCameras

(* init_from_source on a camera: what it finds, it leaves in the context   *)
(* and in the camera.                                                      *)
LEMMA Initialising ==
  ASSUME ConvertTypes, HandlesAreTheCameras,
         NEW x \in ContextType, NEW s \in Sources, NEW c \in CamType,
         x.src_element_ptr = s, x.wb = 0, c.claimed => c.has,
         init_from_source(x, s, c)
  PROVE  /\ cv' \in ContextType /\ cam' \in [Sources -> CamType]
         /\ cv'.src_element_ptr = s /\ cv'.init_done
         /\ cam'[s].open = c.open
         /\ AppliesWhatIsClaimed' /\ HandlesAreTheCameras'
<1> PICK result \in claim_results(c) :
       /\ cv' = [x EXCEPT !.apply = result = "applied",
                          !.wb = IF result = "applied" THEN c.open ELSE @, !.init_done = TRUE]
       /\ cam' = [cam EXCEPT ![s] = Claim(c, result)]
  BY DEF init_from_source
<1>1. result \in {"absent", "applied", "refused", "no handles"} /\ (result = "absent" \/ c.has)
      /\ (result = "absent" => c.open = 0 \/ ~c.has)
  <2>1. CASE c.open > 0 /\ c.has
    BY <2>1 DEF claim_results
  <2>2. CASE ~(c.open > 0 /\ c.has)
    <3>1. result = "absent"
      BY <2>2 DEF claim_results
    <3>2. c.open = 0 \/ ~c.has
      <4>1. c.open \in Nat
        BY Zenon DEF CamType
      <4>2. c.open > 0 \/ c.open = 0
        BY <4>1
      <4> QED BY <2>2, <4>2, Zenon
    <3> QED BY <3>1, <3>2
  <2> QED BY <2>1, <2>2
<1>2. /\ cv' \in ContextType /\ cv'.src_element_ptr = s /\ cv'.init_done
      /\ cv'.apply = (result = "applied") /\ cv'.wb = (IF result = "applied" THEN c.open ELSE 0)
  BY DEF ContextType, CamType
<1>3. /\ Claim(c, result) \in CamType /\ Claim(c, result).open = c.open
      /\ Claim(c, result).has = c.has /\ Claim(c, result).init = result
      /\ Claim(c, result).claimed = (c.claimed \/ result \in {"applied", "no handles"})
  BY <1>1 DEF Claim, CamType
<1>4. cam' \in [Sources -> CamType] /\ cam'[s] = Claim(c, result)
      /\ \A o \in Sources \ {s} : cam'[o] = cam[o]
  BY <1>3 DEF ConvertTypes
<1>5. AppliesWhatIsClaimed'
  <2>1. CASE result = "absent"
    <3>1. ~cv'.apply
      BY <1>2, <2>1
    <3>2. cam'[s].open > 0 => ~cam'[s].claimed
      <4>1. cam'[s].open = c.open /\ cam'[s].claimed = (c.claimed \/ result \in {"applied", "no handles"})
        BY <1>3, <1>4, Zenon
      <4>2. ~(result \in {"applied", "no handles"})
        BY <2>1
      <4>3. c.open > 0 => ~c.has
        <5>1. c.open = 0 => ~(c.open > 0)
          OBVIOUS
        <5> QED BY <1>1, <2>1, <5>1, Zenon
      <4> QED BY <4>1, <4>2, <4>3, Zenon
    <3>3. cv'.apply \in BOOLEAN /\ cam'[s].claimed \in BOOLEAN
      BY <1>2, <1>4 DEF ContextType, CamType
    <3> QED BY <1>2, <3>1, <3>2, <3>3, Zenon DEF AppliesWhatIsClaimed
  <2>2. CASE result = "applied"
    BY <1>2, <1>3, <1>4, <2>2 DEF AppliesWhatIsClaimed
  <2>3. CASE result \in {"refused", "no handles"}
    BY <1>2, <1>3, <1>4, <2>3 DEF AppliesWhatIsClaimed
  <2> QED BY <1>1, <2>1, <2>2, <2>3
<1>6. HandlesAreTheCameras'
  <2>1. \A o \in Sources : cam'[o].claimed => cam'[o].has
    BY <1>1, <1>3, <1>4 DEF HandlesAreTheCameras
  <2>2. cv'.wb # 0 => cv'.src_element_ptr # "none" /\ cv'.wb = cam'[cv'.src_element_ptr].open
    BY <1>2, <1>3, <1>4, ConvertAssumption
  <2> QED BY <2>1, <2>2 DEF HandlesAreTheCameras
<1> QED BY <1>2, <1>3, <1>4, <1>5, <1>6

(* try_connect_to_source: the context and the camera it leaves behind.     *)
LEMMA Connecting ==
  ASSUME ConvertTypes, AttachedWhenLinked, AppliesWhatIsClaimed, HandlesAreTheCameras,
         NEW s \in Sources \cup {"none"}, try_connect_to_source(s)
  PROVE  /\ cv' \in ContextType /\ cam' \in [Sources -> CamType]
         /\ AppliesWhatIsClaimed' /\ HandlesAreTheCameras'
         /\ cv'.src_element_ptr \in {cv.src_element_ptr, s}
         /\ cv'.src_element_ptr = "none" => ~cv'.init_done
         /\ Uninitialised' /\ ~Uninitialised =>
               cv.src_element_ptr = "none" /\ ~cam[cv'.src_element_ptr].ready
<1> DEFINE attached == [cv EXCEPT !.src_element_ptr = s]
<1>1. CASE s = "none" \/ cv.src_element_ptr # "none"
  <2>1. cv' = cv /\ cam' = cam
    BY <1>1 DEF try_connect_to_source
  <2> QED BY <2>1 DEF ConvertTypes, AttachedWhenLinked, AppliesWhatIsClaimed, HandlesAreTheCameras,
                      Uninitialised
<1>2. CASE s # "none" /\ cv.src_element_ptr = "none"
  <2>1. s \in Sources /\ cam[s] \in CamType /\ (cam[s].claimed => cam[s].has)
    BY <1>2 DEF ConvertTypes, HandlesAreTheCameras
  <2>2. attached \in ContextType /\ attached.src_element_ptr = s /\ attached.wb = 0
        /\ attached.init_done = cv.init_done
    BY <1>2, <2>1 DEF ConvertTypes, ContextType, HandlesAreTheCameras
  <2>3. CASE cam[s].ready
    <3>1. init_from_source(attached, s, cam[s])
      BY <1>2, <2>3 DEF try_connect_to_source
    <3> HIDE DEF attached
    <3> QED BY <1>2, <2>1, <2>2, <3>1, Initialising DEF Uninitialised
  <2>4. CASE ~cam[s].ready
    <3>1. cv' = attached /\ cam' = cam
      BY <1>2, <2>4 DEF try_connect_to_source
    <3>2. AppliesWhatIsClaimed'
      BY <1>2, <2>2, <3>1 DEF AttachedWhenLinked, AppliesWhatIsClaimed
    <3> QED BY <1>2, <2>1, <2>2, <2>4, <3>1, <3>2 DEF ConvertTypes, HandlesAreTheCameras,
                                                      AttachedWhenLinked, Uninitialised
  <2> QED BY <2>3, <2>4
<1> QED BY <1>1, <1>2

(* Links, openings, losses, state changes and images preserve the          *)
(* invariant, and no step but an attachment makes a converter miss the     *)
(* opening.                                                                *)
LEMMA ConvertNext == ConvertInv /\ [cvNext]_cvVars => ConvertInv' /\ MissesOnlyTheOpening
<1> SUFFICES ASSUME ConvertInv, [cvNext]_cvVars PROVE ConvertInv' /\ MissesOnlyTheOpening
  OBVIOUS
<1> USE ConvertAssumption DEF ConvertInv
<1>1. CASE Link
  <2> PICK s \in Sources \cup {"none"} : cvUp' = s /\ try_connect_to_source(s)
    BY <1>1 DEF Link
  <2>1. ~cvLinked /\ cvLinked' = TRUE /\ cvOpens' = cvOpens
    BY <1>1 DEF Link
  <2> QED BY <2>1, Connecting DEF ConvertTypes, AttachedWhenLinked, MissesOnlyTheOpening
<1>2. CASE Unlink
  <2>1. cv' = on_input_pad_unlinked(cv) /\ cam' = cam /\ cvUp' = "none" /\ cvLinked' = FALSE /\ cvOpens' = cvOpens
    BY <1>2 DEF Unlink
  <2>2. cv' \in ContextType /\ cv'.src_element_ptr = "none" /\ cv'.wb = 0 /\ ~cv'.init_done
    BY <2>1 DEF on_input_pad_unlinked, on_device_closed, ConvertTypes, ContextType
  <2> QED BY <2>1, <2>2 DEF ConvertTypes, AttachedWhenLinked, AppliesWhatIsClaimed,
                            HandlesAreTheCameras, MissesOnlyTheOpening, Uninitialised
<1>3. CASE LinkUpstream
  BY <1>3, Zenon DEF LinkUpstream, ConvertTypes, AttachedWhenLinked, AppliesWhatIsClaimed,
              HandlesAreTheCameras, MissesOnlyTheOpening, Uninitialised
<1>4. CASE gst_tcamconvert_change_state
  <2>1. cvUp' = cvUp /\ cvLinked' = cvLinked /\ cvOpens' = cvOpens
    BY <1>4 DEF gst_tcamconvert_change_state
  <2>2. CASE cvReady
    <3>1. cv' = cv /\ cam' = cam
      BY <1>4, <2>2 DEF gst_tcamconvert_change_state
    <3> QED BY <2>1, <3>1, Zenon DEF ConvertTypes, AttachedWhenLinked,
                AppliesWhatIsClaimed, HandlesAreTheCameras, MissesOnlyTheOpening, Uninitialised
  <2>3. CASE ~cvReady
    <3>1. try_connect_to_source(cvUp)
      BY <1>4, <2>3 DEF gst_tcamconvert_change_state
    <3> QED BY <2>1, <3>1, Connecting DEF ConvertTypes, AttachedWhenLinked, MissesOnlyTheOpening
  <2> QED BY <2>2, <2>3
<1>5. CASE Transform
  <2>1. cvUp' = cvUp /\ cvLinked' = cvLinked /\ cvOpens' = cvOpens /\ cam' = cam
    BY <1>5 DEF Transform
  <2>2. /\ cv' \in ContextType /\ cv'.src_element_ptr = cv.src_element_ptr /\ cv'.wb = cv.wb
        /\ cv'.init_done = cv.init_done /\ cv'.apply = cv.apply
    BY <1>5 DEF Transform, Fetched, ConvertTypes, ContextType
  <2> QED BY <2>1, <2>2 DEF ConvertTypes, AttachedWhenLinked, AppliesWhatIsClaimed,
                            HandlesAreTheCameras, MissesOnlyTheOpening, Uninitialised
<1>6. ASSUME NEW s \in Sources, DeviceOpen(s) PROVE ConvertInv' /\ MissesOnlyTheOpening
  <2>1. cvUp' = cvUp /\ cvLinked' = cvLinked /\ cvOpens' = cvOpens + 1 /\ cam[s].open = 0
    BY <1>6, Zenon DEF DeviceOpen
  <2>2. cvOpens' \in Nat
    BY <2>1 DEF ConvertTypes
  <2> PICK d \in CamType :
         /\ ~d.claimed
         /\ IF cv.src_element_ptr = s THEN init_from_source(cv, s, d)
            ELSE cam' = [cam EXCEPT ![s] = d] /\ cv' = cv
    <3>1. \A has \in BOOLEAN : /\ [Closed EXCEPT !.open = cvOpens + 1, !.has = has] \in CamType
                               /\ ~[Closed EXCEPT !.open = cvOpens + 1, !.has = has].claimed
      <4>1. cvOpens + 1 \in Nat
        BY DEF ConvertTypes
      <4> QED BY <4>1, Zenon DEF CamType, Closed
    <3> QED BY <1>6, <3>1, Zenon DEF DeviceOpen
  <2>3. CASE cv.src_element_ptr = s
    <3>1. cv \in ContextType /\ cv.wb = 0 /\ (d.claimed => d.has)
      BY <2>1, <2>3 DEF ConvertTypes, ContextType, HandlesAreTheCameras
    <3> QED BY <2>1, <2>2, <2>3, <3>1, Initialising
            DEF ConvertTypes, AttachedWhenLinked, MissesOnlyTheOpening, Uninitialised
  <2>4. CASE cv.src_element_ptr # s
    <3>1. cam' \in [Sources -> CamType] /\ cam'[s] = d /\ cv' = cv /\ \A o \in Sources \ {s} : cam'[o] = cam[o]
      BY <2>4 DEF ConvertTypes
    <3> QED BY <2>1, <2>2, <2>4, <3>1 DEF ConvertTypes, ContextType, AttachedWhenLinked,
             AppliesWhatIsClaimed, HandlesAreTheCameras, MissesOnlyTheOpening, Uninitialised
  <2> QED BY <2>3, <2>4
<1>7. ASSUME NEW s \in Sources, DeviceClose(s) \/ DeviceLost(s) PROVE ConvertInv' /\ MissesOnlyTheOpening
  <2>1. cvUp' = cvUp /\ cvLinked' = cvLinked /\ cvOpens' = cvOpens
    BY <1>7 DEF DeviceClose, DeviceLost
  <2>2. /\ cam' \in [Sources -> CamType] /\ (cam'[s].open = 0 \/ cam'[s].lost)
        /\ cam'[s].claimed => cam'[s].has
        /\ \A o \in Sources \ {s} : cam'[o] = cam[o]
    <3>1. CASE DeviceClose(s)
      BY <3>1 DEF DeviceClose, Closed, ConvertTypes, CamType
    <3>2. CASE DeviceLost(s)
      BY <3>2 DEF DeviceLost, ConvertTypes, CamType, HandlesAreTheCameras
    <3> QED BY <1>7, <3>1, <3>2
  <2>3. cv' = IF cv.src_element_ptr = s THEN on_device_closed(cv) ELSE cv
    BY <1>7 DEF DeviceClose, DeviceLost
  <2>4. /\ cv' \in ContextType /\ cv'.src_element_ptr = cv.src_element_ptr
        /\ cv.src_element_ptr # s => cv' = cv
        /\ cv.src_element_ptr = s => cv'.wb = 0 /\ ~cv'.init_done
    BY <2>3 DEF on_device_closed, ConvertTypes, ContextType
  <2>5. CASE cv.src_element_ptr = s
    <3>1. ConvertTypes' /\ AttachedWhenLinked'
      BY <2>1, <2>2, <2>4, <2>5, Zenon DEF ConvertTypes, AttachedWhenLinked
    <3>2. AppliesWhatIsClaimed' /\ HandlesAreTheCameras'
      BY <2>2, <2>4, <2>5, Zenon DEF AppliesWhatIsClaimed, HandlesAreTheCameras
    <3>3. ~Uninitialised'
      <4>1. cam'[s].open = 0 => ~(cam'[s].open > 0)
        OBVIOUS
      <4> QED BY <2>2, <2>4, <2>5, <4>1, Zenon DEF Uninitialised
    <3> QED BY <3>1, <3>2, <3>3 DEF MissesOnlyTheOpening
  <2>6. CASE cv.src_element_ptr # s
    BY <2>1, <2>2, <2>4, <2>6 DEF ConvertTypes, ContextType, AttachedWhenLinked, AppliesWhatIsClaimed,
                          HandlesAreTheCameras, MissesOnlyTheOpening, Uninitialised
  <2> QED BY <2>5, <2>6
<1>8. ASSUME NEW s \in Sources, SourceFollows(s) PROVE ConvertInv' /\ MissesOnlyTheOpening
  <2>1. cvUp' = cvUp /\ cvLinked' = cvLinked /\ cvOpens' = cvOpens /\ cv' = cv
    BY <1>8 DEF SourceFollows
  <2>2. /\ cam' \in [Sources -> CamType]
        /\ \A o \in Sources : /\ cam'[o].open = cam[o].open /\ cam'[o].lost = cam[o].lost
                              /\ cam'[o].claimed = cam[o].claimed /\ cam'[o].has = cam[o].has
                              /\ cam'[o].init = cam[o].init
    BY <1>8 DEF SourceFollows, ConvertTypes, CamType
  <2> QED BY <2>1, <2>2 DEF ConvertTypes, ContextType, AttachedWhenLinked, AppliesWhatIsClaimed,
                            HandlesAreTheCameras, MissesOnlyTheOpening, Uninitialised
<1>9. CASE UNCHANGED cvVars
  BY <1>9 DEF cvVars, ConvertTypes, AttachedWhenLinked, AppliesWhatIsClaimed, HandlesAreTheCameras,
              MissesOnlyTheOpening, Uninitialised
<1> QED BY <1>1, <1>2, <1>3, <1>4, <1>5, <1>6, <1>7, <1>8, <1>9 DEF cvNext

(* For every set of sources: a converter initialised for an open camera    *)
(* applies what it has claimed, it misses an opening only when it is       *)
(* attached in the middle of it, an image is not balanced twice, and the   *)
(* factors that were read are its camera's.                                *)
THEOREM BalancedOnce == cvSpec => ConvertHolds
<1> DEFINE Step == /\ AppliesWhatIsClaimed' /\ MissesOnlyTheOpening
                   /\ BalancedAtMostOnce /\ FactorsAreTheCameras
<1>1. ConvertInv /\ ConvertInv' /\ [cvNext]_cvVars => [Step]_cvVars
  <2> SUFFICES ASSUME ConvertInv, ConvertInv', cvNext PROVE Step
    OBVIOUS
  <2>1. AppliesWhatIsClaimed' /\ MissesOnlyTheOpening
    BY ConvertNext DEF ConvertInv
  <2>2. CASE cvFrame' = cvFrame
    BY <2>1, <2>2 DEF BalancedAtMostOnce, FactorsAreTheCameras
  <2>3. CASE Transform
    <3> PICK r \in Fetched(cv) \cup {[x |-> cv, apply |-> FALSE, read |-> FALSE]} :
          /\ cv' = r.x
          /\ cvFrame' = [of |-> cam[cvUp].open, camera |-> cam[cvUp].has /\ ~cam[cvUp].claimed,
                         apply |-> r.apply, factors |-> r.x.factors, read |-> r.read]
      BY <2>3, Zenon DEF Transform
    <3>1. /\ cvFrame'.of = cam[cvUp].open /\ cvFrame'.camera = (cam[cvUp].has /\ ~cam[cvUp].claimed)
          /\ cvFrame'.apply = r.apply /\ cvFrame'.factors = r.x.factors /\ cvFrame'.read = r.read
      BY Zenon
    <3>2. r.apply => cv.src_element_ptr # "none" /\ cv.apply
      <4>1. CASE cv.src_element_ptr = "none" \/ ~cv.apply
        <5>1. \/ r = [x |-> cv, apply |-> FALSE, read |-> TRUE]
              \/ r = [x |-> cv, apply |-> FALSE, read |-> FALSE]
          BY <4>1, Zenon DEF Fetched
        <5>2. ~r.apply
          <6>1. CASE r = [x |-> cv, apply |-> FALSE, read |-> TRUE]
            BY <6>1, Zenon
          <6>2. CASE r = [x |-> cv, apply |-> FALSE, read |-> FALSE]
            BY <6>2, Zenon
          <6> QED BY <5>1, <6>1, <6>2, Zenon
        <5> QED BY <5>2
      <4> QED BY <4>1, Zenon
    <3>3. cv.factors \in Nat /\ cv \in ContextType
      BY Zenon DEF ConvertInv, ConvertTypes, ContextType
    <3>4. r.apply /\ r.read => cv.wb # 0 /\ r.x.factors = cv.wb
      <4>1. [cv EXCEPT !.factors = cv.wb].factors = cv.wb
        BY <3>3, Zenon DEF ContextType
      <4>2. CASE r = [x |-> [cv EXCEPT !.factors = cv.wb], apply |-> TRUE, read |-> TRUE] /\ cv.wb # 0
        BY <4>1, <4>2, Zenon
      <4>3. \/ r = [x |-> [cv EXCEPT !.factors = cv.wb], apply |-> TRUE, read |-> TRUE] /\ cv.wb # 0
            \/ r = [x |-> cv, apply |-> TRUE, read |-> FALSE]
            \/ r = [x |-> cv, apply |-> FALSE, read |-> TRUE]
            \/ r = [x |-> cv, apply |-> FALSE, read |-> FALSE]
        <5>1. CASE cv.src_element_ptr = "none" \/ ~cv.apply
          BY <5>1, Zenon DEF Fetched
        <5>2. CASE ~(cv.src_element_ptr = "none" \/ ~cv.apply)
          <6>1. CASE cv.wb = 0
            BY <5>2, <6>1, Zenon DEF Fetched
          <6>2. CASE cv.wb # 0
            BY <5>2, <6>2, Zenon DEF Fetched
          <6> QED BY <6>1, <6>2
        <5> QED BY <5>1, <5>2
      <4>4. CASE ~(r.apply /\ r.read)
        BY <4>4
      <4>5. CASE r.apply /\ r.read
        <5>1. CASE r = [x |-> cv, apply |-> TRUE, read |-> FALSE]
          BY <4>5, <5>1
        <5>2. CASE r = [x |-> cv, apply |-> FALSE, read |-> TRUE] \/ r = [x |-> cv, apply |-> FALSE, read |-> FALSE]
          BY <4>5, <5>2
        <5> QED BY <4>2, <4>3, <5>1, <5>2
      <4> QED BY <4>4, <4>5
    <3>5. cv.src_element_ptr # "none" /\ ~Exchanged => cvUp = cv.src_element_ptr
      BY Zenon DEF Exchanged
    <3>6. cam[cvUp].open > 0
      BY <2>3, Zenon DEF Transform
    <3>7. BalancedAtMostOnce
      BY <3>1, <3>2, <3>5, <3>6, Zenon DEF ConvertInv, AppliesWhatIsClaimed, BalancedAtMostOnce
    <3>8. FactorsAreTheCameras
      BY <3>1, <3>2, <3>4, <3>5, Zenon DEF ConvertInv, HandlesAreTheCameras, FactorsAreTheCameras
    <3> QED BY <2>1, <3>7, <3>8
  <2>4. cvFrame' = cvFrame \/ Transform
    BY DEF cvNext, Link, Unlink, LinkUpstream, gst_tcamconvert_change_state, DeviceOpen, DeviceLost,
           DeviceClose, SourceFollows
  <2> QED BY <2>2, <2>3, <2>4
<1>2. ConvertInv /\ [cvNext]_cvVars => ConvertInv'
  BY ConvertNext
<1> QED BY <1>1, <1>2, ConvertInit, PTL DEF cvSpec, ConvertHolds

-----------------------------------------------------------------------------
(* DeviceProvider *)

ProviderInv ==
  /\ AnnouncedOnce
  /\ dpPlugged \subseteq DpDevices /\ dpKnown \subseteq DpDevices /\ dpList \subseteq DpDevices
  /\ dpAnnounced \in [DpDevices -> 0..1]

(* A provider that was not started has announced nothing.                  *)
LEMMA ProviderInit == dpInit => ProviderInv
BY DEF dpInit, ProviderInv, AnnouncedOnce

(* run_update_logic: removals and additions keep the books balanced.       *)
LEMMA Updating ==
  ASSUME ProviderInv, NEW list \in SUBSET DpDevices, run_update_logic(list)
  PROVE  /\ dpKnown' = list /\ dpAnnounced' \in [DpDevices -> 0..1]
         /\ \A d \in DpDevices : dpAnnounced'[d] = IF d \in dpKnown' THEN 1 ELSE 0
BY DEF ProviderInv, AnnouncedOnce, run_update_logic

(* The calls of GStreamer and the update thread preserve the invariant.    *)
LEMMA ProviderNext == ProviderInv /\ [dpNext]_dpVars => ProviderInv'
<1> SUFFICES ASSUME ProviderInv, [dpNext]_dpVars PROVE ProviderInv'
  OBVIOUS
<1>1. CASE dpStart
  BY <1>1, Updating DEF dpStart, ProviderInv, AnnouncedOnce
<1>2. CASE dpUpdate
  BY <1>2, Updating DEF dpUpdate, ProviderInv, AnnouncedOnce
<1>3. CASE dpStop \/ notify_all \/ dpCheck \/ dpWait \/ wait_for
  BY <1>3 DEF dpStop, notify_all, dpCheck, dpWait, wait_for, ProviderInv, AnnouncedOnce
<1>4. CASE join
  BY <1>4 DEF join, ProviderInv, AnnouncedOnce
<1>5. CASE dpPlug
  BY <1>5 DEF dpPlug, ProviderInv, AnnouncedOnce
<1>6. CASE UNCHANGED dpVars
  BY <1>6 DEF dpVars, ProviderInv, AnnouncedOnce
<1> QED BY <1>1, <1>2, <1>3, <1>4, <1>5, <1>6 DEF dpNext, dpCallStep, dpThreadStep

(* For every set of cameras: a camera is announced exactly while it is     *)
(* known, never twice, and a provider that has stopped knows none.         *)
THEOREM ProviderAnnouncesOnce == dpSpec => []AnnouncedOnce
<1>1. ProviderInv => AnnouncedOnce
  BY DEF ProviderInv
<1> QED BY <1>1, ProviderInit, ProviderNext, PTL DEF dpSpec

-----------------------------------------------------------------------------
(* TcamSrc *)

SourceState ==
  [gst : {"NULL", "READY", "PLAYING"}, failed : BOOLEAN, active : Cameras \cup {NoCamera},
   device_to_open : Cameras \cup {NoCamera}, device_serial : Serials, device_type : Types,
   stored : [Settings -> 0..1], inUse : [Settings -> 0..1], pending : SUBSET InitKinds]

SourceTypes ==
  /\ plugged \subseteq Cameras /\ ts \in SourceState
  /\ tsAsked \in [serial : Serials, type : Types, device : Cameras \cup {NoCamera}]
  /\ tsWant \in [Settings -> 0..1] /\ tsWhileOpen \subseteq Settings
  /\ tsInit \in [InitKinds -> {-1, 0, 1}] /\ tsFixed \in {"no", "same", "other"}

(* An element is open exactly when it has left NULL, and no attempt to     *)
(* leave NULL has failed since.                                            *)
OpenWhenReady ==
  /\ is_open(ts) <=> ts.gst # "NULL"
  /\ ts.failed => ts.gst = "NULL"
  /\ ts.device_to_open = tsAsked.device

(* The id that open_source_element searches for is at least as particular  *)
(* as what was asked for, unless an assigned device of another id has      *)
(* overwritten it.                                                         *)
SearchesWhatWasAsked ==
  tsFixed # "other" =>
    /\ tsAsked.serial # "" => ts.device_serial = tsAsked.serial
    /\ tsAsked.type # "unknown" => ts.device_type = tsAsked.type

(* A closed tcamsrc has stored every setting but those given to a camera   *)
(* that was closed since.                                                  *)
StoredWhileClosed ==
  ~is_open(ts) => \A p \in Settings : ts.stored[p] # tsWant[p] => p \in tsWhileOpen

SourceInv ==
  /\ SourceTypes /\ OpenWhenReady /\ SearchesWhatWasAsked /\ StoredWhileClosed
  /\ OpensTheCameraAskedFor /\ InitialPropertiesApplyOnce /\ LastSettingIsInUse

(* No camera is mistaken for none.                                         *)
LEMMA CameraIds ==
  /\ NoCamera \notin Cameras /\ "" \in Serials /\ "unknown" \in Types
  /\ \A c \in Cameras : /\ c.serial \in Serials /\ c.type \in Types
                        /\ c.serial # "" /\ c.type # "" /\ c.type # "unknown"
<1>1. \A c \in Cameras : c \in CameraId
  BY SourceAssumption DEF Cameras
<1>2. \A c \in Cameras : c.serial # "" /\ c.type # "" /\ c.type # "unknown"
  BY <1>1, Zenon DEF CameraId
<1>3. NoCamera \notin Cameras
  BY <1>2, Zenon DEF NoCamera
<1> QED BY <1>2, <1>3, Zenon DEF Serials, Types

(* A new tcamsrc.                                                          *)
LEMMA SourceInit == tsInitial => SourceInv
<1> SUFFICES ASSUME tsInitial PROVE SourceInv
  OBVIOUS
<1>1. ts \in SourceState
  <2>1. [p \in Settings |-> 0] \in [Settings -> 0..1]
    OBVIOUS
  <2> QED BY <2>1, CameraIds, Zenon DEF tsInitial, gst_tcam_src_init, SourceState
<1>2. /\ ts.active = NoCamera /\ ts.gst = "NULL" /\ ~ts.failed /\ ts.pending = {}
      /\ ts.device_to_open = NoCamera /\ ts.device_serial = "" /\ ts.device_type = "unknown"
      /\ ts.stored = [p \in Settings |-> 0]
  BY Zenon DEF tsInitial, gst_tcam_src_init
<1>3. SourceTypes
  <2>1. tsInit \in [InitKinds -> {-1, 0, 1}]
    BY Zenon DEF tsInitial
  <2>2. tsAsked \in [serial : Serials, type : Types, device : Cameras \cup {NoCamera}]
    BY CameraIds, Zenon DEF tsInitial
  <2>3. plugged = Cameras /\ tsWhileOpen = {} /\ tsFixed = "no" /\ tsWant = [p \in Settings |-> 0]
    BY Zenon DEF tsInitial
  <2> QED BY <1>1, <2>1, <2>2, <2>3 DEF SourceTypes
<1>4. OpenWhenReady /\ SearchesWhatWasAsked /\ StoredWhileClosed
  BY <1>2, Zenon DEF tsInitial, OpenWhenReady, SearchesWhatWasAsked, StoredWhileClosed, is_open
<1>5. OpensTheCameraAskedFor /\ InitialPropertiesApplyOnce /\ LastSettingIsInUse
  <2>1. InitialPropertiesApplyOnce
    <3>1. \A k \in InitKinds : tsInit[k] = -1
      BY Zenon DEF tsInitial
    <3>2. ts.pending = {}
      BY <1>2, Zenon
    <3> QED BY <3>1, <3>2 DEF InitialPropertiesApplyOnce
  <2> QED BY <1>2, <2>1, Zenon DEF OpensTheCameraAskedFor, LastSettingIsInUse,
             active_source_has_property, is_open
<1> QED BY <1>3, <1>4, <1>5 DEF SourceInv
(* find_suitable_device returns a camera that is plugged in and matches.   *)
LEMMA FoundMatches ==
  ASSUME NEW serial, NEW type, find_suitable_device(serial, type) # NoCamera
  PROVE  /\ find_suitable_device(serial, type) \in Cameras \cap plugged
         /\ Matches(find_suitable_device(serial, type), serial, type)
<1> DEFINE found == {k \in DOMAIN CameraOrder :
                       CameraOrder[k] \in plugged /\ Matches(CameraOrder[k], serial, type)}
<1>1. found \subseteq Nat
  <2>1. DOMAIN CameraOrder = 1..Len(CameraOrder) /\ Len(CameraOrder) \in Nat
    BY SourceAssumption
  <2> QED BY <2>1
<1>2. found # {}
  BY DEF find_suitable_device
<1>3. Min(found) \in found
  BY <1>1, <1>2, MinOfNaturals
<1> QED BY <1>2, <1>3 DEF find_suitable_device, Cameras

(* The camera an opening tries: the one assigned, or one that matches what *)
(* was asked for.                                                          *)
LEMMA SelectedWasAsked ==
  ASSUME SourceInv, NEW c, c = selected_gst_device(ts), c # NoCamera
  PROVE  /\ c \in Cameras
         /\ tsAsked.device # NoCamera => c = tsAsked.device
         /\ tsAsked.device = NoCamera /\ tsFixed # "other" => Matches(c, tsAsked.serial, tsAsked.type)
<1> USE DEF SourceInv, SourceTypes, SourceState, OpenWhenReady
<1>1. CASE ts.device_to_open = NoCamera
  <2>1. c \in Cameras /\ Matches(c, ts.device_serial, ts.device_type)
    BY <1>1, FoundMatches DEF selected_gst_device
  <2> QED BY <1>1, <2>1, Zenon DEF SearchesWhatWasAsked, Matches
<1>2. CASE ts.device_to_open # NoCamera
  BY <1>2 DEF selected_gst_device
<1> QED BY <1>1, <1>2

(* The value of a setting the camera's element does not have.              *)
LEMMA UnsetIsValue == 0 \in 0..1
OBVIOUS

(* An attempt to open keeps what was asked for, and a camera that opens    *)
(* gets the initial properties that wait and the settings that are stored. *)
LEMMA OpeningKeeps == ASSUME SourceInv, NULL_TO_READY PROVE SourceInv'
<1> PICK r \in open_source_element(ts) :
       /\ ts' = IF r.why = "open" THEN [r.s EXCEPT !.gst = "READY", !.failed = FALSE]
                ELSE [r.s EXCEPT !.failed = TRUE]
       /\ tsFixed' = IF r.why \in {"open", "camera refused"} /\ tsFixed # "other"
                     THEN IF \/ tsAsked.device = NoCamera
                             \/ Matches(tsAsked.device, tsAsked.serial, tsAsked.type)
                          THEN "same" ELSE "other"
                     ELSE tsFixed
       /\ tsInit' = [k \in InitKinds |->
                       IF r.why = "open" /\ k \in ts.pending THEN tsInit[k] + 1 ELSE tsInit[k]]
  BY Zenon DEF NULL_TO_READY
<1>1. /\ ts.gst = "NULL" /\ ~is_open(ts) /\ plugged' = plugged /\ tsAsked' = tsAsked
      /\ tsWant' = tsWant /\ tsWhileOpen' = tsWhileOpen
  BY Zenon DEF NULL_TO_READY, SourceInv, OpenWhenReady
<1> DEFINE c == selected_gst_device(ts)
<1> USE DEF SourceInv
<1>2. CASE r.why # "open" /\ r.s = ts /\ tsFixed' = tsFixed
  <2>1. ts' = [ts EXCEPT !.failed = TRUE]
    BY <1>2, Zenon
  <2>2. /\ ts' \in SourceState /\ ts'.gst = "NULL" /\ ts'.active = ts.active
        /\ ts'.device_to_open = ts.device_to_open /\ ts'.device_serial = ts.device_serial
        /\ ts'.device_type = ts.device_type /\ ts'.stored = ts.stored /\ ts'.pending = ts.pending
    BY <1>1, <2>1, Zenon DEF SourceTypes, SourceState
  <2>3. tsInit' = tsInit
    BY <1>2, Zenon DEF SourceTypes
  <2> QED BY <1>1, <1>2, <2>2, <2>3, Zenon DEF SourceTypes, OpenWhenReady, SearchesWhatWasAsked, StoredWhileClosed,
             OpensTheCameraAskedFor, InitialPropertiesApplyOnce, LastSettingIsInUse,
             active_source_has_property, is_open
<1>3. CASE r.why = "camera refused" /\ c # NoCamera /\ r.s = StoreId(ts, c)
  <2>1. c \in Cameras /\ c.serial \in Serials /\ c.type \in Types
    BY <1>3, SelectedWasAsked, CameraIds, Zenon
  <2>2. /\ ts' \in SourceState /\ ts'.gst = "NULL" /\ ts'.active = ts.active
        /\ ts'.device_to_open = ts.device_to_open /\ ts'.device_serial = c.serial
        /\ ts'.device_type = c.type /\ ts'.stored = ts.stored /\ ts'.pending = ts.pending
    BY <1>1, <1>3, <2>1, Zenon DEF SourceTypes, SourceState, StoreId
  <2>3. tsInit' = tsInit
    BY <1>3, Zenon DEF SourceTypes
  <2>4. tsFixed' \in {"no", "same", "other"} /\ (tsFixed' # "other" => Matches(c, tsAsked.serial, tsAsked.type))
    <3>1. CASE tsFixed = "other"
      BY <1>3, <3>1, Zenon
    <3>2. CASE tsFixed # "other" /\ tsAsked.device = NoCamera
      <4>1. tsFixed' = "same"
        BY <1>3, <3>2, Zenon
      <4> QED BY <1>3, <3>2, <4>1, SelectedWasAsked, Zenon
    <3>3. CASE tsFixed # "other" /\ tsAsked.device # NoCamera
      <4>1. tsFixed' = IF Matches(c, tsAsked.serial, tsAsked.type) THEN "same" ELSE "other"
        <5>1. c = tsAsked.device
          BY <1>3, <3>3, SelectedWasAsked, Zenon
        <5> HIDE DEF c
        <5> QED BY <1>3, <3>3, <5>1, Zenon
      <4> QED BY <4>1, Zenon
    <3> QED BY <3>1, <3>2, <3>3, Zenon
  <2> QED BY <1>1, <2>2, <2>3, <2>4, Zenon DEF SourceTypes, OpenWhenReady, SearchesWhatWasAsked, StoredWhileClosed,
             OpensTheCameraAskedFor, InitialPropertiesApplyOnce, LastSettingIsInUse,
             active_source_has_property, is_open, Matches
<1>4. CASE r.why = "open" /\ c # NoCamera /\ r.s = Adopt(ts, c)
  <2> DEFINE used == [p \in Settings |-> IF p \in CameraSettings[c] THEN ts.stored[p] ELSE 0]
  <2>1. c \in Cameras /\ c.serial \in Serials /\ c.type \in Types
    BY <1>4, SelectedWasAsked, CameraIds, Zenon
  <2>2. /\ ts' \in SourceState /\ ts'.gst = "READY" /\ ~ts'.failed /\ ts'.active = c
        /\ ts'.device_to_open = ts.device_to_open /\ ts'.device_serial = c.serial
        /\ ts'.device_type = c.type /\ ts'.inUse = used /\ ts'.pending = {}
    <3>1. used \in [Settings -> 0..1]
      <4>1. ts.stored \in [Settings -> 0..1]
        BY Zenon DEF SourceTypes, SourceState
      <4>2. \A p \in Settings : ts.stored[p] \in 0..1
        BY <4>1, Zenon
      <4> QED BY <4>2, UnsetIsValue, Zenon
    <3> HIDE DEF used
    <3> QED BY <1>1, <1>4, <2>1, <3>1, Zenon DEF SourceTypes, SourceState, StoreId, Adopt, used
  <2>3. tsFixed' \in {"no", "same", "other"} /\ (tsFixed' # "other" => Matches(c, tsAsked.serial, tsAsked.type))
    <3>1. CASE tsFixed = "other"
      BY <1>4, <3>1
    <3>2. CASE tsFixed # "other" /\ tsAsked.device = NoCamera
      <4>1. tsFixed' = "same"
        BY <1>4, <3>2
      <4> QED BY <1>4, <3>2, <4>1, SelectedWasAsked
    <3>3. CASE tsFixed # "other" /\ tsAsked.device # NoCamera
      <4>1. tsFixed' = IF Matches(c, tsAsked.serial, tsAsked.type) THEN "same" ELSE "other"
        <5>1. c = tsAsked.device
          BY <1>4, <3>3, SelectedWasAsked
        <5> HIDE DEF c
        <5> QED BY <1>4, <3>3, <5>1
      <4> QED BY <4>1, Zenon
    <3> QED BY <3>1, <3>2, <3>3, Zenon
  <2>4. SourceTypes' /\ OpenWhenReady' /\ SearchesWhatWasAsked' /\ StoredWhileClosed'
    <3>1. tsInit' \in [InitKinds -> {-1, 0, 1}]
      BY <1>4 DEF SourceTypes, InitialPropertiesApplyOnce
    <3> QED BY <1>1, <1>4, <2>2, <2>3, <3>1, Zenon DEF SourceTypes, OpenWhenReady, SearchesWhatWasAsked,
                                            StoredWhileClosed, is_open, Matches
  <2>5. OpensTheCameraAskedFor'
    BY <1>1, <1>4, <2>2, <2>3, SelectedWasAsked DEF OpensTheCameraAskedFor
  <2>6. InitialPropertiesApplyOnce'
    BY <1>4, <2>2 DEF SourceTypes, InitialPropertiesApplyOnce
  <2>7. LastSettingIsInUse'
    <3>1. \A p \in Settings : active_source_has_property(ts, p)' => ts'.inUse[p] = ts.stored[p]
      <4> SUFFICES ASSUME NEW p \in Settings, active_source_has_property(ts, p)'
                   PROVE  ts'.inUse[p] = ts.stored[p]
        BY Zenon
      <4>1. p \in CameraSettings[c]
        <5> HIDE DEF c, used
        <5> QED BY <2>2 DEF active_source_has_property
      <4>2. used[p] = ts.stored[p]
        <5> HIDE DEF c
        <5> QED BY <4>1, Zenon DEF used
      <4> HIDE DEF c, used
      <4> QED BY <2>2, <4>2, Zenon
    <3> HIDE DEF used
    <3> QED BY <1>1, <3>1, Zenon DEF LastSettingIsInUse, StoredWhileClosed
  <2> QED BY <2>4, <2>5, <2>6, <2>7, Zenon
<1>5. CASE c = NoCamera
  <2>1. r = [why |-> "not found", s |-> ts]
    BY <1>5, Zenon DEF open_source_element
  <2> QED BY <1>2, <2>1, Zenon
<1>6. CASE c # NoCamera
  <2>1. r \in {[why |-> "no element", s |-> ts], [why |-> "camera refused", s |-> StoreId(ts, c)],
               [why |-> "open", s |-> Adopt(ts, c)]}
    BY <1>6, Zenon DEF open_source_element
  <2>2. CASE r = [why |-> "no element", s |-> ts]
    BY <1>2, <2>2, Zenon
  <2>3. CASE r = [why |-> "camera refused", s |-> StoreId(ts, c)]
    BY <1>3, <1>6, <2>3, Zenon
  <2>4. CASE r = [why |-> "open", s |-> Adopt(ts, c)]
    BY <1>4, <1>6, <2>4
  <2> QED BY <2>1, <2>2, <2>3, <2>4, Zenon
<1> QED BY <1>5, <1>6, Zenon

(* Properties set by the application, and the other changes of state.      *)
LEMMA SettingKeeps ==
  ASSUME SourceInv, PROP_SERIAL \/ PROP_DEVICE_TYPE \/ PROP_TCAMDEVICE PROVE SourceInv'
<1> USE DEF SourceInv
<1>1. /\ plugged' = plugged /\ tsWant' = tsWant /\ tsWhileOpen' = tsWhileOpen /\ tsInit' = tsInit
  BY Zenon DEF PROP_SERIAL, PROP_DEVICE_TYPE, PROP_TCAMDEVICE, SetOne
<1>2. CASE ts' = ts /\ tsAsked' = tsAsked /\ tsFixed' = tsFixed
  BY <1>1, <1>2, Zenon DEF SourceTypes, OpenWhenReady, SearchesWhatWasAsked, StoredWhileClosed,
                    OpensTheCameraAskedFor, InitialPropertiesApplyOnce, LastSettingIsInUse
<1>3. ASSUME is_state_null(ts), ts' \in SourceState, ts'.gst = ts.gst, ts'.failed = ts.failed,
             ts'.active = ts.active, ts'.stored = ts.stored, ts'.inUse = ts.inUse,
             ts'.pending = ts.pending, SearchesWhatWasAsked', tsFixed' \in {"no", "same", "other"},
             tsAsked' \in [serial : Serials, type : Types, device : Cameras \cup {NoCamera}],
             ts'.device_to_open = tsAsked'.device
      PROVE  SourceInv'
  <2>1. ~is_open(ts)
    BY <1>3 DEF is_state_null, is_gst_state_equal_or_less, OpenWhenReady
  <2> QED BY <1>1, <1>3, <2>1 DEF SourceTypes, OpenWhenReady, StoredWhileClosed,
             OpensTheCameraAskedFor, InitialPropertiesApplyOnce, LastSettingIsInUse,
             active_source_has_property, is_open
<1>4. CASE PROP_SERIAL /\ is_state_null(ts)
  <2> PICK string \in SerialStrings :
        IF string.after # ""
        THEN /\ ts' = [ts EXCEPT !.device_serial = string.before,
                                 !.device_type = tcam_device_from_string(string.after)]
             /\ tsAsked' = [tsAsked EXCEPT !.serial = string.before,
                                           !.type = tcam_device_from_string(string.after)]
             /\ tsFixed' = "no"
        ELSE /\ ts' = [ts EXCEPT !.device_serial = string.before]
             /\ tsAsked' = [tsAsked EXCEPT !.serial = string.before]
             /\ UNCHANGED tsFixed
    BY <1>4, Zenon DEF PROP_SERIAL, separate_serial_and_type
  <2>1. string.before \in Serials /\ tcam_device_from_string(string.after) \in Types
    BY CameraIds, Zenon DEF SerialStrings, tcam_device_from_string
  <2>2. /\ ts' \in SourceState /\ ts'.gst = ts.gst /\ ts'.failed = ts.failed
        /\ ts'.active = ts.active /\ ts'.device_to_open = ts.device_to_open
        /\ ts'.device_serial = string.before
        /\ ts'.device_type = (IF string.after # "" THEN tcam_device_from_string(string.after)
                                                   ELSE ts.device_type)
        /\ ts'.inUse = ts.inUse /\ ts'.stored = ts.stored /\ ts'.pending = ts.pending
    BY <2>1, ZenonT(30) DEF SourceTypes, SourceState
  <2>3. /\ tsAsked' \in [serial : Serials, type : Types, device : Cameras \cup {NoCamera}]
        /\ tsAsked'.serial = string.before /\ tsAsked'.device = tsAsked.device
        /\ tsAsked'.type = (IF string.after # "" THEN tcam_device_from_string(string.after)
                                                 ELSE tsAsked.type)
    BY <2>1, Zenon DEF SourceTypes
  <2>4. tsFixed' = (IF string.after # "" THEN "no" ELSE tsFixed)
    BY Zenon
  <2>5. SearchesWhatWasAsked'
    BY <2>2, <2>3, <2>4, Zenon DEF SearchesWhatWasAsked
  <2>6. tsFixed' \in {"no", "same", "other"} /\ ts'.device_to_open = tsAsked'.device
    BY <2>2, <2>3, <2>4, Zenon DEF SourceTypes, OpenWhenReady
  <2> QED BY <1>3, <1>4, <2>2, <2>3, <2>5, <2>6, Zenon
<1>5. CASE PROP_DEVICE_TYPE /\ is_state_null(ts)
  <2> PICK type \in Types : /\ ts' = [ts EXCEPT !.device_type = type] /\ tsFixed' = tsFixed
                            /\ tsAsked' = [tsAsked EXCEPT !.type = type]
    BY <1>5 DEF PROP_DEVICE_TYPE
  <2> QED BY <1>3, <1>5, Zenon DEF SourceTypes, SourceState, SearchesWhatWasAsked, OpenWhenReady
<1>6. CASE PROP_TCAMDEVICE /\ is_state_null(ts)
  <2> PICK c \in Cameras \cup {NoCamera} : /\ ts' = [ts EXCEPT !.device_to_open = c] /\ tsFixed' = tsFixed
                                           /\ tsAsked' = [tsAsked EXCEPT !.device = c]
    BY <1>6 DEF PROP_TCAMDEVICE
  <2> QED BY <1>3, <1>6, Zenon DEF SourceTypes, SourceState, SearchesWhatWasAsked, OpenWhenReady
<1>7. CASE ~is_state_null(ts)
  BY <1>2, <1>7 DEF PROP_SERIAL, PROP_DEVICE_TYPE, PROP_TCAMDEVICE
<1> QED BY <1>4, <1>5, <1>6, <1>7

(* Every step of the element, of the application and of the cameras.       *)
LEMMA SourceNext == SourceInv /\ [tsNext]_<<plugged, tsVars>> => SourceInv'
<1> SUFFICES ASSUME SourceInv, [tsNext]_<<plugged, tsVars>> PROVE SourceInv'
  OBVIOUS
<1> USE DEF SourceInv
<1>1. CASE NULL_TO_READY
  BY <1>1, OpeningKeeps
<1>2. CASE PROP_SERIAL \/ PROP_DEVICE_TYPE \/ PROP_TCAMDEVICE
  BY <1>2, SettingKeeps
<1>3. CASE Stream
  <2>1. /\ ts' \in SourceState /\ ts.gst # "NULL" /\ ts'.gst # "NULL" /\ ts'.failed = ts.failed
        /\ ts'.active = ts.active /\ ts'.device_to_open = ts.device_to_open
        /\ ts'.device_serial = ts.device_serial /\ ts'.device_type = ts.device_type
        /\ ts'.inUse = ts.inUse /\ ts'.stored = ts.stored /\ ts'.pending = ts.pending
    BY <1>3 DEF Stream, SourceTypes, SourceState
  <2> QED BY <1>3, <2>1, Zenon DEF Stream, SourceTypes, OpenWhenReady, SearchesWhatWasAsked, StoredWhileClosed,
             OpensTheCameraAskedFor, InitialPropertiesApplyOnce, LastSettingIsInUse,
             active_source_has_property, is_open
<1>4. CASE READY_TO_NULL
  <2>1. /\ ts' \in SourceState /\ ts'.gst = "NULL" /\ ts'.active = NoCamera
        /\ ts'.device_to_open = ts.device_to_open
        /\ ts'.device_serial = ts.device_serial /\ ts'.device_type = ts.device_type
        /\ ts'.stored = ts.stored /\ ts'.pending = ts.pending
    <3>1. [p \in Settings |-> 0] \in [Settings -> 0..1]
      OBVIOUS
    <3> QED BY <1>4, <3>1, Zenon DEF READY_TO_NULL, close_active_source_element, SourceTypes, SourceState
  <2> QED BY <1>4, <2>1, Zenon DEF READY_TO_NULL, SourceTypes, OpenWhenReady, SearchesWhatWasAsked,
             StoredWhileClosed, OpensTheCameraAskedFor, InitialPropertiesApplyOnce,
             LastSettingIsInUse,
             active_source_has_property, is_open
<1>5. CASE NULL_TO_NULL
  <2>1. /\ ts' \in SourceState /\ ts'.gst = ts.gst /\ ~ts'.failed
        /\ ts'.active = ts.active /\ ts'.device_to_open = ts.device_to_open
        /\ ts'.device_serial = ts.device_serial /\ ts'.device_type = ts.device_type
        /\ ts'.inUse = ts.inUse /\ ts'.stored = ts.stored /\ ts'.pending = ts.pending
    BY <1>5, Zenon DEF NULL_TO_NULL, SourceTypes, SourceState
  <2> QED BY <1>5, <2>1, Zenon DEF NULL_TO_NULL, SourceTypes, OpenWhenReady, SearchesWhatWasAsked,
             StoredWhileClosed, OpensTheCameraAskedFor, InitialPropertiesApplyOnce,
             LastSettingIsInUse,
             active_source_has_property, is_open
<1>6. CASE PROP_SETTING
  <2> PICK p \in Settings, v \in 0..1 :
         /\ ts' = IF active_source_has_property(ts, p) THEN [ts EXCEPT !.inUse[p] = v]
                  ELSE IF is_open(ts) THEN ts ELSE [ts EXCEPT !.stored[p] = v]
         /\ tsWant' = [tsWant EXCEPT ![p] = v] /\ tsWhileOpen' = tsWhileOpen \ {p}
    BY <1>6, Zenon DEF PROP_SETTING
  <2>1. plugged' = plugged /\ tsAsked' = tsAsked /\ tsInit' = tsInit /\ tsFixed' = tsFixed
    BY <1>6 DEF PROP_SETTING, SetOne
  <2>2. /\ ts' \in SourceState /\ ts'.gst = ts.gst /\ ts'.failed = ts.failed
        /\ ts'.active = ts.active /\ ts'.device_to_open = ts.device_to_open
        /\ ts'.device_serial = ts.device_serial /\ ts'.device_type = ts.device_type
        /\ ts'.inUse = (IF active_source_has_property(ts, p) THEN [ts.inUse EXCEPT ![p] = v] ELSE ts.inUse)
        /\ ~is_open(ts) => ts'.stored = [ts.stored EXCEPT ![p] = v]
        /\ ts'.pending = ts.pending
    BY DEF SourceTypes, SourceState, active_source_has_property
  <2>3. tsWant' \in [Settings -> 0..1] /\ tsWant'[p] = v /\ \A q \in Settings \ {p} : tsWant'[q] = tsWant[q]
    BY DEF SourceTypes
  <2>4. /\ active_source_has_property(ts, p) => ts'.inUse[p] = v
        /\ \A q \in Settings \ {p} : ts'.inUse[q] = ts.inUse[q]
        /\ ~is_open(ts) => ts'.stored[p] = v /\ \A q \in Settings \ {p} : ts'.stored[q] = ts.stored[q]
    BY <2>2 DEF SourceTypes, SourceState
  <2>5. SourceTypes' /\ OpenWhenReady' /\ SearchesWhatWasAsked' /\ OpensTheCameraAskedFor'
        /\ InitialPropertiesApplyOnce'
    BY <2>1, <2>2, <2>3, Zenon DEF SourceTypes, OpenWhenReady, SearchesWhatWasAsked, OpensTheCameraAskedFor,
                            InitialPropertiesApplyOnce, is_open
  <2>6. is_open(ts)' = is_open(ts) /\ \A q \in Settings : active_source_has_property(ts, q)' = active_source_has_property(ts, q)
    BY <2>2 DEF is_open, active_source_has_property
  <2>7. StoredWhileClosed' /\ LastSettingIsInUse'
    BY <2>3, <2>4, <2>6 DEF StoredWhileClosed, LastSettingIsInUse
  <2> QED BY <2>5, <2>7
<1>7. CASE PROP_TCAM_PROPERTIES
  <2> PICK k \in InitKinds :
         /\ tsInit[k] = -1
         /\ ts' = IF is_open(ts) THEN ts ELSE [ts EXCEPT !.pending = @ \cup {k}]
         /\ tsInit' = [tsInit EXCEPT ![k] = IF is_open(ts) THEN 1 ELSE 0]
    BY <1>7, Zenon DEF PROP_TCAM_PROPERTIES
  <2>1. /\ plugged' = plugged /\ tsAsked' = tsAsked /\ tsWant' = tsWant /\ tsWhileOpen' = tsWhileOpen
        /\ tsFixed' = tsFixed
    BY <1>7 DEF PROP_TCAM_PROPERTIES, SetOne
  <2>2. /\ ts' \in SourceState /\ ts'.gst = ts.gst /\ ts'.failed = ts.failed
        /\ ts'.active = ts.active /\ ts'.device_to_open = ts.device_to_open
        /\ ts'.device_serial = ts.device_serial /\ ts'.device_type = ts.device_type
        /\ ts'.inUse = ts.inUse /\ ts'.stored = ts.stored
        /\ ts'.pending = (IF is_open(ts) THEN ts.pending ELSE ts.pending \cup {k})
    BY DEF SourceTypes, SourceState
  <2>3. /\ tsInit' \in [InitKinds -> {-1, 0, 1}]
        /\ tsInit'[k] = (IF is_open(ts) THEN 1 ELSE 0)
        /\ \A l \in InitKinds \ {k} : tsInit'[l] = tsInit[l]
    BY DEF SourceTypes
  <2>4. InitialPropertiesApplyOnce'
    BY <2>2, <2>3 DEF InitialPropertiesApplyOnce
  <2> QED BY <2>1, <2>2, <2>3, <2>4, Zenon DEF SourceTypes, OpenWhenReady, SearchesWhatWasAsked,
             StoredWhileClosed, OpensTheCameraAskedFor, LastSettingIsInUse,
             active_source_has_property, is_open
<1>8. CASE Plug \/ UNCHANGED <<plugged, tsVars>>
  <2>1. plugged' \subseteq Cameras
    BY <1>8 DEF Plug, SourceTypes
  <2>2. /\ ts' = ts /\ tsAsked' = tsAsked /\ tsWant' = tsWant /\ tsWhileOpen' = tsWhileOpen
        /\ tsInit' = tsInit /\ tsFixed' = tsFixed
    BY <1>8 DEF Plug, tsVars
  <2> QED BY <2>1, <2>2, Zenon DEF SourceTypes, OpenWhenReady, SearchesWhatWasAsked, StoredWhileClosed,
             OpensTheCameraAskedFor, InitialPropertiesApplyOnce, LastSettingIsInUse
<1> QED BY <1>1, <1>2, <1>3, <1>4, <1>5, <1>6, <1>7, <1>8 DEF tsNext

(* For every list of cameras and every set of settings, over openings that *)
(* fail and cameras that come and go: tcamsrc opens the camera it was      *)
(* asked for, applies the initial properties once and the last settings.   *)
THEOREM SourceCorrect == tsSpec => []SourceHolds
<1>1. SourceInv => SourceHolds
  <2> SUFFICES ASSUME SourceInv PROVE TsTypeOK
    BY DEF SourceInv, SourceHolds
  <2>1. ts \in SourceState /\ plugged \subseteq Cameras /\ tsInit \in [InitKinds -> {-1, 0, 1}]
    BY DEF SourceInv, SourceTypes
  <2> QED BY <2>1 DEF SourceInv, OpenWhenReady, SourceState, TsTypeOK
<1> QED BY <1>1, SourceInit, SourceNext, PTL DEF tsSpec
=============================================================================
